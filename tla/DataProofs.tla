---------------------------- MODULE DataProofs ----------------------------
(***************************************************************************)
(* Proofs about the data a connection carries.                             *)
(*                                                                         *)
(* dynamic_buffer, for every limit, block size and number of descriptors:  *)
(* the bookkeeping holds at every step of the loops, data() hands out a    *)
(* prefix of the content, and the block list implements the bounded FIFO   *)
(* its class comment promises.                                             *)
(*                                                                         *)
(* The wire format, for every packet: whatever the encoders write, the     *)
(* decoders read back from the bytes, however many have arrived.           *)
(*                                                                         *)
(* The metadata of a signal, for every document, order of calls and rate:  *)
(* the accessors say what the builder was told, and a remote signal counts *)
(* and stamps samples by what it was told last.                            *)
(***************************************************************************)
EXTENDS DynamicBuffer, WireFormat, SignalMetadata, SequenceTheorems, FiniteSetTheorems, TLAPS

-----------------------------------------------------------------------------
(* Arithmetic of blocks and positions.                                     *)

\* Division with remainder, for positions in a list of blocks.
LEMMA DivMod ==
  \A p \in Nat, b \in Nat \ {0} :
    /\ p \div b \in Nat /\ p % b \in 0..(b - 1)
    /\ p = (p \div b) * b + (p % b)
  BY SMT

\* A position determines its block and its place in it.
LEMMA DivUnique ==
  \A p \in Nat, q \in Int, r \in Nat, b \in Nat \ {0} :
    r < b /\ p = q * b + r => p \div b = q /\ p % b = r
  BY DivMod, SMT

\* One block more and one block less.
LEMMA TimesStep ==
  \A x, y \in Int : (x + 1) * y = x * y + y /\ (x - 1) * y = x * y - y
  BY SMT

\* More blocks hold more bytes.
LEMMA TimesMonotone ==
  \A x, z \in Int, y \in Nat : x <= z => x * y <= z * y
  BY SMT

\* Fewer bytes are in fewer blocks.
LEMMA TimesStrict ==
  \A x, z \in Int, y \in Nat \ {0}: x * y < z * y => x < z
  BY TimesMonotone

\* A product of naturals is one.
LEMMA TimesNat == \A x, y \in Nat : x * y \in Nat
  BY SMT

\* The constructor's clamping leaves at least one block of at least one byte.
LEMMA Blocks == BlockSize \in Nat \ {0} /\ MaxBlocks \in Nat \ {0}
<1>1. BlockSize \in Nat \ {0} /\ BlockSize <= MaxSize
  BY SizeAssumption DEF BlockSize, MinOf
<1> QED BY <1>1, SizeAssumption, SMT DEF MaxBlocks

-----------------------------------------------------------------------------
(* The bookkeeping.                                                        *)

Bookkeeping == TypeOK /\ OffsetsConsistent

\* A sequence of blocks.
LEMMA BlocksAre ==
  ASSUME NEW bs, bs \in Seq(Block)
  PROVE  /\ Len(bs) \in Nat /\ DOMAIN bs = 1..Len(bs)
         /\ \A b \in 1..Len(bs) : bs[b] \in Block
  BY LenProperties, ElementOfSeq

\* Zero-filled blocks are blocks.
LEMMA FreshIsBlock == FreshBlock \in Block
  BY SizeAssumption, Blocks DEF FreshBlock, Block, Byte

\* How many blocks prepare() leaves: never fewer than there were, never more
\* than the limit, and not fewer than are occupied.
LEMMA PrepareBounds ==
  ASSUME Bookkeeping, NEW n \in Nat
  PROVE  /\ BlocksAfterPrepare(n) \in Nat
         /\ Len(blocks) <= BlocksAfterPrepare(n)
         /\ used <= BlocksAfterPrepare(n)
         /\ BlocksAfterPrepare(n) <= MaxBlocks
         /\ TailRoom \in Nat
<1>1. Len(blocks) \in Nat /\ used \in Nat /\ writeOffset \in Nat
  BY BlocksAre DEF Bookkeeping, TypeOK
<1>2. BlockSize \in Nat \ {0} /\ MaxBlocks \in Nat \ {0}
  BY Blocks
<1>3. TailRoom \in Nat
  BY <1>1, <1>2 DEF TailRoom, Bookkeeping, OffsetsConsistent
<1>4. BlocksFor(n - TailRoom) \in Nat
  <2>1. CASE n - TailRoom > 0
    <3>1. n - TailRoom + BlockSize - 1 \in Nat
      BY <1>2, <1>3, <2>1
    <3>2. (n - TailRoom + BlockSize - 1) \div BlockSize \in Nat
      BY <3>1, <1>2, DivMod
    <3> QED BY <3>2, <2>1 DEF BlocksFor
  <2>2. CASE ~ (n - TailRoom > 0)
    BY <2>2 DEF BlocksFor
  <2> QED BY <2>1, <2>2
<1>5. used <= Len(blocks) /\ Len(blocks) <= MaxBlocks
  BY DEF Bookkeeping, OffsetsConsistent
<1> QED
  BY <1>1, <1>2, <1>3, <1>4, <1>5 DEF BlocksAfterPrepare, MaxOf, MinOf

\* The blocks prepare() leaves: the old ones and fresh ones.
LEMMA PreparedIs ==
  ASSUME Bookkeeping, NEW n \in Nat
  PROVE  /\ Prepared(n) \in Seq(Block)
         /\ Len(Prepared(n)) = BlocksAfterPrepare(n)
         /\ \A b \in 1..Len(blocks) : Prepared(n)[b] = blocks[b]
<1> DEFINE more == BlocksAfterPrepare(n) - Len(blocks)
           fresh == [i \in 1..more |-> FreshBlock]
<1>1. blocks \in Seq(Block) /\ Len(blocks) \in Nat
  BY BlocksAre DEF Bookkeeping, TypeOK
<1>2. more \in Nat /\ Len(blocks) + more = BlocksAfterPrepare(n)
  <2>1. BlocksAfterPrepare(n) \in Nat /\ Len(blocks) <= BlocksAfterPrepare(n)
    BY PrepareBounds
  <2> QED BY <1>1, <2>1
<1>3. Prepared(n) = blocks \o fresh
  BY DEF Prepared
<1> HIDE DEF more
<1>4. fresh \in Seq(Block) /\ Len(fresh) = more
  BY <1>2, FreshIsBlock
<1> HIDE DEF fresh
<1>5. /\ blocks \o fresh \in Seq(Block)
      /\ Len(blocks \o fresh) = Len(blocks) + Len(fresh)
      /\ \A i \in 1 .. Len(blocks) + Len(fresh) : (blocks \o fresh)[i] =
            IF i <= Len(blocks) THEN blocks[i] ELSE fresh[i - Len(blocks)]
  BY <1>1, <1>4, ConcatProperties
<1> QED BY <1>1, <1>2, <1>3, <1>4, <1>5

\* Copying bytes in changes no block's shape.
LEMMA FilledIs ==
  ASSUME NEW bs, bs \in Seq(Block), NEW k \in Nat, Bookkeeping
  PROVE  /\ Filled(bs, k) \in Seq(Block) /\ Len(Filled(bs, k)) = Len(bs)
         /\ \A b \in 1..Len(bs), i \in 0..(BlockSize - 1) :
              Filled(bs, k)[b][i] =
                LET at == (b - 1) * BlockSize + i - WritePosition
                IN  IF at \in 0..(k - 1) THEN (nextByte + at) % Modulus ELSE bs[b][i]
<1>1. Len(bs) \in Nat /\ DOMAIN bs = 1..Len(bs) /\ \A b \in 1..Len(bs) : bs[b] \in Block
  BY BlocksAre
<1>2. WritePosition \in Int /\ BlockSize \in Nat \ {0} /\ Modulus \in Nat \ {0} /\ nextByte \in Nat
  BY Blocks, SizeAssumption DEF WritePosition, Bookkeeping, TypeOK, Byte
<1> DEFINE byte(b, i) == LET at == (b - 1) * BlockSize + i - WritePosition
                         IN  IF at \in 0..(k - 1) THEN (nextByte + at) % Modulus ELSE bs[b][i]
           block(b) == [i \in 0..(BlockSize - 1) |-> byte(b, i)]
<1>3. ASSUME NEW b \in 1..Len(bs) PROVE block(b) \in Block
  <2>1. ASSUME NEW i \in 0..(BlockSize - 1) PROVE byte(b, i) \in Byte
    <3> DEFINE at == (b - 1) * BlockSize + i - WritePosition
    <3>1. at \in Int
      BY <1>1, <1>2
    <3> HIDE DEF at
    <3>2. CASE at \in 0..(k - 1)
      <4>1. nextByte + at \in Nat
        BY <3>2, <1>2
      <4>2. (nextByte + at) % Modulus \in 0..(Modulus - 1)
        BY <4>1, <1>2, DivMod
      <4> QED BY <3>2, <4>2 DEF at, Byte
    <3>3. CASE at \notin 0..(k - 1)
      <4>1. bs[b][i] \in Byte
        BY <1>1 DEF Block
      <4> QED BY <3>3, <4>1 DEF at
    <3> QED BY <3>2, <3>3
  <2> QED BY <2>1 DEF Block
<1>4. Filled(bs, k) = [b \in 1..Len(bs) |-> block(b)]
  BY <1>1 DEF Filled
<1> HIDE DEF block
<1>5. Filled(bs, k) \in Seq(Block) /\ Len(Filled(bs, k)) = Len(bs)
  BY <1>1, <1>3, <1>4
<1>6. ASSUME NEW b \in 1..Len(bs), NEW i \in 0..(BlockSize - 1)
      PROVE  Filled(bs, k)[b][i] = byte(b, i)
  BY <1>4 DEF block
<1> QED BY <1>5, <1>6

\* Everything the constructor sets up is in order.
LEMMA InitBookkeeping == Init => Bookkeeping
<1>1. BlockSize \in Nat \ {0} /\ MaxBlocks \in Nat \ {0} /\ <<>> \in Seq(Block) /\ Len(<<>>) = 0
  BY Blocks, EmptySeq
<1> SUFFICES ASSUME Init PROVE Bookkeeping
  OBVIOUS
<1>2. 0 \in Byte
  BY SizeAssumption DEF Byte
<1> QED BY <1>1, <1>2 DEF Init, Bookkeeping, TypeOK, OffsetsConsistent, Span

\* write() up to the loop of commit().
LEMMA WriteBookkeeping ==
  ASSUME Bookkeeping, NEW n \in Nat, Write(n)
  PROVE  Bookkeeping'
<1>1. /\ Len(blocks) \in Nat /\ used \in Nat /\ writeOffset \in Nat /\ readOffset \in Nat
      /\ size \in Nat /\ rest = 0 /\ size = Span /\ nextByte \in Nat /\ pc = "idle"
      /\ BlockSize \in Nat \ {0} /\ MaxBlocks \in Nat \ {0} /\ Modulus \in Nat \ {0}
  BY BlocksAre, Blocks, SizeAssumption
     DEF Bookkeeping, TypeOK, OffsetsConsistent, Write, Byte
<1>2. PICK all : all = BlocksAfterPrepare(n)
  OBVIOUS
<1>3. /\ all \in Nat /\ Len(blocks) <= all /\ used <= all /\ all <= MaxBlocks
      /\ TailRoom \in Nat
  BY <1>2, PrepareBounds
<1>4. PICK bytes : bytes = (all - used) * BlockSize
  OBVIOUS
<1>5. bytes \in Nat /\ Room(n) = TailRoom + bytes
  <2>1. all - used \in Nat
    BY <1>1, <1>3
  <2> QED BY <2>1, <1>1, <1>2, <1>4, TimesNat DEF Room
<1>6. PICK accepted : accepted = MinOf(n, Room(n))
  OBVIOUS
<1>7. accepted \in Nat /\ accepted <= TailRoom + bytes
  BY <1>3, <1>5, <1>6 DEF MinOf
<1>8. /\ blocks' = Filled(Prepared(n), accepted)
      /\ nextByte' = (nextByte + accepted) % Modulus
      /\ size' = size + accepted
      /\ writeOffset' = writeOffset + MinOf(accepted, TailRoom)
      /\ rest' = accepted - MinOf(accepted, TailRoom)
      /\ pc' = "commit" /\ used' = used /\ readOffset' = readOffset
  BY <1>6 DEF Write
<1>9. blocks' \in Seq(Block) /\ Len(blocks') = all
  BY <1>2, <1>7, <1>8, PreparedIs, FilledIs
<1>10. nextByte' \in Byte
  <2>1. nextByte + accepted \in Nat
    BY <1>1, <1>7
  <2> QED BY <2>1, <1>1, <1>8, DivMod DEF Byte
<1>11. PICK span : span = (used - 1) * BlockSize
  OBVIOUS
<1>12. /\ used = 0 => readOffset = 0 /\ writeOffset = 0 /\ TailRoom = 0
       /\ used > 0 => /\ readOffset < BlockSize /\ writeOffset \in 1..BlockSize
                      /\ TailRoom = BlockSize - writeOffset
       /\ used = 1 => readOffset < writeOffset
       /\ size = IF used = 0 THEN 0 ELSE span + writeOffset - readOffset
       /\ span \in Int
  BY <1>1, <1>11 DEF Bookkeeping, OffsetsConsistent, TailRoom, Span
<1>13. TypeOK'
  BY <1>1, <1>3, <1>7, <1>8, <1>9, <1>10 DEF TypeOK, MinOf
<1>14. /\ Span' = IF used = 0 THEN 0 ELSE span + writeOffset' - readOffset
       /\ TailRoom' = IF used > 0 THEN BlockSize - writeOffset' ELSE 0
       /\ ((Len(blocks) - used) * BlockSize)' = bytes
  BY <1>4, <1>8, <1>9, <1>11 DEF Span, TailRoom
<1>15. size' = Span' + rest'
  BY <1>1, <1>3, <1>7, <1>8, <1>12, <1>14 DEF MinOf
<1>16. rest' > 0 => TailRoom' = 0
  BY <1>1, <1>3, <1>7, <1>8, <1>12, <1>14 DEF MinOf
<1>17. rest' <= ((Len(blocks) - used) * BlockSize)'
  BY <1>3, <1>5, <1>7, <1>8, <1>14 DEF MinOf
<1>18. /\ used' = 0 => readOffset' = 0 /\ writeOffset' = 0
       /\ used' > 0 => readOffset' < BlockSize /\ writeOffset' \in 1..BlockSize
       /\ used' = 1 => readOffset' < writeOffset'
  BY <1>1, <1>3, <1>7, <1>8, <1>12 DEF MinOf
<1>19. used' <= Len(blocks') /\ Len(blocks') <= MaxBlocks
  BY <1>3, <1>8, <1>9
<1> QED
  BY <1>8, <1>13, <1>15, <1>16, <1>17, <1>18, <1>19 DEF Bookkeeping, OffsetsConsistent

\* One block of commit().
LEMMA CommitBookkeeping ==
  ASSUME Bookkeeping, CommitBlock
  PROVE  Bookkeeping'
<1>1. /\ Len(blocks) \in Nat /\ used \in Nat /\ writeOffset \in Nat /\ readOffset \in Nat
      /\ size \in Nat /\ rest \in Nat /\ rest > 0 /\ pc = "commit"
      /\ BlockSize \in Nat \ {0} /\ MaxBlocks \in Nat \ {0}
  BY BlocksAre, Blocks DEF Bookkeeping, TypeOK, CommitBlock
<1>2. /\ used' = used + 1 /\ writeOffset' = MinOf(rest, BlockSize)
      /\ rest' = rest - MinOf(rest, BlockSize)
      /\ UNCHANGED <<blocks, readOffset, size, pc, nextByte>>
  BY DEF CommitBlock
<1>3. PICK span : span = used * BlockSize
  OBVIOUS
<1>4. PICK left : left = (Len(blocks) - used) * BlockSize
  OBVIOUS
<1>5. span \in Nat /\ left \in Int /\ (used - 1) * BlockSize = span - BlockSize
  BY <1>1, <1>3, <1>4, TimesStep, TimesNat
<1>6. /\ used <= Len(blocks) /\ Len(blocks) <= MaxBlocks
      /\ used = 0 => readOffset = 0 /\ writeOffset = 0 /\ size = rest
      /\ used > 0 => /\ readOffset < BlockSize /\ writeOffset = BlockSize
                     /\ size = span - readOffset + rest
      /\ rest <= left
  BY <1>1, <1>4, <1>5 DEF Bookkeeping, OffsetsConsistent, TailRoom, Span
<1>7. used < Len(blocks)
  <2>1. ASSUME used = Len(blocks) PROVE FALSE
    BY <2>1, <1>1, <1>4, <1>6
  <2> QED BY <2>1, <1>1, <1>6
<1>8. Span' = span + writeOffset' - readOffset
  BY <1>1, <1>2, <1>3 DEF Span
<1>9. ((Len(blocks) - used) * BlockSize)' = left - BlockSize
  <2>1. (Len(blocks) - used - 1) * BlockSize = left - BlockSize
    BY <1>1, <1>4, TimesStep
  <2>2. Len(blocks') - used' = Len(blocks) - used - 1
    BY <1>1, <1>2
  <2> QED BY <2>1, <2>2
<1>10. used = 0 => span = 0
  BY <1>1, <1>3
<1>11. size' = Span' + rest'
  BY <1>1, <1>2, <1>5, <1>6, <1>8, <1>10 DEF MinOf
<1>12. TailRoom' = BlockSize - writeOffset'
  BY <1>1, <1>2 DEF TailRoom
<1>13. rest' > 0 => TailRoom' = 0
  BY <1>1, <1>2, <1>12 DEF MinOf
<1>14. rest' <= ((Len(blocks) - used) * BlockSize)'
  <2>1. rest' <= left - BlockSize \/ rest' = 0
    BY <1>1, <1>2, <1>5, <1>6 DEF MinOf
  <2>2. Len(blocks) - (used + 1) \in Nat
    BY <1>1, <1>7
  <2>3. (Len(blocks) - (used + 1)) * BlockSize >= 0
    BY <2>2, <1>1, TimesNat
  <2> QED BY <2>1, <2>3, <1>2, <1>9
<1>15. /\ used' > 0 /\ used' <= Len(blocks') /\ Len(blocks') <= MaxBlocks
       /\ readOffset' < BlockSize /\ writeOffset' \in 1..BlockSize
       /\ used' = 1 => readOffset' < writeOffset'
  BY <1>1, <1>2, <1>6, <1>7 DEF MinOf
<1>16. TypeOK'
  BY <1>1, <1>2 DEF Bookkeeping, TypeOK, MinOf
<1> QED
  BY <1>1, <1>2, <1>11, <1>13, <1>14, <1>15, <1>16 DEF Bookkeeping, OffsetsConsistent

\* consume() up to its loop.
LEMMA ConsumeBookkeeping ==
  ASSUME Bookkeeping, NEW n \in Nat, Consume(n)
  PROVE  Bookkeeping'
<1>1. size \in Nat /\ MinOf(n, size) \in Nat /\ MinOf(n, size) <= size
  BY DEF Bookkeeping, TypeOK, MinOf
<1>2. /\ pc = "idle" /\ size' = size - MinOf(n, size) /\ rest' = MinOf(n, size)
      /\ pc' = "consume"
      /\ UNCHANGED <<blocks, used, readOffset, writeOffset, nextByte>>
  BY DEF Consume
<1>3. Span' = Span /\ size = Span
  BY <1>2 DEF Span, Bookkeeping, OffsetsConsistent
<1>4. size' + rest' = Span'
  BY <1>1, <1>2, <1>3
<1>5. TypeOK'
  BY <1>1, <1>2 DEF Bookkeeping, TypeOK
<1> QED
  BY <1>2, <1>4, <1>5 DEF Bookkeeping, OffsetsConsistent

\* Rotating the deque keeps its blocks and their number.
LEMMA RotatedIs ==
  ASSUME NEW bs, bs \in Seq(Block), bs # <<>>
  PROVE  /\ Append(Tail(bs), Head(bs)) \in Seq(Block)
         /\ Len(Append(Tail(bs), Head(bs))) = Len(bs)
         /\ \A b \in 1..(Len(bs) - 1) : Append(Tail(bs), Head(bs))[b] = bs[b + 1]
<1>1. PICK t : t = Tail(bs)
  OBVIOUS
<1>2. /\ t \in Seq(Block) /\ Len(t) = Len(bs) - 1 /\ Head(bs) \in Block
      /\ Len(bs) \in Nat \ {0}
      /\ \A b \in 1..Len(t) : t[b] = bs[b + 1]
  BY <1>1, HeadTailProperties, EmptySeq
<1>3. /\ Append(t, Head(bs)) \in Seq(Block) /\ Len(Append(t, Head(bs))) = Len(t) + 1
      /\ \A b \in 1..Len(t) : Append(t, Head(bs))[b] = t[b]
  BY <1>2, AppendProperties
<1> QED BY <1>1, <1>2, <1>3

\* What one iteration of consume()'s loop does: it takes the rest of the front
\* block, which is recycled, or the rest of the request.
LEMMA ConsumeBlockCases ==
  ASSUME Bookkeeping, ConsumeBlock
  PROVE  /\ pc = "consume" /\ pc' = pc /\ size' = size /\ nextByte' = nextByte
         /\ used > 0 /\ Len(blocks) > 0
         /\ \/ /\ used = 1 /\ size = 0 /\ rest' = 0 /\ rest = writeOffset - readOffset
               /\ blocks' = Append(Tail(blocks), Head(blocks))
               /\ used' = 0 /\ readOffset' = 0 /\ writeOffset' = 0
            \/ /\ used > 1 /\ BlockSize - readOffset <= rest
               /\ rest' = rest - (BlockSize - readOffset)
               /\ blocks' = Append(Tail(blocks), Head(blocks))
               /\ used' = used - 1 /\ readOffset' = 0 /\ writeOffset' = writeOffset
            \/ /\ readOffset + rest < (IF used = 1 THEN writeOffset ELSE BlockSize)
               /\ rest' = 0 /\ readOffset' = readOffset + rest
               /\ UNCHANGED <<blocks, used, writeOffset>>
<1> DEFINE end == IF used = 1 THEN writeOffset ELSE BlockSize
           taken == MinOf(rest, end - readOffset)
<1>1. /\ Len(blocks) \in Nat /\ used \in Nat /\ writeOffset \in Nat /\ readOffset \in Nat
      /\ size \in Nat /\ rest \in Nat /\ rest > 0 /\ pc = "consume"
      /\ BlockSize \in Nat \ {0} /\ MaxBlocks \in Nat \ {0}
  BY BlocksAre, Blocks DEF Bookkeeping, TypeOK, ConsumeBlock
<1>2. /\ used > 0 /\ used <= Len(blocks) /\ readOffset < BlockSize /\ writeOffset \in 1..BlockSize
      /\ used = 1 => readOffset < writeOffset /\ size + rest = writeOffset - readOffset
  <2>1. size + rest = Span /\ used <= Len(blocks)
    BY <1>1 DEF Bookkeeping, OffsetsConsistent
  <2>2. used > 0
    BY <1>1, <2>1 DEF Span
  <2>3. used = 1 => Span = writeOffset - readOffset
    BY <1>1 DEF Span
  <2> QED BY <1>1, <2>1, <2>2, <2>3 DEF Bookkeeping, OffsetsConsistent
<1>3. /\ rest' = rest - taken
      /\ IF readOffset + taken = end
           THEN RecycleFrontBlock
           ELSE /\ readOffset' = readOffset + taken
                /\ UNCHANGED <<blocks, used, writeOffset>>
      /\ UNCHANGED <<size, pc, nextByte>>
  BY DEF ConsumeBlock
<1>4. end \in Nat /\ readOffset < end
  BY <1>1, <1>2
<1>5. CASE readOffset + taken = end
  <2>1. taken = end - readOffset /\ end - readOffset <= rest
    BY <1>1, <1>4, <1>5 DEF MinOf
  <2>2. RecycleFrontBlock
    BY <1>3, <1>5
  <2>3. /\ blocks' = Append(Tail(blocks), Head(blocks)) /\ used' = used - 1
        /\ readOffset' = 0 /\ writeOffset' = IF used = 1 THEN 0 ELSE writeOffset
    BY <2>2 DEF RecycleFrontBlock
  <2>4. CASE used = 1
    BY <2>1, <2>3, <2>4, <1>1, <1>2, <1>3
  <2>5. CASE used # 1
    BY <2>1, <2>3, <2>5, <1>1, <1>2, <1>3
  <2> QED BY <2>4, <2>5
<1>6. CASE readOffset + taken # end
  <2>1. taken = rest /\ readOffset + rest < end
    BY <1>1, <1>4, <1>6 DEF MinOf
  <2> QED BY <2>1, <1>1, <1>2, <1>3, <1>6
<1> QED BY <1>5, <1>6

\* One block of consume().
LEMMA ConsumeBlockBookkeeping ==
  ASSUME Bookkeeping, ConsumeBlock
  PROVE  Bookkeeping'
<1>1. /\ Len(blocks) \in Nat /\ used \in Nat /\ writeOffset \in Nat /\ readOffset \in Nat
      /\ size \in Nat /\ rest \in Nat /\ nextByte \in Byte /\ blocks \in Seq(Block)
      /\ BlockSize \in Nat \ {0} /\ MaxBlocks \in Nat \ {0}
  BY BlocksAre, Blocks DEF Bookkeeping, TypeOK
<1>2. /\ pc = "consume" /\ pc' = pc /\ size' = size /\ nextByte' = nextByte
      /\ used > 0 /\ Len(blocks) > 0
  BY ConsumeBlockCases
<1>3. /\ used <= Len(blocks) /\ Len(blocks) <= MaxBlocks
      /\ readOffset < BlockSize /\ writeOffset \in 1..BlockSize
      /\ used = 1 => readOffset < writeOffset
      /\ size + rest = Span
  BY <1>2 DEF Bookkeeping, OffsetsConsistent
<1>4. PICK span : span = (used - 1) * BlockSize
  OBVIOUS
<1>5. span \in Int /\ Span = span + writeOffset - readOffset
  BY <1>1, <1>2, <1>4 DEF Span
<1>6. /\ Append(Tail(blocks), Head(blocks)) \in Seq(Block)
      /\ Len(Append(Tail(blocks), Head(blocks))) = Len(blocks)
  <2>1. blocks # <<>>
    BY <1>2, EmptySeq
  <2> QED BY <2>1, <1>1, RotatedIs
<1>7. CASE /\ used = 1 /\ size = 0 /\ rest' = 0 /\ rest = writeOffset - readOffset
           /\ blocks' = Append(Tail(blocks), Head(blocks))
           /\ used' = 0 /\ readOffset' = 0 /\ writeOffset' = 0
  <2>1. TypeOK'
    BY <1>1, <1>2, <1>6, <1>7 DEF TypeOK
  <2>2. Span' = 0
    BY <1>7 DEF Span
  <2> QED BY <2>1, <2>2, <1>1, <1>2, <1>3, <1>6, <1>7 DEF Bookkeeping, OffsetsConsistent
<1>8. CASE /\ used > 1 /\ BlockSize - readOffset <= rest
           /\ rest' = rest - (BlockSize - readOffset)
           /\ blocks' = Append(Tail(blocks), Head(blocks))
           /\ used' = used - 1 /\ readOffset' = 0 /\ writeOffset' = writeOffset
  <2>1. TypeOK'
    BY <1>1, <1>2, <1>3, <1>6, <1>8 DEF TypeOK
  <2>2. (used - 1 - 1) * BlockSize = span - BlockSize
    BY <1>1, <1>4, TimesStep
  <2>3. Span' = span - BlockSize + writeOffset
    BY <2>2, <1>1, <1>8, <1>5 DEF Span
  <2>4. size' + rest' = Span'
    BY <2>3, <1>1, <1>2, <1>3, <1>5, <1>8
  <2> QED BY <2>1, <2>4, <1>1, <1>2, <1>3, <1>6, <1>8 DEF Bookkeeping, OffsetsConsistent
<1>9. CASE /\ readOffset + rest < (IF used = 1 THEN writeOffset ELSE BlockSize)
           /\ rest' = 0 /\ readOffset' = readOffset + rest
           /\ UNCHANGED <<blocks, used, writeOffset>>
  <2>1. TypeOK'
    BY <1>1, <1>2, <1>9 DEF TypeOK
  <2>2. Span' = span + writeOffset - readOffset - rest
    BY <1>1, <1>2, <1>4, <1>5, <1>9 DEF Span
  <2>3. size' + rest' = Span'
    BY <2>2, <1>1, <1>2, <1>3, <1>5, <1>9
  <2> QED BY <2>1, <2>3, <1>1, <1>2, <1>3, <1>9 DEF Bookkeeping, OffsetsConsistent
<1> QED BY <1>7, <1>8, <1>9, ConsumeBlockCases

\* The end of either loop.
LEMMA ReturnBookkeeping ==
  ASSUME Bookkeeping, Return
  PROVE  Bookkeeping'
<1>1. /\ pc \in {"commit", "consume"} /\ rest = 0 /\ pc' = "idle"
      /\ UNCHANGED <<blocks, used, readOffset, writeOffset, size, rest, nextByte>>
  BY DEF Return
<1>2. size \in Nat /\ Span \in Int /\ Span' = Span
  BY <1>1, Blocks DEF Bookkeeping, TypeOK, Span
<1>3. size = Span
  BY <1>1, <1>2 DEF Bookkeeping, OffsetsConsistent
<1>4. TypeOK'
  BY <1>1 DEF Bookkeeping, TypeOK
<1> QED BY <1>1, <1>2, <1>3, <1>4 DEF Bookkeeping, OffsetsConsistent

\* Every step of every call keeps the books.
LEMMA NextBookkeeping == Bookkeeping /\ [Next]_vars => Bookkeeping'
<1> SUFFICES ASSUME Bookkeeping, [Next]_vars PROVE Bookkeeping'
  OBVIOUS
<1>1. \A n \in 0..MaxRequest : n \in Nat
  BY SizeAssumption
<1>2. ASSUME NEW n \in 0..MaxRequest, Write(n) PROVE Bookkeeping'
  BY <1>1, <1>2, WriteBookkeeping
<1>3. ASSUME NEW n \in 0..MaxRequest, Consume(n) PROVE Bookkeeping'
  BY <1>1, <1>3, ConsumeBookkeeping
<1>4. CASE CommitBlock
  BY <1>4, CommitBookkeeping
<1>5. CASE ConsumeBlock
  BY <1>5, ConsumeBlockBookkeeping
<1>6. CASE Return
  BY <1>6, ReturnBookkeeping
<1>7. CASE UNCHANGED vars
  BY <1>7 DEF vars, Bookkeeping, TypeOK, OffsetsConsistent, Span, TailRoom
<1> QED BY <1>2, <1>3, <1>4, <1>5, <1>6, <1>7 DEF Next

\* The bookkeeping of dynamic_buffer, for every size of buffer and block.
THEOREM BufferBookkeeping == Spec => [](TypeOK /\ OffsetsConsistent)
<1>1. Spec => []Bookkeeping
  BY InitBookkeeping, NextBookkeeping, PTL DEF Spec
<1> QED BY <1>1, PTL DEF Bookkeeping

-----------------------------------------------------------------------------
(* The content.                                                            *)

\* The byte at a position, counted from the start of the first block.
At(bs, p) == bs[(p \div BlockSize) + 1][p % BlockSize]

\* A function on 1..n that agrees with a sequence of length n is that sequence.
LEMMA SequenceOf ==
  ASSUME NEW S, NEW s \in Seq(S), NEW n \in Nat, Len(s) = n,
         NEW f, f = [i \in 1..n |-> f[i]], \A i \in 1..n : s[i] = f[i]
  PROVE  f = s
<1>1. s \in [1..n -> S]
  BY LenProperties
<1> QED BY <1>1

\* The position of the first byte of the content.
Skip == readOffset + (IF pc = "consume" THEN rest ELSE 0)

\* A stretch of n bytes from a position on.
Stretch(bs, from, n) == [i \in 1..n |-> At(bs, from + i - 1)]

LEMMA ContentIs == Content = Stretch(blocks, Skip, size)
  BY DEF Content, Stretch, At, Skip

\* A position in a list of blocks is in a block of the list.
LEMMA PositionInBlock ==
  ASSUME NEW m \in Nat, NEW p \in Nat, p < m * BlockSize
  PROVE  /\ (p \div BlockSize) + 1 \in 1..m
         /\ p % BlockSize \in 0..(BlockSize - 1)
<1>1. BlockSize \in Nat \ {0}
  BY Blocks
<1>2. PICK q : q = p \div BlockSize
  OBVIOUS
<1>3. PICK r : r = p % BlockSize
  OBVIOUS
<1>4. q \in Nat /\ r \in 0..(BlockSize - 1) /\ p = q * BlockSize + r
  BY <1>1, <1>2, <1>3, DivMod
<1>5. q * BlockSize < m * BlockSize
  <2>1. q * BlockSize \in Int /\ m * BlockSize \in Int
    BY <1>1, <1>4
  <2> QED BY <2>1, <1>1, <1>4
<1>6. q < m
  BY <1>1, <1>4, <1>5, TimesStrict
<1> QED BY <1>2, <1>3, <1>4, <1>6

\* The same with the block and the place in it named.
LEMMA PlaceOf ==
  ASSUME NEW m \in Nat, NEW p \in Nat, p < m * BlockSize
  PROVE  \E b \in 1..m, i \in 0..(BlockSize - 1) :
           b = (p \div BlockSize) + 1 /\ i = p % BlockSize /\ p = (b - 1) * BlockSize + i
<1>1. PICK b : b = (p \div BlockSize) + 1
  OBVIOUS
<1>2. PICK i : i = p % BlockSize
  OBVIOUS
<1>3. b \in 1..m /\ i \in 0..(BlockSize - 1)
  BY <1>1, <1>2, PositionInBlock
<1>4. p \div BlockSize \in Nat
  BY DivMod, Blocks
<1>5. b - 1 = p \div BlockSize
  BY <1>1, <1>4
<1>6. p = (p \div BlockSize) * BlockSize + (p % BlockSize)
  BY DivMod, Blocks
<1>7. p = (b - 1) * BlockSize + i
  BY ONLY <1>2, <1>5, <1>6, Zenon
<1> QED BY <1>1, <1>2, <1>3, <1>7

\* The byte at a position is a byte.
LEMMA AtIsByte ==
  ASSUME NEW bs \in Seq(Block), NEW p \in Nat, p < Len(bs) * BlockSize
  PROVE  At(bs, p) \in Byte
<1>1. Len(bs) \in Nat /\ \A b \in 1..Len(bs) : bs[b] \in Block
  BY BlocksAre
<1>2. (p \div BlockSize) + 1 \in 1..Len(bs) /\ p % BlockSize \in 0..(BlockSize - 1)
  BY <1>1, PositionInBlock
<1> QED BY <1>1, <1>2 DEF At, Block

\* A stretch inside the blocks is a sequence of bytes.
LEMMA StretchIs ==
  ASSUME NEW bs \in Seq(Block), NEW from \in Nat, NEW n \in Nat,
         from + n <= Len(bs) * BlockSize
  PROVE  /\ Stretch(bs, from, n) \in Seq(Byte)
         /\ Len(Stretch(bs, from, n)) = n
         /\ \A i \in 1..n : Stretch(bs, from, n)[i] = At(bs, from + i - 1)
<1>1. Len(bs) * BlockSize \in Int
  BY BlocksAre, Blocks
<1>2. ASSUME NEW i \in 1..n PROVE At(bs, from + i - 1) \in Byte
  <2>1. from + i - 1 \in Nat /\ from + i - 1 < Len(bs) * BlockSize
    BY <1>1
  <2> QED BY <2>1, AtIsByte
<1> QED BY <1>2 DEF Stretch

\* Where the content ends: at the first free byte, once the loop of commit()
\* has done its work.
LEMMA ContentEnds ==
  ASSUME Bookkeeping
  PROVE  /\ Skip \in Nat /\ size \in Nat /\ WritePosition \in Nat
         /\ Skip + size = WritePosition + (IF pc = "commit" THEN rest ELSE 0)
         /\ WritePosition + TailRoom = used * BlockSize
         /\ Skip + size <= Len(blocks) * BlockSize
<1>1. /\ Len(blocks) \in Nat /\ used \in Nat /\ writeOffset \in Nat /\ readOffset \in Nat
      /\ size \in Nat /\ rest \in Nat /\ BlockSize \in Nat \ {0}
      /\ pc \in {"idle", "commit", "consume"}
  BY BlocksAre, Blocks DEF Bookkeeping, TypeOK
<1>2. PICK all : all = used * BlockSize
  OBVIOUS
<1>3. all \in Nat /\ (used - 1) * BlockSize = all - BlockSize
  BY <1>1, <1>2, TimesNat, TimesStep
<1>4. PICK limit : limit = Len(blocks) * BlockSize
  OBVIOUS
<1>5. limit \in Nat /\ all <= limit
  BY <1>1, <1>2, <1>4, TimesNat, TimesMonotone DEF Bookkeeping, OffsetsConsistent
<1>6. (Len(blocks) - used) * BlockSize = limit - all
  BY <1>1, <1>2, <1>4, SMT
<1>7. used = 0 => all = 0
  BY <1>1, <1>2
<1>8. used > 0 => all >= BlockSize
  BY <1>1, <1>2, TimesMonotone
<1>9. Skip \in Nat
  BY <1>1 DEF Skip
<1>10. WritePosition = (IF used > 0 THEN all - BlockSize + writeOffset ELSE 0)
  BY <1>3 DEF WritePosition
<1>11. Span = (IF used = 0 THEN 0 ELSE all - BlockSize + writeOffset - readOffset)
  BY <1>3 DEF Span
<1>12. /\ used = 0 => readOffset = 0 /\ writeOffset = 0
       /\ used > 0 => writeOffset \in 1..BlockSize
       /\ pc = "idle" => rest = 0 /\ size = Span
       /\ pc = "consume" => size + rest = Span
       /\ pc = "commit" => size = Span + rest /\ rest <= limit - all
       /\ pc = "commit" /\ rest > 0 => TailRoom = 0
  BY <1>6 DEF Bookkeeping, OffsetsConsistent
<1>13. TailRoom = IF used > 0 THEN BlockSize - writeOffset ELSE 0
  BY DEF TailRoom
<1>14. WritePosition \in Nat
  BY <1>1, <1>3, <1>8, <1>10, <1>12
<1>15. Skip + size = WritePosition + (IF pc = "commit" THEN rest ELSE 0)
  BY <1>1, <1>3, <1>10, <1>11, <1>12 DEF Skip
<1>16. WritePosition + TailRoom = all
  BY <1>1, <1>3, <1>7, <1>10, <1>12, <1>13
<1>17. Skip + size <= limit
  BY <1>1, <1>3, <1>5, <1>12, <1>13, <1>14, <1>15, <1>16
<1> QED BY <1>1, <1>2, <1>4, <1>9, <1>14, <1>15, <1>16, <1>17

\* Copying k bytes in puts them at the first free byte and changes nothing else.
LEMMA FilledAt ==
  ASSUME Bookkeeping, NEW bs \in Seq(Block), NEW k \in Nat, NEW p \in Nat,
         p < Len(bs) * BlockSize
  PROVE  At(Filled(bs, k), p) = IF p - WritePosition \in 0..(k - 1)
                                  THEN (nextByte + (p - WritePosition)) % Modulus
                                  ELSE At(bs, p)
<1>1. Len(bs) \in Nat
  BY BlocksAre
<1>2. PICK b \in 1..Len(bs), i \in 0..(BlockSize - 1) :
        b = (p \div BlockSize) + 1 /\ i = p % BlockSize /\ p = (b - 1) * BlockSize + i
  BY <1>1, PlaceOf
<1>3. (b - 1) * BlockSize + i - WritePosition = p - WritePosition
  <2>1. WritePosition \in Nat /\ BlockSize \in Nat
    BY ContentEnds, Blocks
  <2> QED BY <2>1, <1>1, <1>2
<1>4. At(bs, p) = bs[b][i] /\ At(Filled(bs, k), p) = Filled(bs, k)[b][i]
  BY <1>2 DEF At
<1>5. Filled(bs, k)[b][i] =
        LET at == (b - 1) * BlockSize + i - WritePosition
        IN  IF at \in 0..(k - 1) THEN (nextByte + at) % Modulus ELSE bs[b][i]
  BY <1>2, FilledIs
<1> QED BY <1>3, <1>4, <1>5

\* Preparing blocks moves no byte.
LEMMA PreparedAt ==
  ASSUME Bookkeeping, NEW n \in Nat, NEW p \in Nat, p < Len(blocks) * BlockSize
  PROVE  At(Prepared(n), p) = At(blocks, p)
<1>1. Len(blocks) \in Nat
  BY BlocksAre DEF Bookkeeping, TypeOK
<1>2. (p \div BlockSize) + 1 \in 1..Len(blocks)
  BY <1>1, PositionInBlock
<1> QED BY <1>2, PreparedIs DEF At

\* Rotating the deque moves every byte one block to the front.
LEMMA RotatedAt ==
  ASSUME NEW bs \in Seq(Block), bs # <<>>, NEW p \in Nat,
         p + BlockSize < Len(bs) * BlockSize
  PROVE  At(Append(Tail(bs), Head(bs)), p) = At(bs, p + BlockSize)
<1>1. Len(bs) \in Nat /\ BlockSize \in Nat \ {0}
  BY BlocksAre, Blocks
<1>2. PICK q : q = p \div BlockSize
  OBVIOUS
<1>3. PICK r : r = p % BlockSize
  OBVIOUS
<1>4. q \in Nat /\ r \in 0..(BlockSize - 1) /\ p = q * BlockSize + r
  BY <1>1, <1>2, <1>3, DivMod
<1>5. p + BlockSize = (q + 1) * BlockSize + r
  BY <1>1, <1>4, TimesStep
<1>6. (p + BlockSize) \div BlockSize = q + 1 /\ (p + BlockSize) % BlockSize = r
  <2>1. p + BlockSize \in Nat /\ q + 1 \in Int /\ r \in Nat /\ r < BlockSize
    BY <1>1, <1>4
  <2> QED BY <2>1, <1>1, <1>5, DivUnique
<1>7. q + 1 \in 1..(Len(bs) - 1)
  <2>1. p + BlockSize \in Nat
    BY <1>1
  <2>2. ((p + BlockSize) \div BlockSize) + 1 \in 1..Len(bs)
    BY <2>1, <1>1, PositionInBlock
  <2> QED BY <2>2, <1>1, <1>4, <1>6
<1>8. Append(Tail(bs), Head(bs))[q + 1] = bs[q + 1 + 1]
  BY <1>7, RotatedIs
<1> QED BY <1>2, <1>3, <1>6, <1>8 DEF At

-----------------------------------------------------------------------------
(* Refinement: the block list is a bounded FIFO of bytes.                  *)

\* A buffer is unused exactly when nothing is buffered and no loop runs.
LEMMA EmptyIsUnused ==
  ASSUME Bookkeeping, pc = "idle", size = 0
  PROVE  used = 0 /\ readOffset = 0
<1>1. /\ used \in Nat /\ writeOffset \in Nat /\ readOffset \in Nat /\ BlockSize \in Nat \ {0}
      /\ Span = 0
  BY Blocks DEF Bookkeeping, TypeOK, OffsetsConsistent
<1>2. PICK span : span = (used - 1) * BlockSize
  OBVIOUS
<1>3. used > 0 => Span = span + writeOffset - readOffset
  BY <1>1, <1>2 DEF Span
<1>4. used = 1 => span = 0
  BY <1>1, <1>2
<1>5. used > 1 => span >= BlockSize
  BY <1>1, <1>2, TimesMonotone
<1>6. span \in Int
  BY <1>1, <1>2
<1>7. /\ used = 0 => readOffset = 0
      /\ used > 0 => readOffset < BlockSize /\ writeOffset \in 1..BlockSize
      /\ used = 1 => readOffset < writeOffset
  BY DEF Bookkeeping, OffsetsConsistent
<1> QED BY <1>1, <1>3, <1>4, <1>5, <1>6, <1>7

\* How much write() takes: what the prepared blocks hold, which is all of the
\* request unless the limit on blocks is reached.
LEMMA RoomIs ==
  ASSUME Bookkeeping, pc = "idle", NEW n \in Nat
  PROVE  /\ Room(n) \in Nat
         /\ WritePosition + Room(n) = BlocksAfterPrepare(n) * BlockSize
         /\ Room(n) < n => BlocksAfterPrepare(n) = MaxBlocks
<1>1. /\ used \in Nat /\ Len(blocks) \in Nat
      /\ BlockSize \in Nat \ {0} /\ MaxBlocks \in Nat \ {0}
      /\ used <= Len(blocks) /\ Len(blocks) <= MaxBlocks
  BY BlocksAre, Blocks DEF Bookkeeping, TypeOK, OffsetsConsistent
<1>2. PICK all : all = BlocksAfterPrepare(n)
  OBVIOUS
<1>3. all \in Nat /\ used <= all /\ all <= MaxBlocks /\ TailRoom \in Nat
  BY <1>2, PrepareBounds
<1>4. PICK held : held = used * BlockSize
  OBVIOUS
<1>5. PICK total : total = all * BlockSize
  OBVIOUS
<1>6. held \in Nat /\ total \in Nat /\ held <= total /\ (all - used) * BlockSize = total - held
  <2>1. held \in Nat /\ total \in Nat /\ held <= total
    BY <1>1, <1>3, <1>4, <1>5, TimesNat, TimesMonotone
  <2>2. (all - used) * BlockSize = total - held
    BY <1>1, <1>3, <1>4, <1>5, SMT
  <2> QED BY <2>1, <2>2
<1>7. Room(n) = TailRoom + (total - held)
  BY <1>2, <1>6 DEF Room
<1>8. WritePosition \in Nat /\ WritePosition + TailRoom = held
  BY <1>4, ContentEnds
<1>9. Room(n) \in Nat /\ WritePosition + Room(n) = total
  BY <1>3, <1>6, <1>7, <1>8
<1>10. ASSUME all < MaxBlocks PROVE n <= Room(n)
  <2>1. PICK need : need = n - TailRoom
    OBVIOUS
  <2>2. need \in Int
    BY <1>3, <2>1
  <2>3. CASE need <= 0
    BY <2>1, <2>3, <1>3, <1>6, <1>7
  <2>4. CASE need > 0
    <3>1. PICK q : q = BlocksFor(need)
      OBVIOUS
    <3>2. q = (need + BlockSize - 1) \div BlockSize
      BY <2>4, <3>1 DEF BlocksFor
    <3>3. q \in Nat /\ need <= q * BlockSize
      <4>1. PICK r : r = (need + BlockSize - 1) % BlockSize
        OBVIOUS
      <4>2. need + BlockSize - 1 \in Nat
        BY <2>2, <2>4, <1>1
      <4>3. /\ q \in Nat /\ r \in 0..(BlockSize - 1)
            /\ need + BlockSize - 1 = q * BlockSize + r
        BY <3>2, <4>1, <4>2, <1>1, DivMod
      <4>4. q * BlockSize \in Int
        BY <4>3, <1>1
      <4> QED BY <4>3, <4>4, <2>2, <1>1
    <3>4. used + q <= all
      BY <1>1, <1>2, <1>10, <2>1, <3>1, <3>3 DEF BlocksAfterPrepare, MaxOf, MinOf
    <3>5. q * BlockSize <= (all - used) * BlockSize
      <4>1. q <= all - used /\ all - used \in Int /\ q \in Int
        BY <3>3, <3>4, <1>1, <1>3
      <4> QED BY <4>1, <1>1, TimesMonotone
    <3>6. q * BlockSize \in Int
      BY <3>3, <1>1
    <3> QED BY <2>1, <2>2, <3>3, <3>5, <3>6, <1>3, <1>6, <1>7
  <2> QED BY <2>2, <2>3, <2>4
<1> QED BY <1>1, <1>2, <1>3, <1>5, <1>9, <1>10

\* What write() accepts is acceptable to the FIFO: it stays below the limit, and
\* is short only when less than a block of the limit is left.
LEMMA AcceptedIsAcceptable ==
  ASSUME Bookkeeping, pc = "idle", NEW n \in Nat
  PROVE  MinOf(n, Room(n)) \in Fifo!Acceptable(n)
<1>1. /\ readOffset \in Nat /\ size \in Nat /\ BlockSize \in Nat \ {0} /\ MaxBlocks \in Nat \ {0}
      /\ readOffset <= BlockSize - 1
  <2>1. /\ readOffset \in Nat /\ used \in Nat /\ size \in Nat
        /\ BlockSize \in Nat \ {0} /\ MaxBlocks \in Nat \ {0}
    BY Blocks DEF Bookkeeping, TypeOK
  <2> QED BY <2>1 DEF Bookkeeping, OffsetsConsistent
<1>2. PICK k : k = MinOf(n, Room(n))
  OBVIOUS
<1>3. PICK cap : cap = MaxBlocks * BlockSize
  OBVIOUS
<1>4. PICK total : total = BlocksAfterPrepare(n) * BlockSize
  OBVIOUS
<1>5. PICK room : room = Room(n)
  OBVIOUS
<1>6. cap \in Nat /\ total \in Nat /\ total <= cap
  <2>1. PICK all : all = BlocksAfterPrepare(n)
    OBVIOUS
  <2>2. all \in Nat /\ all <= MaxBlocks
    BY <2>1, PrepareBounds
  <2>3. cap \in Nat /\ total \in Nat
    BY <2>1, <2>2, <1>1, <1>3, <1>4, TimesNat
  <2>4. all * BlockSize <= MaxBlocks * BlockSize
    BY <2>2, <1>1, TimesMonotone
  <2> QED BY <2>1, <2>3, <2>4, <1>3, <1>4
<1>7. room \in Nat /\ readOffset + size + room = total
  <2>1. room \in Nat /\ WritePosition + room = total
    BY <1>4, <1>5, RoomIs
  <2>2. WritePosition = Skip + size /\ Skip \in Nat /\ WritePosition \in Nat
    BY ContentEnds
  <2>3. Skip = readOffset
    BY <1>1 DEF Skip
  <2> QED BY <2>1, <2>2, <2>3, <1>1
<1>8. room < n => total = cap
  BY <1>3, <1>4, <1>5, RoomIs
<1>9. Len(Content) = size
  BY <1>1, ContentIs DEF Stretch
<1>10. size = 0 => readOffset = 0
  BY EmptyIsUnused
<1>11. Content = <<>> => size = 0
  BY <1>9
<1>12. /\ k \in 0..n
       /\ size + k <= cap
       /\ (size + n <= cap - (BlockSize - 1)) => k = n
       /\ (k < n) => size + k >= cap - (BlockSize - 1)
       /\ (size = 0 /\ n <= cap) => k = n
  BY <1>1, <1>2, <1>5, <1>6, <1>7, <1>8, <1>10 DEF MinOf
<1>13. k \in {j \in 0..n :
               /\ Len(Content) + j <= cap
               /\ (Len(Content) + n <= cap - (BlockSize - 1)) => j = n
               /\ (j < n) => Len(Content) + j >= cap - (BlockSize - 1)
               /\ (Content = <<>> /\ n <= cap) => j = n}
  BY <1>9, <1>11, <1>12
<1> QED BY <1>2, <1>3, <1>13 DEF Fifo!Acceptable

\* write() appends to the content.
LEMMA WriteRefines ==
  ASSUME Bookkeeping, NEW n \in Nat, Write(n)
  PROVE  Fifo!Write(n)
<1>1. /\ pc = "idle" /\ pc' = "commit" /\ blocks \in Seq(Block) /\ nextByte \in Nat
      /\ readOffset \in Nat /\ size \in Nat /\ BlockSize \in Nat \ {0} /\ Modulus \in Nat \ {0}
      /\ readOffset' = readOffset
  BY Blocks, SizeAssumption DEF Write, Bookkeeping, TypeOK, Byte
<1>2. PICK k : k = MinOf(n, Room(n))
  OBVIOUS
<1>3. k \in Fifo!Acceptable(n)
  BY <1>1, <1>2, AcceptedIsAcceptable
<1>4. /\ blocks' = Filled(Prepared(n), k) /\ nextByte' = (nextByte + k) % Modulus
      /\ size' = size + k
  BY <1>2 DEF Write
<1>5. PICK bs : bs = Prepared(n)
  OBVIOUS
<1>6. bs \in Seq(Block) /\ Len(bs) = BlocksAfterPrepare(n)
  BY <1>5, PreparedIs
<1>7. PICK total : total = Len(bs) * BlockSize
  OBVIOUS
<1>8. /\ k \in Nat /\ total \in Int /\ WritePosition \in Nat
      /\ WritePosition = readOffset + size /\ WritePosition + k <= total
      /\ readOffset + size <= Len(blocks) * BlockSize
      /\ Len(blocks) * BlockSize \in Int
  <2>1. Room(n) \in Nat /\ WritePosition + Room(n) = total
    BY <1>1, <1>6, <1>7, RoomIs
  <2>2. Skip = readOffset
    BY <1>1 DEF Skip
  <2>3. WritePosition \in Nat /\ WritePosition = readOffset + size
    BY <1>1, <2>2, ContentEnds
  <2>4. k \in Nat /\ k <= Room(n)
    BY <2>1, <1>2 DEF MinOf
  <2>5. Len(bs) \in Nat /\ Len(blocks) \in Nat
    BY <1>1, <1>6, BlocksAre
  <2>6. readOffset + size <= Len(blocks) * BlockSize
    BY <2>2, ContentEnds
  <2> QED BY <2>1, <2>3, <2>4, <2>5, <2>6, <1>1, <1>7
<1>9. Content = [i \in 1..size |-> At(blocks, readOffset + i - 1)]
  <2>1. Skip = readOffset
    BY <1>1 DEF Skip
  <2> QED BY <2>1, ContentIs DEF Stretch
<1>10. Content' = [i \in 1..(size + k) |-> At(Filled(bs, k), readOffset + i - 1)]
  <2>1. Content' = [i \in 1..size' |-> At(blocks', Skip' + i - 1)]
    BY DEF Content, At, Skip
  <2>2. Skip' = readOffset
    BY <1>1 DEF Skip
  <2> QED BY <2>1, <2>2, <1>4, <1>5
<1>11. ASSUME NEW i \in 1..size
       PROVE  At(Filled(bs, k), readOffset + i - 1) = At(blocks, readOffset + i - 1)
  <2>1. PICK p : p = readOffset + i - 1
    OBVIOUS
  <2>2. /\ p \in Nat /\ p < Len(blocks) * BlockSize /\ p < Len(bs) * BlockSize
        /\ p - WritePosition \notin 0..(k - 1)
    BY <2>1, <1>1, <1>7, <1>8
  <2>3. At(bs, p) = At(blocks, p)
    BY <2>2, <1>5, PreparedAt
  <2>4. At(Filled(bs, k), p) = At(bs, p)
    BY <2>2, <1>6, <1>8, FilledAt
  <2> QED BY <2>1, <2>3, <2>4
<1>12. ASSUME NEW i \in (size + 1)..(size + k)
       PROVE  At(Filled(bs, k), readOffset + i - 1) = (nextByte + (i - size) - 1) % Modulus
  <2>1. PICK p : p = readOffset + i - 1
    OBVIOUS
  <2>2. /\ p \in Nat /\ p < Len(bs) * BlockSize
        /\ p - WritePosition \in 0..(k - 1)
        /\ nextByte + (p - WritePosition) = nextByte + (i - size) - 1
    BY <2>1, <1>1, <1>7, <1>8
  <2>3. At(Filled(bs, k), p) = (nextByte + (p - WritePosition)) % Modulus
    BY <2>2, <1>6, <1>8, FilledAt
  <2> QED BY <2>1, <2>2, <2>3
<1>13. /\ Content \in Seq(Byte) /\ Len(Content) = size
       /\ Fifo!Bytes(nextByte, k) \in Seq(Byte) /\ Len(Fifo!Bytes(nextByte, k)) = k
  <2>1. Content \in Seq(Byte) /\ Len(Content) = size
    <3>1. Skip \in Nat /\ Skip + size <= Len(blocks) * BlockSize
      BY ContentEnds
    <3> QED BY <3>1, <1>1, ContentIs, StretchIs
  <2>2. ASSUME NEW i \in 1..k PROVE (nextByte + i - 1) % Modulus \in Byte
    <3>1. nextByte + i - 1 \in Nat
      BY <1>1, <1>8
    <3> QED BY <3>1, <1>1, DivMod DEF Byte
  <2> QED BY <2>1, <2>2, <1>8 DEF Fifo!Bytes
<1>14. PICK s : s = Content
  OBVIOUS
<1>15. PICK t : t = Fifo!Bytes(nextByte, k)
  OBVIOUS
<1>16. /\ s \o t \in Seq(Byte) /\ Len(s \o t) = size + k
       /\ \A i \in 1..(size + k) : (s \o t)[i] = IF i <= size THEN s[i] ELSE t[i - size]
  <2>1. s \in Seq(Byte) /\ t \in Seq(Byte) /\ Len(s) = size /\ Len(t) = k
    BY <1>13, <1>14, <1>15
  <2>2. /\ s \o t \in Seq(Byte) /\ Len(s \o t) = Len(s) + Len(t)
        /\ \A i \in 1 .. Len(s) + Len(t) :
             (s \o t)[i] = IF i <= Len(s) THEN s[i] ELSE t[i - Len(s)]
    BY <2>1, ConcatProperties
  <2> QED BY <2>1, <2>2
<1>17. ASSUME NEW i \in 1..(size + k)
       PROVE  (s \o t)[i] = At(Filled(bs, k), readOffset + i - 1)
  <2>1. CASE i <= size
    <3>1. i \in 1..size
      BY <2>1
    <3> QED BY <3>1, <2>1, <1>9, <1>11, <1>14, <1>16
  <2>2. CASE i > size
    <3>1. i \in (size + 1)..(size + k) /\ i - size \in 1..k /\ ~ (i <= size)
      BY <2>2, <1>1, <1>8
    <3>2. PICK v : v = (nextByte + (i - size) - 1) % Modulus
      OBVIOUS
    <3>3. t[i - size] = v
      BY <3>1, <3>2, <1>15 DEF Fifo!Bytes
    <3>4. (s \o t)[i] = v
      BY <3>1, <3>3, <1>16
    <3>5. At(Filled(bs, k), readOffset + i - 1) = v
      BY <3>1, <3>2, <1>12
    <3> QED BY <3>4, <3>5
  <2>3. i <= size \/ i > size
    BY <1>1, <1>8
  <2> QED BY <2>1, <2>2, <2>3
<1>18. Content' = s \o t
  <2>1. PICK c : c = Content'
    OBVIOUS
  <2>2. size + k \in Nat
    BY <1>1, <1>8
  <2>3. c = [i \in 1..(size + k) |-> c[i]] /\ \A i \in 1..(size + k) : (s \o t)[i] = c[i]
    BY <2>1, <1>10, <1>17
  <2>4. c = s \o t
    BY <2>2, <2>3, <1>16, SequenceOf
  <2> QED BY <2>1, <2>4
<1> QED BY <1>3, <1>4, <1>14, <1>15, <1>18 DEF Fifo!Write

\* consume() drops bytes from the front of the content.
LEMMA ConsumeRefines ==
  ASSUME Bookkeeping, NEW n \in Nat, Consume(n)
  PROVE  Fifo!Consume(n)
<1>1. /\ pc = "idle" /\ pc' = "consume" /\ blocks \in Seq(Block)
      /\ readOffset \in Nat /\ size \in Nat
      /\ size' = size - MinOf(n, size) /\ rest' = MinOf(n, size)
      /\ readOffset' = readOffset /\ blocks' = blocks /\ nextByte' = nextByte
  BY DEF Consume, Bookkeeping, TypeOK
<1>2. PICK k : k = MinOf(n, size)
  OBVIOUS
<1>3. k \in Nat /\ k <= size /\ (n <= size => k = n) /\ (n > size => k = size)
  BY <1>1, <1>2 DEF MinOf
<1>4. Content = [i \in 1..size |-> At(blocks, readOffset + i - 1)]
  <2>1. Skip = readOffset
    BY <1>1 DEF Skip
  <2> QED BY <2>1, ContentIs DEF Stretch
<1>5. Content' = [i \in 1..(size - k) |-> At(blocks, (readOffset + k) + i - 1)]
  <2>1. Content' = [i \in 1..size' |-> At(blocks', Skip' + i - 1)]
    BY DEF Content, At, Skip
  <2>2. Skip' = readOffset + k
    BY <1>1, <1>2 DEF Skip
  <2> QED BY <2>1, <2>2, <1>1, <1>2
<1>6. Content \in Seq(Byte) /\ Len(Content) = size
  <2>1. Skip \in Nat /\ Skip + size <= Len(blocks) * BlockSize
    BY ContentEnds
  <2> QED BY <2>1, <1>1, ContentIs, StretchIs
<1>7. PICK s : s = Content
  OBVIOUS
<1>8. /\ SubSeq(s, n + 1, size) \in Seq(Byte)
      /\ Len(SubSeq(s, n + 1, size)) = size - k
      /\ \A i \in 1..(size - k) : SubSeq(s, n + 1, size)[i] = s[n + i]
  <2>1. \A i \in (n + 1)..size : s[i] \in Byte
    BY <1>1, <1>6, <1>7, ElementOfSeq
  <2>2. n + 1 \in Int /\ size \in Int
    BY <1>1
  <2>3. /\ SubSeq(s, n + 1, size) \in Seq(Byte)
        /\ Len(SubSeq(s, n + 1, size)) = IF n + 1 <= size THEN size - (n + 1) + 1 ELSE 0
        /\ \A i \in 1..(size - (n + 1) + 1) : SubSeq(s, n + 1, size)[i] = s[(n + 1) + i - 1]
    BY <2>1, <2>2, SubSeqProperties
  <2> QED BY <2>3, <1>1, <1>3
<1>9. ASSUME NEW i \in 1..(size - k)
      PROVE  SubSeq(s, n + 1, size)[i] = At(blocks, (readOffset + k) + i - 1)
  <2>1. k = n /\ n + i \in 1..size /\ readOffset + (n + i) - 1 = (readOffset + k) + i - 1
    BY <1>1, <1>3
  <2>2. s[n + i] = At(blocks, readOffset + (n + i) - 1)
    BY <2>1, <1>4, <1>7
  <2> QED BY <2>1, <2>2, <1>8
<1>10. Content' = SubSeq(s, n + 1, size)
  <2>1. PICK c : c = Content'
    OBVIOUS
  <2>2. size - k \in Nat
    BY <1>1, <1>3
  <2>3. /\ c = [i \in 1..(size - k) |-> c[i]]
        /\ \A i \in 1..(size - k) : SubSeq(s, n + 1, size)[i] = c[i]
    BY <2>1, <1>5, <1>9
  <2>4. c = SubSeq(s, n + 1, size)
    BY <2>2, <2>3, <1>8, SequenceOf
  <2> QED BY <2>1, <2>4
<1> QED BY <1>1, <1>6, <1>7, <1>10 DEF Fifo!Consume

\* The loops and the returns leave the content alone.
LEMMA LoopsStutter ==
  ASSUME Bookkeeping, CommitBlock \/ ConsumeBlock \/ Return
  PROVE  Content' = Content /\ nextByte' = nextByte
<1>1. Content' = [i \in 1..size' |-> At(blocks', Skip' + i - 1)]
  BY DEF Content, At, Skip
<1>2. Content = [i \in 1..size |-> At(blocks, Skip + i - 1)]
  BY ContentIs DEF Stretch
<1>3. /\ readOffset \in Nat /\ rest \in Nat /\ size \in Nat /\ blocks \in Seq(Block)
      /\ BlockSize \in Nat \ {0}
  BY Blocks DEF Bookkeeping, TypeOK
<1>4. CASE CommitBlock
  BY <1>1, <1>2, <1>4 DEF CommitBlock, Skip
<1>5. CASE Return
  <2>1. Skip' = Skip
    BY <1>3, <1>5 DEF Return, Skip
  <2> QED BY <1>1, <1>2, <1>5, <2>1 DEF Return
<1>6. CASE ConsumeBlock
  <2>1. /\ pc = "consume" /\ pc' = pc /\ size' = size /\ nextByte' = nextByte
        /\ Len(blocks) > 0
    BY <1>6, ConsumeBlockCases
  <2>2. Skip = readOffset + rest /\ Skip' = readOffset' + rest'
    BY <2>1 DEF Skip
  <2>3. CASE size = 0
    BY <2>1, <2>3, <1>1, <1>2
  <2>4. CASE /\ BlockSize - readOffset <= rest
             /\ rest' = rest - (BlockSize - readOffset) /\ readOffset' = 0
             /\ blocks' = Append(Tail(blocks), Head(blocks))
    <3>1. PICK skip : skip = Skip'
      OBVIOUS
    <3>2. skip \in Nat /\ Skip = skip + BlockSize
      BY <2>2, <2>4, <3>1, <1>3
    <3>3. skip + BlockSize + size <= Len(blocks) * BlockSize
      BY <3>2, ContentEnds
    <3>4. blocks # <<>> /\ Len(blocks) * BlockSize \in Int
      BY <2>1, <1>3, EmptySeq, BlocksAre
    <3>5. ASSUME NEW i \in 1..size
          PROVE  At(blocks', skip + i - 1) = At(blocks, Skip + i - 1)
      <4>1. PICK p : p = skip + i - 1
        OBVIOUS
      <4>2. /\ p \in Nat /\ p + BlockSize < Len(blocks) * BlockSize
            /\ p + BlockSize = Skip + i - 1
        BY <4>1, <3>2, <3>3, <3>4, <1>3
      <4>3. At(Append(Tail(blocks), Head(blocks)), p) = At(blocks, p + BlockSize)
        BY <4>2, <3>4, <1>3, RotatedAt
      <4> QED BY <4>1, <4>2, <4>3, <2>4
    <3> QED BY <3>1, <3>5, <2>1, <1>1, <1>2
  <2>5. CASE rest' = 0 /\ readOffset' = readOffset + rest /\ blocks' = blocks
    <3>1. Skip' = Skip
      BY <2>2, <2>5, <1>3
    <3> QED BY <3>1, <2>1, <2>5, <1>1, <1>2
  <2> QED BY <1>6, <2>3, <2>4, <2>5, ConsumeBlockCases
<1> QED BY <1>4, <1>5, <1>6

\* Every step of the block list is a step of the FIFO or leaves it alone.
LEMMA NextRefines ==
  Bookkeeping /\ [Next]_vars => [Fifo!Next]_(Fifo!vars)
<1> SUFFICES ASSUME Bookkeeping, [Next]_vars PROVE [Fifo!Next]_(Fifo!vars)
  OBVIOUS
<1>1. \A n \in 0..MaxRequest : n \in Nat
  BY SizeAssumption
<1>2. ASSUME NEW n \in 0..MaxRequest, Write(n) PROVE Fifo!Next
  <2>1. Fifo!Write(n)
    BY <1>1, <1>2, WriteRefines
  <2> QED BY <2>1 DEF Fifo!Next
<1>3. ASSUME NEW n \in 0..MaxRequest, Consume(n) PROVE Fifo!Next
  <2>1. Fifo!Consume(n)
    BY <1>1, <1>3, ConsumeRefines
  <2> QED BY <2>1 DEF Fifo!Next
<1>4. CASE CommitBlock \/ ConsumeBlock \/ Return
  BY <1>4, LoopsStutter DEF Fifo!vars
<1>5. CASE UNCHANGED vars
  BY <1>5 DEF vars, Fifo!vars, Content
<1> QED BY <1>2, <1>3, <1>4, <1>5 DEF Next

\* The block list, its loops and its recycling implement the bounded FIFO:
\* bytes come back in the order they were written, none lost, repeated or
\* invented, and a write is short only when less than a block is left.
THEOREM BufferImplementsFifo == Spec => ImplementsFifo
<1>1. Init => Fifo!Init
  <2>1. Init => Content = <<>>
    BY ContentIs DEF Init, Stretch
  <2> QED BY <2>1 DEF Init, Fifo!Init
<1>2. Spec => []Bookkeeping
  BY InitBookkeeping, NextBookkeeping, PTL DEF Spec
<1> QED BY <1>1, <1>2, NextRefines, PTL DEF Spec, ImplementsFifo, Fifo!Spec

-----------------------------------------------------------------------------
(* What data() hands out.                                                  *)

\* Every nonempty set of naturals has a least element, from the library's
\* well-foundedness of strict inclusion between finite sets.
LEMMA LeastNatural ==
  ASSUME NEW S, S \subseteq Nat, S # {}
  PROVE  \E m \in S : \A n \in S : m <= n
<1> DEFINE T == {1..n : n \in S}
<1>1. T \subseteq FiniteSubsetsOf(Nat)
  BY FS_Interval, SMT DEF FiniteSubsetsOf
<1>2. T # {}
  OBVIOUS
<1> HIDE DEF T
<1>3. PICK x \in T : \A y \in T : ~ (<<y, x>> \in StrictSubsetOrdering(Nat))
  BY <1>1, <1>2, FS_StrictSubsetOrderingWellFounded, WFMin
<1>4. PICK m \in S : x = 1..m
  BY <1>3 DEF T
<1>5. ASSUME NEW n \in S, n < m PROVE FALSE
  <2>1. 1..n \in T
    BY DEF T
  <2>2. m \in 1..m /\ m \notin 1..n /\ 1..n \subseteq 1..m
    BY <1>5
  <2>3. 1..n \in SUBSET Nat /\ 1..m \in SUBSET Nat
    OBVIOUS
  <2>4. <<1..n, 1..m>> \in StrictSubsetOrdering(Nat)
    BY <2>2, <2>3 DEF StrictSubsetOrdering
  <2> QED BY <2>1, <2>4, <1>3, <1>4
<1> QED BY <1>5

\* A function that concatenates one more sequence at each argument.
Flattens(g, seqs) ==
  g = [i \in 1..Len(seqs) |-> IF i = 1 THEN seqs[i] ELSE g[i-1] \o seqs[i]]

\* There is at most one such function.
LEMMA FlattensUnique ==
  ASSUME NEW seqs, Len(seqs) \in Nat, NEW f, NEW g, Flattens(f, seqs), Flattens(g, seqs)
  PROVE  f = g
<1> DEFINE D == {i \in 1..Len(seqs) : f[i] # g[i]}
<1>1. /\ \A i \in 1..Len(seqs) : f[i] = IF i = 1 THEN seqs[i] ELSE f[i-1] \o seqs[i]
      /\ \A i \in 1..Len(seqs) : g[i] = IF i = 1 THEN seqs[i] ELSE g[i-1] \o seqs[i]
  BY Zenon DEF Flattens
<1>2. D = {}
  <2> SUFFICES ASSUME D # {} PROVE FALSE
    OBVIOUS
  <2>1. D \subseteq Nat
    OBVIOUS
  <2>2. PICK m \in D : \A n \in D : m <= n
    <3> HIDE DEF D
    <3> QED BY <2>1, LeastNatural
  <2>3. m \in 1..Len(seqs) /\ f[m] # g[m]
    OBVIOUS
  <2>4. m # 1
    BY <2>3, <1>1
  <2>5. m - 1 \in 1..Len(seqs) /\ m - 1 < m
    BY <2>3, <2>4
  <2>6. f[m - 1] = g[m - 1]
    BY <2>2, <2>5
  <2>7. f[m] = f[m-1] \o seqs[m] /\ g[m] = g[m-1] \o seqs[m]
    BY <2>3, <2>4, <1>1
  <2> QED BY <2>3, <2>6, <2>7
<1>3. \A i \in 1..Len(seqs) : f[i] = g[i]
  BY <1>2
<1>4. f = [i \in 1..Len(seqs) |-> f[i]] /\ g = [i \in 1..Len(seqs) |-> g[i]]
  BY DEF Flattens
<1> QED BY <1>3, <1>4, Zenon

\* FlattenSeq is the last value of such a function.
LEMMA FlattenIs ==
  ASSUME NEW seqs, Len(seqs) \in Nat \ {0}, NEW g, Flattens(g, seqs)
  PROVE  FlattenSeq(seqs) = g[Len(seqs)]
<1>1. PICK f : f = CHOOSE h : Flattens(h, seqs)
  OBVIOUS
<1>2. Flattens(f, seqs)
  BY <1>1
<1>3. f = g
  BY <1>2, FlattensUnique
<1>4. FlattenSeq(seqs) = (CHOOSE h : Flattens(h, seqs))[Len(seqs)]
  BY Zenon DEF FlattenSeq, Flattens
<1> QED BY <1>1, <1>3, <1>4

\* Adjacent stretches join.
LEMMA StretchesJoin ==
  ASSUME NEW bs \in Seq(Block), NEW from \in Nat, NEW m \in Nat, NEW n \in Nat,
         from + m + n <= Len(bs) * BlockSize
  PROVE  Stretch(bs, from, m) \o Stretch(bs, from + m, n) = Stretch(bs, from, m + n)
<1>1. PICK limit : limit = Len(bs) * BlockSize
  OBVIOUS
<1>2. limit \in Int
  BY <1>1, BlocksAre, Blocks
<1>3. PICK s : s = Stretch(bs, from, m)
  OBVIOUS
<1>4. PICK t : t = Stretch(bs, from + m, n)
  OBVIOUS
<1>5. s \in Seq(Byte) /\ Len(s) = m /\ \A i \in 1..m : s[i] = At(bs, from + i - 1)
  <2>1. from + m <= limit
    BY <1>1, <1>2
  <2> QED BY <2>1, <1>1, <1>3, StretchIs
<1>6. t \in Seq(Byte) /\ Len(t) = n /\ \A i \in 1..n : t[i] = At(bs, from + m + i - 1)
  <2>1. from + m \in Nat /\ (from + m) + n <= limit
    BY <1>1, <1>2
  <2> QED BY <2>1, <1>1, <1>4, StretchIs
<1>7. /\ s \o t \in Seq(Byte) /\ Len(s \o t) = Len(s) + Len(t)
      /\ \A i \in 1 .. Len(s) + Len(t) :
           (s \o t)[i] = IF i <= Len(s) THEN s[i] ELSE t[i - Len(s)]
  BY <1>5, <1>6, ConcatProperties
<1>8. ASSUME NEW i \in 1..(m + n) PROVE (s \o t)[i] = At(bs, from + i - 1)
  <2>1. CASE i <= m
    BY <2>1, <1>5, <1>6, <1>7
  <2>2. CASE i > m
    <3>1. i - m \in 1..n /\ from + m + (i - m) - 1 = from + i - 1 /\ ~ (i <= m)
      BY <2>2
    <3>2. t[i - m] = At(bs, from + i - 1)
      BY <3>1, <1>6
    <3> QED BY <3>1, <3>2, <1>5, <1>6, <1>7
  <2>3. i <= m \/ i > m
    OBVIOUS
  <2> QED BY <2>1, <2>2, <2>3
<1>9. PICK c : c = Stretch(bs, from, m + n)
  OBVIOUS
<1>10. c = [i \in 1..(m + n) |-> c[i]] /\ \A i \in 1..(m + n) : (s \o t)[i] = c[i]
  BY <1>8, <1>9 DEF Stretch
<1>11. m + n \in Nat /\ Len(s \o t) = m + n
  BY <1>5, <1>6, <1>7
<1>12. c = s \o t
  BY <1>7, <1>10, <1>11, SequenceOf
<1> QED BY <1>3, <1>4, <1>9, <1>12

\* The descriptors of data(): how many there are, what each covers, and the
\* positions where it begins and ends.
Described == MinOf(used, MaxBuffers)

Piece(b) ==
  [i \in 1..((IF b = used THEN writeOffset ELSE BlockSize)
               - (IF b = 1 THEN readOffset ELSE 0)) |->
     blocks[b][(IF b = 1 THEN readOffset ELSE 0) + i - 1]]

PieceBegin(b) == IF b = 1 THEN readOffset ELSE (b - 1) * BlockSize
PieceEnd(b) == IF b = used THEN WritePosition ELSE b * BlockSize

LEMMA DataIs == Data = FlattenSeq([b \in 1..Described |-> Piece(b)])
  BY DEF Data, Described, Piece

\* Descriptors cover adjacent stretches, the first of which begins at the read
\* offset; none is empty, and the last occupied block ends the content.
LEMMA PieceIs ==
  ASSUME Bookkeeping, NEW b \in 1..used
  PROVE  /\ PieceBegin(b) \in Nat /\ PieceEnd(b) - PieceBegin(b) \in Nat \ {0}
         /\ PieceEnd(b) \in Nat /\ PieceEnd(b) <= WritePosition
         /\ b > 1 => PieceBegin(b) = PieceEnd(b - 1)
         /\ Piece(b) = Stretch(blocks, PieceBegin(b), PieceEnd(b) - PieceBegin(b))
<1>1. /\ used \in Nat /\ readOffset \in Nat /\ writeOffset \in Nat /\ BlockSize \in Nat \ {0}
      /\ readOffset < BlockSize /\ writeOffset \in 1..BlockSize
      /\ used = 1 => readOffset < writeOffset
  <2>1. used > 0 /\ used \in Nat
    BY DEF Bookkeeping, TypeOK
  <2> QED BY <2>1, Blocks DEF Bookkeeping, TypeOK, OffsetsConsistent
<1>2. PICK base : base = (b - 1) * BlockSize
  OBVIOUS
<1>3. base \in Nat /\ b * BlockSize = base + BlockSize /\ (b > 1 => base >= BlockSize)
  <2>1. b - 1 \in Nat
    BY <1>1
  <2>2. base \in Nat
    BY <2>1, <1>1, <1>2, TimesNat
  <2>3. b * BlockSize = base + BlockSize
    BY <1>1, <1>2, TimesStep
  <2>4. b > 1 => 1 * BlockSize <= (b - 1) * BlockSize
    BY <1>1, TimesMonotone
  <2> QED BY <2>2, <2>3, <2>4, <1>1, <1>2
<1>4. WritePosition = (used - 1) * BlockSize + writeOffset /\ WritePosition \in Nat
  BY <1>1, ContentEnds DEF WritePosition
<1>5. b = used => WritePosition = base + writeOffset
  BY <1>2, <1>4
<1>6. b < used => base + BlockSize < WritePosition
  <2>1. b < used => b * BlockSize <= (used - 1) * BlockSize
    BY <1>1, TimesMonotone
  <2>2. (used - 1) * BlockSize \in Int
    BY <1>1
  <2> QED BY <2>1, <2>2, <1>1, <1>3, <1>4
<1>7. PICK begin : begin = PieceBegin(b)
  OBVIOUS
<1>8. PICK end : end = PieceEnd(b)
  OBVIOUS
<1>9. b = 1 => base = 0
  BY <1>1, <1>2
<1>10. begin = base + (IF b = 1 THEN readOffset ELSE 0)
  BY <1>1, <1>2, <1>3, <1>7, <1>9 DEF PieceBegin
<1>11. end = base + (IF b = used THEN writeOffset ELSE BlockSize)
  BY <1>1, <1>3, <1>5, <1>8 DEF PieceEnd
<1>12. begin \in Nat /\ end \in Nat /\ end - begin \in Nat \ {0} /\ end <= WritePosition
  BY <1>1, <1>3, <1>4, <1>5, <1>6, <1>9, <1>10, <1>11
<1>13. b > 1 => begin = PieceEnd(b - 1)
  BY <1>1, <1>2, <1>7 DEF PieceBegin, PieceEnd
<1>14. ASSUME NEW i \in 1..(end - begin)
       PROVE  blocks[b][(IF b = 1 THEN readOffset ELSE 0) + i - 1] = At(blocks, begin + i - 1)
  <2>1. PICK j : j = (IF b = 1 THEN readOffset ELSE 0) + i - 1
    OBVIOUS
  <2>2. j \in Nat /\ j < BlockSize /\ begin + i - 1 = base + j
    BY <2>1, <1>1, <1>3, <1>10, <1>11, <1>12
  <2>3. PICK p : p = base + j
    OBVIOUS
  <2>4. PICK q : q = b - 1
    OBVIOUS
  <2>5. p \in Nat /\ q \in Int /\ b = q + 1 /\ p = q * BlockSize + j
    BY <2>2, <2>3, <2>4, <1>2, <1>3
  <2>6. p \div BlockSize = q /\ p % BlockSize = j
    BY <2>2, <2>5, <1>1, DivUnique
  <2>7. At(blocks, p) = blocks[b][j]
    BY <2>5, <2>6 DEF At
  <2> QED BY <2>1, <2>2, <2>3, <2>7
<1>15. Piece(b) = [i \in 1..(end - begin) |-> At(blocks, begin + i - 1)]
  <2>1. (IF b = used THEN writeOffset ELSE BlockSize) - (IF b = 1 THEN readOffset ELSE 0)
          = end - begin
    BY <1>1, <1>3, <1>10, <1>11
  <2> QED BY <2>1, <1>14 DEF Piece
<1> QED BY <1>7, <1>8, <1>12, <1>13, <1>15 DEF Stretch

\* The descriptors together cover one stretch.
LEMMA DataIsStretch ==
  ASSUME Bookkeeping, used > 0
  PROVE  Data = Stretch(blocks, readOffset, PieceEnd(Described) - readOffset)
<1>1. /\ used \in Nat /\ readOffset \in Nat /\ blocks \in Seq(Block)
      /\ MaxBuffers \in Nat \ {0}
  BY SizeAssumption DEF Bookkeeping, TypeOK
<1>2. PICK count : count = Described
  OBVIOUS
<1>3. count \in Nat \ {0} /\ count <= used
  BY <1>1, <1>2 DEF Described, MinOf
<1>4. PICK pieces : pieces = [b \in 1..count |-> Piece(b)]
  OBVIOUS
<1>5. Len(pieces) = count /\ \A b \in 1..count : pieces[b] = Piece(b)
  BY <1>3, <1>4
<1> DEFINE upTo(b) == Stretch(blocks, readOffset, PieceEnd(b) - readOffset)
<1>6. PICK g : g = [b \in 1..count |-> upTo(b)]
  OBVIOUS
<1>7. ASSUME NEW b \in 1..count
      PROVE  g[b] = IF b = 1 THEN pieces[b] ELSE g[b-1] \o pieces[b]
  <2>1. b \in 1..used
    BY <1>1, <1>3
  <2>2. CASE b = 1
    <3>1. PieceBegin(b) = readOffset
      BY <2>2 DEF PieceBegin
    <3>2. Piece(b) = upTo(b)
      BY <2>1, <3>1, PieceIs
    <3> QED BY <3>2, <2>2, <1>5, <1>6
  <2>3. CASE b # 1
    <3>1. b - 1 \in 1..count /\ b - 1 \in 1..used /\ b > 1
      BY <2>1, <2>3, <1>1, <1>3
    <3>2. PICK mid : mid = PieceEnd(b - 1)
      OBVIOUS
    <3>3. PICK end : end = PieceEnd(b)
      OBVIOUS
    <3>4. /\ PieceBegin(b) = mid /\ end - mid \in Nat /\ end \in Nat /\ end <= WritePosition
          /\ Piece(b) = Stretch(blocks, mid, end - mid)
      BY <2>1, <3>1, <3>2, <3>3, PieceIs
    <3>5. mid \in Nat /\ readOffset <= mid
      <4>1. PieceEnd(b - 1) \in Nat /\ PieceBegin(b - 1) \in Nat
            /\ PieceEnd(b - 1) - PieceBegin(b - 1) \in Nat \ {0}
        BY <3>1, PieceIs
      <4>2. readOffset <= PieceBegin(b - 1)
        <5>1. CASE b - 1 = 1
          BY <5>1, <1>1 DEF PieceBegin
        <5>2. CASE b - 1 # 1
          <6>1. b - 1 - 1 >= 1 /\ b - 1 - 1 \in Int /\ BlockSize \in Nat \ {0}
            BY <5>2, <3>1, Blocks
          <6>2. 1 * BlockSize <= (b - 1 - 1) * BlockSize
            BY <6>1, TimesMonotone
          <6>3. readOffset < BlockSize
            BY <1>1 DEF Bookkeeping, OffsetsConsistent
          <6> QED BY <6>1, <6>2, <6>3, <5>2, <4>1, <1>1 DEF PieceBegin
        <5> QED BY <5>1, <5>2
      <4> QED BY <3>2, <4>1, <4>2, <1>1
    <3>6. end <= Len(blocks) * BlockSize
      <4>1. WritePosition <= Len(blocks) * BlockSize /\ WritePosition \in Nat
        <5>1. Len(blocks) * BlockSize \in Int /\ used * BlockSize \in Int
              /\ used * BlockSize <= Len(blocks) * BlockSize
          <6>1. Len(blocks) \in Nat /\ BlockSize \in Nat /\ used <= Len(blocks)
            BY <1>1, BlocksAre, Blocks DEF Bookkeeping, OffsetsConsistent
          <6> QED BY <6>1, <1>1, TimesMonotone
        <5>2. TailRoom \in Nat
          BY PrepareBounds, SizeAssumption
        <5>3. WritePosition \in Nat /\ WritePosition + TailRoom = used * BlockSize
          BY ContentEnds
        <5> QED BY <5>1, <5>2, <5>3
      <4>2. Len(blocks) * BlockSize \in Int
        BY <1>1, BlocksAre, Blocks
      <4> QED BY <4>1, <4>2, <3>4
    <3>7. /\ mid - readOffset \in Nat /\ readOffset + (mid - readOffset) = mid
          /\ (mid - readOffset) + (end - mid) = end - readOffset
          /\ readOffset + (mid - readOffset) + (end - mid) = end
      BY <3>4, <3>5, <1>1
    <3>8. Stretch(blocks, readOffset, mid - readOffset) \o Stretch(blocks, mid, end - mid)
            = Stretch(blocks, readOffset, end - readOffset)
      <4>1. PICK m : m = mid - readOffset
        OBVIOUS
      <4>2. PICK n : n = end - mid
        OBVIOUS
      <4>3. /\ m \in Nat /\ n \in Nat /\ readOffset + m = mid /\ m + n = end - readOffset
            /\ readOffset + m + n <= Len(blocks) * BlockSize
        BY <3>4, <3>6, <3>7, <4>1, <4>2
      <4>4. Stretch(blocks, readOffset, m) \o Stretch(blocks, readOffset + m, n)
              = Stretch(blocks, readOffset, m + n)
        BY <4>3, <1>1, StretchesJoin
      <4> QED BY <4>1, <4>2, <4>3, <4>4
    <3>9. g[b - 1] = Stretch(blocks, readOffset, mid - readOffset)
          /\ g[b] = Stretch(blocks, readOffset, end - readOffset)
      BY <3>1, <3>2, <3>3, <1>6
    <3> QED BY <2>3, <3>4, <3>8, <3>9, <1>5
  <2> QED BY <2>2, <2>3
<1>8. Flattens(g, pieces)
  <2>1. g = [b \in 1..count |-> g[b]]
    BY <1>6
  <2> QED BY <2>1, <1>5, <1>7 DEF Flattens
<1>9. FlattenSeq(pieces) = g[count]
  BY <1>3, <1>5, <1>8, FlattenIs
<1>10. Data = FlattenSeq(pieces)
  BY <1>2, <1>4, DataIs
<1>11. g[count] = upTo(count)
  BY <1>3, <1>6
<1> QED BY <1>2, <1>9, <1>10, <1>11

\* data() describes a prefix of the content.
LEMMA BookkeepingData == Bookkeeping => DataIsPrefix
<1> SUFFICES ASSUME Bookkeeping, pc = "idle"
             PROVE  /\ IsPrefix(Data, Content)
                    /\ used <= MaxBuffers => Data = Content
                    /\ size > 0 => Data # <<>>
  BY DEF DataIsPrefix
<1>1. /\ used \in Nat /\ readOffset \in Nat /\ size \in Nat /\ blocks \in Seq(Block)
      /\ MaxBuffers \in Nat \ {0} /\ Len(blocks) \in Nat /\ BlockSize \in Nat
  BY SizeAssumption, BlocksAre, Blocks DEF Bookkeeping, TypeOK
<1>2. Skip = readOffset
  BY <1>1 DEF Skip
<1>3. /\ readOffset + size = WritePosition /\ WritePosition \in Nat
      /\ readOffset + size <= Len(blocks) * BlockSize
  BY <1>2, <1>1, ContentEnds
<1>4. Content = Stretch(blocks, readOffset, size)
  BY <1>2, ContentIs
<1>5. CASE used = 0
  <2>1. size = 0
    BY <1>5, <1>1 DEF Bookkeeping, OffsetsConsistent, Span
  <2>2. Described = 0
    BY <1>5, <1>1 DEF Described, MinOf
  <2>3. Data = <<>>
    <3>1. PICK none : none = [b \in 1..Described |-> Piece(b)]
      OBVIOUS
    <3>2. none = <<>> /\ Len(none) = 0
      BY <2>2, <3>1
    <3>3. FlattenSeq(none) = none
      BY <3>2 DEF FlattenSeq
    <3> QED BY <3>1, <3>2, <3>3, DataIs
  <2>4. Content = <<>>
    BY <2>1, <1>4 DEF Stretch
  <2>5. IsPrefix(<<>>, <<>>)
    BY DEF IsPrefix
  <2> QED BY <2>1, <2>3, <2>4, <2>5
<1>6. CASE used > 0
  <2>1. PICK n : n = PieceEnd(Described) - readOffset
    OBVIOUS
  <2>2. Described \in 1..used /\ (used <= MaxBuffers => Described = used)
    BY <1>1, <1>6 DEF Described, MinOf
  <2>3. n \in Nat \ {0} /\ n <= size
    <3>1. /\ PieceBegin(Described) \in Nat /\ PieceEnd(Described) \in Nat
          /\ PieceEnd(Described) - PieceBegin(Described) \in Nat \ {0}
          /\ PieceEnd(Described) <= WritePosition
      BY <2>2, PieceIs
    <3>2. readOffset <= PieceBegin(Described)
      <4>1. CASE Described = 1
        BY <4>1, <1>1 DEF PieceBegin
      <4>2. CASE Described # 1
        <5>1. Described - 1 >= 1 /\ Described - 1 \in Int
          BY <4>2, <2>2, <1>1
        <5>2. 1 * BlockSize <= (Described - 1) * BlockSize
          BY <5>1, <1>1, TimesMonotone
        <5>3. readOffset < BlockSize
          BY <1>1, <1>6 DEF Bookkeeping, OffsetsConsistent
        <5> QED BY <5>1, <5>2, <5>3, <4>2, <3>1, <1>1 DEF PieceBegin
      <4> QED BY <4>1, <4>2
    <3> QED BY <2>1, <3>1, <3>2, <1>1, <1>3
  <2>4. used <= MaxBuffers => n = size
    BY <2>1, <2>2, <1>1, <1>3 DEF PieceEnd
  <2>5. Data = Stretch(blocks, readOffset, n)
    BY <2>1, <1>6, DataIsStretch
  <2>6. PICK c : c = Content
    OBVIOUS
  <2>7. PICK d : d = Data
    OBVIOUS
  <2>8. c \in Seq(Byte) /\ Len(c) = size /\ \A i \in 1..size : c[i] = At(blocks, readOffset + i - 1)
    BY <2>6, <1>1, <1>3, <1>4, StretchIs
  <2>9. d \in Seq(Byte) /\ Len(d) = n /\ \A i \in 1..n : d[i] = At(blocks, readOffset + i - 1)
    <3>1. readOffset + n <= Len(blocks) * BlockSize
      <4>1. Len(blocks) * BlockSize \in Int
        BY <1>1
      <4> QED BY <4>1, <2>3, <1>1, <1>3
    <3> QED BY <3>1, <2>3, <2>5, <2>7, <1>1, StretchIs
  <2>10. \A i \in 1..n : c[i] = d[i]
    BY <2>3, <2>8, <2>9, <1>1
  <2>11. SubSeq(c, 1, n) = d /\ SubSeq(d, 1, n) = d
    <3>1. SubSeq(d, 1, n) = d
      BY <2>9, SubSeqFull
    <3>2. \A i \in 1..n : c[i] \in Byte
      BY <2>3, <2>8, <1>1, ElementOfSeq
    <3>3. 1 \in Int /\ n \in Int
      BY <2>3
    <3>4. /\ SubSeq(c, 1, n) \in Seq(Byte)
          /\ Len(SubSeq(c, 1, n)) = IF 1 <= n THEN n - 1 + 1 ELSE 0
          /\ \A i \in 1 .. n - 1 + 1 : SubSeq(c, 1, n)[i] = c[1 + i - 1]
      BY <3>2, <3>3, SubSeqProperties
    <3>5. Len(SubSeq(c, 1, n)) = n /\ \A i \in 1..n : SubSeq(c, 1, n)[i] = d[i]
      BY <3>4, <2>3, <2>10
    <3> QED BY <3>1, <3>4, <3>5, <2>9, SeqEqual
  <2>12. IsPrefix(d, c)
    BY <2>3, <2>8, <2>9, <2>11 DEF IsPrefix
  <2>13. d # <<>>
    BY <2>3, <2>9
  <2> QED BY <2>4, <2>5, <2>6, <2>7, <2>12, <2>13, <1>4
<1> QED BY <1>1, <1>5, <1>6

\* The bookkeeping of dynamic_buffer and what data() hands to the socket, for
\* every limit, every block size and every number of descriptors.
THEOREM BufferInvariant == Spec => []BufferInv
<1>1. Spec => []Bookkeeping
  BY InitBookkeeping, NextBookkeeping, PTL DEF Spec
<1>2. Bookkeeping => BufferInv
  BY BookkeepingData DEF Bookkeeping, BufferInv
<1> QED BY <1>1, <1>2, PTL

-----------------------------------------------------------------------------
(* The wire format: bytes and their bits.                                  *)

Octet == {n \in Nat : n < 256}

\* The bits of a byte, the least significant first, and the byte they make.
Bits == [0..7 -> {0, 1}]
FromBits(f) ==
  f[0] + 2 * f[1] + 4 * f[2] + 8 * f[3] + 16 * f[4] + 32 * f[5] + 64 * f[6] + 128 * f[7]

LEMMA BitsOf ==
  ASSUME NEW a \in 0..255
  PROVE  \E f \in Bits : a = FromBits(f)
<1> DEFINE b(w) == (a \div w) % 2
           f == [i \in 0..7 |-> CASE i = 0 -> b(1) [] i = 1 -> b(2) [] i = 2 -> b(4) [] i = 3 -> b(8)
                                  [] i = 4 -> b(16) [] i = 5 -> b(32) [] i = 6 -> b(64) [] i = 7 -> b(128)]
<1>1. /\ b(1) \in 0..1 /\ b(2) \in 0..1 /\ b(4) \in 0..1 /\ b(8) \in 0..1
      /\ b(16) \in 0..1 /\ b(32) \in 0..1 /\ b(64) \in 0..1 /\ b(128) \in 0..1
  BY SMT
<1>2. a = b(1) + 2 * b(2) + 4 * b(4) + 8 * b(8) + 16 * b(16) + 32 * b(32) + 64 * b(64) + 128 * b(128)
  BY SMT
<1> HIDE DEF b
<1>3. /\ f[0] = b(1) /\ f[1] = b(2) /\ f[2] = b(4) /\ f[3] = b(8) 
      /\ f[4] = b(16) /\ f[5] = b(32) /\ f[6] = b(64) /\ f[7] = b(128)
  OBVIOUS
<1>4. f \in Bits
  BY <1>1, SMT DEF Bits
<1>5. a = FromBits(f)
  <2> HIDE DEF f
  <2> QED BY <1>2, <1>3, SMT DEF FromBits
<1> QED BY <1>4, <1>5

LEMMA BitAt ==
  ASSUME NEW f \in Bits
  PROVE  LET a == FromBits(f)
         IN  /\ (a \div 1) % 2 = f[0] /\ (a \div 2) % 2 = f[1] /\ (a \div 4) % 2 = f[2]
             /\ (a \div 8) % 2 = f[3] /\ (a \div 16) % 2 = f[4] /\ (a \div 32) % 2 = f[5]
             /\ (a \div 64) % 2 = f[6] /\ (a \div 128) % 2 = f[7]
<1>1. /\ f[0] \in 0..1 /\ f[1] \in 0..1 /\ f[2] \in 0..1 /\ f[3] \in 0..1
      /\ f[4] \in 0..1 /\ f[5] \in 0..1 /\ f[6] \in 0..1 /\ f[7] \in 0..1
  BY DEF Bits
<1> QED BY <1>1, SMT DEF FromBits

\* The bits of an exclusive or.
XorBits(f, g) == [i \in 0..7 |-> IF f[i] = g[i] THEN 0 ELSE 1]

LEMMA XorIs ==
  ASSUME NEW f \in Bits, NEW g \in Bits
  PROVE  Xor(FromBits(f), FromBits(g)) = FromBits(XorBits(f, g))
<1> PICK a : a = FromBits(f)
  OBVIOUS
<1> PICK b : b = FromBits(g)
  OBVIOUS
<1>1. /\ (a \div 1) % 2 = f[0] /\ (a \div 2) % 2 = f[1] /\ (a \div 4) % 2 = f[2]
      /\ (a \div 8) % 2 = f[3] /\ (a \div 16) % 2 = f[4] /\ (a \div 32) % 2 = f[5]
      /\ (a \div 64) % 2 = f[6] /\ (a \div 128) % 2 = f[7]
  BY BitAt, Zenon
<1>2. /\ (b \div 1) % 2 = g[0] /\ (b \div 2) % 2 = g[1] /\ (b \div 4) % 2 = g[2]
      /\ (b \div 8) % 2 = g[3] /\ (b \div 16) % 2 = g[4] /\ (b \div 32) % 2 = g[5]
      /\ (b \div 64) % 2 = g[6] /\ (b \div 128) % 2 = g[7]
  BY BitAt, Zenon
<1> DEFINE x(i, w) == IF f[i] = g[i] THEN 0 ELSE w
<1>3. Xor(a, b) = x(0, 1) + x(1, 2) + x(2, 4) + x(3, 8) + x(4, 16) + x(5, 32) + x(6, 64) + x(7, 128)
  <2>1. /\ XorBit(a, b, 1) = x(0, 1) /\ XorBit(a, b, 2) = x(1, 2)
        /\ XorBit(a, b, 4) = x(2, 4) /\ XorBit(a, b, 8) = x(3, 8)
        /\ XorBit(a, b, 16) = x(4, 16) /\ XorBit(a, b, 32) = x(5, 32)
        /\ XorBit(a, b, 64) = x(6, 64) /\ XorBit(a, b, 128) = x(7, 128)
    BY <1>1, <1>2 DEF XorBit
  <2> QED BY <2>1, Zenon DEF Xor
<1>4. \A i \in 0..7 : XorBits(f, g)[i] = x(i, 1)
  BY DEF XorBits
<1>5. FromBits(XorBits(f, g)) = x(0, 1) + 2 * x(1, 1) + 4 * x(2, 1) + 8 * x(3, 1) + 16 * x(4, 1)
                                + 32 * x(5, 1) + 64 * x(6, 1) + 128 * x(7, 1)
  <2> HIDE DEF x
  <2> QED BY <1>4, SMT DEF FromBits
<1>6. FromBits(XorBits(f, g)) = Xor(a, b)
  BY ONLY <1>3, <1>5, SMT
<1> QED BY <1>6

\* Masking twice with the same key gives the byte back.
LEMMA XorInvolution ==
  ASSUME NEW a \in 0..255, NEW b \in 0..255
  PROVE  Xor(Xor(a, b), b) = a
<1>1. PICK f \in Bits : a = FromBits(f)
  BY BitsOf
<1>2. PICK g \in Bits : b = FromBits(g)
  BY BitsOf
<1>3. XorBits(f, g) \in Bits /\ XorBits(XorBits(f, g), g) = f
  BY DEF XorBits, Bits
<1>4. Xor(a, b) = FromBits(XorBits(f, g))
  BY <1>1, <1>2, XorIs
<1>5. Xor(FromBits(XorBits(f, g)), FromBits(g)) = FromBits(XorBits(XorBits(f, g), g))
  BY <1>3, XorIs
<1> QED BY <1>1, <1>2, <1>3, <1>4, <1>5

\* An exclusive or of bytes is a byte.
LEMMA XorByte ==
  ASSUME NEW a \in 0..255, NEW b \in 0..255
  PROVE  Xor(a, b) \in Octet
<1>1. PICK f \in Bits : a = FromBits(f)
  BY BitsOf
<1>2. PICK g \in Bits : b = FromBits(g)
  BY BitsOf
<1>3. PICK x \in Bits : Xor(a, b) = FromBits(x)
  <2>1. XorBits(f, g) \in Bits
    BY DEF XorBits, Bits
  <2> QED BY <2>1, <1>1, <1>2, XorIs
<1>4. /\ x[0] \in 0..1 /\ x[1] \in 0..1 /\ x[2] \in 0..1 /\ x[3] \in 0..1
      /\ x[4] \in 0..1 /\ x[5] \in 0..1 /\ x[6] \in 0..1 /\ x[7] \in 0..1
  BY DEF Bits
<1> QED BY <1>3, <1>4, SMT DEF FromBits, Octet

-----------------------------------------------------------------------------
(* Words and their bytes.                                                  *)

Word == {v \in Nat : v < 4294967296}

LEMMA WordBytes ==
  ASSUME NEW v \in Word, NEW b, b = LittleEndian(v, 4)
  PROVE  b \in [1..4 -> Octet] /\ v = WordOf(b[1], b[2], b[3], b[4])
<1>1. /\ Weight[1] = 1 /\ Weight[2] = 256 /\ Weight[3] = 65536 /\ Weight[4] = 16777216
  BY SMT DEF Weight
<1>2. b = [i \in 1..4 |-> (v \div Weight[i]) % 256]
  BY DEF LittleEndian
<1>3. /\ b[1] = (v \div 1) % 256 /\ b[2] = (v \div 256) % 256
      /\ b[3] = (v \div 65536) % 256 /\ b[4] = (v \div 16777216) % 256
  BY <1>1, <1>2, SMT
<1>4. v = WordOf(b[1], b[2], b[3], b[4])
  BY ONLY <1>3, v \in Word, SMT DEF Word, WordOf
<1>5. b[1] \in Octet /\ b[2] \in Octet /\ b[3] \in Octet /\ b[4] \in Octet
  BY ONLY <1>3, v \in Word, SMT DEF Word, Octet
<1>6. b \in [1..4 -> Octet]
  BY <1>2, <1>5, SMT
<1> QED BY <1>4, <1>6

\* What a header word says.
Signo == {v \in Nat : v < 1048576}

SignoOf(b) == (b[3] % 16) * 65536 + b[2] * 256 + b[1]
InlineOf(b) == (b[4] % 16) * 16 + (b[3] \div 16)

LEMMA Nibbles ==
  \A x \in Octet : \E h, l \in 0..15 : x = h * 16 + l
<1> SUFFICES ASSUME NEW x \in Nat, x < 256 PROVE \E h, l \in 0..15 : x = h * 16 + l
  BY DEF Octet
<1>1. x \div 16 \in 0..15 /\ x % 16 \in 0..15 /\ x = (x \div 16) * 16 + (x % 16)
  BY SMT
<1> QED BY <1>1

LEMMA FirstWordFields ==
  ASSUME NEW signo \in Signo, NEW len \in Octet, NEW type \in {1, 2},
         NEW b, b = LittleEndian(FirstWord(signo, len, type), 4)
  PROVE  /\ b \in [1..4 -> Octet]
         /\ b[4] \div 16 = type
         /\ SignoOf(b) = signo
         /\ InlineOf(b) = len
<1>1. PICK v : v = FirstWord(signo, len, type)
  OBVIOUS
<1>2. v \in Word
  BY <1>1, SMT DEF FirstWord, Word, Signo, Octet
<1>3. b \in [1..4 -> Octet] /\ v = WordOf(b[1], b[2], b[3], b[4])
  BY <1>1, <1>2, WordBytes
<1>4. b[1] \in Octet /\ b[2] \in Octet /\ b[3] \in Octet /\ b[4] \in Octet
  BY <1>3
<1>5. PICK h3 \in 0..15, l3 \in 0..15 : b[3] = h3 * 16 + l3
  BY <1>4, Nibbles, Zenon
<1>6. PICK h4 \in 0..15, l4 \in 0..15 : b[4] = h4 * 16 + l4
  BY <1>4, Nibbles, Zenon
<1>7. h4 = type /\ l4 * 16 + h3 = len /\ l3 * 65536 + b[2] * 256 + b[1] = signo
  <2>1. PICK b1, b2 : b1 = b[1] /\ b2 = b[2]
    OBVIOUS
  <2>2. /\ b1 \in Int /\ b2 \in Int /\ l3 \in Int /\ h3 \in Int /\ l4 \in Int /\ h4 \in Int
        /\ 0 <= b1 /\ b1 < 256 /\ 0 <= b2 /\ b2 < 256 /\ 0 <= l3 /\ l3 < 16
        /\ 0 <= h3 /\ h3 < 16 /\ 0 <= l4 /\ l4 < 16 /\ 0 <= h4 /\ h4 < 16
    BY <2>1, <1>4, <1>5, <1>6, SMT DEF Octet
  <2>3. v = b1 + b2 * 256 + (h3 * 16 + l3) * 65536 + (h4 * 16 + l4) * 16777216
    BY <2>1, <1>3, <1>5, <1>6, SMT DEF WordOf
  <2>4. v = signo + len * 1048576 + type * 268435456
    BY <1>1, SMT DEF FirstWord
  <2>5. /\ signo \in Int /\ len \in Int /\ type \in Int
        /\ 0 <= signo /\ signo < 1048576 /\ 0 <= len /\ len < 256 /\ 0 <= type /\ type < 16
    BY SMT DEF Signo, Octet
  <2>6. h4 = type /\ l4 * 16 + h3 = len /\ l3 * 65536 + b2 * 256 + b1 = signo
    BY ONLY <2>2, <2>3, <2>4, <2>5, SMT
  <2> QED BY <2>1, <2>6
<1>8. b[4] \div 16 = h4 /\ b[4] % 16 = l4 /\ b[3] \div 16 = h3 /\ b[3] % 16 = l3
  BY <1>5, <1>6, SMT
<1> QED BY <1>3, <1>7, <1>8, SMT DEF SignoOf, InlineOf

-----------------------------------------------------------------------------
(* The packet header.                                                      *)

\* The packets that have a representation: an empty payload has none, as a
\* size field of zero announces the second word.
PayloadSize == {n \in Nat : 1 <= n /\ n <= 1073741824}
SentPacket == [signo : Signo, type : {DATA, METADATA}, size : PayloadSize]

HeaderLen(p) == IF p.size < 256 THEN 4 ELSE 8

LEMMA SentIs ==
  ASSUME NEW p \in SentPacket
  PROVE  /\ p.signo \in Signo /\ p.type \in {1, 2}
         /\ p.size \in PayloadSize /\ p.size \in Nat /\ p.size >= 1
         /\ p = [signo |-> p.signo, type |-> p.type, size |-> p.size]
         /\ HeaderLen(p) \in {4, 8}
  BY SMT DEF SentPacket, DATA, METADATA, HeaderLen, PayloadSize

\* A function on 1..n is a sequence.
LEMMA FunctionIsSeq ==
  ASSUME NEW S, NEW n \in Nat, NEW b \in [1..n -> S]
  PROVE  b \in Seq(S) /\ Len(b) = n
  BY SMT

LEMMA HeaderIs ==
  ASSUME NEW p \in SentPacket, NEW h, h = PacketHeader(p)
  PROVE  /\ h \in Seq(Octet)
         /\ Len(h) = HeaderLen(p)
         /\ p.size < 256 => h = LittleEndian(FirstWord(p.signo, p.size, p.type), 4)
         /\ p.size >= 256 =>
              LET first  == LittleEndian(FirstWord(p.signo, 0, p.type), 4)
                  second == LittleEndian(p.size, 4)
              IN  /\ \A i \in 1..4 : h[i] = first[i]
                  /\ \A i \in 1..4 : h[4 + i] = second[i]
<1>1. CASE p.size < 256
  <2>1. h = LittleEndian(FirstWord(p.signo, p.size, p.type), 4)
    BY <1>1 DEF PacketHeader
  <2>2. p.size \in Octet
    BY <1>1, SentIs, SMT DEF Octet
  <2>3. h \in [1..4 -> Octet]
    BY <2>1, <2>2, SentIs, FirstWordFields
  <2>4. h \in Seq(Octet) /\ Len(h) = 4
    BY <2>3, FunctionIsSeq
  <2> QED BY <1>1, <2>1, <2>4, SentIs, SMT DEF HeaderLen
<1>2. CASE p.size >= 256
  <2>1. PICK a : a = LittleEndian(FirstWord(p.signo, 0, p.type), 4)
    OBVIOUS
  <2>2. PICK b : b = LittleEndian(p.size, 4)
    OBVIOUS
  <2>3. h = a \o b
    BY <1>2, <2>1, <2>2, SentIs, SMT DEF PacketHeader
  <2>4. a \in [1..4 -> Octet]
    <3>1. 0 \in Octet
      BY SMT DEF Octet
    <3> QED BY <3>1, <2>1, SentIs, FirstWordFields
  <2>5. b \in [1..4 -> Octet]
    <3>1. p.size \in Word
      BY SentIs, SMT DEF Word, PayloadSize
    <3> QED BY <3>1, <2>2, WordBytes
  <2>6. a \in Seq(Octet) /\ b \in Seq(Octet) /\ Len(a) = 4 /\ Len(b) = 4
    BY <2>4, <2>5, FunctionIsSeq
  <2>7. /\ h \in Seq(Octet) /\ Len(h) = 8
        /\ \A i \in 1..8 : h[i] = IF i <= 4 THEN a[i] ELSE b[i - 4]
    <3>1. /\ a \o b \in Seq(Octet) /\ Len(a \o b) = Len(a) + Len(b)
          /\ \A i \in 1..(Len(a) + Len(b)) :
               (a \o b)[i] = IF i <= Len(a) THEN a[i] ELSE b[i - Len(a)]
      BY <2>6, ConcatProperties
    <3> QED BY <3>1, <2>3, <2>6, SMT
  <2>8. \A i \in 1..4 : h[i] = a[i] /\ h[4 + i] = b[i]
    BY <2>7
  <2> QED BY <1>2, <2>1, <2>2, <2>7, <2>8, SentIs, SMT DEF HeaderLen
<1> QED BY <1>1, <1>2, SentIs, SMT

\* What the decoder finds in the bytes of a header.
Found(p) ==
  [header |-> HeaderLen(p), payload |-> p.size, fields |-> [signo |-> p.signo, type |-> p.type]]

\* decode_header reads back what generate_header wrote, once the payload is
\* there, and nothing before.
LEMMA HeaderDecodes ==
  ASSUME NEW p \in SentPacket, NEW bs, \A i \in 1..HeaderLen(p) : bs[i] = PacketHeader(p)[i],
         NEW n \in Nat
  PROVE  DecodePacketHeader(bs, n) = IF n >= HeaderLen(p) + p.size THEN Found(p) ELSE Incomplete
<1>1. PICK h : h = PacketHeader(p)
  OBVIOUS
<1>2. /\ h \in Seq(Octet)
      /\ Len(h) = HeaderLen(p)
      /\ p.size < 256 => h = LittleEndian(FirstWord(p.signo, p.size, p.type), 4)
      /\ p.size >= 256 => /\ \A i \in 1..4 : h[i] = LittleEndian(FirstWord(p.signo, 0, p.type), 4)[i]
                          /\ \A i \in 1..4 : h[4 + i] = LittleEndian(p.size, 4)[i]
  BY <1>1, HeaderIs, Zenon
<1>3. /\ p.signo \in Signo /\ p.type \in {1, 2}
      /\ p.size \in PayloadSize /\ p.size \in Nat /\ p.size >= 1
  BY SentIs
<1>4. CASE p.size < 256
  <2>1. p.size \in Octet
    BY <1>3, <1>4, SMT DEF Octet
  <2>2. h[4] \div 16 = p.type /\ SignoOf(h) = p.signo /\ InlineOf(h) = p.size
    BY <1>2, <1>3, <1>4, <2>1, FirstWordFields
  <2>3. HeaderLen(p) = 4 /\ bs[1] = h[1] /\ bs[2] = h[2] /\ bs[3] = h[3] /\ bs[4] = h[4]
    BY <1>1, <1>4 DEF HeaderLen
  <2>4. /\ bs[4] \div 16 = p.type
        /\ (bs[3] % 16) * 65536 + bs[2] * 256 + bs[1] = p.signo
        /\ (bs[4] % 16) * 16 + (bs[3] \div 16) = p.size
    BY <2>2, <2>3, SMT DEF SignoOf, InlineOf
  <2>5. DecodePacketHeader(bs, n) =
          IF n < 4 THEN Incomplete
          ELSE Complete([signo |-> p.signo, type |-> p.type], 4, p.size, n)
    BY <2>4, <1>3, SMT DEF DecodePacketHeader
  <2> QED BY <2>3, <2>5, <1>3, SMT DEF Complete, Found
<1>5. CASE p.size >= 256
  <2>1. PICK a : a = LittleEndian(FirstWord(p.signo, 0, p.type), 4)
    OBVIOUS
  <2>2. PICK b : b = LittleEndian(p.size, 4)
    OBVIOUS
  <2>3. a[4] \div 16 = p.type /\ SignoOf(a) = p.signo /\ InlineOf(a) = 0
    <3>1. 0 \in Octet
      BY SMT DEF Octet
    <3> QED BY <3>1, <2>1, <1>3, FirstWordFields
  <2>4. p.size = WordOf(b[1], b[2], b[3], b[4])
    <3>1. p.size \in Word
      BY <1>3, SMT DEF Word, PayloadSize
    <3> QED BY <3>1, <2>2, WordBytes
  <2>5. b \in [1..4 -> Octet]
    <3>1. p.size \in Word
      BY <1>3, SMT DEF Word, PayloadSize
    <3> QED BY <3>1, <2>2, WordBytes
  <2>6. /\ HeaderLen(p) = 8
        /\ bs[1] = a[1] /\ bs[2] = a[2] /\ bs[3] = a[3] /\ bs[4] = a[4]
        /\ bs[5] = b[1] /\ bs[6] = b[2] /\ bs[7] = b[3] /\ bs[8] = b[4]
    <3>1. HeaderLen(p) = 8
      BY <1>5, <1>3, SMT DEF HeaderLen
    <3>2. \A i \in 1..8 : bs[i] = h[i]
      BY <3>1, <1>1
    <3>3. /\ \A i \in 1..4 : h[i] = a[i]
          /\ \A i \in 1..4 : h[4 + i] = b[i]
      BY <1>2, <1>5, <2>1, <2>2
    <3> QED BY <3>1, <3>2, <3>3
  <2>7. /\ bs[4] \div 16 = p.type
        /\ (bs[3] % 16) * 65536 + bs[2] * 256 + bs[1] = p.signo
        /\ (bs[4] % 16) * 16 + (bs[3] \div 16) = 0
    BY <2>3, <2>6, SMT DEF SignoOf, InlineOf
  <2>8. WordOf(bs[5], bs[6], bs[7], bs[8]) = p.size
    BY <2>4, <2>6, Zenon
  <2>9. DecodePacketHeader(bs, n) =
          IF n < 8 THEN Incomplete
          ELSE Complete([signo |-> p.signo, type |-> p.type], 8, p.size, n)
    BY <2>7, <2>8, <1>3, SMT DEF DecodePacketHeader
  <2> QED BY <2>6, <2>9, <1>3, SMT DEF Complete, Found
<1> QED BY <1>3, <1>4, <1>5, SMT

-----------------------------------------------------------------------------
(* The frame header.                                                       *)

Wide(len) == IF len <= 125 THEN 0 ELSE IF len <= 65535 THEN 2 ELSE 8
Short(len) == IF len <= 125 THEN len ELSE IF len <= 65535 THEN 126 ELSE 127

\* Two bytes, and the low four of eight, the most significant first.
LEMMA BigEndianTwo ==
  ASSUME NEW v \in Nat, v <= 65535, NEW b, b = BigEndian(v, 2)
  PROVE  b \in [1..2 -> Octet] /\ v = b[1] * 256 + b[2]
<1>1. Weight[1] = 1 /\ Weight[2] = 256
  BY SMT DEF Weight
<1>2. b = [i \in 1..2 |-> IF 2 - i > 3 THEN 0 ELSE (v \div Weight[2 - i + 1]) % 256]
  BY DEF BigEndian
<1>3. b[1] = (v \div 256) % 256 /\ b[2] = (v \div 1) % 256
  BY <1>1, <1>2, SMT
<1>4. b[1] \in Octet /\ b[2] \in Octet
  BY <1>3, SMT DEF Octet
<1>6. v = b[1] * 256 + b[2]
  BY ONLY <1>3, v \in Nat, v <= 65535, SMT
<1>5. b = [i \in 1..2 |-> b[i]]
  BY <1>2
<1> QED BY <1>4, <1>5, <1>6, SMT

LEMMA BigEndianEight ==
  ASSUME NEW v \in Word, NEW b, b = BigEndian(v, 8)
  PROVE  b \in [1..8 -> Octet] /\ v = WordOf(b[8], b[7], b[6], b[5])
<1>1. Weight[1] = 1 /\ Weight[2] = 256 /\ Weight[3] = 65536 /\ Weight[4] = 16777216
  BY SMT DEF Weight
<1>2. b = [i \in 1..8 |-> IF 8 - i > 3 THEN 0 ELSE (v \div Weight[8 - i + 1]) % 256]
  BY DEF BigEndian
<1>3. /\ b[1] = 0 /\ b[2] = 0 /\ b[3] = 0 /\ b[4] = 0
      /\ b[5] = (v \div 16777216) % 256 /\ b[6] = (v \div 65536) % 256
      /\ b[7] = (v \div 256) % 256 /\ b[8] = (v \div 1) % 256
  BY <1>1, <1>2, SMT
<1>4. v = WordOf(b[8], b[7], b[6], b[5])
  BY ONLY <1>3, v \in Word, SMT DEF Word, WordOf
<1>5. /\ b[1] \in Octet /\ b[2] \in Octet /\ b[3] \in Octet /\ b[4] \in Octet
      /\ b[5] \in Octet /\ b[6] \in Octet /\ b[7] \in Octet /\ b[8] \in Octet
  BY ONLY <1>3, v \in Word, SMT DEF Word, Octet
<1>6. b = [i \in 1..8 |-> b[i]]
  BY <1>2
<1> QED BY <1>4, <1>5, <1>6, SMT

\* One byte and a sequence after it.
LEMMA Prepend ==
  ASSUME NEW S, NEW x \in S, NEW s \in Seq(S), NEW f, f = <<x>> \o s
  PROVE  /\ f \in Seq(S) /\ Len(f) = 1 + Len(s) /\ f[1] = x
         /\ \A i \in 1..Len(s) : f[i + 1] = s[i]
  BY SMT

Follows(f, x, y, s) ==
  /\ Len(f) = 2 + Len(s) /\ f[1] = x /\ f[2] = y
  /\ \A i \in 1..Len(s) : f[i + 2] = s[i]

LEMMA PrependTwo ==
  ASSUME NEW S, NEW x \in S, NEW y \in S, NEW s \in Seq(S)
  PROVE  /\ <<x>> \o (<<y>> \o s) \in Seq(S)
         /\ Follows(<<x>> \o (<<y>> \o s), x, y, s)
<1> PICK f : f = <<x>> \o (<<y>> \o s)
  OBVIOUS
<1>1. PICK g : g = <<y>> \o s
  OBVIOUS
<1>2. /\ g \in Seq(S) /\ Len(g) = 1 + Len(s) /\ g[1] = y
      /\ \A i \in 1..Len(s) : g[i + 1] = s[i]
  BY <1>1, Prepend
<1>3. f = <<x>> \o g
  BY <1>1
<1>4. /\ f \in Seq(S) /\ Len(f) = 1 + Len(g) /\ f[1] = x
      /\ \A i \in 1..Len(g) : f[i + 1] = g[i]
  BY <1>2, <1>3, Prepend
<1>5. Len(s) \in Nat
  OBVIOUS
<1>6. Len(f) = 2 + Len(s) /\ f[2] = y
  BY <1>2, <1>4, <1>5, SMT
<1>7. ASSUME NEW i \in 1..Len(s) PROVE f[i + 2] = s[i]
  <2>1. i + 1 \in 1..Len(g) /\ (i + 1) + 1 = i + 2
    BY <1>2, <1>5, SMT
  <2> QED BY <2>1, <1>2, <1>4
<1> QED BY <1>4, <1>6, <1>7 DEF Follows

\* The opcode and flags of every packet, as one byte.
LEMMA FirstByte == BINARY + FIN = 130
  BY SMT DEF BINARY, FIN

LEMMA FrameIs ==
  ASSUME NEW len \in Word, NEW f, f = FrameHeader(BINARY, FIN, len)
  PROVE  /\ f \in Seq(Octet) /\ Len(f) = 2 + Wide(len)
         /\ f[1] = 130 /\ f[2] = Short(len)
         /\ Wide(len) = 2 => f[3] * 256 + f[4] = len
         /\ Wide(len) = 8 => WordOf(f[10], f[9], f[8], f[7]) = len
<1>1. len \in Nat
  BY SMT DEF Word
<1>2. 130 \in Octet /\ 126 \in Octet /\ 127 \in Octet
  BY SMT DEF Octet
<1>3. CASE len <= 125
  <2>1. f = <<130>> \o <<len>>
    BY <1>3, FirstByte, SMT DEF FrameHeader
  <2>2. len \in Octet
    BY <1>1, <1>3, SMT DEF Octet
  <2>3. <<len>> \in Seq(Octet) /\ Len(<<len>>) = 1 /\ <<len>>[1] = len
    BY <2>2
  <2>4. /\ f \in Seq(Octet) /\ Len(f) = 1 + Len(<<len>>) /\ f[1] = 130
        /\ \A i \in 1..Len(<<len>>) : f[i + 1] = <<len>>[i]
    BY <2>1, <2>3, <1>2, Prepend
  <2>5. Len(f) = 2 /\ f[2] = len
    BY <2>3, <2>4, SMT
  <2>6. Wide(len) = 0 /\ Short(len) = len
    BY <1>1, <1>3, SMT DEF Wide, Short
  <2> QED BY <2>4, <2>5, <2>6, SMT
<1>4. CASE len > 125 /\ len <= 65535
  <2>1. PICK b : b = BigEndian(len, 2)
    OBVIOUS
  <2>2. b \in [1..2 -> Octet] /\ len = b[1] * 256 + b[2]
    BY <2>1, <1>1, <1>4, BigEndianTwo, SMT
  <2>3. f = <<130>> \o (<<126>> \o b)
    BY <2>1, <1>1, <1>4, FirstByte, SMT DEF FrameHeader
  <2>4. b \in Seq(Octet) /\ Len(b) = 2
    BY <2>2, FunctionIsSeq
  <2>5. /\ f \in Seq(Octet) /\ Len(f) = 4
        /\ f[1] = 130 /\ f[2] = 126 /\ f[3] = b[1] /\ f[4] = b[2]
    <3>1. PICK x, y \in Octet : x = 130 /\ y = 126
      BY <1>2
    <3>2. f = <<x>> \o (<<y>> \o b)
      BY <3>1, <2>3
    <3>3. f \in Seq(Octet) /\ Len(f) = 2 + Len(b) /\ f[1] = x /\ f[2] = y /\ \A i \in 1..Len(b) : f[i + 2] = b[i]
      <4>1. f \in Seq(Octet) /\ Follows(f, x, y, b)
        BY <3>2, <2>4, PrependTwo
      <4> QED BY <4>1, Zenon DEF Follows
    <3>4. f[3] = b[1] /\ f[4] = b[2]
      BY <3>3, <2>4, SMT
    <3> QED BY <3>1, <3>3, <3>4, <2>4, SMT
  <2>6. Wide(len) = 2 /\ Short(len) = 126
    BY <1>1, <1>4, SMT DEF Wide, Short
  <2>7. f[3] * 256 + f[4] = len
    BY <2>2, <2>5, Zenon
  <2>8. Len(f) = 2 + Wide(len) /\ Wide(len) # 8
    BY <2>5, <2>6
  <2> QED BY <2>5, <2>6, <2>7, <2>8, Zenon
<1>5. CASE Wide(len) = 8
  <2>1. PICK b : b = BigEndian(len, 8)
    OBVIOUS
  <2>2. b \in [1..8 -> Octet] /\ len = WordOf(b[8], b[7], b[6], b[5])
    BY <2>1, BigEndianEight
  <2>3. f = <<130>> \o (<<127>> \o b)
    BY <2>1, <1>1, <1>5, FirstByte, SMT DEF FrameHeader, Wide
  <2>4. b \in Seq(Octet) /\ Len(b) = 8
    BY <2>2, FunctionIsSeq
  <2>5. /\ f \in Seq(Octet) /\ Len(f) = 10
        /\ f[1] = 130 /\ f[2] = 127
        /\ f[7] = b[5] /\ f[8] = b[6] /\ f[9] = b[7] /\ f[10] = b[8]
    <3>1. PICK x, y \in Octet : x = 130 /\ y = 127
      BY <1>2
    <3>2. f = <<x>> \o (<<y>> \o b)
      BY <3>1, <2>3
    <3>3. f \in Seq(Octet) /\ Len(f) = 2 + Len(b) /\ f[1] = x /\ f[2] = y /\ \A i \in 1..Len(b) : f[i + 2] = b[i]
      <4>1. f \in Seq(Octet) /\ Follows(f, x, y, b)
        BY <3>2, <2>4, PrependTwo
      <4> QED BY <4>1, Zenon DEF Follows
    <3>4. f[7] = b[5] /\ f[8] = b[6] /\ f[9] = b[7] /\ f[10] = b[8]
      BY <3>3, <2>4, SMT
    <3> QED BY <3>1, <3>3, <3>4, <2>4, SMT
  <2>6. Wide(len) = 8 /\ Short(len) = 127
    BY <1>1, <1>5, SMT DEF Wide, Short
  <2> QED BY <2>2, <2>5, <2>6, SMT
<1> QED BY <1>1, <1>3, <1>4, <1>5, SMT DEF Wide

\* What the decoder finds in the bytes of a frame header.
FrameLen(m, len) == 2 + Wide(len) + (IF m THEN 4 ELSE 0)
FrameFound(m, len, bs) ==
  [header |-> FrameLen(m, len), payload |-> len,
   fields |-> [opcode |-> 2, flags |-> 128, masked |-> m,
               key |-> SubSeq(bs, 3 + Wide(len), 6 + Wide(len))]]

\* The bytes start with the frame header of a payload, and the mask bit.
StartsFrame(m, len, bs) ==
  /\ \A i \in 1..(2 + Wide(len)) : bs[i] \in Nat
  /\ bs[1] = 130 /\ bs[2] = Short(len) + (IF m THEN 128 ELSE 0)
  /\ Wide(len) = 2 => bs[3] * 256 + bs[4] = len
  /\ Wide(len) = 8 => WordOf(bs[10], bs[9], bs[8], bs[7]) = len

\* websocket_protocol::decode_header reads back what generate_header wrote.
LEMMA FrameDecodes ==
  ASSUME NEW len \in Word, NEW m \in BOOLEAN, NEW bs, StartsFrame(m, len, bs), NEW n \in Nat
  PROVE  DecodeFrameHeader(bs, n) =
           IF n >= FrameLen(m, len) + len THEN FrameFound(m, len, bs) ELSE Incomplete
<1>1. len \in Nat
  BY SMT DEF Word
<1>2. Short(len) \in 0..127 /\ Wide(len) \in {0, 2, 8}
  BY <1>1, SMT DEF Short, Wide
<1>3. PICK short : short = bs[2] % 128
  OBVIOUS
<1>4. short = Short(len) /\ (bs[2] >= 128 <=> m)
  <2>1. \A x \in 0..127 : x % 128 = x /\ (x + 128) % 128 = x /\ ~(x >= 128) /\ x + 128 >= 128
    BY SMT
  <2>2. bs[2] = Short(len) + (IF m THEN 128 ELSE 0)
    BY DEF StartsFrame
  <2>3. CASE m
    BY <2>1, <2>2, <2>3, <1>2, <1>3
  <2>4. CASE ~m
    <3>1. bs[2] = Short(len) 
      BY <2>2, <2>4, <1>2, SMT
    <3> QED BY <2>1, <3>1, <2>4, <1>2, <1>3
  <2> QED BY <2>3, <2>4
<1>5. PICK wide : wide = SizeBytes(short)
  OBVIOUS
<1>6. wide = Wide(len)
  BY <1>1, <1>4, <1>5, SMT DEF Short, Wide, SizeBytes
<1>7. PICK sz : sz = SizeOf(bs, short)
  OBVIOUS
<1>8. sz = len
  <2>1. CASE short = 126
    <3>1. Wide(len) = 2
      BY <2>1, <1>1, <1>4, SMT DEF Short, Wide
    <3>2. sz = bs[3] * 256 + bs[4]
      BY <2>1, <1>7 DEF SizeOf
    <3> QED BY <3>1, <3>2 DEF StartsFrame
  <2>2. CASE short = 127
    <3>1. Wide(len) = 8
      BY <2>2, <1>1, <1>4, SMT DEF Short, Wide
    <3>2. sz = WordOf(bs[10], bs[9], bs[8], bs[7])
      BY <2>2, <1>7 DEF SizeOf
    <3> QED BY <3>1, <3>2 DEF StartsFrame
  <2>3. CASE short # 126 /\ short # 127
    <3>1. sz = short
      BY <2>3, <1>7 DEF SizeOf
    <3> QED BY <3>1, <2>3, <1>1, <1>4, SMT DEF Short
  <2> QED BY <2>1, <2>2, <2>3
<1>9. bs[1] % 16 = 2 /\ bs[1] - (bs[1] % 16) = 128
  BY SMT DEF StartsFrame
<1> DEFINE hdr == 2 + wide + (IF m THEN 4 ELSE 0)
           fields == FrameFields(bs, wide)
<1>10. DecodeFrameHeader(bs, n) =
         IF n < 2 \/ n < 2 + wide \/ n < hdr THEN Incomplete ELSE Complete(fields, hdr, sz, n)
  <2>1. hdr = 2 + wide + (IF bs[2] >= 128 THEN 4 ELSE 0)
    BY <1>4
  <2> HIDE DEF hdr
  <2> QED BY <2>1, <1>3, <1>5, <1>7, Zenon DEF DecodeFrameHeader
<1>11. hdr = FrameLen(m, len) /\ hdr \in Nat /\ hdr >= 2 + wide
  BY <1>2, <1>6, SMT DEF FrameLen
<1>12. [header |-> hdr, payload |-> len, fields |-> fields] = FrameFound(m, len, bs)
  <2>1. fields = [opcode |-> 2, flags |-> 128, masked |-> m, key |-> SubSeq(bs, 3 + wide, 6 + wide)]
    <3>1. (bs[2] >= 128) = m
      BY <1>4
    <3> QED BY <3>1, <1>9, Zenon DEF FrameFields
  <2> QED BY <2>1, <1>6, <1>11, Zenon DEF FrameFound
<1>13. Complete(fields, hdr, sz, n) =
         IF n - hdr >= len THEN FrameFound(m, len, bs) ELSE Incomplete
  BY <1>8, <1>12, Zenon DEF Complete
<1> HIDE DEF hdr, fields
<1> QED BY <1>1, <1>2, <1>6, <1>10, <1>11, <1>13, SMT

-----------------------------------------------------------------------------
(* A packet.                                                               *)

\* The first bytes of a packet.
Start(p) == PacketHeader(p) \o PayloadStart(p)

\* What is left of a sequence behind its first part.
LEMMA FromConcat ==
  ASSUME NEW S, NEW a \in Seq(S), NEW b \in Seq(S)
  PROVE  From(a \o b, Len(a)) = b
<1>1. /\ a \o b \in Seq(S) /\ Len(a \o b) = Len(a) + Len(b)
      /\ \A i \in 1..(Len(a) + Len(b)) : (a \o b)[i] = IF i <= Len(a) THEN a[i] ELSE b[i - Len(a)]
  BY ConcatProperties
<1>2. PICK c \in Seq(S) : c = a \o b
  BY <1>1
<1>3. PICK d : d = SubSeq(c, Len(a) + 1, Len(c))
  OBVIOUS
<1>4. d \in Seq(S) /\ Len(d) = Len(b) /\ \A i \in 1..Len(b) : d[i] = c[Len(a) + i]
  BY <1>1, <1>2, <1>3, SMT
<1>5. ASSUME NEW i \in 1..Len(b) PROVE d[i] = b[i]
  <2>1. Len(a) \in Nat /\ Len(b) \in Nat
    OBVIOUS
  <2>2. Len(a) + i \in 1..(Len(a) + Len(b)) /\ ~(Len(a) + i <= Len(a)) /\ (Len(a) + i) - Len(a) = i
    BY <2>1, SMT
  <2>3. c[Len(a) + i] = b[i]
    BY <2>2, <1>1, <1>2
  <2> QED BY <2>3, <1>4
<1>6. d = b
  BY <1>4, <1>5, SeqEqual
<1> QED BY <1>2, <1>3, <1>6 DEF From

LEMMA PayloadStartIs ==
  ASSUME NEW p
  PROVE  /\ PayloadStart(p) \in Seq(Octet) /\ Len(PayloadStart(p)) = 4
         /\ p.type = METADATA =>
              LET b == PayloadStart(p) IN WordOf(b[1], b[2], b[3], b[4]) = MSGPACK
<1>1. CASE p.type = METADATA
  <2>1. PICK b : b = LittleEndian(MSGPACK, 4)
    OBVIOUS
  <2>2. PayloadStart(p) = b
    BY <1>1, <2>1 DEF PayloadStart
  <2>3. MSGPACK \in Word
    BY SMT DEF MSGPACK, Word
  <2>4. b \in [1..4 -> Octet] /\ MSGPACK = WordOf(b[1], b[2], b[3], b[4])
    BY <2>1, <2>3, WordBytes
  <2>5. b \in Seq(Octet) /\ Len(b) = 4
    BY <2>4, FunctionIsSeq
  <2> QED BY <2>2, <2>4, <2>5
<1>2. CASE p.type # METADATA
  <2>1. PICK b : b = [i \in 1..4 |-> 255]
    OBVIOUS
  <2>2. PayloadStart(p) = b
    BY <1>2, <2>1, Zenon DEF PayloadStart
  <2>3. b \in [1..4 -> Octet]
    BY <2>1, SMT DEF Octet
  <2>4. b \in Seq(Octet) /\ Len(b) = 4
    BY <2>3, FunctionIsSeq
  <2> QED BY <1>2, <2>2, <2>4
<1> QED BY <1>1, <1>2

LEMMA StartIs ==
  ASSUME NEW p \in SentPacket
  PROVE  /\ Start(p) \in Seq(Octet) /\ Len(Start(p)) = HeaderLen(p) + 4
         /\ \A i \in 1..HeaderLen(p) : Start(p)[i] = PacketHeader(p)[i]
         /\ From(Start(p), HeaderLen(p)) = PayloadStart(p)
<1>1. PICK h, b : h = PacketHeader(p) /\ b = PayloadStart(p)
  OBVIOUS
<1>2. h \in Seq(Octet) /\ Len(h) = HeaderLen(p)
  BY <1>1, HeaderIs
<1>3. b \in Seq(Octet) /\ Len(b) = 4
  BY <1>1, PayloadStartIs
<1>4. /\ h \o b \in Seq(Octet) /\ Len(h \o b) = Len(h) + Len(b)
      /\ \A i \in 1..(Len(h) + Len(b)) : (h \o b)[i] = IF i <= Len(h) THEN h[i] ELSE b[i - Len(h)]
  BY <1>2, <1>3, ConcatProperties
<1>5. HeaderLen(p) \in Nat
  BY <1>2
<1>6. \A i \in 1..HeaderLen(p) : (h \o b)[i] = h[i]
  BY <1>2, <1>3, <1>4, <1>5, SMT
<1>7. From(h \o b, Len(h)) = b
  BY <1>2, <1>3, FromConcat
<1> QED BY <1>1, <1>2, <1>3, <1>4, <1>6, <1>7 DEF Start

\* The packet the receiver dispatches, with the metadata encoding it read.
Dispatched(p, e) == [signo |-> p.signo, type |-> p.type, size |-> p.size, encoding |-> e]

LEMMA PacketDispatched ==
  ASSUME NEW p \in SentPacket, p.type = METADATA => p.size >= 4, NEW tcp \in BOOLEAN, NEW n \in Nat
  PROVE  \E e : /\ ProcessPacket(tcp, Start(p), n) =
                     IF n >= HeaderLen(p) + p.size THEN <<Dispatched(p, e)>> ELSE <<>>
                /\ ~tcp /\ p.type = METADATA => e = MSGPACK
<1>1. DecodePacketHeader(Start(p), n) =
        IF n >= HeaderLen(p) + p.size THEN Found(p) ELSE Incomplete
  BY StartIs, HeaderDecodes
<1>2. PICK e : e = IF p.type = METADATA /\ p.size >= 4
                     THEN MetadataEncoding(tcp, PayloadStart(p)) ELSE 0
  OBVIOUS
<1>3. /\ HeaderLen(p) # 0 /\ From(Start(p), HeaderLen(p)) = PayloadStart(p)
  BY StartIs, SentIs
<1>6. ~tcp /\ p.type = METADATA => e = MSGPACK
  <2> SUFFICES ASSUME ~tcp, p.type = METADATA PROVE e = MSGPACK
    OBVIOUS
  <2>1. PICK b : b = PayloadStart(p)
    OBVIOUS
  <2>2. e = MetadataEncoding(FALSE, b)
    BY <1>2, <2>1
  <2>3. MetadataEncoding(FALSE, b) = WordOf(b[1], b[2], b[3], b[4])
    BY DEF MetadataEncoding
  <2> QED BY <2>1, <2>2, <2>3, PayloadStartIs
<1>7. ProcessPacket(tcp, Start(p), n) =
        IF n >= HeaderLen(p) + p.size THEN <<Dispatched(p, e)>> ELSE <<>>
  <2>1. CASE n >= HeaderLen(p) + p.size
    <3>1. PICK h : h = DecodePacketHeader(Start(p), n)
      OBVIOUS
    <3>2. /\ h.header = HeaderLen(p) /\ h.payload = p.size
          /\ h.fields.signo = p.signo /\ h.fields.type = p.type
      BY <3>1, <1>1, <2>1 DEF Found
    <3> QED BY <3>1, <3>2, <2>1, <1>2, <1>3, Zenon DEF ProcessPacket, Dispatched
  <2>2. CASE ~(n >= HeaderLen(p) + p.size)
    BY <1>1, <2>2 DEF ProcessPacket, Incomplete
  <2> QED BY <2>1, <2>2
<1> QED BY <1>6, <1>7

-----------------------------------------------------------------------------
(* A packet in a frame.                                                    *)

PacketLen(p) == HeaderLen(p) + p.size

LEMMA PacketLenIs ==
  ASSUME NEW p \in SentPacket
  PROVE  PacketLen(p) \in Nat /\ PacketLen(p) \in Word
<1>1. HeaderLen(p) \in Nat /\ HeaderLen(p) <= 8 /\ p.size \in PayloadSize
  BY SentIs, SMT
<1> QED BY <1>1, SMT DEF PacketLen, PayloadSize, Word

\* The key byte of any place is a byte.
LEMMA KeyIs ==
  /\ MaskingKey \in Seq(Octet) /\ Len(MaskingKey) = 4
  /\ \A i \in Nat \ {0} : KeyByte(MaskingKey, i) \in 0..255
<1>1. MaskingKey \in [1..4 -> 0..255]
  BY WireAssumption
<1>2. \A x \in 0..255 : x \in Octet
  BY SMT DEF Octet
<1>3. MaskingKey \in [1..4 -> Octet]
  BY <1>1, <1>2
<1>4. MaskingKey \in Seq(Octet) /\ Len(MaskingKey) = 4
  BY <1>3, FunctionIsSeq
<1>5. ASSUME NEW i \in Nat \ {0} PROVE KeyByte(MaskingKey, i) \in 0..255
  <2>1. ((i - 1) % 4) + 1 \in 1..4
    BY SMT
  <2> QED BY <2>1, <1>1 DEF KeyByte
<1> QED BY <1>4, <1>5

\* Unmasking undoes masking.
LEMMA MaskTwice ==
  ASSUME NEW s \in Seq(Octet)
  PROVE  Mask(s, MaskingKey) \in Seq(Octet) /\ Mask(Mask(s, MaskingKey), MaskingKey) = s
<1>1. s = [i \in 1..Len(s) |-> s[i]] /\ DOMAIN s = 1..Len(s) /\ Len(s) \in Nat
  OBVIOUS
<1>2. PICK m : m = Mask(s, MaskingKey)
  OBVIOUS
<1>3. m = [i \in 1..Len(s) |-> Xor(s[i], KeyByte(MaskingKey, i))]
  BY <1>1, <1>2 DEF Mask
<1>4. \A i \in 1..Len(s) : s[i] \in 0..255 /\ KeyByte(MaskingKey, i) \in 0..255
  <2>1. \A x \in Octet : x \in 0..255
    BY SMT DEF Octet
  <2>2. \A i \in 1..Len(s) : s[i] \in Octet /\ i \in Nat \ {0}
    OBVIOUS
  <2> QED BY <2>1, <2>2, KeyIs, Zenon
<1>5. \A a, b \in 0..255 : Xor(a, b) \in Octet
  <2> SUFFICES ASSUME NEW a \in 0..255, NEW b \in 0..255 PROVE Xor(a, b) \in Octet
    OBVIOUS
  <2> QED BY XorByte
<1>6. \A i \in 1..Len(s) : m[i] \in Octet
  BY <1>3, <1>4, <1>5
<1>7. m \in Seq(Octet)
  BY <1>1, <1>3, <1>6
<1>8. Mask(m, MaskingKey) = [i \in 1..Len(s) |-> Xor(m[i], KeyByte(MaskingKey, i))]
  BY <1>3, Zenon DEF Mask
<1>9. \A i \in 1..Len(s) : Xor(m[i], KeyByte(MaskingKey, i)) = s[i]
  BY <1>3, <1>4, XorInvolution
<1> QED BY <1>1, <1>2, <1>7, <1>8, <1>9

\* What follows the frame header.
Body(m, p) == IF m THEN Mask(Start(p), MaskingKey) ELSE Start(p)

LEMMA BodyIs ==
  ASSUME NEW p \in SentPacket, NEW m \in BOOLEAN
  PROVE  Body(m, p) \in Seq(Octet)
  BY StartIs, MaskTwice DEF Body

\* The frame header, masked or not, and where the key is.
IsFrame(m, len, f) ==
  /\ f \in Seq(Nat) /\ Len(f) = FrameLen(m, len)
  /\ StartsFrame(m, len, f)
  /\ m => \A i \in 1..4 : f[2 + Wide(len) + i] = MaskingKey[i]

LEMMA PlainFrame ==
  ASSUME NEW len \in Word
  PROVE  IsFrame(FALSE, len, FrameHeader(BINARY, FIN, len))
<1>1. PICK f : f = FrameHeader(BINARY, FIN, len)
  OBVIOUS
<1>2. /\ f \in Seq(Octet) /\ Len(f) = 2 + Wide(len)
      /\ f[1] = 130 /\ f[2] = Short(len)
      /\ Wide(len) = 2 => f[3] * 256 + f[4] = len
      /\ Wide(len) = 8 => WordOf(f[10], f[9], f[8], f[7]) = len
  BY <1>1, FrameIs
<1>3. Octet \subseteq Nat
  BY DEF Octet
<1>4. f \in Seq(Nat) /\ \A i \in 1..(2 + Wide(len)) : f[i] \in Nat
  <2>1. f \in Seq(Nat)
    BY <1>2, <1>3, SeqMonotonic
  <2>2. \A i \in 1..Len(f) : f[i] \in Nat
    BY <2>1
  <2> QED BY <2>1, <2>2, <1>2
<1>5. Wide(len) \in Nat /\ Short(len) \in Nat
  BY SMT DEF Wide, Short, Word
<1>6. Len(f) = FrameLen(FALSE, len) /\ f[2] = Short(len) + 0
  BY <1>2, <1>5, SMT DEF FrameLen
<1>7. StartsFrame(FALSE, len, f)
  BY <1>2, <1>4, <1>6 DEF StartsFrame
<1> QED BY <1>1, <1>4, <1>6, <1>7 DEF IsFrame

LEMMA MaskedFrame ==
  ASSUME NEW len \in Word
  PROVE  IsFrame(TRUE, len, MaskedFrameHeader(BINARY, FIN, len))
<1>1. PICK f : f = FrameHeader(BINARY, FIN, len)
  OBVIOUS
<1>2. /\ f \in Seq(Octet) /\ Len(f) = 2 + Wide(len)
      /\ f[1] = 130 /\ f[2] = Short(len)
      /\ Wide(len) = 2 => f[3] * 256 + f[4] = len
      /\ Wide(len) = 8 => WordOf(f[10], f[9], f[8], f[7]) = len
  BY <1>1, FrameIs
<1>3. Octet \subseteq Nat
  BY DEF Octet
<1>4. f \in Seq(Nat) /\ \A i \in 1..(2 + Wide(len)) : f[i] \in Nat
  <2>1. f \in Seq(Nat)
    BY <1>2, <1>3, SeqMonotonic
  <2>2. \A i \in 1..Len(f) : f[i] \in Nat
    BY <2>1
  <2> QED BY <2>1, <2>2, <1>2
<1>5. Wide(len) \in {0, 2, 8} /\ Short(len) \in Nat
  BY SMT DEF Wide, Short, Word
<1>6. PICK g : g = [f EXCEPT ![2] = @ + 128]
  OBVIOUS
<1>7. /\ g \in Seq(Nat) /\ Len(g) = 2 + Wide(len) /\ g[2] = Short(len) + 128
      /\ \A i \in 1..(2 + Wide(len)) : i # 2 => g[i] = f[i]
  <2>1. 2 \in 1..Len(f) /\ f[2] + 128 \in Nat
    BY <1>2, <1>5, SMT
  <2> QED BY <2>1, <1>2, <1>4, <1>6, SMT
<1>8. MaskingKey \in Seq(Nat) /\ Len(MaskingKey) = 4
  BY KeyIs, <1>3, SeqMonotonic
<1>9. PICK h : h = g \o MaskingKey
  OBVIOUS
<1>10. /\ h \in Seq(Nat) /\ Len(h) = 6 + Wide(len)
       /\ \A i \in 1..(2 + Wide(len)) : h[i] = g[i]
       /\ \A i \in 1..4 : h[2 + Wide(len) + i] = MaskingKey[i]
  <2>1. /\ g \o MaskingKey \in Seq(Nat) /\ Len(g \o MaskingKey) = Len(g) + Len(MaskingKey)
        /\ \A i \in 1..(Len(g) + Len(MaskingKey)) :
             (g \o MaskingKey)[i] = IF i <= Len(g) THEN g[i] ELSE MaskingKey[i - Len(g)]
    BY <1>7, <1>8, ConcatProperties
  <2>2. PICK w \in Nat : w = 2 + Wide(len) /\ Len(g) = w
    BY <1>5, <1>7
  <2>3. /\ h \in Seq(Nat) /\ Len(h) = w + 4
        /\ \A i \in 1..(w + 4) : h[i] = IF i <= w THEN g[i] ELSE MaskingKey[i - w]
    BY <2>1, <2>2, <1>8, <1>9
  <2>4. \A i \in 1..w : h[i] = g[i]
    BY <2>3, SMT
  <2>5. \A i \in 1..4 : h[w + i] = MaskingKey[i]
    BY <2>3, SMT
  <2>6. Len(h) = 6 + Wide(len)
    BY <2>2, <2>3, <1>5, SMT
  <2> QED BY <2>2, <2>3, <2>4, <2>5, <2>6, Zenon
<1>11. Len(h) = FrameLen(TRUE, len)
  BY <1>5, <1>10, SMT DEF FrameLen
<1>12. /\ h[1] = 130 /\ h[2] = Short(len) + 128
       /\ \A i \in 1..(2 + Wide(len)) : h[i] \in Nat
  <2>1. 1 \in 1..(2 + Wide(len)) /\ 2 \in 1..(2 + Wide(len)) /\ 1 # 2
    BY <1>5, SMT
  <2>2. h[1] = g[1] /\ h[2] = g[2] /\ g[1] = f[1]
    BY <2>1, <1>7, <1>10
  <2>4. h[1] = 130 /\ h[2] = Short(len) + 128
    BY <2>2, <1>2, <1>7
  <2>3. \A i \in 1..(2 + Wide(len)) : h[i] \in Nat
    <3> SUFFICES ASSUME NEW i \in 1..(2 + Wide(len)) PROVE h[i] \in Nat
      OBVIOUS
    <3>1. g[i] \in Nat
      BY <1>7
    <3> QED BY <3>1, <1>10
  <2> QED BY <2>3, <2>4
<1>13. Wide(len) = 2 => h[3] = f[3] /\ h[4] = f[4]
  BY <1>7, <1>10, SMT
<1>14. Wide(len) = 8 => h[7] = f[7] /\ h[8] = f[8] /\ h[9] = f[9] /\ h[10] = f[10]
  BY <1>7, <1>10, SMT
<1>15. StartsFrame(TRUE, len, h)
  BY <1>2, <1>12, <1>13, <1>14, Zenon DEF StartsFrame
<1>16. MaskedFrameHeader(BINARY, FIN, len) = h
  BY <1>1, <1>6, <1>9, Zenon DEF MaskedFrameHeader
<1> QED BY <1>10, <1>11, <1>15, <1>16 DEF IsFrame

\* What is sent in a frame, and what the receiver finds in it.
LEMMA FramedIs ==
  ASSUME NEW p \in SentPacket, NEW m \in BOOLEAN, NEW t, t = IF m THEN "masked" ELSE "ws",
         NEW sent, sent = Encoded(t, p)
  PROVE  LET len == PacketLen(p)
         IN  /\ sent.length = FrameLen(m, len) + len
             /\ StartsFrame(m, len, sent.bytes)
             /\ From(sent.bytes, FrameLen(m, len)) = Body(m, p)
             /\ m => SubSeq(sent.bytes, 3 + Wide(len), 6 + Wide(len)) = MaskingKey
<1>1. PICK len : len = PacketLen(p)
  OBVIOUS
<1>2. len \in Word
  BY <1>1, PacketLenIs
<1>3. PICK f : f = IF m THEN MaskedFrameHeader(BINARY, FIN, len) ELSE FrameHeader(BINARY, FIN, len)
  OBVIOUS
<1>4. IsFrame(m, len, f)
  BY <1>2, <1>3, PlainFrame, MaskedFrame
<1>5. f \in Seq(Nat) /\ Len(f) = FrameLen(m, len)
  BY <1>4 DEF IsFrame
<1>6. PICK b : b = Body(m, p)
  OBVIOUS
<1>7. b \in Seq(Nat)
  <2>1. Octet \subseteq Nat
    BY DEF Octet
  <2> QED BY <2>1, <1>6, BodyIs, SeqMonotonic
<1>8. sent.bytes = f \o b /\ sent.length = Len(f) + len
  <2>1. Len(PacketHeader(p)) + p.size = len
    BY <1>1, HeaderIs DEF PacketLen
  <2>2. CASE m
    <3>1. t = "masked" /\ t # "tcp"
      BY <2>2
    <3>2. b = Mask(Start(p), MaskingKey) /\ f = MaskedFrameHeader(BINARY, FIN, len)
      BY <2>2, <1>3, <1>6 DEF Body
    <3>3. sent = [bytes |-> f \o b, length |-> Len(f) + len]
      BY <2>1, <3>1, <3>2, Zenon DEF Encoded, Start
    <3> QED BY <3>3
  <2>3. CASE ~m
    <3>1. t = "ws" /\ t # "tcp" /\ t # "masked"
      BY <2>3
    <3>2. b = Start(p) /\ f = FrameHeader(BINARY, FIN, len)
      BY <2>3, <1>3, <1>6 DEF Body
    <3>3. sent = [bytes |-> f \o b, length |-> Len(f) + len]
      BY <2>1, <3>1, <3>2, Zenon DEF Encoded, Start
    <3> QED BY <3>3
  <2> QED BY <2>2, <2>3
<1>9. PICK c : c = f \o b
  OBVIOUS
<1>10. /\ c \in Seq(Nat) /\ Len(c) = Len(f) + Len(b)
       /\ \A i \in 1..Len(f) : c[i] = f[i]
  <2>1. /\ f \o b \in Seq(Nat) /\ Len(f \o b) = Len(f) + Len(b)
        /\ \A i \in 1..(Len(f) + Len(b)) : (f \o b)[i] = IF i <= Len(f) THEN f[i] ELSE b[i - Len(f)]
    BY <1>5, <1>7, ConcatProperties
  <2>2. Len(f) \in Nat /\ Len(b) \in Nat
    BY <1>5, <1>7
  <2>3. \A i \in 1..Len(f) : i \in 1..(Len(f) + Len(b)) /\ i <= Len(f)
    BY <2>2, SMT
  <2> QED BY <2>1, <2>3, <1>9, Zenon
<1>11. Wide(len) \in {0, 2, 8}
  BY <1>2, SMT DEF Wide, Word
<1>12. \A i \in 1..(2 + Wide(len)) : c[i] = f[i]
  <2>1. \A i \in 1..(2 + Wide(len)) : i \in 1..Len(f)
    BY <1>5, <1>11, SMT DEF FrameLen
  <2> QED BY <2>1, <1>10
<1>13. StartsFrame(m, len, c)
  <2>1. StartsFrame(m, len, f)
    BY <1>4 DEF IsFrame
  <2>2. c[1] = f[1] /\ c[2] = f[2]
    BY <1>11, <1>12, SMT
  <2>3. Wide(len) = 2 => c[3] = f[3] /\ c[4] = f[4]
    BY <1>12, SMT
  <2>4. Wide(len) = 8 => c[7] = f[7] /\ c[8] = f[8] /\ c[9] = f[9] /\ c[10] = f[10]
    BY <1>12, SMT
  <2> QED BY <2>1, <2>2, <2>3, <2>4, <1>12, Zenon DEF StartsFrame
<1>14. From(c, FrameLen(m, len)) = b
  BY <1>5, <1>7, <1>9, FromConcat
<1>15. ASSUME m PROVE SubSeq(c, 3 + Wide(len), 6 + Wide(len)) = MaskingKey
  <2>1. PICK w \in {0, 2, 8} : w = Wide(len)
    BY <1>11
  <2>2. Len(f) = 6 + w
    BY <2>1, <1>5, <1>15, SMT DEF FrameLen
  <2>3. \A i \in 1..4 : c[2 + w + i] = MaskingKey[i]
    <3>1. \A i \in 1..4 : f[2 + w + i] = MaskingKey[i]
      BY <1>4, <1>15, <2>1 DEF IsFrame
    <3>2. \A i \in 1..4 : 2 + w + i \in 1..Len(f)
      BY <2>1, <2>2, SMT
    <3> QED BY <3>1, <3>2, <1>10
  <2>4. PICK k : k = SubSeq(c, 3 + w, 6 + w)
    OBVIOUS
  <2>5. k = [i \in 1..4 |-> c[2 + w + i]]
    <3>1. \A i \in (3 + w)..(6 + w) : c[i] \in Nat
      BY <2>1, <2>2, <1>10, SMT
    <3>2. k = [i \in 1..((6 + w) - (3 + w) + 1) |-> c[i + (3 + w) - 1]]
      BY <2>4
    <3> QED BY <3>2, <2>1, SMT
  <2>6. MaskingKey = [i \in 1..4 |-> MaskingKey[i]]
    BY WireAssumption
  <2> QED BY <2>1, <2>3, <2>4, <2>5, <2>6
<1> QED BY <1>1, <1>5, <1>6, <1>8, <1>9, <1>13, <1>14, <1>15, Zenon

\* What the receiver makes of a packet, whole or cut.
Reads(t, p, n, e) ==
  LET length == Encoded(t, p).length
  IN  Processed(t, p, n) = IF n = length THEN [packets |-> <<Dispatched(p, e)>>, consumed |-> length]
                           ELSE [packets |-> <<>>, consumed |-> 0]

LEMMA TcpReads ==
  ASSUME NEW p \in SentPacket, p.type = METADATA => p.size >= 4, NEW n \in Nat,
         n <= Encoded("tcp", p).length
  PROVE  Encoded("tcp", p).length \in Nat /\ \E e : Reads("tcp", p, n, e)
<1>1. Encoded("tcp", p) = [bytes |-> Start(p), length |-> PacketLen(p)]
  BY HeaderIs DEF Encoded, Start, PacketLen
<1>2. PacketLen(p) \in Nat
  BY PacketLenIs
<1>3. PICK e : ProcessPacket(TRUE, Start(p), n) =
                 IF n >= HeaderLen(p) + p.size THEN <<Dispatched(p, e)>> ELSE <<>>
  BY PacketDispatched
<1>4. DecodePacketHeader(Start(p), n) =
        IF n >= HeaderLen(p) + p.size THEN Found(p) ELSE Incomplete
  BY StartIs, HeaderDecodes
<1>5. PICK found : found = ProcessPacket(TRUE, Start(p), n)
  OBVIOUS
<1>6. Processed("tcp", p, n) =
        [packets |-> found, consumed |-> IF found = <<>> THEN 0
                              ELSE DecodePacketHeader(Start(p), n).header + found[1].size]
  <2>1. PICK sent : sent = Encoded("tcp", p)
    OBVIOUS
  <2>2. sent.bytes = Start(p)
    BY <2>1, <1>1
  <2> QED BY <2>1, <2>2, <1>5, Zenon DEF Processed
<1>7. CASE n = PacketLen(p)
  <2>1. n >= HeaderLen(p) + p.size
    <3>1. n >= PacketLen(p)
      BY <1>7, <1>2, SMT
    <3> QED BY <3>1, Zenon DEF PacketLen
  <2>2. found = <<Dispatched(p, e)>> /\ found # <<>>
    <3>1. found = <<Dispatched(p, e)>>
      BY <2>1, <1>3, <1>5, Zenon
    <3> QED BY <3>1, SMT
  <2>3. found[1].size = p.size
    BY <2>2 DEF Dispatched
  <2>4. DecodePacketHeader(Start(p), n).header = HeaderLen(p)
    BY <2>1, <1>4 DEF Found
  <2>5. Processed("tcp", p, n) = [packets |-> <<Dispatched(p, e)>>, consumed |-> PacketLen(p)]
    BY <2>2, <2>3, <2>4, <1>6, Zenon DEF PacketLen
  <2> QED BY <2>5, <1>1, <1>2, <1>7 DEF Reads
<1>8. CASE n # PacketLen(p)
  <2>1. ~(n >= HeaderLen(p) + p.size)
    BY <1>1, <1>2, <1>8, SMT DEF PacketLen
  <2>2. found = <<>>
    BY <2>1, <1>3, <1>5
  <2>3. Processed("tcp", p, n) = [packets |-> <<>>, consumed |-> 0]
    BY <2>2, <1>6
  <2> QED BY <2>3, <1>1, <1>2, <1>8 DEF Reads
<1> QED BY <1>7, <1>8

LEMMA FrameReads ==
  ASSUME NEW p \in SentPacket, p.type = METADATA => p.size >= 4, NEW n \in Nat,
         NEW m \in BOOLEAN, NEW t, t = IF m THEN "masked" ELSE "ws",
         n <= Encoded(t, p).length
  PROVE  /\ Encoded(t, p).length \in Nat
         /\ \E e : Reads(t, p, n, e) /\ (p.type = METADATA => e = MSGPACK)
<1>1. PICK len : len = PacketLen(p)
  OBVIOUS
<1>2. len \in Word /\ len \in Nat
  BY <1>1, PacketLenIs
<1>3. PICK sent : sent = Encoded(t, p)
  OBVIOUS
<1>4. /\ sent.length = FrameLen(m, len) + len
      /\ StartsFrame(m, len, sent.bytes)
      /\ From(sent.bytes, FrameLen(m, len)) = Body(m, p)
      /\ m => SubSeq(sent.bytes, 3 + Wide(len), 6 + Wide(len)) = MaskingKey
  BY <1>1, <1>3, FramedIs
<1>5. FrameLen(m, len) \in Nat /\ FrameLen(m, len) # 0 /\ sent.length \in Nat
  BY <1>2, <1>4, SMT DEF FrameLen, Wide
<1>6. PICK h : h = DecodeFrameHeader(sent.bytes, n)
  OBVIOUS
<1>7. h = IF n >= FrameLen(m, len) + len THEN FrameFound(m, len, sent.bytes) ELSE Incomplete
  BY <1>2, <1>4, <1>6, FrameDecodes
<1>8. PICK e : /\ ProcessPacket(FALSE, Start(p), len) =
                    IF len >= HeaderLen(p) + p.size THEN <<Dispatched(p, e)>> ELSE <<>>
               /\ ~FALSE /\ p.type = METADATA => e = MSGPACK
  BY <1>2, PacketDispatched
<1>9. ProcessPacket(FALSE, Start(p), len) = <<Dispatched(p, e)>>
  <2>1. len >= PacketLen(p)
    BY <1>1, <1>2, SMT
  <2>2. len >= HeaderLen(p) + p.size
    BY <2>1, Zenon DEF PacketLen
  <2> QED BY <2>2, <1>8
<1>10. t # "tcp"
  OBVIOUS
<1>11. CASE n = sent.length
  <2>1. h = FrameFound(m, len, sent.bytes)
    BY <1>4, <1>5, <1>7, <1>11, SMT
  <2>2. /\ h.header = FrameLen(m, len) /\ h.payload = len
        /\ h.fields.masked = m
        /\ h.fields.key = SubSeq(sent.bytes, 3 + Wide(len), 6 + Wide(len))
    BY <2>1 DEF FrameFound
  <2>3. PICK plain : plain = IF h.fields.masked THEN Mask(From(sent.bytes, h.header), h.fields.key)
                             ELSE From(sent.bytes, h.header)
    OBVIOUS
  <2>4. plain = Start(p)
    <3>1. CASE m
      <4>1. plain = Mask(Mask(Start(p), MaskingKey), MaskingKey)
        BY <2>2, <2>3, <3>1, <1>4, Zenon DEF Body
      <4> QED BY <4>1, StartIs, MaskTwice
    <3>2. CASE ~m
      BY <2>2, <2>3, <3>2, <1>4, Zenon DEF Body
    <3> QED BY <3>1, <3>2
  <2>5. Processed(t, p, n) = [packets |-> ProcessPacket(FALSE, plain, h.payload),
                              consumed |-> h.header + h.payload]
    <3>1. h.header # 0
      BY <2>2, <1>5
    <3> QED BY <3>1, <2>3, <1>3, <1>6, <1>10, Zenon DEF Processed
  <2>6. Processed(t, p, n) = [packets |-> <<Dispatched(p, e)>>, consumed |-> sent.length]
    BY <2>2, <2>4, <2>5, <1>4, <1>9, Zenon
  <2> QED BY <2>6, <1>3, <1>5, <1>8, <1>11 DEF Reads
<1>12. CASE n # sent.length
  <2>1. h = Incomplete
    BY <1>3, <1>4, <1>5, <1>7, <1>12, SMT
  <2>2. h.header = 0
    BY <2>1 DEF Incomplete
  <2>3. Processed(t, p, n) = [packets |-> <<>>, consumed |-> 0]
    BY <2>2, <1>3, <1>6, <1>10, Zenon DEF Processed
  <2> QED BY <2>3, <1>3, <1>5, <1>8, <1>12 DEF Reads
<1> QED BY <1>11, <1>12

\* Everything the receiver can be given is a prefix of what was sent.
WireInv ==
  /\ transport \in {"ws", "masked", "tcp"}
  /\ packet \in SentPacket /\ (packet.type = METADATA => packet.size >= 4)
  /\ available \in Nat /\ available <= Encoded(transport, packet).length

LEMMA WireReads ==
  ASSUME NEW t \in {"ws", "masked", "tcp"}, NEW p \in SentPacket, p.type = METADATA => p.size >= 4,
         NEW n \in Nat, n <= Encoded(t, p).length
  PROVE  /\ Encoded(t, p).length \in Nat
         /\ \E e : Reads(t, p, n, e) /\ (t # "tcp" /\ p.type = METADATA => e = MSGPACK)
<1>1. CASE t = "tcp"
  BY <1>1, TcpReads
<1>2. CASE t # "tcp"
  <2>1. PICK m \in BOOLEAN : t = IF m THEN "masked" ELSE "ws"
    <3>1. (t = "masked") \in BOOLEAN /\ t = IF t = "masked" THEN "masked" ELSE "ws"
      BY <1>2
    <3> QED BY <3>1
  <2> QED BY <2>1, <1>2, FrameReads
<1> QED BY <1>1, <1>2

LEMMA EncodedLength ==
  ASSUME NEW t \in {"ws", "masked", "tcp"}, NEW p \in SentPacket, p.type = METADATA => p.size >= 4
  PROVE  Encoded(t, p).length \in Nat
<1>1. CASE t = "tcp"
  BY <1>1, PacketLenIs, HeaderIs DEF Encoded, PacketLen
<1>2. CASE t # "tcp"
  <2>1. PICK m \in BOOLEAN : t = IF m THEN "masked" ELSE "ws"
    <3>1. (t = "masked") \in BOOLEAN /\ t = IF t = "masked" THEN "masked" ELSE "ws"
      BY <1>2
    <3> QED BY <3>1
  <2>2. PICK sent, len : sent = Encoded(t, p) /\ len = PacketLen(p)
    OBVIOUS
  <2>3. sent.length = FrameLen(m, len) + len
    BY <2>1, <2>2, FramedIs
  <2>4. len \in Nat
    BY <2>2, PacketLenIs
  <2>5. FrameLen(m, len) \in Nat
    BY <2>4, SMT DEF FrameLen, Wide
  <2> QED BY <2>2, <2>3, <2>4, <2>5
<1> QED BY <1>1, <1>2

LEMMA SentPackets ==
  ASSUME 0 \notin Sizes, NEW p \in Packet
  PROVE  p \in SentPacket
<1>1. \A s \in Signos : s \in Signo
  BY WireAssumption, SMT DEF Signo
<1>2. \A s \in Sizes : s \in PayloadSize
  BY WireAssumption, SMT DEF PayloadSize
<1> QED BY <1>1, <1>2 DEF Packet, SentPacket

LEMMA WireInvHolds ==
  ASSUME 0 \notin Sizes
  PROVE  WireSpec => []WireInv
<1>1. WireInit => WireInv
  <2> SUFFICES ASSUME WireInit PROVE WireInv
    OBVIOUS
  <2>1. transport \in {"ws", "masked", "tcp"} /\ packet \in SentPacket
    BY WireAssumption, SentPackets DEF WireInit
  <2>2. (packet.type = METADATA => packet.size >= 4) /\ available = 0
    BY DEF WireInit
  <2>3. Encoded(transport, packet).length \in Nat
    BY <2>1, <2>2, EncodedLength
  <2> QED BY <2>1, <2>2, <2>3 DEF WireInv
<1>2. WireInv /\ [WireNext]_wireVars => WireInv'
  <2> SUFFICES ASSUME WireInv, [WireNext]_wireVars PROVE WireInv'
    OBVIOUS
  <2>1. PICK t, p : t = transport /\ p = packet
    OBVIOUS
  <2>2. Encoded(t, p).length \in Nat
    BY <2>1, EncodedLength DEF WireInv
  <2>3. CASE Arrive
    <3>1. transport' = t /\ packet' = p
      BY <2>1, <2>3 DEF Arrive
    <3>2. PICK length : length = Encoded(t, p).length
      OBVIOUS
    <3>3. \E n \in (0..MaxCut) \cup {length - 1, length} :
            available < n /\ n <= length /\ available' = n
      BY <2>1, <2>3, <3>2, Zenon DEF Arrive
    <3>4. available' \in Nat /\ available' <= length
      <4>1. PICK n \in (0..MaxCut) \cup {length - 1, length} :
               available < n /\ n <= length /\ available' = n
        BY <3>3
      <4>2. n \in Int /\ available \in Nat
        BY <4>1, <3>2, <2>2, WireAssumption DEF WireInv
      <4> QED BY <4>1, <4>2
    <3> QED BY <2>1, <3>1, <3>2, <3>4, Zenon DEF WireInv
  <2>4. CASE UNCHANGED wireVars
    BY <2>4 DEF WireInv, wireVars
  <2> QED BY <2>3, <2>4 DEF WireNext
<1> QED BY <1>1, <1>2, PTL DEF WireSpec

\* What the invariant says of the two properties.
LEMMA WireInvReads == WireInv => PacketRoundTrip /\ NextFrameAligned
<1> SUFFICES ASSUME WireInv PROVE PacketRoundTrip /\ NextFrameAligned
  OBVIOUS
<1>1. PICK t, p, n : t = transport /\ p = packet /\ n = available
  OBVIOUS
<1>2. PICK length : length = Encoded(t, p).length
  OBVIOUS
<1>3. PICK e : Reads(t, p, n, e) /\ (t # "tcp" /\ p.type = METADATA => e = MSGPACK)
  BY <1>1, WireReads DEF WireInv
<1>4. PICK r : r = Processed(t, p, n)
  OBVIOUS
<1>5. Length = length /\ Result = r
  BY <1>1, <1>2, <1>4 DEF Length, Result
<1>6. r = IF n = length THEN [packets |-> <<Dispatched(p, e)>>, consumed |-> length]
          ELSE [packets |-> <<>>, consumed |-> 0]
  BY <1>2, <1>3, <1>4, Zenon DEF Reads
<1>7. CASE n = length
  <2>1. r.packets = <<Dispatched(p, e)>> /\ r.consumed = length
    BY <1>6, <1>7
  <2>2. NextFrameAligned
    BY <2>1, <1>1, <1>5, <1>7 DEF NextFrameAligned
  <2>3. p = [signo |-> p.signo, type |-> p.type, size |-> p.size]
    BY <1>1, SentIs DEF WireInv
  <2>4. DOMAIN r.packets = 1..1 /\ r.packets[1] = Dispatched(p, e)
    BY <2>1
  <2>5. [i \in DOMAIN r.packets |->
           [signo |-> r.packets[i].signo, type |-> r.packets[i].type, size |-> r.packets[i].size]]
          = <<p>>
    BY <2>3, <2>4 DEF Dispatched
  <2>6. \A i \in DOMAIN r.packets : t # "tcp" /\ r.packets[i].type = METADATA =>
          r.packets[i].encoding = MSGPACK
    BY <2>4, <1>3 DEF Dispatched
  <2> QED BY <2>2, <2>5, <2>6, <1>1, <1>5, <1>7, Zenon DEF PacketRoundTrip
<1>8. CASE n # length
  <2>1. r.packets = <<>> /\ r.consumed = 0
    BY <1>6, <1>8
  <2>2. NextFrameAligned
    BY <2>1, <1>1, <1>5, <1>8 DEF NextFrameAligned
  <2>3. DOMAIN r.packets = {}
    BY <2>1
  <2>4. [i \in DOMAIN r.packets |->
           [signo |-> r.packets[i].signo, type |-> r.packets[i].type, size |-> r.packets[i].size]]
          = <<>>
    BY <2>3
  <2> QED BY <2>2, <2>3, <2>4, <1>1, <1>5, <1>8, Zenon DEF PacketRoundTrip
<1> QED BY <1>7, <1>8

\* A packet, whatever its transport, signal number, size and masking key, is
\* dispatched as it was sent once all of it has arrived and not before,
\* wherever the bytes received so far end (process_buffer, decode_header).  An
\* empty payload is excepted: its header cannot be told from that of a long one.
THEOREM PacketsRoundTrip ==
  ASSUME 0 \notin Sizes
  PROVE  WireSpec => []PacketRoundTrip
  BY WireInvHolds, WireInvReads, PTL

\* The receiver consumes exactly the bytes that were written for a packet, and
\* none of an incomplete one, so the next packet is found where it starts.
THEOREM FramesAligned ==
  ASSUME 0 \notin Sizes
  PROVE  WireSpec => []NextFrameAligned
  BY WireInvHolds, WireInvReads, PTL

-----------------------------------------------------------------------------
(* Paths and prefixes.                                                     *)

(* The provers do not know that a literal is a string, so the names that   *)
(* the library uses are listed.                                            *)
LibraryNames ==
  {"definition", "interpretation", "name", "rule", "sig_name", "type", "parameters", "valueIndex",
   "linear", "delta", "start", "dataType", "endian", "origin", "tableId", "range", "low", "high",
   "resolution", "num", "denom", "metadata", "key", "struct", "unit", "unitId", "quantity",
   "displayName", "id", "symbol", "signalRate", "samples", "seconds", "fraction", "subFraction",
   "dimensions", "size"}
Key == STRING \cup LibraryNames
Path == Seq(Key)

\* Sequences of one to three elements.
LEMMA Tuples ==
  ASSUME NEW S, NEW a \in S, NEW b \in S, NEW c \in S
  PROVE  /\ <<a>> \in Seq(S) /\ Len(<<a>>) = 1 /\ <<a>>[1] = a
         /\ <<a, b>> \in Seq(S) /\ Len(<<a, b>>) = 2 /\ <<a, b>>[1] = a /\ <<a, b>>[2] = b
         /\ <<a, b, c>> \in Seq(S) /\ Len(<<a, b, c>>) = 3
         /\ <<a, b, c>>[1] = a /\ <<a, b, c>>[2] = b /\ <<a, b, c>>[3] = c
  BY SMT

\* A path and one key more.
LEMMA Tuple2 ==
  ASSUME NEW S, NEW a \in S, NEW b \in S
  PROVE  Append(<<a>>, b) = <<a, b>>
<1>1. PICK o, t : o = <<a>> /\ t = <<a, b>>
  OBVIOUS
<1>2. o \in Seq(S) /\ Len(o) = 1 /\ o[1] = a /\ t \in Seq(S) /\ Len(t) = 2 /\ t[1] = a /\ t[2] = b
  BY <1>1, Tuples, Zenon
<1>3. PICK s : s = Append(o, b)
  OBVIOUS
<1>4. s \in Seq(S) /\ Len(s) = 2 /\ s[1] = a /\ s[2] = b
  BY <1>2, <1>3, AppendProperties
<1>5. ASSUME NEW i \in 1 .. 2 PROVE s[i] = t[i]
  BY <1>2, <1>4
<1> QED BY <1>1, <1>2, <1>3, <1>4, <1>5, SeqEqual

\* A path of two and one key more.
LEMMA Tuple3 ==
  ASSUME NEW S, NEW a \in S, NEW b \in S, NEW c \in S
  PROVE  Append(<<a, b>>, c) = <<a, b, c>>
<1>1. PICK o, t : o = <<a, b>> /\ t = <<a, b, c>>
  OBVIOUS
<1>2. o \in Seq(S) /\ Len(o) = 2 /\ o[1] = a /\ o[2] = b
  BY <1>1, Tuples, Zenon
<1>2a. t \in Seq(S) /\ Len(t) = 3 /\ t[1] = a /\ t[2] = b /\ t[3] = c
  BY <1>1, Tuples, Zenon
<1>3. PICK s : s = Append(o, c)
  OBVIOUS
<1>4. s \in Seq(S) /\ Len(s) = 3 /\ s[1] = a /\ s[2] = b /\ s[3] = c
  BY <1>2, <1>3, AppendProperties
<1>5. ASSUME NEW i \in 1 .. 3 PROVE s[i] = t[i]
  BY <1>2a, <1>4
<1> QED BY <1>1, <1>2a, <1>3, <1>4, <1>5, SeqEqual

\* A prefix, place by place.
LEMMA PrefixAt ==
  ASSUME NEW p \in Path, NEW q \in Path
  PROVE  IsPrefix(p, q) <=> Len(p) <= Len(q) /\ \A i \in 1 .. Len(p) : p[i] = q[i]
<1>1. SubSeq(p, 1, Len(p)) = [i \in 1 .. Len(p) |-> p[i]]
  BY SMT DEF Path
<1>2. ASSUME Len(p) <= Len(q) PROVE SubSeq(q, 1, Len(p)) = [i \in 1 .. Len(p) |-> q[i]]
  BY <1>2, SMT DEF Path
<1>3. Len(p) <= Len(q) =>
        (SubSeq(p, 1, Len(p)) = SubSeq(q, 1, Len(p)) <=> \A i \in 1 .. Len(p) : p[i] = q[i])
  BY <1>1, <1>2, Zenon
<1> QED BY <1>3, Zenon DEF IsPrefix

\* A path and the members of an object at it.
LEMMA PrefixOfMember ==
  ASSUME NEW p \in Path, NEW k \in Key
  PROVE  /\ Append(p, k) \in Path /\ Len(Append(p, k)) = Len(p) + 1
         /\ Append(p, k)[Len(p) + 1] = k /\ Append(p, k) # p
         /\ IsPrefix(p, p) /\ IsPrefix(p, Append(p, k)) /\ ~ IsPrefix(Append(p, k), p)
<1>1. /\ Append(p, k) \in Path /\ Len(Append(p, k)) = Len(p) + 1 /\ Len(p) \in Nat
      /\ Append(p, k)[Len(p) + 1] = k /\ \A i \in 1 .. Len(p) : Append(p, k)[i] = p[i]
  BY AppendProperties, LenProperties DEF Path
<1>2. PICK m : m = Append(p, k)
  OBVIOUS
<1>3. /\ m \in Path /\ Len(m) = Len(p) + 1 /\ Len(p) \in Nat /\ \A i \in 1 .. Len(p) : m[i] = p[i]
  BY <1>1, <1>2
<1>4. IsPrefix(p, p) /\ IsPrefix(p, m)
  BY <1>3, PrefixAt
<1>5. ~ IsPrefix(m, p) /\ m # p
  BY <1>3 DEF IsPrefix
<1> QED BY <1>1, <1>2, <1>4, <1>5

Parent(p) == SubSeq(p, 1, Len(p) - 1)

\* A prefix of the parent is one of the path, and a prefix of a path is the path
\* itself or a prefix of the parent.
LEMMA PrefixOfParent ==
  ASSUME NEW p \in Path, p # <<>>
  PROVE  /\ Parent(p) \in Path /\ Len(Parent(p)) = Len(p) - 1
         /\ \A q \in Path : IsPrefix(q, Parent(p)) => IsPrefix(q, p)
         /\ ~ IsPrefix(p, Parent(p))
<1>1. /\ Parent(p) \in Path /\ Len(Parent(p)) = Len(p) - 1 /\ Len(p) \in Nat
      /\ \A i \in 1 .. Len(p) - 1 : Parent(p)[i] = p[i]
  <2>1. Len(p) \in Nat \ {0} /\ Len(p) - 1 \in Int
    BY EmptySeq, LenProperties DEF Path
  <2>2. \A i \in 1 .. Len(p) - 1 : p[i] \in Key
    BY <2>1, ElementOfSeq DEF Path
  <2>3. /\ Parent(p) \in Path
        /\ Len(Parent(p)) = IF 1 <= Len(p) - 1 THEN Len(p) - 1 - 1 + 1 ELSE 0
        /\ \A i \in 1 .. Len(p) - 1 - 1 + 1 : Parent(p)[i] = p[1 + i - 1]
    BY <2>1, <2>2, SubSeqProperties DEF Parent, Path
  <2>4. PICK m : m = Parent(p)
    OBVIOUS
  <2>5. /\ m \in Path /\ Len(m) = IF 1 <= Len(p) - 1 THEN Len(p) - 1 - 1 + 1 ELSE 0
        /\ \A i \in 1 .. Len(p) - 1 - 1 + 1 : m[i] = p[1 + i - 1]
    BY <2>3, <2>4, Zenon
  <2>6. Len(m) = Len(p) - 1
    <3>1. Len(m) = IF 1 <= Len(p) - 1 THEN Len(p) - 1 - 1 + 1 ELSE 0
      BY <2>5
    <3>2. \A x : \A n \in Nat \ {0} : x = (IF 1 <= n - 1 THEN n - 1 - 1 + 1 ELSE 0) => x = n - 1
      BY SMT
    <3> QED BY ONLY <3>1, <3>2, <2>1, Zenon
  <2>7. ASSUME NEW i \in 1 .. Len(p) - 1 PROVE m[i] = p[i]
    <3>1. i \in 1 .. Len(p) - 1 - 1 + 1 /\ 1 + i - 1 = i
      BY <2>1
    <3> QED BY <3>1, <2>5
  <2> QED BY <2>1, <2>4, <2>5, <2>6, <2>7
<1>2. ASSUME NEW q \in Path, IsPrefix(q, Parent(p)) PROVE IsPrefix(q, p)
  <2>1. Len(q) \in Nat /\ Len(q) <= Len(p) - 1 /\ \A i \in 1 .. Len(q) : q[i] = Parent(p)[i]
    BY <1>1, <1>2, PrefixAt DEF Path
  <2> QED BY <2>1, <1>1, PrefixAt
<1>3. ~ IsPrefix(p, Parent(p))
  BY <1>1, SMT DEF IsPrefix
<1> QED BY <1>1, <1>2, <1>3

\* The parent of a member.
LEMMA ParentOfMember ==
  ASSUME NEW p \in Path, NEW k \in Key
  PROVE  Parent(Append(p, k)) = p
  BY SMT DEF Parent, Path
-----------------------------------------------------------------------------
(* What an assignment does to a document.                                  *)

SameAt(d1, d2, q) == (q \in DOMAIN d1 <=> q \in DOMAIN d2) /\ (q \in DOMAIN d1 => d1[q] = d2[q])

\* Away from a path two documents are the same.
SameBut(d1, d2, path) == \A q \in Path : ~ IsPrefix(path, q) => SameAt(d1, d2, q)

\* What is read is the same where the documents are.
LEMMA SameRead ==
  ASSUME NEW d1, NEW d2, NEW q, SameAt(d1, d2, q), NEW type, NEW default
  PROVE  /\ Has(d1, q, type) <=> Has(d2, q, type)
         /\ Read(d1, q, type, default) = Read(d2, q, type, default)
         /\ ReadOpt(d1, q, type) = ReadOpt(d2, q, type)
  BY Zenon DEF SameAt, Has, Read, ReadOpt

\* What is left of a document when the value at a path is erased.
LEMMA EraseAt ==
  ASSUME NEW doc, DOMAIN doc \subseteq Path, NEW path \in Path
  PROVE  /\ DOMAIN Erase(doc, path) \subseteq Path
         /\ \A q \in Path : IsPrefix(path, q) => q \notin DOMAIN Erase(doc, path)
         /\ SameBut(doc, Erase(doc, path), path)
  BY Zenon DEF Erase, SameBut, SameAt

\* A document after an assignment.
LEMMA AssignAt ==
  ASSUME NEW doc, DOMAIN doc \subseteq Path, NEW path \in Path, NEW value
  PROVE  /\ DOMAIN Assign(doc, path, value) \subseteq Path
         /\ path \in DOMAIN Assign(doc, path, value) /\ Assign(doc, path, value)[path] = value
         /\ \A q \in Path : IsPrefix(path, q) /\ q # path => q \notin DOMAIN Assign(doc, path, value)
         /\ SameBut(doc, Assign(doc, path, value), path)
<1> DEFINE new == Assign(doc, path, value)
<1>1. /\ DOMAIN new = {q \in DOMAIN doc : ~IsPrefix(path, q)} \cup {path}
      /\ \A q \in DOMAIN new : new[q] = IF q = path THEN value ELSE doc[q]
  BY Zenon DEF Assign, Erase
<1> HIDE DEF new
<1>2. IsPrefix(path, path)
  BY PrefixAt DEF Path
<1>3. SameBut(doc, new, path)
  BY <1>1, <1>2, Zenon DEF SameBut, SameAt
<1>4. new[path] = value /\ path \in DOMAIN new
  BY <1>1, Zenon
<1>5. DOMAIN new \subseteq Path
  BY <1>1
<1>6. \A q \in Path : IsPrefix(path, q) /\ q # path => q \notin DOMAIN new
  BY <1>1, Zenon
<1> QED BY <1>3, <1>4, <1>5, <1>6 DEF new

\* A document after the assignment of an object with members.
LEMMA AssignObjectAt ==
  ASSUME NEW doc, DOMAIN doc \subseteq Path, NEW path \in Path, NEW members, DOMAIN members \subseteq Key
  PROVE  LET new == AssignObject(doc, path, members)
         IN  /\ DOMAIN new \subseteq Path
             /\ path \in DOMAIN new /\ new[path] = ObjValue
             /\ \A k \in DOMAIN members :
                  Append(path, k) \in DOMAIN new /\ new[Append(path, k)] = members[k]
             /\ \A k \in Key \ DOMAIN members : Append(path, k) \notin DOMAIN new
             /\ SameBut(doc, new, path)
<1> DEFINE cleared == Assign(doc, path, ObjValue)
           own == {Append(path, k) : k \in DOMAIN members}
           new == AssignObject(doc, path, members)
<1>1. /\ DOMAIN new = DOMAIN cleared \cup own
      /\ \A q \in DOMAIN new : new[q] = IF q \in own THEN members[q[Len(q)]] ELSE cleared[q]
  BY Zenon DEF AssignObject
<1> HIDE DEF new
<1>2. /\ DOMAIN cleared \subseteq Path
      /\ path \in DOMAIN cleared /\ cleared[path] = ObjValue
      /\ \A q \in Path : IsPrefix(path, q) /\ q # path => q \notin DOMAIN cleared
      /\ SameBut(doc, cleared, path)
  BY AssignAt, Zenon
<1> HIDE DEF cleared
<1>3. ASSUME NEW k \in Key
      PROVE  /\ Append(path, k) \in Path /\ Append(path, k)[Len(Append(path, k))] = k
             /\ IsPrefix(path, Append(path, k)) /\ Append(path, k) # path
  BY PrefixOfMember
<1>4. path \notin own /\ own \subseteq Path /\ \A q \in own : IsPrefix(path, q)
  BY <1>3, Zenon
<1>5. DOMAIN new \subseteq Path /\ path \in DOMAIN new /\ new[path] = ObjValue
  <2> HIDE DEF own
  <2> QED BY <1>1, <1>2, <1>4, Zenon
<1>6. ASSUME NEW k \in DOMAIN members
      PROVE  Append(path, k) \in DOMAIN new /\ new[Append(path, k)] = members[k]
  <2>1. Append(path, k) \in own /\ k \in Key
    OBVIOUS
  <2> HIDE DEF own
  <2>2. new[Append(path, k)] = members[Append(path, k)[Len(Append(path, k))]]
    BY <2>1, <1>1, Zenon
  <2> QED BY <2>1, <2>2, <1>1, <1>3, Zenon
<1>7. ASSUME NEW k \in Key \ DOMAIN members PROVE Append(path, k) \notin DOMAIN new
  <2>1. Append(path, k) \notin own
    <3> SUFFICES ASSUME NEW j \in DOMAIN members, Append(path, j) = Append(path, k) PROVE FALSE
      BY Zenon
    <3> QED BY <1>3
  <2> QED BY <2>1, <1>1, <1>2, <1>3
<1>8. SameBut(doc, new, path)
  <2> HIDE DEF own
  <2> QED BY <1>1, <1>2, <1>4, Zenon DEF SameBut, SameAt
<1> QED BY <1>5, <1>6, <1>7, <1>8, Zenon DEF new
\* A path at which a document can hold a value.
Open(doc, path) == path # <<>> => Len(path) = 1 \/ Has(doc, Parent(path), "obj")

\* A JSON document.
Document(doc) == DOMAIN doc \subseteq Path /\ \A p \in DOMAIN doc : Open(doc, p)

\* The documents of other peers, as the constants have them, are documents.
LEMMA DocIs ==
  ASSUME NEW doc, IsDoc(doc)
  PROVE  Document(doc)
<1>1. \A p \in DOMAIN doc : p \in Seq(STRING) /\ Open(doc, p)
  BY Zenon DEF IsDoc, WellFormed, Open, Parent
<1>2. STRING \subseteq Key
  BY DEF Key
<1> QED BY <1>1, <1>2, SeqMonotonic DEF Document, Path

\* erase leaves a document a document.
LEMMA EraseDoc ==
  ASSUME NEW doc, Document(doc), NEW path \in Path
  PROVE  Document(Erase(doc, path))
<1> DEFINE new == Erase(doc, path)
<1>1. /\ DOMAIN new \subseteq Path /\ SameBut(doc, new, path)
      /\ \A q \in Path : IsPrefix(path, q) => q \notin DOMAIN new
  BY EraseAt DEF Document
<1> HIDE DEF new
<1>2. ASSUME NEW p \in DOMAIN new, p # <<>>, Len(p) # 1 PROVE Has(new, Parent(p), "obj")
  <2>1. p \in Path /\ ~ IsPrefix(path, p)
    BY <1>1, <1>2
  <2>2. Parent(p) \in Path /\ ~ IsPrefix(path, Parent(p))
    BY <2>1, <1>2, PrefixOfParent
  <2>3. p \in DOMAIN doc
    BY <2>1, <1>1 DEF SameBut, SameAt
  <2>4. Has(doc, Parent(p), "obj")
    BY <2>3, <1>2 DEF Document, Open
  <2>5. SameAt(doc, new, Parent(p))
    BY <2>2, <1>1 DEF SameBut
  <2> QED BY <2>4, <2>5, SameRead
<1> QED BY <1>1, <1>2 DEF Document, new, Open

\* So does an assignment below an object.
LEMMA AssignDoc ==
  ASSUME NEW doc, Document(doc), NEW path \in Path, Open(doc, path), NEW value
  PROVE  Document(Assign(doc, path, value))
<1> DEFINE new == Assign(doc, path, value)
<1>1. /\ DOMAIN new \subseteq Path /\ SameBut(doc, new, path)
      /\ \A q \in Path : IsPrefix(path, q) /\ q # path => q \notin DOMAIN new
  BY AssignAt DEF Document
<1> HIDE DEF new
<1>2. ASSUME NEW p \in DOMAIN new, p # <<>>, Len(p) # 1 PROVE Has(new, Parent(p), "obj")
  <2>1. p \in Path /\ (p = path \/ ~ IsPrefix(path, p))
    BY <1>1, <1>2
  <2>2. Parent(p) \in Path /\ ~ IsPrefix(path, Parent(p))
    BY <2>1, <1>2, PrefixOfParent
  <2>3. Has(doc, Parent(p), "obj")
    <3>1. CASE p = path
      BY <3>1, <1>2 DEF Open
    <3>2. CASE ~ IsPrefix(path, p)
      <4>1. p \in DOMAIN doc
        BY <2>1, <3>2, <1>1 DEF SameBut, SameAt
      <4> QED BY <4>1, <1>2 DEF Document, Open
    <3> QED BY <3>1, <3>2, <2>1
  <2>4. SameAt(doc, new, Parent(p))
    BY <2>2, <1>1 DEF SameBut
  <2> QED BY <2>3, <2>4, SameRead
<1> QED BY <1>1, <1>2 DEF Document, new, Open

\* And that of an object with members.
LEMMA AssignObjectDoc ==
  ASSUME NEW doc, Document(doc), NEW path \in Path, Open(doc, path), NEW members, DOMAIN members \subseteq Key
  PROVE  Document(AssignObject(doc, path, members))
<1> DEFINE cleared == Assign(doc, path, ObjValue)
           own == {Append(path, k) : k \in DOMAIN members}
           new == AssignObject(doc, path, members)
<1>1. DOMAIN new = DOMAIN cleared \cup own
  BY Zenon DEF AssignObject
<1>2. Document(cleared) /\ \A q \in Path : IsPrefix(path, q) /\ q # path => q \notin DOMAIN cleared
  BY AssignDoc, AssignAt, Zenon DEF Document
<1>3. DOMAIN new \subseteq Path /\ path \in DOMAIN new /\ new[path] = ObjValue /\ SameBut(doc, new, path)
  BY AssignObjectAt, Zenon DEF Document
<1>4. SameBut(doc, cleared, path)
  BY AssignAt, Zenon DEF Document
<1> HIDE DEF cleared, new
<1>5. ASSUME NEW p \in DOMAIN new, p # <<>>, Len(p) # 1 PROVE Has(new, Parent(p), "obj")
  <2>1. CASE p \in own
    <3>1. PICK k \in DOMAIN members : p = Append(path, k)
      BY <2>1
    <3>2. Parent(p) = path
      BY <3>1, ParentOfMember
    <3> QED BY <3>2, <1>3 DEF Has, ObjValue
  <2>2. CASE p \in DOMAIN cleared
    <3>1. p \in Path /\ (p = path \/ ~ IsPrefix(path, p))
      BY <1>2, <2>2 DEF Document
    <3>2. Parent(p) \in Path /\ ~ IsPrefix(path, Parent(p))
      BY <3>1, <1>5, PrefixOfParent
    <3>3. Has(cleared, Parent(p), "obj")
      BY <2>2, <1>2, <1>5 DEF Document, Open
    <3>4. SameAt(doc, new, Parent(p)) /\ SameAt(doc, cleared, Parent(p))
      BY <3>2, <1>3, <1>4 DEF SameBut
    <3>5. Has(doc, Parent(p), "obj")
      BY <3>3, <3>4, SameRead
    <3> QED BY <3>4, <3>5, SameRead
  <2> QED BY <2>1, <2>2, <1>1
<1> QED BY <1>3, <1>5 DEF Document, new, Open
-----------------------------------------------------------------------------
(* The sections of a document: the members of the definition and of the    *)
(* interpretation, and the other members.                                  *)

Split == {"definition", "interpretation"}
Section(q) == IF q[1] \in Split /\ Len(q) >= 2 THEN <<q[1], q[2]>> ELSE <<q[1], "">>

\* A path within one section.
Within(q) == q \in Path /\ Len(q) >= 1 /\ (Len(q) >= 2 \/ q[1] \notin Split)

\* Outside these sections two documents are the same.
Untouched(d1, d2, W) == \A q \in Path \ {<<>>} : Section(q) \notin W => SameAt(d1, d2, q)

\* All that is below a path within a section is in that section.
LEMMA SectionOfPrefix ==
  ASSUME NEW p, Within(p), NEW q \in Path, IsPrefix(p, q)
  PROVE  Within(q) /\ Section(q) = Section(p)
<1>1. /\ Len(p) \in Nat /\ Len(q) \in Nat /\ Len(p) <= Len(q)
      /\ \A i \in 1 .. Len(p) : p[i] = q[i]
  BY PrefixAt, LenProperties DEF Within, Path
<1>2. p[1] = q[1] /\ Len(q) >= 1 /\ Len(p) >= 1
  BY <1>1 DEF Within
<1>3. CASE Len(p) >= 2
  <2>1. p[2] = q[2] /\ Len(q) >= 2
    BY <1>1, <1>3
  <2> QED BY <1>2, <1>3, <2>1 DEF Within, Section
<1>4. CASE p[1] \notin Split
  BY <1>2, <1>4 DEF Within, Section
<1> QED BY <1>3, <1>4 DEF Within

\* A change at a path touches its section alone.
LEMMA ButIsUntouched ==
  ASSUME NEW d1, NEW d2, NEW path, Within(path), SameBut(d1, d2, path), NEW W, Section(path) \in W
  PROVE  Untouched(d1, d2, W)
  BY SectionOfPrefix DEF Untouched, SameBut, Within

\* Two changes of the same sections are one.
LEMMA UntouchedTwice ==
  ASSUME NEW d1, NEW d2, NEW d3, NEW W, Untouched(d1, d2, W), Untouched(d2, d3, W)
  PROVE  Untouched(d1, d3, W)
  BY DEF Untouched, SameAt

\* A value and its members are the same in both documents.
SameBelow(d1, d2, path) == SameAt(d1, d2, path) /\ \A k \in Key : SameAt(d1, d2, Append(path, k))

\* A path in an untouched section has the same members as before.
LEMMA UntouchedBelow ==
  ASSUME NEW d1, NEW d2, NEW W, Untouched(d1, d2, W), NEW path, Within(path), Section(path) \notin W
  PROVE  SameBelow(d1, d2, path)
<1>1. path \in Path /\ path # <<>>
  BY EmptySeq DEF Within, Path
<1>2. SameAt(d1, d2, path)
  BY <1>1 DEF Untouched
<1>3. ASSUME NEW k \in Key PROVE SameAt(d1, d2, Append(path, k))
  <2>1. Append(path, k) \in Path /\ IsPrefix(path, Append(path, k))
    BY <1>1, PrefixOfMember
  <2>2. Section(Append(path, k)) = Section(path) /\ Append(path, k) # <<>>
    BY <1>1, <2>1, SectionOfPrefix, AppendProperties DEF Path
  <2> QED BY <2>1, <2>2 DEF Untouched
<1> QED BY <1>2, <1>3 DEF SameBelow

\* The paths the library uses.
LEMMA Keys ==
  ASSUME NEW k \in Key
  PROVE  /\ Within(Definition(k)) /\ Section(Definition(k)) = Definition(k)
         /\ Within(Interpretation(k)) /\ Section(Interpretation(k)) = Interpretation(k)
         /\ <<k>> \in Path /\ Section(<<k>>) = <<k, "">>
         /\ k \notin Split => Within(<<k>>)
         /\ Append(<<"definition">>, k) = Definition(k)
         /\ Append(<<"interpretation">>, k) = Interpretation(k)
         /\ Parent(Definition(k)) = <<"definition">>
         /\ Parent(Interpretation(k)) = <<"interpretation">>
<1>1. "definition" \in Key /\ "interpretation" \in Key
  BY DEF Key, LibraryNames
<1>2. /\ <<k>> \in Path /\ Len(<<k>>) = 1 /\ <<k>>[1] = k
      /\ <<"definition">> \in Path /\ <<"interpretation">> \in Path
  BY <1>1, Tuples DEF Path
<1>3. /\ Definition(k) \in Path /\ Len(Definition(k)) = 2
      /\ Definition(k)[1] = "definition" /\ Definition(k)[2] = k
  BY <1>1, Tuples DEF Path, Definition
<1>4. /\ Interpretation(k) \in Path /\ Len(Interpretation(k)) = 2
      /\ Interpretation(k)[1] = "interpretation" /\ Interpretation(k)[2] = k
  BY <1>1, Tuples DEF Path, Interpretation
<1>5. Within(Definition(k)) /\ Within(Interpretation(k))
  BY <1>3, <1>4 DEF Within
<1>6. Section(Definition(k)) = <<"definition", k>> /\ Section(Interpretation(k)) = <<"interpretation", k>>
  BY <1>3, <1>4 DEF Section, Split
<1>7. Section(<<k>>) = <<k, "">> /\ (k \notin Split => Within(<<k>>))
  <2>1. PICK o : o = <<k>>
    OBVIOUS
  <2>2. o \in Path /\ Len(o) = 1 /\ o[1] = k
    BY <2>1, <1>2, Zenon
  <2>3. ~ (Len(o) >= 2) /\ Len(o) >= 1
    BY <2>2
  <2>4. Section(o) = <<k, "">> /\ (k \notin Split => Within(o))
    BY <2>2, <2>3, Zenon DEF Section, Within
  <2> QED BY <2>1, <2>4, Zenon
<1>8. Append(<<"definition">>, k) = Definition(k) /\ Append(<<"interpretation">>, k) = Interpretation(k)
  BY <1>1, Tuple2, Zenon DEF Definition, Interpretation
<1>9. Parent(Definition(k)) = <<"definition">> /\ Parent(Interpretation(k)) = <<"interpretation">>
  BY <1>2, <1>8, ParentOfMember
<1> QED BY <1>2, <1>5, <1>6, <1>7, <1>8, <1>9, Zenon DEF Definition, Interpretation

\* The longer paths that the library uses.
LEMMA LongKeys ==
  /\ Within(RuleParameters) /\ Section(RuleParameters) = Interpretation("rule")
  /\ Parent(RuleParameters) = Interpretation("rule")
  /\ Within(<<"signalRate", "delta">>) /\ Section(<<"signalRate", "delta">>) = <<"signalRate", "">>
  /\ Parent(<<"signalRate", "delta">>) = <<"signalRate">>
  /\ Append(<<"signalRate">>, "samples") = <<"signalRate", "samples">>
  /\ Append(<<"signalRate">>, "delta") = <<"signalRate", "delta">>
<1>1. /\ "definition" \in Key /\ "interpretation" \in Key /\ "rule" \in Key /\ "parameters" \in Key
      /\ "signalRate" \in Key /\ "delta" \in Key /\ "samples" \in Key
  BY DEF Key, LibraryNames
<1>2. Append(Interpretation("rule"), "parameters") = RuleParameters
  BY <1>1, Tuple3, Zenon DEF RuleParameters, Interpretation
<1>3. Append(<<"signalRate">>, "samples") = <<"signalRate", "samples">>
  BY <1>1, Tuple2, Zenon
<1>4. Append(<<"signalRate">>, "delta") = <<"signalRate", "delta">>
  BY <1>1, Tuple2, Zenon
<1>5. "signalRate" \notin Split
  BY DEF Split
<1>6. /\ Within(Interpretation("rule")) /\ Section(Interpretation("rule")) = Interpretation("rule")
      /\ Within(<<"signalRate">>) /\ Section(<<"signalRate">>) = <<"signalRate", "">>
  BY <1>1, <1>5, Keys
<1>7. /\ Append(Interpretation("rule"), "parameters") \in Path
      /\ IsPrefix(Interpretation("rule"), Append(Interpretation("rule"), "parameters"))
      /\ Parent(Append(Interpretation("rule"), "parameters")) = Interpretation("rule")
  BY <1>1, <1>6, PrefixOfMember, ParentOfMember DEF Within
<1>8. /\ Append(<<"signalRate">>, "delta") \in Path
      /\ IsPrefix(<<"signalRate">>, Append(<<"signalRate">>, "delta"))
      /\ Parent(Append(<<"signalRate">>, "delta")) = <<"signalRate">>
  BY <1>1, <1>6, PrefixOfMember, ParentOfMember DEF Within
<1>9. Within(RuleParameters) /\ Section(RuleParameters) = Interpretation("rule")
  BY <1>2, <1>6, <1>7, SectionOfPrefix
<1>10. Within(<<"signalRate", "delta">>) /\ Section(<<"signalRate", "delta">>) = <<"signalRate", "">>
  BY <1>4, <1>6, <1>8, SectionOfPrefix
<1> QED BY <1>2, <1>3, <1>4, <1>7, <1>8, <1>9, <1>10
-----------------------------------------------------------------------------
(* What each accessor depends on.                                          *)

\* A section of the definition or of the interpretation, or another member,
\* that was not touched.
LEMMA SameKeys ==
  ASSUME NEW d1, NEW d2, NEW W, Untouched(d1, d2, W), NEW k \in Key
  PROVE  /\ Definition(k) \notin W => SameBelow(d1, d2, Definition(k))
         /\ Interpretation(k) \notin W => SameBelow(d1, d2, Interpretation(k))
         /\ k \notin Split /\ <<k, "">> \notin W => SameBelow(d1, d2, <<k>>)
  BY Keys, UntouchedBelow

\* An accessor that reads one member says the same as long as its section is untouched.
LEMMA SimpleSame ==
  ASSUME NEW d1, NEW d2, NEW W, Untouched(d1, d2, W)
  PROVE  /\ Definition("name") \notin W => NameOf(d1) = NameOf(d2)
         /\ Definition("endian") \notin W => EndianOf(d1) = EndianOf(d2)
         /\ Definition("dataType") \notin W => DataTypeOf(d1) = DataTypeOf(d2)
         /\ Definition("rule") \notin W => RuleOf(d1) = RuleOf(d2)
         /\ Definition("struct") \notin W => FieldsOf(d1) = FieldsOf(d2)
         /\ <<"tableId", "">> \notin W => TableIdOf(d1) = TableIdOf(d2)
         /\ <<"valueIndex", "">> \notin W => ValueIndexOf(d1) = ValueIndexOf(d2)
<1>1. /\ "name" \in Key /\ "endian" \in Key /\ "dataType" \in Key /\ "rule" \in Key
      /\ "struct" \in Key /\ "tableId" \in Key /\ "valueIndex" \in Key
  BY DEF Key, LibraryNames
<1>2. "tableId" \notin Split /\ "valueIndex" \notin Split
  BY DEF Split
<1>3. ASSUME NEW k \in Key, Definition(k) \notin W, NEW type, NEW default
      PROVE  Read(d1, Definition(k), type, default) = Read(d2, Definition(k), type, default)
  <2>1. SameAt(d1, d2, Definition(k))
    BY <1>3, SameKeys DEF SameBelow
  <2> QED BY <2>1, Zenon DEF SameAt, Has, Read, ReadOpt
<1>4. ASSUME NEW k \in Key, k \notin Split, <<k, "">> \notin W, NEW type, NEW default
      PROVE  /\ Read(d1, <<k>>, type, default) = Read(d2, <<k>>, type, default)
             /\ ReadOpt(d1, <<k>>, type) = ReadOpt(d2, <<k>>, type)
  <2>1. SameAt(d1, d2, <<k>>)
    BY <1>4, SameKeys DEF SameBelow
  <2> QED BY <2>1, Zenon DEF SameAt, Has, Read, ReadOpt
<1>5. Definition("name") \notin W => NameOf(d1) = NameOf(d2)
  BY <1>1, <1>3, Zenon DEF NameOf
<1>6. Definition("endian") \notin W => EndianOf(d1) = EndianOf(d2)
  BY <1>1, <1>3, Zenon DEF EndianOf
<1>7. Definition("dataType") \notin W => DataTypeOf(d1) = DataTypeOf(d2)
  BY <1>1, <1>3, Zenon DEF DataTypeOf
<1>8. Definition("rule") \notin W => RuleOf(d1) = RuleOf(d2)
  BY <1>1, <1>3, Zenon DEF RuleOf
<1>9. Definition("struct") \notin W => FieldsOf(d1) = FieldsOf(d2)
  BY <1>1, <1>3, Zenon DEF FieldsOf
<1>10. <<"tableId", "">> \notin W => TableIdOf(d1) = TableIdOf(d2)
  BY <1>1, <1>2, <1>4, Zenon DEF TableIdOf
<1>11. <<"valueIndex", "">> \notin W => ValueIndexOf(d1) = ValueIndexOf(d2)
  BY <1>1, <1>2, <1>4, Zenon DEF ValueIndexOf
<1> QED BY <1>5, <1>6, <1>7, <1>8, <1>9, <1>10, <1>11, Zenon

\* Sections of a value and of its members.
LEMMA SameMembers ==
  ASSUME NEW d1, NEW d2, NEW path, SameBelow(d1, d2, path), NEW k \in Key, NEW type, NEW default
  PROVE  /\ Has(d1, path, type) <=> Has(d2, path, type)
         /\ Read(d1, path, type, default) = Read(d2, path, type, default)
         /\ Read(d1, Append(path, k), type, default) = Read(d2, Append(path, k), type, default)
         /\ ReadOpt(d1, Append(path, k), type) = ReadOpt(d2, Append(path, k), type)
<1>1. SameAt(d1, d2, path) /\ SameAt(d1, d2, Append(path, k))
  BY DEF SameBelow
<1>2. /\ Has(d1, path, type) <=> Has(d2, path, type)
      /\ Read(d1, path, type, default) = Read(d2, path, type, default)
  BY <1>1, Zenon DEF SameAt, Has, Read, ReadOpt
<1>3. /\ Read(d1, Append(path, k), type, default) = Read(d2, Append(path, k), type, default)
      /\ ReadOpt(d1, Append(path, k), type) = ReadOpt(d2, Append(path, k), type)
  BY <1>1, Zenon DEF SameAt, Has, Read, ReadOpt
<1> QED BY <1>2, <1>3

\* The same of linear_start_delta,
LEMMA LinearSame ==
  ASSUME NEW d1, NEW d2, NEW W, Untouched(d1, d2, W), Definition("rule") \notin W,
         Definition("linear") \notin W, Interpretation("rule") \notin W
  PROVE  LinearStartDelta(d1) = LinearStartDelta(d2)
<1>1. "linear" \in Key /\ "start" \in Key /\ "delta" \in Key
  BY DEF Key, LibraryNames
<1>2. SameBelow(d1, d2, Definition("linear"))
  BY <1>1, SameKeys
<1>3. SameBelow(d1, d2, RuleParameters)
  BY LongKeys, UntouchedBelow
<1>4. RuleOf(d1) = RuleOf(d2)
  BY SimpleSame
<1>5. Has(d1, RuleParameters, "obj") <=> Has(d2, RuleParameters, "obj")
  BY <1>1, <1>3, SameMembers
<1>6. \A at \in {RuleParameters, Definition("linear")} :
        /\ ReadOpt(d1, Append(at, "start"), "int") = ReadOpt(d2, Append(at, "start"), "int")
        /\ ReadOpt(d1, Append(at, "delta"), "int") = ReadOpt(d2, Append(at, "delta"), "int")
  BY <1>1, <1>2, <1>3, SameMembers
<1> QED BY <1>4, <1>5, <1>6, Zenon DEF LinearStartDelta

\* of origin,
LEMMA OriginSame ==
  ASSUME NEW d1, NEW d2, NEW W, Untouched(d1, d2, W), Definition("origin") \notin W,
         Interpretation("origin") \notin W
  PROVE  OriginOf(d1) = OriginOf(d2)
<1>1. "origin" \in Key
  BY DEF Key, LibraryNames
<1>2. SameBelow(d1, d2, Definition("origin")) /\ SameBelow(d1, d2, Interpretation("origin"))
  BY <1>1, SameKeys
<1>3. PICK y : y = Read(d1, Interpretation("origin"), "str", "")
  OBVIOUS
<1>4. y = Read(d2, Interpretation("origin"), "str", "")
  BY <1>1, <1>2, <1>3, Zenon DEF SameBelow, SameAt, Has, Read, ReadOpt
<1>5. Read(d1, Definition("origin"), "str", y) = Read(d2, Definition("origin"), "str", y)
  BY <1>1, <1>2, Zenon DEF SameBelow, SameAt, Has, Read, ReadOpt
<1> QED BY <1>3, <1>4, <1>5, Zenon DEF OriginOf

\* of range,
LEMMA RangeSame ==
  ASSUME NEW d1, NEW d2, NEW W, Untouched(d1, d2, W), Definition("range") \notin W
  PROVE  RangeOf(d1) = RangeOf(d2)
<1>1. "range" \in Key /\ "low" \in Key /\ "high" \in Key
  BY DEF Key, LibraryNames
<1>2. SameBelow(d1, d2, Definition("range"))
  BY <1>1, SameKeys
<1>3. /\ Has(d1, Definition("range"), "obj") <=> Has(d2, Definition("range"), "obj")
      /\ \A k \in Key : Read(d1, Append(Definition("range"), k), "int", 0)
                          = Read(d2, Append(Definition("range"), k), "int", 0)
  BY <1>1, <1>2, SameMembers
<1> QED BY <1>1, <1>3, Zenon DEF RangeOf

\* of tick_resolution,
LEMMA ResolutionSame ==
  ASSUME NEW d1, NEW d2, NEW W, Untouched(d1, d2, W), Definition("resolution") \notin W
  PROVE  TickResolutionOf(d1) = TickResolutionOf(d2)
<1>1. "resolution" \in Key /\ "num" \in Key /\ "denom" \in Key
  BY DEF Key, LibraryNames
<1>2. SameBelow(d1, d2, Definition("resolution"))
  BY <1>1, SameKeys
<1>3. /\ Has(d1, Definition("resolution"), "obj") <=> Has(d2, Definition("resolution"), "obj")
      /\ \A k \in Key : Read(d1, Append(Definition("resolution"), k), "int", 1)
                          = Read(d2, Append(Definition("resolution"), k), "int", 1)
  BY <1>1, <1>2, SameMembers
<1> QED BY <1>1, <1>3, Zenon DEF TickResolutionOf

\* of unit,
LEMMA UnitSame ==
  ASSUME NEW d1, NEW d2, NEW W, Untouched(d1, d2, W), Definition("unit") \notin W,
         Interpretation("unit") \notin W
  PROVE  UnitOf(d1) = UnitOf(d2)
<1>1. /\ "unit" \in Key /\ "id" \in Key /\ "name" \in Key /\ "quantity" \in Key /\ "symbol" \in Key
      /\ "unitId" \in Key /\ "displayName" \in Key
  BY DEF Key, LibraryNames
<1>2. SameBelow(d1, d2, Definition("unit")) /\ SameBelow(d1, d2, Interpretation("unit"))
  BY <1>1, SameKeys
<1>3. \A at \in {Definition("unit"), Interpretation("unit")} :
        Has(d1, at, "obj") <=> Has(d2, at, "obj")
  BY <1>1, <1>2, SameMembers
<1>4. \A at \in {Definition("unit"), Interpretation("unit")} : \A k \in Key : \A t, x :
        Read(d1, Append(at, k), t, x) = Read(d2, Append(at, k), t, x)
  BY <1>2, SameMembers
<1>5. /\ Read(d1, Append(Interpretation("unit"), "id"), "int", -1)
         = Read(d2, Append(Interpretation("unit"), "id"), "int", -1)
      /\ Read(d1, Append(Interpretation("unit"), "name"), "str", "")
         = Read(d2, Append(Interpretation("unit"), "name"), "str", "")
      /\ Read(d1, Append(Interpretation("unit"), "quantity"), "str", "")
         = Read(d2, Append(Interpretation("unit"), "quantity"), "str", "")
      /\ Read(d1, Append(Interpretation("unit"), "symbol"), "str", "")
         = Read(d2, Append(Interpretation("unit"), "symbol"), "str", "")
  BY <1>1, <1>2, Zenon DEF SameBelow, SameAt, Has, Read
<1>6. /\ Read(d1, Append(Definition("unit"), "unitId"), "int", -1)
         = Read(d2, Append(Definition("unit"), "unitId"), "int", -1)
      /\ Read(d1, Append(Definition("unit"), "displayName"), "str", "")
         = Read(d2, Append(Definition("unit"), "displayName"), "str", "")
      /\ Read(d1, Append(Definition("unit"), "quantity"), "str", "")
         = Read(d2, Append(Definition("unit"), "quantity"), "str", "")
  BY <1>1, <1>2, Zenon DEF SameBelow, SameAt, Has, Read
<1>7. /\ Has(d1, Interpretation("unit"), "obj") <=> Has(d2, Interpretation("unit"), "obj")
      /\ Has(d1, Definition("unit"), "obj") <=> Has(d2, Definition("unit"), "obj")
  BY <1>3, Zenon
<1>8. CASE Has(d1, Interpretation("unit"), "obj")
  BY <1>5, <1>7, <1>8, Zenon DEF UnitOf
<1>9. CASE ~ Has(d1, Interpretation("unit"), "obj") /\ Has(d1, Definition("unit"), "obj")
  BY <1>6, <1>7, <1>9, Zenon DEF UnitOf
<1>10. CASE ~ Has(d1, Interpretation("unit"), "obj") /\ ~ Has(d1, Definition("unit"), "obj")
  BY <1>7, <1>10, Zenon DEF UnitOf
<1> QED BY <1>8, <1>9, <1>10

\* of sample_size,
LEMMA SizeSame ==
  ASSUME NEW d1, NEW d2, NEW W, Untouched(d1, d2, W), Definition("dataType") \notin W,
         Definition("struct") \notin W
  PROVE  SampleSize(d1) = SampleSize(d2)
<1>1. PICK type, fields : type = DataTypeOf(d1) /\ fields = FieldsOf(d1)
  OBVIOUS
<1>2. type = DataTypeOf(d2) /\ fields = FieldsOf(d2)
  BY <1>1, SimpleSame
<1> QED BY <1>1, <1>2, Zenon DEF SampleSize

\* and of tcp_signal_rate_ticks.
LEMMA TicksSame ==
  ASSUME NEW d1, NEW d2, NEW W, Untouched(d1, d2, W), <<"signalRate", "">> \notin W, NEW num, NEW denom
  PROVE  TcpSignalRateTicks(d1, num, denom) = TcpSignalRateTicks(d2, num, denom)
<1>1. /\ "signalRate" \in Key /\ "samples" \in Key /\ "seconds" \in Key /\ "fraction" \in Key
      /\ "subFraction" \in Key /\ "signalRate" \notin Split
  BY DEF Key, LibraryNames, Split
<1>2. SameBelow(d1, d2, <<"signalRate">>) /\ SameBelow(d1, d2, <<"signalRate", "delta">>)
  BY <1>1, SameKeys, LongKeys, UntouchedBelow
<1>3. Has(d1, <<"signalRate">>, "obj") <=> Has(d2, <<"signalRate">>, "obj")
  BY <1>1, <1>2, SameMembers
<1>4. Read(d1, <<"signalRate", "samples">>, "int", 1) = Read(d2, <<"signalRate", "samples">>, "int", 1)
  BY <1>1, <1>2, LongKeys, Zenon DEF SameBelow, SameAt, Has, Read, ReadOpt
<1>5. \A k \in Key : Read(d1, Append(<<"signalRate", "delta">>, k), "int", 0)
                      = Read(d2, Append(<<"signalRate", "delta">>, k), "int", 0)
  BY <1>2, Zenon DEF SameBelow, SameAt, Has, Read, ReadOpt
<1> QED BY <1>1, <1>3, <1>4, <1>5, Zenon DEF TcpSignalRateTicks

\* and of extra_metadata, which has the keys of one object.
ExtraKeys(doc) == {k \in Key : Append(Interpretation("metadata"), k) \in DOMAIN doc}

LEMMA ExtraIs ==
  ASSUME NEW doc, Document(doc)
  PROVE  /\ DOMAIN ExtraMetadataOf(doc) = ExtraKeys(doc)
         /\ \A k \in ExtraKeys(doc) : ExtraMetadataOf(doc)[k] = doc[Append(Interpretation("metadata"), k)]
<1>1. PICK at, keys : at = Interpretation("metadata") /\ keys = {p[Len(p)] : p \in DOMAIN doc \ {<<>>}}
  OBVIOUS
<1>2. at \in Path
  <2>1. "metadata" \in Key
    BY DEF Key, LibraryNames
  <2> QED BY <1>1, <2>1, Keys DEF Within
<1>3. ASSUME NEW k \in keys PROVE k \in Key
  <2>1. PICK p \in DOMAIN doc \ {<<>>} : k = p[Len(p)]
    BY <1>1
  <2>2. p \in Seq(Key) /\ p # <<>>
    BY <2>1 DEF Document, Path
  <2>3. Len(p) \in 1 .. Len(p)
    BY <2>2, LenProperties, EmptySeq
  <2> QED BY <2>1, <2>2, <2>3, ElementOfSeq
<1>4. ASSUME NEW k \in Key, Append(at, k) \in DOMAIN doc PROVE k \in keys
  <2>1. PICK q : q = Append(at, k)
    OBVIOUS
  <2>2. Len(at) \in Nat /\ Len(q) = Len(at) + 1 /\ q[Len(at) + 1] = k
    BY <1>2, <2>1, PrefixOfMember, LenProperties DEF Path
  <2>3. q # <<>> /\ q[Len(q)] = k
    BY <2>2
  <2> QED BY <1>1, <1>4, <2>1, <2>3
<1>5. {k \in keys : Append(at, k) \in DOMAIN doc} = ExtraKeys(doc)
  BY <1>1, <1>3, <1>4 DEF ExtraKeys
<1>6. ExtraMetadataOf(doc) = [k \in ExtraKeys(doc) |-> doc[Append(at, k)]]
  BY <1>1, <1>5, Zenon DEF ExtraMetadataOf
<1> QED BY <1>1, <1>6, Zenon

LEMMA ExtraSame ==
  ASSUME NEW d1, NEW d2, Document(d1), Document(d2), NEW W, Untouched(d1, d2, W),
         Interpretation("metadata") \notin W
  PROVE  ExtraMetadataOf(d1) = ExtraMetadataOf(d2)
<1>1. "metadata" \in Key
  BY DEF Key, LibraryNames
<1>2. \A k \in Key : SameAt(d1, d2, Append(Interpretation("metadata"), k))
  BY <1>1, SameKeys DEF SameBelow
<1>3. ExtraKeys(d1) = ExtraKeys(d2)
  BY <1>2, Zenon DEF ExtraKeys, SameAt
<1>4. \A k \in ExtraKeys(d1) : ExtraMetadataOf(d1)[k] = ExtraMetadataOf(d2)[k]
  BY <1>2, <1>3, ExtraIs, Zenon DEF ExtraKeys, SameAt
<1>5. /\ ExtraMetadataOf(d1) = [k \in ExtraKeys(d1) |-> ExtraMetadataOf(d1)[k]]
      /\ ExtraMetadataOf(d2) = [k \in ExtraKeys(d1) |-> ExtraMetadataOf(d2)[k]]
  <2>1. DOMAIN ExtraMetadataOf(d1) = ExtraKeys(d1) /\ DOMAIN ExtraMetadataOf(d2) = ExtraKeys(d1)
    BY <1>3, ExtraIs, Zenon
  <2>2. /\ ExtraMetadataOf(d1) = [k \in DOMAIN ExtraMetadataOf(d1) |-> ExtraMetadataOf(d1)[k]]
        /\ ExtraMetadataOf(d2) = [k \in DOMAIN ExtraMetadataOf(d2) |-> ExtraMetadataOf(d2)[k]]
    BY Zenon DEF ExtraMetadataOf
  <2> QED BY <2>1, <2>2, Zenon
<1> QED BY <1>4, <1>5, Zenon

-----------------------------------------------------------------------------
(* The size of a structure.                                                *)

\* The function inside Total.
Sums(f, ns, n) == f = [i \in 0 .. n |-> IF i = 0 THEN 0 ELSE f[i - 1] + ns[i]]

\* Partial sums exist, by the least length for which they would not.
LEMMA SumsExist ==
  ASSUME NEW ns, NEW last \in Nat
  PROVE  \E f : Sums(f, ns, last)
<1> DEFINE D == {n \in Nat : ~ \E f : Sums(f, ns, n)}
<1>1. D = {}
  <2> SUFFICES ASSUME D # {} PROVE FALSE
    OBVIOUS
  <2>1. PICK m \in D : \A n \in D : m <= n
    <3>1. D \subseteq Nat
      OBVIOUS
    <3> HIDE DEF D
    <3> QED BY <3>1, LeastNatural
  <2>2. m \in Nat /\ ~ \E f : Sums(f, ns, m)
    OBVIOUS
  <2>3. CASE m = 0
    <3>1. PICK f : f = [i \in 0 .. 0 |-> 0]
      OBVIOUS
    <3>2. \A i \in 0 .. 0 : i = 0
      BY SMT
    <3>3. f = [i \in 0 .. 0 |-> IF i = 0 THEN 0 ELSE f[i - 1] + ns[i]]
      BY <3>1, <3>2, Zenon
    <3> QED BY <3>3, <2>2, <2>3 DEF Sums
  <2>4. CASE m # 0
    <3>1. m - 1 \in Nat /\ m - 1 \notin D
      BY <2>1, <2>2, <2>4
    <3>2. PICK f : Sums(f, ns, m - 1)
      BY <3>1
    <3>3. PICK g : g = [i \in 0 .. m |-> IF i = m THEN f[m - 1] + ns[m] ELSE f[i]]
      OBVIOUS
    <3>4. ASSUME NEW i \in 0 .. m PROVE g[i] = IF i = 0 THEN 0 ELSE g[i - 1] + ns[i]
      <4>1. g[i] = IF i = m THEN f[m - 1] + ns[m] ELSE f[i]
        BY <3>3, Zenon
      <4>2. CASE i = m
        <5>1. m - 1 \in 0 .. m /\ m - 1 # m /\ i # 0
          BY <3>1, <2>2, <2>4, <4>2
        <5>2. g[m - 1] = f[m - 1]
          BY <3>3, <5>1, Zenon
        <5> QED BY <4>1, <4>2, <5>1, <5>2, Zenon
      <4>3. CASE i # m
        <5>1. i \in 0 .. (m - 1)
          BY <3>1, <4>3
        <5>2. f[i] = IF i = 0 THEN 0 ELSE f[i - 1] + ns[i]
          BY <3>2, <5>1, Zenon DEF Sums
        <5>3. i # 0 => i - 1 \in 0 .. m /\ i - 1 # m
          BY <5>1, <2>2
        <5>4. i # 0 => g[i - 1] = f[i - 1]
          BY <3>3, <5>3, Zenon
        <5> QED BY <4>1, <4>3, <5>2, <5>4, Zenon
      <4> QED BY <4>2, <4>3
    <3>5. g = [i \in 0 .. m |-> IF i = 0 THEN 0 ELSE g[i - 1] + ns[i]]
      <4>1. g = [i \in 0 .. m |-> g[i]]
        BY <3>3, Zenon
      <4> QED BY <3>4, <4>1, Zenon
    <3> QED BY <3>5, <2>2, Zenon DEF Sums
  <2> QED BY <2>3, <2>4
<1>2. last \notin D
  BY <1>1
<1> QED BY <1>2

\* The sum of natural numbers is one.
LEMMA TotalNat ==
  ASSUME NEW ns, Len(ns) \in Nat, \A i \in 1 .. Len(ns) : ns[i] \in Nat
  PROVE  Total(ns) \in Nat
<1>1. PICK n : n = Len(ns)
  OBVIOUS
<1>2. PICK f : f = CHOOSE g : Sums(g, ns, n)
  OBVIOUS
<1>3. Sums(f, ns, n)
  <2>1. \E g : Sums(g, ns, n)
    BY <1>1, SumsExist
  <2> QED BY <2>1, <1>2
<1>4. Total(ns) = f[n]
  BY <1>1, <1>2, Zenon DEF Total, Sums
<1>5. \A i \in 0 .. n : f[i] = IF i = 0 THEN 0 ELSE f[i - 1] + ns[i]
  BY <1>3, Zenon DEF Sums
<1> DEFINE D == {i \in 0 .. n : f[i] \notin Nat}
<1>6. D = {}
  <2> SUFFICES ASSUME D # {} PROVE FALSE
    OBVIOUS
  <2>1. PICK m \in D : \A i \in D : m <= i
    <3>1. D \subseteq Nat
      BY <1>1
    <3> HIDE DEF D
    <3> QED BY <3>1, LeastNatural
  <2>2. m \in 0 .. n /\ f[m] \notin Nat
    OBVIOUS
  <2>3. m # 0
    BY <2>2, <1>5
  <2>4. m - 1 \in 0 .. n /\ m - 1 < m /\ m \in 1 .. n
    BY <2>2, <2>3, <1>1
  <2>5. f[m - 1] \in Nat
    BY <2>1, <2>4
  <2>6. f[m] = f[m - 1] + ns[m] /\ ns[m] \in Nat
    BY <1>1, <1>5, <2>2, <2>3, <2>4
  <2> QED BY <2>2, <2>5, <2>6
<1>7. n \in 0 .. n
  BY <1>1
<1> QED BY <1>4, <1>6, <1>7

\* The sizes of primitive types.
LEMMA PrimitiveNat == ASSUME NEW type PROVE PrimitiveSize(type) \in Nat
  BY DEF PrimitiveSize

-----------------------------------------------------------------------------
(* Reading what was written.                                               *)

\* A value of the type asked for is read back.
LEMMA ReadBack ==
  ASSUME NEW doc, NEW path, path \in DOMAIN doc, NEW type, NEW value, doc[path] = <<type, value>>
  PROVE  /\ Has(doc, path, type) /\ ReadOpt(doc, path, type) = <<value>>
         /\ \A x : Read(doc, path, type, x) = value
<1>1. doc[path][1] = type /\ doc[path][2] = value
  OBVIOUS
<1> QED BY <1>1, Zenon DEF Has, Read, ReadOpt

\* An assignment to a key leaves another one alone.
LEMMA OtherKey ==
  ASSUME NEW a \in Key, NEW b \in Key, a # b
  PROVE  ~ IsPrefix(<<a>>, <<b>>)
<1>1. PICK p, q : p = <<a>> /\ q = <<b>>
  OBVIOUS
<1>2. p \in Path /\ Len(p) = 1 /\ p[1] = a /\ q \in Path /\ Len(q) = 1 /\ q[1] = b
  BY <1>1, Tuples DEF Path
<1>3. ~ IsPrefix(p, q)
  BY <1>2, PrefixAt
<1> QED BY <1>1, <1>3

\* The empty document.
LEMMA EmptyIs == Document(EmptyDoc) /\ DOMAIN EmptyDoc = {}
<1>1. DOMAIN EmptyDoc = {}
  BY Zenon DEF EmptyDoc
<1> QED BY <1>1, Zenon DEF Document

\* A member of the document itself can always be assigned.
LEMMA TopOpen ==
  ASSUME NEW doc, NEW k \in Key
  PROVE  Open(doc, <<k>>)
  BY Tuples DEF Open

\* dimension_builder: the size of a linear dimension.
LEMMA DimensionIs ==
  ASSUME NEW start, NEW delta, NEW n
  PROVE  /\ Has(Dimension(start, delta, n), <<"linear">>, "obj")
         /\ Read(Dimension(start, delta, n), <<"linear", "size">>, "int", 1) = n
         /\ DimensionSizeOf(Dimension(start, delta, n)) = <<n>>
<1> DEFINE members == [start |-> IntValue(start), delta |-> IntValue(delta), size |-> IntValue(n)]
           d1 == Assign(EmptyDoc, <<"rule">>, StrValue("linear"))
           d2 == AssignObject(d1, <<"linear">>, members)
<1>1. /\ "rule" \in Key /\ "linear" \in Key /\ "size" \in Key
      /\ {"start", "delta", "size"} \subseteq Key
  BY DEF Key, LibraryNames
<1>2. <<"rule">> \in Path /\ <<"linear">> \in Path
  BY <1>1, Keys
<1>3. /\ DOMAIN d1 \subseteq Path /\ <<"rule">> \in DOMAIN d1 /\ d1[<<"rule">>] = StrValue("linear")
  BY <1>2, EmptyIs, AssignAt, Zenon DEF Document
<1>4. DOMAIN members = {"start", "delta", "size"} /\ members["size"] = IntValue(n)
  OBVIOUS
<1> HIDE DEF members, d1
<1>5. DOMAIN members \subseteq Key /\ "size" \in DOMAIN members
  BY <1>1, <1>4, Zenon
<1>6. /\ <<"linear">> \in DOMAIN d2 /\ d2[<<"linear">>] = ObjValue
      /\ Append(<<"linear">>, "size") \in DOMAIN d2 /\ d2[Append(<<"linear">>, "size")] = IntValue(n)
  <2>1. PICK path : path = <<"linear">>
    OBVIOUS
  <2>2. /\ path \in DOMAIN d2 /\ d2[path] = ObjValue
        /\ \A k \in DOMAIN members : Append(path, k) \in DOMAIN d2 /\ d2[Append(path, k)] = members[k]
    BY <1>2, <1>3, <1>5, <2>1, AssignObjectAt
  <2> QED BY <2>1, <2>2, <1>4, <1>5, Zenon
<1>11. SameBut(d1, d2, <<"linear">>)
  BY <1>2, <1>3, <1>5, AssignObjectAt, Zenon
<1>12. ~ IsPrefix(<<"linear">>, <<"rule">>)
  BY <1>1, OtherKey
<1>7. d2 = Dimension(start, delta, n)
  BY Zenon DEF Dimension, d1, members
<1> HIDE DEF d2
<1>8. Append(<<"linear">>, "size") = <<"linear", "size">>
  BY <1>1, Tuple2, Zenon
<1>9. Has(d2, <<"linear">>, "obj")
  BY <1>6 DEF Has, ObjValue
<1>10. Read(d2, <<"linear", "size">>, "int", 1) = n
  <2>1. <<"linear", "size">> \in DOMAIN d2 /\ d2[<<"linear", "size">>] = <<"int", n>>
    BY <1>6, <1>8, Zenon DEF IntValue
  <2> QED BY <2>1, ReadBack, Zenon
<1>13. DimensionSizeOf(d2) = <<n>>
  <2>1. <<"rule">> \in DOMAIN d2 /\ d2[<<"rule">>] = <<"str", "linear">>
    BY <1>2, <1>3, <1>11, <1>12, Zenon DEF SameBut, SameAt, StrValue
  <2>2. Read(d2, <<"rule">>, "str", "explicit") = "linear"
    BY <2>1, ReadBack, Zenon
  <2>3. <<"linear", "size">> \in DOMAIN d2 /\ d2[<<"linear", "size">>] = <<"int", n>>
    BY <1>6, <1>8, Zenon DEF IntValue
  <2>4. ReadOpt(d2, <<"linear", "size">>, "int") = <<n>>
    BY <2>3, ReadBack, Zenon
  <2> QED BY <2>2, <2>4, Zenon DEF DimensionSizeOf
<1> QED BY <1>7, <1>9, <1>10, <1>13, Zenon

\* struct_field_builder: the type and the size of a field.
LEMMA FieldIs ==
  ASSUME NEW type
  PROVE  /\ DOMAIN Field(type) \subseteq Path
         /\ Read(Field(type), <<"dataType">>, "str", "unknown") = type
         /\ <<"dimensions">> \notin DOMAIN Field(type)
<1> DEFINE d1 == Assign(EmptyDoc, <<"rule">>, StrValue("explicit"))
           d2 == Assign(d1, <<"dataType">>, StrValue(type))
<1>1. /\ "rule" \in Key /\ "dataType" \in Key /\ "dimensions" \in Key
  BY DEF Key, LibraryNames
<1>2. <<"rule">> \in Path /\ <<"dataType">> \in Path /\ <<"dimensions">> \in Path
  BY <1>1, Keys
<1>3. DOMAIN d1 \subseteq Path /\ SameBut(EmptyDoc, d1, <<"rule">>)
  BY <1>2, EmptyIs, AssignAt, Zenon DEF Document
<1> HIDE DEF d1
<1>4. /\ DOMAIN d2 \subseteq Path /\ SameBut(d1, d2, <<"dataType">>)
      /\ <<"dataType">> \in DOMAIN d2 /\ d2[<<"dataType">>] = StrValue(type)
  BY <1>2, <1>3, AssignAt, Zenon
<1>5. d2 = Field(type)
  BY Zenon DEF Field, d1
<1> HIDE DEF d2
<1>6. ~ IsPrefix(<<"rule">>, <<"dimensions">>) /\ ~ IsPrefix(<<"dataType">>, <<"dimensions">>)
  BY <1>1, OtherKey
<1>7. <<"dimensions">> \notin DOMAIN d2
  BY <1>2, <1>3, <1>4, <1>6, EmptyIs, Zenon DEF SameBut, SameAt
<1>8. Read(d2, <<"dataType">>, "str", "unknown") = type
  BY <1>4, ReadBack, Zenon DEF StrValue
<1> QED BY <1>4, <1>5, <1>7, <1>8, Zenon

\* array and dimension.
LEMMA DimensionedIs ==
  ASSUME NEW field, DOMAIN field \subseteq Path, NEW start, NEW delta, NEW n, NEW new,
         new = Assign(field, <<"dimensions">>, ArrValue(<<Dimension(start, delta, n)>>))
  PROVE  /\ Read(new, <<"dataType">>, "str", "unknown") = Read(field, <<"dataType">>, "str", "unknown")
         /\ FieldCount(new) = n
         /\ StructFieldOf(new) = [type |-> Read(field, <<"dataType">>, "str", "unknown"), sizes |-> <<<<n>>>>]
<1>1. "dataType" \in Key /\ "dimensions" \in Key
  BY DEF Key, LibraryNames
<1>2. <<"dataType">> \in Path /\ <<"dimensions">> \in Path /\ ~ IsPrefix(<<"dimensions">>, <<"dataType">>)
  BY <1>1, Keys, OtherKey
<1>3. PICK dims : dims = <<Dimension(start, delta, n)>>
  OBVIOUS
<1>4. /\ SameBut(field, new, <<"dimensions">>)
      /\ <<"dimensions">> \in DOMAIN new /\ new[<<"dimensions">>] = ArrValue(dims)
  <2>1. PICK path, value : path = <<"dimensions">> /\ value = ArrValue(dims)
    OBVIOUS
  <2>2. new = Assign(field, path, value)
    BY <2>1, <1>3, Zenon
  <2>3. SameBut(field, new, path) /\ path \in DOMAIN new /\ new[path] = value
    BY <2>1, <2>2, <1>2, AssignAt
  <2> QED BY <2>1, <2>3, Zenon
<1>5. SameAt(field, new, <<"dataType">>)
  BY <1>2, <1>4, Zenon DEF SameBut
<1>6. Read(new, <<"dataType">>, "str", "unknown") = Read(field, <<"dataType">>, "str", "unknown")
  BY <1>5, Zenon DEF SameAt, Has, Read
<1>7. Read(new, <<"dimensions">>, "arr", <<>>) = dims
  <2>1. new[<<"dimensions">>] = <<"arr", dims>>
    BY <1>4 DEF ArrValue
  <2>2. \A x : Read(new, <<"dimensions">>, "arr", x) = dims
    BY <2>1, <1>4, ReadBack
  <2> QED BY <2>2
<1>8. dims # <<>> /\ dims[1] = Dimension(start, delta, n)
  BY <1>3
<1>9. FieldCount(new) = n
  <2>1. Has(dims[1], <<"linear">>, "obj") /\ Read(dims[1], <<"linear", "size">>, "int", 1) = n
    <3>1. PICK e : e = Dimension(start, delta, n)
      OBVIOUS
    <3>2. Has(e, <<"linear">>, "obj") /\ Read(e, <<"linear", "size">>, "int", 1) = n
      BY <3>1, DimensionIs
    <3> QED BY <3>1, <3>2, <1>8, Zenon
  <2> QED BY <1>7, <1>8, <2>1, Zenon DEF FieldCount
<1>10. [i \in DOMAIN dims |-> DimensionSizeOf(dims[i])] = <<<<n>>>>
  <2>1. PICK e, one : e = Dimension(start, delta, n) /\ one = <<n>>
    OBVIOUS
  <2>2. DimensionSizeOf(e) = one
    BY <2>1, DimensionIs, Zenon
  <2>3. dims = <<e>>
    BY <1>3, <2>1, Zenon
  <2>4. DOMAIN dims = {1} /\ dims[1] = e
    BY <2>3
  <2>5. [i \in DOMAIN dims |-> DimensionSizeOf(dims[i])] = [i \in {1} |-> one]
    BY <2>2, <2>4, Zenon
  <2>6. [i \in {1} |-> one] = <<one>>
    OBVIOUS
  <2> QED BY <2>1, <2>5, <2>6, Zenon
<1>11. StructFieldOf(new) = [type |-> Read(field, <<"dataType">>, "str", "unknown"), sizes |-> <<<<n>>>>]
  <2>1. PICK type, sizes : type = Read(field, <<"dataType">>, "str", "unknown") /\ sizes = <<<<n>>>>
    OBVIOUS
  <2> QED BY <1>6, <1>7, <1>10, <2>1, Zenon DEF StructFieldOf
<1> QED BY <1>6, <1>9, <1>11

\* However a field is described, its size is what its type and length make it,
\* and it reads as it was told.
LEMMA FieldSizeIs ==
  ASSUME NEW f, f.array \in Nat, NEW way
  PROVE  FieldSize(FieldDoc(f, way)) = ElementSize(f) /\ StructFieldOf(FieldDoc(f, way)) = FieldTold(f)
<1>1. PICK plain : plain = Field(f.type)
  OBVIOUS
<1>2. /\ DOMAIN plain \subseteq Path /\ Read(plain, <<"dataType">>, "str", "unknown") = f.type
      /\ <<"dimensions">> \notin DOMAIN plain
  BY <1>1, FieldIs, Zenon
<1>3. CASE f.array = 0
  <2>1. Read(plain, <<"dimensions">>, "arr", <<>>) = <<>>
    BY <1>2, Zenon DEF Read, Has
  <2>2. FieldCount(plain) = 1
    BY <2>1, Zenon DEF FieldCount
  <2>3. FieldDoc(f, way) = plain
    BY <1>1, <1>3, Zenon DEF FieldDoc
  <2>4. [i \in DOMAIN <<>> |-> DimensionSizeOf(<<>>[i])] = <<>>
    OBVIOUS
  <2>5. StructFieldOf(plain) = FieldTold(f)
    <3>1. PICK no : no = <<>>
      OBVIOUS
    <3>2. Read(plain, <<"dimensions">>, "arr", <<>>) = no /\ [i \in DOMAIN no |-> DimensionSizeOf(no[i])] = no
      BY <2>1, <2>4, <3>1, Zenon
    <3>3. StructFieldOf(plain) = [type |-> f.type, sizes |-> no]
      BY <3>2, <1>2, Zenon DEF StructFieldOf
    <3> QED BY <3>1, <3>3, <1>3, Zenon DEF FieldTold
  <2> QED BY <2>2, <2>3, <2>5, <1>2, <1>3, Zenon DEF FieldSize, ElementSize
<1>4. CASE f.array # 0
  <2>1. PICK start, delta :
          FieldDoc(f, way) = Assign(plain, <<"dimensions">>, ArrValue(<<Dimension(start, delta, f.array)>>))
    BY <1>1, <1>4, Zenon DEF FieldDoc, ArrayField, DimensionField
  <2>2. PICK new : new = FieldDoc(f, way)
    OBVIOUS
  <2>3. /\ Read(new, <<"dataType">>, "str", "unknown") = f.type /\ FieldCount(new) = f.array
        /\ StructFieldOf(new) = [type |-> f.type, sizes |-> <<<<f.array>>>>]
    <3>1. new = Assign(plain, <<"dimensions">>, ArrValue(<<Dimension(start, delta, f.array)>>))
      BY <2>1, <2>2, Zenon
    <3>3. PICK n : n = f.array
      OBVIOUS
    <3>4. new = Assign(plain, <<"dimensions">>, ArrValue(<<Dimension(start, delta, n)>>))
      BY <3>1, <3>3, Zenon
    <3>2. /\ Read(new, <<"dataType">>, "str", "unknown") = Read(plain, <<"dataType">>, "str", "unknown")
          /\ FieldCount(new) = n
          /\ StructFieldOf(new) = [type |-> Read(plain, <<"dataType">>, "str", "unknown"), sizes |-> <<<<n>>>>]
      BY <3>4, <1>2, DimensionedIs
    <3> QED BY <3>2, <3>3, <1>2, Zenon
  <2>4. StructFieldOf(new) = FieldTold(f)
    BY <2>3, <1>4, Zenon DEF FieldTold
  <2> QED BY <2>2, <2>3, <2>4, <1>4, Zenon DEF FieldSize, ElementSize
<1> QED BY <1>3, <1>4

-----------------------------------------------------------------------------
(* The accessors together.                                                 *)

ViewNames ==
  {"name", "dataType", "endian", "rule", "linear", "origin", "range", "resolution", "unit",
   "table", "valueIndex", "sampleSize", "ticks", "extra"}

\* The sections that an accessor reads.
Sections(a) ==
  CASE a = "name"       -> {Definition("name")}
    [] a = "dataType"   -> {Definition("dataType")}
    [] a = "endian"     -> {Definition("endian")}
    [] a = "rule"       -> {Definition("rule")}
    [] a = "linear"     -> {Definition("rule"), Definition("linear"), Interpretation("rule")}
    [] a = "origin"     -> {Definition("origin"), Interpretation("origin")}
    [] a = "range"      -> {Definition("range")}
    [] a = "resolution" -> {Definition("resolution")}
    [] a = "unit"       -> {Definition("unit"), Interpretation("unit")}
    [] a = "table"      -> {<<"tableId", "">>}
    [] a = "valueIndex" -> {<<"valueIndex", "">>}
    [] a = "sampleSize" -> {Definition("dataType"), Definition("struct")}
    [] a = "ticks"      -> {<<"signalRate", "">>}
    [] a = "extra"      -> {Interpretation("metadata")}

\* The members of a view.
LEMMA ViewIs ==
  ASSUME NEW d
  PROVE  /\ DOMAIN View(d) = ViewNames
         /\ View(d)["name"] = NameOf(d) /\ View(d)["dataType"] = DataTypeOf(d)
         /\ View(d)["endian"] = EndianOf(d) /\ View(d)["rule"] = RuleOf(d)
         /\ View(d)["linear"] = LinearStartDelta(d) /\ View(d)["origin"] = OriginOf(d)
         /\ View(d)["range"] = RangeOf(d) /\ View(d)["resolution"] = TickResolutionOf(d)
         /\ View(d)["unit"] = UnitOf(d) /\ View(d)["table"] = TableIdOf(d)
         /\ View(d)["valueIndex"] = ValueIndexOf(d) /\ View(d)["sampleSize"] = SampleSize(d)
         /\ View(d)["ticks"] = TcpSignalRateTicks(d, 1, TickDenom)
         /\ View(d)["extra"] = ExtraMetadataOf(d)
  BY DEF View, ViewNames

\* The sections of each accessor.
LEMMA SectionsAre ==
  /\ Sections("name") = {Definition("name")}
  /\ Sections("dataType") = {Definition("dataType")}
  /\ Sections("endian") = {Definition("endian")}
  /\ Sections("rule") = {Definition("rule")}
  /\ Sections("linear") = {Definition("rule"), Definition("linear"), Interpretation("rule")}
  /\ Sections("origin") = {Definition("origin"), Interpretation("origin")}
  /\ Sections("range") = {Definition("range")}
  /\ Sections("resolution") = {Definition("resolution")}
  /\ Sections("unit") = {Definition("unit"), Interpretation("unit")}
  /\ Sections("table") = {<<"tableId", "">>}
  /\ Sections("valueIndex") = {<<"valueIndex", "">>}
  /\ Sections("sampleSize") = {Definition("dataType"), Definition("struct")}
  /\ Sections("ticks") = {<<"signalRate", "">>}
  /\ Sections("extra") = {Interpretation("metadata")}
  BY DEF Sections

\* An accessor says the same as long as what it reads is not touched.
LEMMA ViewSame ==
  ASSUME NEW d1, NEW d2, Document(d1), Document(d2), NEW W, Untouched(d1, d2, W),
         NEW a \in ViewNames, Sections(a) \cap W = {}
  PROVE  View(d1)[a] = View(d2)[a]
<1>1. a = "name" => View(d1)[a] = View(d2)[a]
  <2> SUFFICES ASSUME a = "name" PROVE View(d1)[a] = View(d2)[a]
    OBVIOUS
  <2>1. Definition("name") \notin W
    BY SectionsAre, Zenon
  <2>2. NameOf(d1) = NameOf(d2)
    BY <2>1, SimpleSame
  <2> QED BY <2>2, ViewIs, Zenon
<1>2. a = "dataType" => View(d1)[a] = View(d2)[a]
  <2> SUFFICES ASSUME a = "dataType" PROVE View(d1)[a] = View(d2)[a]
    OBVIOUS
  <2>1. Definition("dataType") \notin W
    BY SectionsAre, Zenon
  <2>2. DataTypeOf(d1) = DataTypeOf(d2)
    BY <2>1, SimpleSame
  <2> QED BY <2>2, ViewIs, Zenon
<1>3. a = "endian" => View(d1)[a] = View(d2)[a]
  <2> SUFFICES ASSUME a = "endian" PROVE View(d1)[a] = View(d2)[a]
    OBVIOUS
  <2>1. Definition("endian") \notin W
    BY SectionsAre, Zenon
  <2>2. EndianOf(d1) = EndianOf(d2)
    BY <2>1, SimpleSame
  <2> QED BY <2>2, ViewIs, Zenon
<1>4. a = "rule" => View(d1)[a] = View(d2)[a]
  <2> SUFFICES ASSUME a = "rule" PROVE View(d1)[a] = View(d2)[a]
    OBVIOUS
  <2>1. Definition("rule") \notin W
    BY SectionsAre, Zenon
  <2>2. RuleOf(d1) = RuleOf(d2)
    BY <2>1, SimpleSame
  <2> QED BY <2>2, ViewIs, Zenon
<1>5. a = "linear" => View(d1)[a] = View(d2)[a]
  BY SectionsAre, ViewIs, LinearSame, Zenon
<1>6. a = "origin" => View(d1)[a] = View(d2)[a]
  BY SectionsAre, ViewIs, OriginSame, Zenon
<1>7. a = "range" => View(d1)[a] = View(d2)[a]
  BY SectionsAre, ViewIs, RangeSame, Zenon
<1>8. a = "resolution" => View(d1)[a] = View(d2)[a]
  BY SectionsAre, ViewIs, ResolutionSame, Zenon
<1>9. a = "unit" => View(d1)[a] = View(d2)[a]
  BY SectionsAre, ViewIs, UnitSame, Zenon
<1>10. a = "table" => View(d1)[a] = View(d2)[a]
  <2> SUFFICES ASSUME a = "table" PROVE View(d1)[a] = View(d2)[a]
    OBVIOUS
  <2>1. <<"tableId", "">> \notin W
    BY SectionsAre, Zenon
  <2>2. TableIdOf(d1) = TableIdOf(d2)
    BY <2>1, SimpleSame
  <2> QED BY <2>2, ViewIs, Zenon
<1>11. a = "valueIndex" => View(d1)[a] = View(d2)[a]
  <2> SUFFICES ASSUME a = "valueIndex" PROVE View(d1)[a] = View(d2)[a]
    OBVIOUS
  <2>1. <<"valueIndex", "">> \notin W
    BY SectionsAre, Zenon
  <2>2. ValueIndexOf(d1) = ValueIndexOf(d2)
    BY <2>1, SimpleSame
  <2> QED BY <2>2, ViewIs, Zenon
<1>12. a = "sampleSize" => View(d1)[a] = View(d2)[a]
  BY SectionsAre, ViewIs, SizeSame, Zenon
<1>13. a = "ticks" => View(d1)[a] = View(d2)[a]
  <2> SUFFICES ASSUME a = "ticks" PROVE View(d1)[a] = View(d2)[a]
    OBVIOUS
  <2>1. <<"signalRate", "">> \notin W
    BY SectionsAre, Zenon
  <2>2. TcpSignalRateTicks(d1, 1, TickDenom) = TcpSignalRateTicks(d2, 1, TickDenom)
    <3>1. \A num, denom : TcpSignalRateTicks(d1, num, denom) = TcpSignalRateTicks(d2, num, denom)
      BY <2>1, TicksSame
    <3> QED BY <3>1, Zenon
  <2> QED BY <2>2, ViewIs, Zenon
<1>14. a = "extra" => View(d1)[a] = View(d2)[a]
  BY SectionsAre, ViewIs, ExtraSame, Zenon
<1> QED BY <1>1, <1>2, <1>3, <1>4, <1>5, <1>6, <1>7, <1>8, <1>9, <1>10, <1>11, <1>12, <1>13, <1>14, Zenon
        DEF ViewNames

\* The builder's document says what the builder was told.
Agree(d, t) ==
  \A a \in ViewNames : View(d)[a] = t[a] \/ (a = "origin" /\ Has(d, Definition("origin"), "str"))

\* The sections W are read by the accessors C only.
ReadOnlyBy(W, C) ==
  /\ Definition("origin") \notin W
  /\ \A a \in ViewNames \ C : Sections(a) \cap W = {}

\* Of these accessors the document says what was told.
Says(d, t, C) ==
  \A a \in C : View(d)[a] = t[a] \/ (a = "origin" /\ Has(d, Definition("origin"), "str"))

\* Nothing new was told of the others.
ToldOnly(t1, t2, C) == \A a \in ViewNames \ C : t2[a] = t1[a]

\* A call that touches the sections W changes what the accessors C say.
LEMMA AgreeKept ==
  ASSUME NEW d1, NEW t1, Agree(d1, t1), NEW d2, NEW t2, NEW W, NEW C, Untouched(d1, d2, W),
         Document(d1), Document(d2), ReadOnlyBy(W, C), ToldOnly(t1, t2, C), Says(d2, t2, C)
  PROVE  Agree(d2, t2)
<1>1. Has(d1, Definition("origin"), "str") <=> Has(d2, Definition("origin"), "str")
  <2>1. "origin" \in Key
    BY DEF Key, LibraryNames
  <2>2. SameAt(d1, d2, Definition("origin"))
    BY <2>1, SameKeys DEF SameBelow, ReadOnlyBy
  <2> QED BY <2>2, Zenon DEF SameAt, Has
<1>2. ASSUME NEW a \in ViewNames \ C PROVE View(d1)[a] = View(d2)[a] /\ t2[a] = t1[a]
  BY ViewSame DEF ReadOnlyBy, ToldOnly
<1> QED BY <1>1, <1>2, Zenon DEF Agree, Says

-----------------------------------------------------------------------------
(* The calls of the builder, and what each touches.                        *)

\* A document the builder can work on.
Ready(doc) ==
  Document(doc) /\ Has(doc, <<"definition">>, "obj") /\ Has(doc, <<"interpretation">>, "obj")

\* Sections below the definition and the interpretation, not these themselves.
Proper(W) == <<"definition", "">> \notin W /\ <<"interpretation", "">> \notin W

\* In a document that is ready every member of the two halves can be assigned.
LEMMA ReadyOpen ==
  ASSUME NEW doc, Ready(doc), NEW k \in Key
  PROVE  Open(doc, Definition(k)) /\ Open(doc, Interpretation(k)) /\ Open(doc, <<k>>)
  BY Keys, TopOpen DEF Open, Ready

\* A call that does not replace the halves leaves a document ready.
LEMMA ReadyKept ==
  ASSUME NEW d1, NEW d2, Ready(d1), Document(d2), NEW W, Untouched(d1, d2, W), Proper(W)
  PROVE  Ready(d2)
<1>1. /\ "definition" \in Key /\ "interpretation" \in Key
  BY DEF Key, LibraryNames
<1>2. /\ <<"definition">> \in Path /\ Section(<<"definition">>) = <<"definition", "">>
      /\ <<"interpretation">> \in Path /\ Section(<<"interpretation">>) = <<"interpretation", "">>
  BY <1>1, Keys
<1>3. SameAt(d1, d2, <<"definition">>) /\ SameAt(d1, d2, <<"interpretation">>)
  BY <1>2 DEF Untouched, Proper
<1> QED BY <1>3, Zenon DEF Ready, SameAt, Has

\* An assignment within a section.
LEMMA Put ==
  ASSUME NEW doc, Ready(doc), NEW path, Within(path), Open(doc, path), NEW value,
         NEW W, Section(path) \in W, Proper(W), NEW new, new = Assign(doc, path, value)
  PROVE  /\ Ready(new) /\ Untouched(doc, new, W)
         /\ path \in DOMAIN new /\ new[path] = value
<1>1. path \in Path /\ DOMAIN doc \subseteq Path
  BY DEF Within, Ready, Document
<1>2. Document(new)
  BY <1>1, AssignDoc DEF Ready
<1>3. path \in DOMAIN new /\ new[path] = value /\ SameBut(doc, new, path)
  BY <1>1, AssignAt
<1>4. Untouched(doc, new, W)
  BY <1>3, ButIsUntouched
<1> QED BY <1>2, <1>3, <1>4, ReadyKept

\* An erasure within a section.
LEMMA TakeOut ==
  ASSUME NEW doc, Ready(doc), NEW path, Within(path),
         NEW W, Section(path) \in W, Proper(W), NEW new, new = Erase(doc, path)
  PROVE  Ready(new) /\ Untouched(doc, new, W)
<1>1. path \in Path /\ DOMAIN doc \subseteq Path
  BY DEF Within, Ready, Document
<1>2. Document(new)
  BY <1>1, EraseDoc DEF Ready
<1>3. SameBut(doc, new, path)
  BY <1>1, EraseAt
<1>4. Untouched(doc, new, W)
  BY <1>3, ButIsUntouched
<1> QED BY <1>2, <1>4, ReadyKept

\* What a document has of an object that was assigned.
Holds(new, path, members) ==
  /\ Has(new, path, "obj")
  /\ \A k \in DOMAIN members : Append(path, k) \in DOMAIN new /\ new[Append(path, k)] = members[k]

\* An object put into a section.
LEMMA PutObject ==
  ASSUME NEW doc, Ready(doc), NEW path, Within(path), Open(doc, path),
         NEW members, DOMAIN members \subseteq Key,
         NEW W, Section(path) \in W, Proper(W), NEW new, new = AssignObject(doc, path, members)
  PROVE  Ready(new) /\ Untouched(doc, new, W) /\ Holds(new, path, members)
<1>1. path \in Path /\ DOMAIN doc \subseteq Path
  BY DEF Within, Ready, Document
<1>2. Document(new)
  BY <1>1, AssignObjectDoc DEF Ready
<1>3. /\ path \in DOMAIN new /\ new[path] = ObjValue /\ SameBut(doc, new, path)
      /\ \A k \in DOMAIN members : Append(path, k) \in DOMAIN new /\ new[Append(path, k)] = members[k]
  BY <1>1, AssignObjectAt, Zenon
<1>4. Has(new, path, "obj")
  BY <1>3 DEF Has, ObjValue
<1>5. Untouched(doc, new, W)
  BY <1>3, ButIsUntouched
<1> QED BY <1>2, <1>3, <1>4, <1>5, ReadyKept DEF Holds


\* The places of the library's own members.
LEMMA Places ==
  ASSUME NEW doc, Ready(doc), NEW k \in Key, k # ""
  PROVE  /\ Within(Definition(k)) /\ Open(doc, Definition(k)) /\ Section(Definition(k)) = Definition(k)
         /\ Within(Interpretation(k)) /\ Open(doc, Interpretation(k))
         /\ Section(Interpretation(k)) = Interpretation(k)
         /\ Proper({Definition(k)}) /\ Proper({Interpretation(k)})
         /\ k \notin Split => /\ Within(<<k>>) /\ Open(doc, <<k>>) /\ Section(<<k>>) = <<k, "">>
                             /\ Proper({<<k, "">>})
<1>1. Proper({Definition(k)}) /\ Proper({Interpretation(k)}) /\ (k \notin Split => Proper({<<k, "">>}))
  BY DEF Proper, Definition, Interpretation, Split
<1> QED BY <1>1, Keys, ReadyOpen

\* data_type.
LEMMA DataTypeCall ==
  ASSUME NEW doc, Ready(doc), NEW type, NEW new, new = DataType(doc, type)
  PROVE  Ready(new) /\ Untouched(doc, new, {Definition("dataType")}) /\ DataTypeOf(new) = type
<1>1. "dataType" \in Key /\ "dataType" # "" /\ "dataType" \notin Split
  BY DEF Key, LibraryNames, Split
<1>2. PICK path, W, value : path = Definition("dataType") /\ W = {Definition("dataType")} /\ value = StrValue(type)
  OBVIOUS
<1>3. Within(path) /\ Open(doc, path) /\ Section(path) \in W /\ Proper(W)
  BY <1>1, <1>2, Places
<1>4. new = Assign(doc, path, value)
  BY <1>2, Zenon DEF DataType
<1>5. Ready(new) /\ Untouched(doc, new, W) /\ path \in DOMAIN new /\ new[path] = value
  BY <1>3, <1>4, Put
<1>6. \A x : Read(new, path, "str", x) = type
  BY <1>2, <1>5, ReadBack DEF StrValue
<1>7. DataTypeOf(new) = type
  BY <1>2, <1>6, Zenon DEF DataTypeOf
<1> QED BY <1>2, <1>5, <1>7

\* endian.
LEMMA EndianCall ==
  ASSUME NEW doc, Ready(doc), NEW endian, NEW new, new = Endian(doc, endian)
  PROVE  Ready(new) /\ Untouched(doc, new, {Definition("endian")}) /\ EndianOf(new) = endian
<1>1. "endian" \in Key /\ "endian" # "" /\ "endian" \notin Split
  BY DEF Key, LibraryNames, Split
<1>2. PICK path, W, value : path = Definition("endian") /\ W = {Definition("endian")} /\ value = StrValue(endian)
  OBVIOUS
<1>3. Within(path) /\ Open(doc, path) /\ Section(path) \in W /\ Proper(W)
  BY <1>1, <1>2, Places
<1>4. new = Assign(doc, path, value)
  BY <1>2, Zenon DEF Endian
<1>5. Ready(new) /\ Untouched(doc, new, W) /\ path \in DOMAIN new /\ new[path] = value
  BY <1>3, <1>4, Put
<1>6. \A x : Read(new, path, "str", x) = endian
  BY <1>2, <1>5, ReadBack DEF StrValue
<1>7. EndianOf(new) = endian
  BY <1>2, <1>6, Zenon DEF EndianOf
<1> QED BY <1>2, <1>5, <1>7

\* table.
LEMMA TableCall ==
  ASSUME NEW doc, Ready(doc), NEW id, NEW new, new = Table(doc, id)
  PROVE  Ready(new) /\ Untouched(doc, new, {<<"tableId", "">>}) /\ TableIdOf(new) = id
<1>1. "tableId" \in Key /\ "tableId" # "" /\ "tableId" \notin Split
  BY DEF Key, LibraryNames, Split
<1>2. PICK path, W, value : path = <<"tableId">> /\ W = {<<"tableId", "">>} /\ value = StrValue(id)
  OBVIOUS
<1>3. Within(path) /\ Open(doc, path) /\ Section(path) \in W /\ Proper(W)
  BY <1>1, <1>2, Places
<1>4. new = Assign(doc, path, value)
  BY <1>2, Zenon DEF Table
<1>5. Ready(new) /\ Untouched(doc, new, W) /\ path \in DOMAIN new /\ new[path] = value
  BY <1>3, <1>4, Put
<1>6. \A x : Read(new, path, "str", x) = id
  BY <1>2, <1>5, ReadBack DEF StrValue
<1>7. TableIdOf(new) = id
  BY <1>2, <1>6, Zenon DEF TableIdOf
<1> QED BY <1>2, <1>5, <1>7

\* origin: the definition of another peer may have one already, which is read first.
LEMMA OriginCall ==
  ASSUME NEW doc, Ready(doc), NEW origin, NEW new, new = Origin(doc, origin)
  PROVE  Ready(new) /\ Untouched(doc, new, {Interpretation("origin")}) /\ (OriginOf(new) = origin \/ Has(new, Definition("origin"), "str"))
<1>1. "origin" \in Key /\ "origin" # "" /\ "origin" \notin Split
  BY DEF Key, LibraryNames, Split
<1>2. PICK path, W, value : path = Interpretation("origin") /\ W = {Interpretation("origin")} /\ value = StrValue(origin)
  OBVIOUS
<1>3. Within(path) /\ Open(doc, path) /\ Section(path) \in W /\ Proper(W)
  BY <1>1, <1>2, Places
<1>4. new = Assign(doc, path, value)
  BY <1>2, Zenon DEF Origin
<1>5. Ready(new) /\ Untouched(doc, new, W) /\ path \in DOMAIN new /\ new[path] = value
  BY <1>3, <1>4, Put
<1>6. \A x : Read(new, path, "str", x) = origin
  BY <1>2, <1>5, ReadBack DEF StrValue
<1>7. (OriginOf(new) = origin \/ Has(new, Definition("origin"), "str"))
  BY <1>2, <1>6, Zenon DEF OriginOf, Read
<1> QED BY <1>2, <1>5, <1>7

\* struct_field.
LEMMA StructFieldCall ==
  ASSUME NEW doc, Ready(doc), NEW field, NEW new, new = StructField(doc, field)
  PROVE  Ready(new) /\ Untouched(doc, new, {Definition("struct")}) /\ FieldsOf(new) = Append(FieldsOf(doc), field)
<1>1. "struct" \in Key /\ "struct" # "" /\ "struct" \notin Split
  BY DEF Key, LibraryNames, Split
<1>2. PICK path, W, value : path = Definition("struct") /\ W = {Definition("struct")} /\ value = ArrValue(Append(FieldsOf(doc), field))
  OBVIOUS
<1>3. Within(path) /\ Open(doc, path) /\ Section(path) \in W /\ Proper(W)
  BY <1>1, <1>2, Places
<1>4. new = Assign(doc, path, value)
  BY <1>2, Zenon DEF StructField
<1>5. Ready(new) /\ Untouched(doc, new, W) /\ path \in DOMAIN new /\ new[path] = value
  BY <1>3, <1>4, Put
<1>6. \A x : Read(new, path, "arr", x) = Append(FieldsOf(doc), field)
  BY <1>2, <1>5, ReadBack DEF ArrValue
<1>7. FieldsOf(new) = Append(FieldsOf(doc), field)
  BY <1>2, <1>6, Zenon DEF FieldsOf
<1> QED BY <1>2, <1>5, <1>7

\* A member of an object that was assigned.
LEMMA ReadMember ==
  ASSUME NEW new, NEW path, NEW members, Holds(new, path, members), NEW k \in DOMAIN members,
         NEW type, NEW value, members[k] = <<type, value>>
  PROVE  /\ ReadOpt(new, Append(path, k), type) = <<value>>
         /\ \A x : Read(new, Append(path, k), type, x) = value
<1>1. Append(path, k) \in DOMAIN new /\ new[Append(path, k)] = <<type, value>>
  BY DEF Holds
<1> QED BY <1>1, ReadBack

\* range.
LEMMA ValueRangeCall ==
  ASSUME NEW doc, Ready(doc), NEW low, NEW high, NEW new, new = ValueRange(doc, low, high)
  PROVE  Ready(new) /\ Untouched(doc, new, {Definition("range")}) /\ RangeOf(new) = <<low, high>>
<1>1. "range" \in Key /\ "range" # "" /\ {"low", "high"} \subseteq Key
  BY DEF Key, LibraryNames
<1>2. PICK path, W, members : /\ path = Definition("range") /\ W = {Definition("range")}
                              /\ members = [low |-> IntValue(low), high |-> IntValue(high)]
  OBVIOUS
<1>3. DOMAIN members = {"low", "high"} /\ members["low"] = <<"int", low>> /\ members["high"] = <<"int", high>>
  BY <1>2 DEF IntValue
<1>4. Within(path) /\ Open(doc, path) /\ Section(path) \in W /\ Proper(W)
  BY <1>1, <1>2, Places
<1>5. new = AssignObject(doc, path, members)
  BY <1>2, Zenon DEF ValueRange
<1>6. Ready(new) /\ Untouched(doc, new, W) /\ Holds(new, path, members)
  BY <1>1, <1>3, <1>4, <1>5, PutObject
<1>7. \A x : Read(new, Append(path, "low"), "int", x) = low
  BY <1>3, <1>6, ReadMember
<1>8. \A x : Read(new, Append(path, "high"), "int", x) = high
  BY <1>3, <1>6, ReadMember
<1>9. RangeOf(new) = <<low, high>>
  BY <1>2, <1>6, <1>7, <1>8, Zenon DEF RangeOf, Holds
<1> QED BY <1>2, <1>6, <1>9

\* tick_resolution.
LEMMA TickResolutionCall ==
  ASSUME NEW doc, Ready(doc), NEW num, NEW denom, NEW new, new = TickResolution(doc, num, denom)
  PROVE  /\ Ready(new) /\ Untouched(doc, new, {Definition("resolution")})
         /\ TickResolutionOf(new) = <<num, denom>>
<1>1. "resolution" \in Key /\ "resolution" # "" /\ {"num", "denom"} \subseteq Key
  BY DEF Key, LibraryNames
<1>2. PICK path, W, members : /\ path = Definition("resolution") /\ W = {Definition("resolution")}
                              /\ members = [num |-> IntValue(num), denom |-> IntValue(denom)]
  OBVIOUS
<1>3. DOMAIN members = {"num", "denom"} /\ members["num"] = <<"int", num>> /\ members["denom"] = <<"int", denom>>
  BY <1>2 DEF IntValue
<1>4. Within(path) /\ Open(doc, path) /\ Section(path) \in W /\ Proper(W)
  BY <1>1, <1>2, Places
<1>5. new = AssignObject(doc, path, members)
  BY <1>2, Zenon DEF TickResolution
<1>6. Ready(new) /\ Untouched(doc, new, W) /\ Holds(new, path, members)
  BY <1>1, <1>3, <1>4, <1>5, PutObject
<1>7. \A x : Read(new, Append(path, "num"), "int", x) = num
  BY <1>3, <1>6, ReadMember
<1>8. \A x : Read(new, Append(path, "denom"), "int", x) = denom
  BY <1>3, <1>6, ReadMember
<1>9. TickResolutionOf(new) = <<num, denom>>
  BY <1>2, <1>6, <1>7, <1>8, Zenon DEF TickResolutionOf, Holds
<1> QED BY <1>2, <1>6, <1>9

\* metadata(key, value).
WithMember(members, key, value) ==
  [k \in DOMAIN members \cup {key} |-> IF k = key THEN value ELSE members[k]]

LEMMA ExtraMetadataCall ==
  ASSUME NEW doc, Ready(doc), NEW key \in Key, NEW value, NEW new, new = ExtraMetadata(doc, key, value)
  PROVE  /\ Ready(new) /\ Untouched(doc, new, {Interpretation("metadata")})
         /\ ExtraMetadataOf(new) = WithMember(ExtraMetadataOf(doc), key, StrValue(value))
<1>1. "metadata" \in Key /\ "metadata" # "" /\ "interpretation" \in Key
  BY DEF Key, LibraryNames
<1>2. PICK path, W, member, mid :
        /\ path = Interpretation("metadata") /\ W = {Interpretation("metadata")}
        /\ member = <<"interpretation", "metadata", key>> /\ mid = Ensure(doc, path)
  OBVIOUS
<1>3. Within(path) /\ Open(doc, path) /\ Section(path) \in W /\ Proper(W)
  BY <1>1, <1>2, Places
<1>4. Ready(mid) /\ Untouched(doc, mid, W) /\ Has(mid, path, "obj")
  <2>1. CASE Has(doc, path, "obj")
    <3>1. mid = doc
      BY <1>2, <2>1 DEF Ensure
    <3> QED BY <3>1, <2>1 DEF Untouched, SameAt
  <2>2. CASE ~ Has(doc, path, "obj")
    <3>1. mid = Assign(doc, path, ObjValue)
      BY <1>2, <2>2 DEF Ensure
    <3>2. Ready(mid) /\ Untouched(doc, mid, W) /\ path \in DOMAIN mid /\ mid[path] = ObjValue
      BY <3>1, <1>3, Put
    <3> QED BY <3>2 DEF Has, ObjValue
  <2> QED BY <2>1, <2>2
<1>5. Append(path, key) = member
  BY <1>1, <1>2, Tuple3, Zenon DEF Interpretation
<1>6. path \in Path
  BY <1>3 DEF Within
<1>7. member \in Path /\ IsPrefix(path, member) /\ Parent(member) = path
  BY <1>5, <1>6, PrefixOfMember, ParentOfMember
<1>8. Within(member) /\ Section(member) \in W
  BY <1>3, <1>7, SectionOfPrefix
<1>9. Open(mid, member)
  BY <1>4, <1>7 DEF Open
<1>10. PICK v : v = StrValue(value)
  OBVIOUS
<1>11. new = Assign(mid, member, v)
  BY <1>2, <1>10, Zenon DEF ExtraMetadata
<1>12. /\ Ready(new) /\ Untouched(mid, new, W) /\ member \in DOMAIN new /\ new[member] = v
  BY <1>3, <1>4, <1>8, <1>9, <1>11, Put
<1>13. ASSUME NEW k \in Key, k # key PROVE SameAt(doc, new, Append(path, k))
  <2>1. PICK q : q = Append(path, k)
    OBVIOUS
  <2>2. /\ q \in Path /\ Len(q) = Len(path) + 1 /\ q[Len(path) + 1] = k /\ q # path /\ Len(path) \in Nat
        /\ IsPrefix(path, q) /\ Parent(q) = path
        /\ Len(member) = Len(path) + 1 /\ member[Len(path) + 1] = key
    BY <1>5, <1>6, <2>1, PrefixOfMember, ParentOfMember, LenProperties DEF Path
  <2>3. ~ IsPrefix(member, q)
    <3>1. Len(path) + 1 \in 1 .. Len(member)
      BY <2>2
    <3> QED BY <3>1, <1>7, <1>13, <2>2, PrefixAt
  <2>4. SameAt(mid, new, q)
    <3>1. SameBut(mid, new, member)
      BY <1>4, <1>7, <1>11, AssignAt DEF Ready, Document
    <3> QED BY <3>1, <2>2, <2>3 DEF SameBut
  <2>5. SameAt(doc, mid, q)
    <3>1. CASE Has(doc, path, "obj")
      <4>1. mid = doc
        BY <1>2, <3>1 DEF Ensure
      <4> QED BY <4>1 DEF SameAt
    <3>2. CASE ~ Has(doc, path, "obj")
      <4>1. mid = Assign(doc, path, ObjValue)
        BY <1>2, <3>2 DEF Ensure
      <4>2. q \notin DOMAIN mid
        BY <4>1, <1>6, <2>2, AssignAt DEF Ready, Document
      <4>3. q \notin DOMAIN doc
        <5>1. q # <<>> /\ Len(q) # 1
          <6>1. Len(path) = 2
            BY <1>1, <1>2, Tuples DEF Interpretation
          <6> QED BY <6>1, <2>2
        <5> QED BY <5>1, <2>2, <3>2 DEF Ready, Document, Open
      <4> QED BY <4>2, <4>3 DEF SameAt
    <3> QED BY <3>1, <3>2
  <2> QED BY <2>1, <2>4, <2>5 DEF SameAt
<1>14. ExtraKeys(new) = ExtraKeys(doc) \cup {key}
  BY <1>2, <1>5, <1>12, <1>13, Zenon DEF ExtraKeys, SameAt
<1>15. ExtraMetadataOf(new) = WithMember(ExtraMetadataOf(doc), key, v)
  <2>1. PICK old, all : old = ExtraMetadataOf(doc) /\ all = ExtraMetadataOf(new)
    OBVIOUS
  <2>2. Document(doc) /\ Document(new)
    BY <1>12 DEF Ready
  <2>3. /\ DOMAIN old = ExtraKeys(doc) /\ DOMAIN all = ExtraKeys(new)
        /\ \A k \in ExtraKeys(doc) : old[k] = doc[Append(path, k)]
        /\ \A k \in ExtraKeys(new) : all[k] = new[Append(path, k)]
    BY <1>2, <2>1, <2>2, ExtraIs, Zenon
  <2>4. all[key] = v
    BY <1>5, <1>12, <1>14, <2>3, Zenon
  <2>5. ASSUME NEW k \in ExtraKeys(doc), k # key PROVE all[k] = old[k]
    <3>1. k \in Key /\ Append(path, k) \in DOMAIN doc
      BY <1>2, <2>5, Zenon DEF ExtraKeys
    <3>2. doc[Append(path, k)] = new[Append(path, k)]
      BY <1>13, <2>5, <3>1, Zenon DEF SameAt
    <3> QED BY <1>14, <2>3, <2>5, <3>2, Zenon
  <2>6. all = [k \in ExtraKeys(new) |-> all[k]]
    <3>1. all = [k \in DOMAIN all |-> all[k]]
      BY <2>1, Zenon DEF ExtraMetadataOf
    <3> QED BY <2>3, <3>1, Zenon
  <2>7. all = [k \in DOMAIN old \cup {key} |-> IF k = key THEN v ELSE old[k]]
    BY <1>14, <2>3, <2>4, <2>5, <2>6, Zenon
  <2> QED BY <2>1, <2>7, Zenon DEF WithMember
<1> QED BY <1>2, <1>4, <1>10, <1>12, <1>15, UntouchedTwice

\* unit.
LEMMA UnitCall ==
  ASSUME NEW doc, Ready(doc), NEW u, NEW new, new = Unit(doc, u),
         u = [id |-> u.id, name |-> u.name, quantity |-> u.quantity, symbol |-> u.symbol]
  PROVE  /\ Ready(new) /\ Untouched(doc, new, {Definition("unit"), Interpretation("unit")})
         /\ UnitOf(new) = <<u>>
<1>1. /\ "unit" \in Key /\ "unit" # "" /\ {"unitId", "quantity", "displayName"} \subseteq Key
      /\ {"id", "name", "quantity", "symbol"} \subseteq Key
  BY DEF Key, LibraryNames
<1>2. PICK pd, pi, W, md, mi :
        /\ pd = Definition("unit") /\ pi = Interpretation("unit")
        /\ W = {Definition("unit"), Interpretation("unit")}
        /\ md = [unitId |-> IntValue(u.id), quantity |-> StrValue(u.quantity),
                 displayName |-> StrValue(u.symbol)]
        /\ mi = [id |-> IntValue(u.id), name |-> StrValue(u.name), quantity |-> StrValue(u.quantity),
                 symbol |-> StrValue(u.symbol)]
  OBVIOUS
<1>3. DOMAIN md \subseteq Key
  BY <1>1, <1>2
<1>4. /\ DOMAIN mi = {"id", "name", "quantity", "symbol"}
      /\ mi["id"] = <<"int", u.id>> /\ mi["name"] = <<"str", u.name>>
      /\ mi["quantity"] = <<"str", u.quantity>> /\ mi["symbol"] = <<"str", u.symbol>>
  BY <1>2 DEF IntValue, StrValue
<1>5. Within(pd) /\ Open(doc, pd) /\ Section(pd) \in W
  BY <1>1, <1>2, Places
<1>6. Proper(W)
  BY <1>2 DEF Proper, Definition, Interpretation
<1>7. PICK mid : mid = AssignObject(doc, pd, md)
  OBVIOUS
<1>8. Ready(mid) /\ Untouched(doc, mid, W)
  BY <1>3, <1>5, <1>6, <1>7, PutObject
<1>9. Within(pi) /\ Open(mid, pi) /\ Section(pi) \in W
  BY <1>1, <1>2, <1>8, Places
<1>10. new = AssignObject(mid, pi, mi)
  BY <1>2, <1>7, Zenon DEF Unit
<1>11. Ready(new) /\ Untouched(mid, new, W) /\ Holds(new, pi, mi)
  BY <1>1, <1>4, <1>6, <1>8, <1>9, <1>10, PutObject
<1>12. \A x : Read(new, Append(pi, "id"), "int", x) = u.id
  BY <1>4, <1>11, ReadMember
<1>13. \A x : Read(new, Append(pi, "name"), "str", x) = u.name
  BY <1>4, <1>11, ReadMember
<1>14. \A x : Read(new, Append(pi, "quantity"), "str", x) = u.quantity
  BY <1>4, <1>11, ReadMember
<1>15. \A x : Read(new, Append(pi, "symbol"), "str", x) = u.symbol
  BY <1>4, <1>11, ReadMember
<1>16. UnitOf(new) = <<[id |-> u.id, name |-> u.name, quantity |-> u.quantity, symbol |-> u.symbol]>>
  BY <1>2, <1>11, <1>12, <1>13, <1>14, <1>15, Zenon DEF UnitOf, Holds
<1>17. Untouched(doc, new, W)
  BY <1>8, <1>11, UntouchedTwice
<1>18. UnitOf(new) = <<u>>
  BY <1>16, Zenon
<1> QED BY <1>2, <1>11, <1>17, <1>18, Zenon

\* The rate is read from the document.
Ticking(doc, rate) ==
  \A num, denom : TcpSignalRateTicks(doc, num, denom) = Ticks(rate, num, denom)

\* tcp_signal_rate.
LEMMA TcpSignalRateCall ==
  ASSUME NEW doc, Ready(doc), NEW rate, NEW new, new = TcpSignalRate(doc, rate)
  PROVE  Ready(new) /\ Untouched(doc, new, {<<"signalRate", "">>}) /\ Ticking(new, rate)
<1>1. /\ "signalRate" \in Key /\ "signalRate" # "" /\ "signalRate" \notin Split /\ {"samples"} \subseteq Key
      /\ {"seconds", "fraction", "subFraction"} \subseteq Key /\ "samples" \in Key /\ "delta" \in Key
  BY DEF Key, LibraryNames, Split
<1>2. PICK top, at, W, mt, ma :
        /\ top = <<"signalRate">> /\ at = <<"signalRate", "delta">> /\ W = {<<"signalRate", "">>}
        /\ mt = [samples |-> IntValue(rate.samples)]
        /\ ma = [seconds |-> IntValue(rate.seconds), fraction |-> IntValue(rate.fraction),
                 subFraction |-> IntValue(rate.subFraction)]
  OBVIOUS
<1>3. DOMAIN mt = {"samples"} /\ mt["samples"] = <<"int", rate.samples>>
  BY <1>2 DEF IntValue
<1>4. /\ DOMAIN ma = {"seconds", "fraction", "subFraction"} /\ ma["seconds"] = <<"int", rate.seconds>>
      /\ ma["fraction"] = <<"int", rate.fraction>> /\ ma["subFraction"] = <<"int", rate.subFraction>>
  BY <1>2 DEF IntValue
<1>5. Within(top) /\ Open(doc, top) /\ Section(top) \in W /\ Proper(W)
  BY <1>1, <1>2, Places
<1>6. PICK mid : mid = AssignObject(doc, top, mt)
  OBVIOUS
<1>7. Ready(mid) /\ Untouched(doc, mid, W) /\ Holds(mid, top, mt)
  BY <1>1, <1>3, <1>5, <1>6, PutObject
<1>8. Within(at) /\ Section(at) \in W /\ Parent(at) = top
  BY <1>2, LongKeys
<1>9. Open(mid, at)
  BY <1>7, <1>8 DEF Open, Holds
<1>10. new = AssignObject(mid, at, ma)
  BY <1>2, <1>6, Zenon DEF TcpSignalRate
<1>11. Ready(new) /\ Untouched(mid, new, W) /\ Holds(new, at, ma)
  BY <1>1, <1>4, <1>5, <1>7, <1>8, <1>9, <1>10, PutObject
<1>12. \A x : Read(new, Append(at, "seconds"), "int", x) = rate.seconds
  BY <1>4, <1>11, ReadMember
<1>13. \A x : Read(new, Append(at, "fraction"), "int", x) = rate.fraction
  BY <1>4, <1>11, ReadMember
<1>14. \A x : Read(new, Append(at, "subFraction"), "int", x) = rate.subFraction
  BY <1>4, <1>11, ReadMember
<1>15. PICK sp : sp = <<"signalRate", "samples">>
  OBVIOUS
<1>16. SameBut(mid, new, at)
  <2>1. at \in Path /\ DOMAIN mid \subseteq Path /\ DOMAIN ma \subseteq Key
    BY <1>1, <1>4, <1>7, <1>8 DEF Within, Ready, Document
  <2> QED BY <2>1, <1>10, AssignObjectAt, Zenon
<1>17. /\ sp \in Path /\ ~ IsPrefix(at, sp) /\ sp = Append(top, "samples")
       /\ top \in Path /\ ~ IsPrefix(at, top)
  <2>1. /\ at \in Path /\ Len(at) = 2 /\ at[1] = "signalRate" /\ at[2] = "delta"
        /\ sp \in Path /\ Len(sp) = 2 /\ sp[1] = "signalRate" /\ sp[2] = "samples"
        /\ top \in Path /\ Len(top) = 1
    BY <1>1, <1>2, <1>15, Tuples DEF Path
  <2>2. ~ IsPrefix(at, sp)
    <3>1. 2 \in 1 .. Len(at) /\ at[2] # sp[2]
      BY <2>1
    <3> QED BY <2>1, <3>1, PrefixAt
  <2>3. ~ IsPrefix(at, top)
    BY <2>1 DEF IsPrefix
  <2> QED BY <2>1, <2>2, <2>3, <1>2, <1>15, LongKeys
<1>18. SameAt(mid, new, sp) /\ SameAt(mid, new, top)
  BY <1>16, <1>17 DEF SameBut
<1>19. \A x : Read(mid, sp, "int", x) = rate.samples
  BY <1>3, <1>7, <1>17, ReadMember
<1>20. \A x : Read(new, sp, "int", x) = rate.samples
  BY <1>18, <1>19, Zenon DEF SameAt, Read, Has
<1>21. Has(new, top, "obj")
  BY <1>7, <1>18, Zenon DEF SameAt, Has, Holds
<1>22. ASSUME NEW num, NEW denom PROVE TcpSignalRateTicks(new, num, denom) = Ticks(rate, num, denom)
  <2>1. PICK r : r = [seconds |-> rate.seconds, fraction |-> rate.fraction,
                      subFraction |-> rate.subFraction, samples |-> rate.samples]
    OBVIOUS
  <2>2. TcpSignalRateTicks(new, num, denom) = Ticks(r, num, denom)
    BY <2>1, <1>2, <1>12, <1>13, <1>14, <1>15, <1>20, <1>21, Zenon DEF TcpSignalRateTicks
  <2>3. /\ r.seconds = rate.seconds /\ r.fraction = rate.fraction /\ r.subFraction = rate.subFraction
        /\ r.samples = rate.samples
    BY <2>1
  <2>4. Ticks(r, num, denom) = Ticks(rate, num, denom)
    BY <2>3, Zenon DEF Ticks
  <2> QED BY <2>2, <2>4
<1>23. Untouched(doc, new, W)
  BY <1>7, <1>11, UntouchedTwice
<1> QED BY <1>2, <1>11, <1>22, <1>23 DEF Ticking

RuleSections == {Definition("rule"), Definition("linear"), Interpretation("rule")}

\* The places of the members that describe a rule.
LEMMA RulePlaces ==
  ASSUME NEW doc, Ready(doc)
  PROVE  /\ Proper(RuleSections)
         /\ Within(Definition("rule")) /\ Open(doc, Definition("rule"))
         /\ Section(Definition("rule")) \in RuleSections
         /\ Within(Definition("linear")) /\ Open(doc, Definition("linear"))
         /\ Section(Definition("linear")) \in RuleSections
         /\ Within(Interpretation("rule")) /\ Open(doc, Interpretation("rule"))
         /\ Section(Interpretation("rule")) \in RuleSections
<1>1. "rule" \in Key /\ "rule" # "" /\ "linear" \in Key /\ "linear" # ""
  BY DEF Key, LibraryNames
<1>2. Proper(RuleSections)
  BY DEF Proper, RuleSections, Definition, Interpretation
<1>3. /\ Within(Definition("rule")) /\ Open(doc, Definition("rule"))
      /\ Section(Definition("rule")) = Definition("rule")
      /\ Within(Interpretation("rule")) /\ Open(doc, Interpretation("rule"))
      /\ Section(Interpretation("rule")) = Interpretation("rule")
  BY <1>1, Places
<1>4. /\ Within(Definition("linear")) /\ Open(doc, Definition("linear"))
      /\ Section(Definition("linear")) = Definition("linear")
  BY <1>1, Places
<1> QED BY <1>2, <1>3, <1>4 DEF RuleSections

\* A member of the definition is not below another one.
LEMMA Apart ==
  ASSUME NEW a \in Key, NEW b \in Key
  PROVE  /\ a # b => ~ IsPrefix(Definition(a), Definition(b))
         /\ ~ IsPrefix(Interpretation(a), Definition(b))
         /\ ~ IsPrefix(RuleParameters, Definition(b))
<1>1. "definition" \in Key /\ "interpretation" \in Key /\ "rule" \in Key /\ "parameters" \in Key
  BY DEF Key, LibraryNames
<1>2. PICK p, q, r, s :
        p = Definition(a) /\ q = Definition(b) /\ r = Interpretation(a) /\ s = RuleParameters
  OBVIOUS
<1>3. /\ p \in Path /\ Len(p) = 2 /\ p[1] = "definition" /\ p[2] = a
      /\ q \in Path /\ Len(q) = 2 /\ q[1] = "definition" /\ q[2] = b
      /\ r \in Path /\ Len(r) = 2 /\ r[1] = "interpretation"
      /\ s \in Path /\ Len(s) = 3
  BY <1>1, <1>2, Tuples DEF Path, Definition, Interpretation, RuleParameters
<1>4. a # b => ~ IsPrefix(p, q)
  <2>1. 2 \in 1 .. Len(p)
    BY <1>3
  <2> QED BY <2>1, <1>3, PrefixAt
<1>5. ~ IsPrefix(r, q)
  <2>1. 1 \in 1 .. Len(r) /\ r[1] # q[1]
    BY <1>3
  <2> QED BY <2>1, <1>3, PrefixAt
<1>6. ~ IsPrefix(s, q)
  BY <1>3 DEF IsPrefix
<1> QED BY <1>2, <1>4, <1>5, <1>6

\* constant_rule.
LEMMA ConstantRuleCall ==
  ASSUME NEW doc, Ready(doc), NEW new, new = ConstantRule(doc)
  PROVE  /\ Ready(new) /\ Untouched(doc, new, RuleSections) /\ RuleOf(new) = "constant"
         /\ LinearStartDelta(new) = <<<<>>, <<>>>>
<1>1. "rule" \in Key /\ "linear" \in Key /\ {"type", "parameters"} \subseteq Key /\ "rule" # "linear"
  BY DEF Key, LibraryNames
<1>2. PICK pr, pl, pi, v, members :
        /\ pr = Definition("rule") /\ pl = Definition("linear") /\ pi = Interpretation("rule")
        /\ v = StrValue("constant") /\ members = [type |-> IntValue(2), parameters |-> NullValue]
  OBVIOUS
<1>3. PICK d1, d2 : d1 = Assign(doc, pr, v) /\ d2 = Erase(d1, pl)
  OBVIOUS
<1>4. new = AssignObject(d2, pi, members)
  BY <1>2, <1>3, Zenon DEF ConstantRule
<1>5. Ready(d1) /\ Untouched(doc, d1, RuleSections) /\ pr \in DOMAIN d1 /\ d1[pr] = v
  BY <1>2, <1>3, RulePlaces, Put
<1>6. Ready(d2) /\ Untouched(d1, d2, RuleSections)
  BY <1>2, <1>3, <1>5, RulePlaces, TakeOut
<1>7. DOMAIN members \subseteq Key
  BY <1>1, <1>2
<1>8. Ready(new) /\ Untouched(d2, new, RuleSections)
  BY <1>2, <1>4, <1>6, <1>7, RulePlaces, PutObject
<1>9. /\ pr \in Path /\ pl \in Path /\ pi \in Path /\ DOMAIN d1 \subseteq Path /\ DOMAIN d2 \subseteq Path
  BY <1>2, <1>5, <1>6, RulePlaces DEF Within, Ready, Document
<1>10. ~ IsPrefix(pl, pr) /\ ~ IsPrefix(pi, pr)
  BY <1>1, <1>2, Apart
<1>11. SameAt(d1, d2, pr)
  BY <1>3, <1>9, <1>10, EraseAt DEF SameBut
<1>12. SameAt(d2, new, pr)
  <2>1. SameBut(d2, new, pi)
    BY <1>4, <1>7, <1>9, AssignObjectAt
  <2> QED BY <2>1, <1>9, <1>10 DEF SameBut
<1>13. pr \in DOMAIN new /\ new[pr] = <<"str", "constant">>
  BY <1>2, <1>5, <1>11, <1>12, Zenon DEF SameAt, StrValue
<1>14. RuleOf(new) = "constant"
  <2>1. \A x : Read(new, pr, "str", x) = "constant"
    BY <1>13, ReadBack
  <2> QED BY <2>1, <1>2, Zenon DEF RuleOf
<1>15. LinearStartDelta(new) = <<<<>>, <<>>>>
  <2>1. RuleOf(new) # "linear"
    BY <1>14
  <2> QED BY <2>1, Zenon DEF LinearStartDelta
<1>16. Untouched(doc, new, RuleSections)
  BY <1>5, <1>6, <1>8, UntouchedTwice
<1> QED BY <1>8, <1>14, <1>15, <1>16

\* linear_rule.
LEMMA LinearRuleCall ==
  ASSUME NEW doc, Ready(doc), NEW start, NEW delta, NEW new, new = LinearRule(doc, start, delta)
  PROVE  /\ Ready(new) /\ Untouched(doc, new, RuleSections) /\ RuleOf(new) = "linear"
         /\ LinearStartDelta(new) = <<<<start>>, <<delta>>>>
<1>1. /\ "rule" \in Key /\ "linear" \in Key /\ {"type"} \subseteq Key /\ {"delta", "start"} \subseteq Key
      /\ {"delta"} \subseteq Key /\ "rule" # "linear"
  BY DEF Key, LibraryNames
<1>2. PICK pr, pl, pi, v, both, some, members :
        /\ pr = Definition("rule") /\ pl = Definition("linear") /\ pi = Interpretation("rule")
        /\ v = StrValue("linear") /\ both = [delta |-> IntValue(delta), start |-> IntValue(start)]
        /\ some = (IF start = 0 THEN [delta |-> IntValue(delta)] ELSE both)
        /\ members = [type |-> IntValue(1)]
  OBVIOUS
<1>3. PICK d1, d2, d3 : /\ d1 = Assign(doc, pr, v) /\ d2 = AssignObject(d1, pl, some)
                        /\ d3 = AssignObject(d2, pi, members)
  OBVIOUS
<1>4. new = AssignObject(d3, RuleParameters, both)
  BY <1>2, <1>3, Zenon DEF LinearRule
<1>5. Ready(d1) /\ Untouched(doc, d1, RuleSections) /\ pr \in DOMAIN d1 /\ d1[pr] = v
  BY <1>2, <1>3, RulePlaces, Put
<1>6. /\ DOMAIN both = {"delta", "start"} /\ both["delta"] = <<"int", delta>>
      /\ both["start"] = <<"int", start>>
  BY <1>2 DEF IntValue
<1>7. DOMAIN some \subseteq Key /\ DOMAIN members \subseteq Key /\ DOMAIN both \subseteq Key
  <2>1. DOMAIN both \subseteq Key /\ DOMAIN members \subseteq Key
    BY <1>1, <1>2, <1>6
  <2>2. DOMAIN [delta |-> IntValue(delta)] \subseteq Key
    BY <1>1
  <2> QED BY <2>1, <2>2, <1>2, Zenon
<1>8. Ready(d2) /\ Untouched(d1, d2, RuleSections)
  BY <1>2, <1>3, <1>5, <1>7, RulePlaces, PutObject
<1>9. Ready(d3) /\ Untouched(d2, d3, RuleSections) /\ Holds(d3, pi, members)
  BY <1>2, <1>3, <1>7, <1>8, RulePlaces, PutObject
<1>10. /\ Within(RuleParameters) /\ Section(RuleParameters) \in RuleSections
       /\ Parent(RuleParameters) = pi
  BY <1>2, LongKeys DEF RuleSections
<1>11. Open(d3, RuleParameters)
  BY <1>9, <1>10 DEF Open, Holds
<1>12. Ready(new) /\ Untouched(d3, new, RuleSections) /\ Holds(new, RuleParameters, both)
  BY <1>4, <1>7, <1>9, <1>10, <1>11, RulePlaces, PutObject
<1>13. /\ pr \in Path /\ pl \in Path /\ pi \in Path /\ DOMAIN d1 \subseteq Path
       /\ DOMAIN d2 \subseteq Path /\ DOMAIN d3 \subseteq Path /\ RuleParameters \in Path
  BY <1>2, <1>5, <1>8, <1>9, <1>10, RulePlaces DEF Within, Ready, Document
<1>14. ~ IsPrefix(pl, pr) /\ ~ IsPrefix(pi, pr) /\ ~ IsPrefix(RuleParameters, pr)
  BY <1>1, <1>2, Apart
<1>15. SameBut(d1, d2, pl)
  BY <1>3, <1>7, <1>13, AssignObjectAt, Zenon
<1>16. SameBut(d2, d3, pi)
  BY <1>3, <1>7, <1>13, AssignObjectAt, Zenon
<1>17. SameBut(d3, new, RuleParameters)
  BY <1>4, <1>7, <1>13, AssignObjectAt
<1>18. pr \in DOMAIN new /\ new[pr] = <<"str", "linear">>
  BY <1>2, <1>5, <1>13, <1>14, <1>15, <1>16, <1>17, Zenon DEF SameBut, SameAt, StrValue
<1>19. RuleOf(new) = "linear"
  <2>1. \A x : Read(new, pr, "str", x) = "linear"
    BY <1>18, ReadBack
  <2> QED BY <2>1, <1>2, Zenon DEF RuleOf
<1>20. ReadOpt(new, Append(RuleParameters, "start"), "int") = <<start>>
  BY <1>6, <1>12, ReadMember
<1>21. ReadOpt(new, Append(RuleParameters, "delta"), "int") = <<delta>>
  BY <1>6, <1>12, ReadMember
<1>22. LinearStartDelta(new) = <<<<start>>, <<delta>>>>
  BY <1>12, <1>19, <1>20, <1>21, Zenon DEF LinearStartDelta, Holds
<1>23. Untouched(doc, new, RuleSections)
  <2>1. Untouched(doc, d2, RuleSections)
    BY <1>5, <1>8, UntouchedTwice
  <2>2. Untouched(doc, d3, RuleSections)
    BY <2>1, <1>9, UntouchedTwice
  <2> QED BY <2>2, <1>12, UntouchedTwice
<1> QED BY <1>12, <1>19, <1>22, <1>23

\* The definition is not below the interpretation, nor the other way round.
LEMMA Halves ==
  ASSUME NEW k \in Key
  PROVE  /\ ~ IsPrefix(<<"interpretation">>, <<"definition">>)
         /\ ~ IsPrefix(<<"interpretation">>, Definition(k))
         /\ <<"definition">> \in Path /\ <<"interpretation">> \in Path /\ Definition(k) \in Path
<1>1. "definition" \in Key /\ "interpretation" \in Key
  BY DEF Key, LibraryNames
<1>2. PICK p, q, r : p = <<"interpretation">> /\ q = <<"definition">> /\ r = Definition(k)
  OBVIOUS
<1>3. /\ p \in Path /\ Len(p) = 1 /\ p[1] = "interpretation"
      /\ q \in Path /\ q[1] = "definition" /\ r \in Path /\ r[1] = "definition"
  BY <1>1, <1>2, Tuples DEF Path, Definition
<1>4. 1 \in 1 .. Len(p) /\ p[1] # q[1] /\ p[1] # r[1]
  BY <1>3
<1>5. ~ IsPrefix(p, q) /\ ~ IsPrefix(p, r)
  BY <1>3, <1>4, PrefixAt
<1> QED BY <1>2, <1>3, <1>5

\* metadata_builder(from_json): the document can be built on, and no structure
\* appears in it.
LEMMA FromJsonCall ==
  ASSUME NEW doc, Document(doc), NEW new, new = FromJson(doc)
  PROVE  Ready(new) /\ (FieldsOf(doc) = <<>> => FieldsOf(new) = <<>>)
<1>1. "definition" \in Key /\ "interpretation" \in Key /\ "struct" \in Key
  BY DEF Key, LibraryNames
<1>2. PICK pd, pi, ps : pd = <<"definition">> /\ pi = <<"interpretation">> /\ ps = Definition("struct")
  OBVIOUS
<1>3. /\ pd \in Path /\ pi \in Path /\ ps \in Path /\ ~ IsPrefix(pi, pd) /\ ~ IsPrefix(pi, ps)
      /\ ps = Append(pd, "struct")
  BY <1>1, <1>2, Halves, Keys
<1>4. PICK mid : mid = Ensure(doc, pd)
  OBVIOUS
<1>5. new = Ensure(mid, pi)
  BY <1>2, <1>4, Zenon DEF FromJson
<1>6. Document(mid) /\ Has(mid, pd, "obj") /\ (SameAt(doc, mid, ps) \/ ps \notin DOMAIN mid)
  <2>1. CASE Has(doc, pd, "obj")
    <3>1. mid = doc
      BY <1>4, <2>1 DEF Ensure
    <3> QED BY <3>1, <2>1 DEF SameAt
  <2>2. CASE ~ Has(doc, pd, "obj")
    <3>1. mid = Assign(doc, pd, ObjValue)
      BY <1>4, <2>2 DEF Ensure
    <3>2. Open(doc, pd)
      BY <1>1, <1>2, TopOpen
    <3>3. Document(mid)
      BY <3>1, <3>2, <1>3, AssignDoc
    <3>4. /\ pd \in DOMAIN mid /\ mid[pd] = ObjValue
          /\ \A q \in Path : IsPrefix(pd, q) /\ q # pd => q \notin DOMAIN mid
      BY <3>1, <1>3, AssignAt DEF Document
    <3>5. IsPrefix(pd, ps) /\ ps # pd
      BY <1>1, <1>3, PrefixOfMember
    <3>6. ps \notin DOMAIN mid
      BY <3>4, <3>5, <1>3
    <3>7. Has(mid, pd, "obj")
      BY <3>4 DEF Has, ObjValue
    <3> QED BY <3>3, <3>6, <3>7
  <2> QED BY <2>1, <2>2
<1>7. Document(new) /\ Has(new, pi, "obj") /\ SameAt(mid, new, pd) /\ SameAt(mid, new, ps)
  <2>1. CASE Has(mid, pi, "obj")
    <3>1. new = mid
      BY <1>5, <2>1 DEF Ensure
    <3> QED BY <3>1, <2>1, <1>6 DEF SameAt
  <2>2. CASE ~ Has(mid, pi, "obj")
    <3>1. new = Assign(mid, pi, ObjValue)
      BY <1>5, <2>2 DEF Ensure
    <3>2. Open(mid, pi)
      BY <1>1, <1>2, TopOpen
    <3>3. Document(new)
      BY <3>1, <3>2, <1>3, <1>6, AssignDoc
    <3>4. pi \in DOMAIN new /\ new[pi] = ObjValue /\ SameBut(mid, new, pi)
      BY <3>1, <1>3, <1>6, AssignAt DEF Document
    <3> QED BY <3>3, <3>4, <1>3 DEF Has, ObjValue, SameBut
  <2> QED BY <2>1, <2>2
<1>8. Has(new, pd, "obj")
  BY <1>6, <1>7, Zenon DEF SameAt, Has
<1>9. FieldsOf(doc) = <<>> => FieldsOf(new) = <<>>
  <2>1. SameAt(doc, new, ps) \/ ps \notin DOMAIN new
    BY <1>6, <1>7, Zenon DEF SameAt
  <2>2. ps \notin DOMAIN new => FieldsOf(new) = <<>>
    BY <1>2, Zenon DEF FieldsOf, Read, Has
  <2>3. SameAt(doc, new, ps) => FieldsOf(new) = FieldsOf(doc)
    BY <1>2, Zenon DEF FieldsOf, Read, Has, SameAt
  <2> QED BY <2>1, <2>2, <2>3
<1> QED BY <1>2, <1>7, <1>8, <1>9 DEF Ready

\* metadata_builder(name).
LEMMA BuilderCall ==
  ASSUME NEW name, NEW new, new = Builder(name)
  PROVE  Ready(new) /\ FieldsOf(new) = <<>>
<1>1. /\ "definition" \in Key /\ "interpretation" \in Key /\ "struct" \in Key
      /\ "rule" \in Key /\ "rule" # "" /\ "valueIndex" \in Key /\ "valueIndex" # "" /\ "valueIndex" \notin Split
      /\ {"name", "rule"} \subseteq Key /\ {"sig_name"} \subseteq Key /\ {"type", "parameters"} \subseteq Key
  BY DEF Key, LibraryNames, Split
<1>2. PICK pd, pi, ps, pr, m1, m2, m3 :
        /\ pd = <<"definition">> /\ pi = <<"interpretation">> /\ ps = Definition("struct")
        /\ pr = Interpretation("rule")
        /\ m1 = [name |-> StrValue(name), rule |-> StrValue("explicit")]
        /\ m2 = [sig_name |-> StrValue(name)]
        /\ m3 = [type |-> IntValue(3), parameters |-> NullValue]
  OBVIOUS
<1>3. /\ pd \in Path /\ pi \in Path /\ ps \in Path /\ ~ IsPrefix(pi, pd) /\ ~ IsPrefix(pi, ps)
      /\ ps = Append(pd, "struct")
  BY <1>1, <1>2, Halves, Keys
<1>4. /\ DOMAIN m1 = {"name", "rule"} /\ DOMAIN m2 = {"sig_name"} /\ DOMAIN m3 = {"type", "parameters"}
  BY <1>2
<1>5. /\ DOMAIN m1 \subseteq Key /\ DOMAIN m2 \subseteq Key /\ DOMAIN m3 \subseteq Key
      /\ "struct" \in Key \ DOMAIN m1
  BY <1>1, <1>4
<1>6. PICK d1, d2, d3, v : /\ d1 = AssignObject(EmptyDoc, pd, m1) /\ d2 = AssignObject(d1, pi, m2)
                           /\ d3 = AssignObject(d2, pr, m3) /\ v = IntValue(0)
  OBVIOUS
<1>7. new = Assign(d3, <<"valueIndex">>, v)
  BY <1>2, <1>6, Zenon DEF Builder
<1>8. Document(d1)
  BY <1>1, <1>2, <1>3, <1>5, <1>6, EmptyIs, TopOpen, AssignObjectDoc
<1>9. Has(d1, pd, "obj") /\ ps \notin DOMAIN d1
  <2>1. DOMAIN EmptyDoc \subseteq Path
    BY EmptyIs DEF Document
  <2>2. /\ pd \in DOMAIN d1 /\ d1[pd] = ObjValue
        /\ \A k \in Key \ DOMAIN m1 : Append(pd, k) \notin DOMAIN d1
    BY <2>1, <1>3, <1>5, <1>6, AssignObjectAt
  <2> QED BY <2>2, <1>3, <1>5 DEF Has, ObjValue
<1>10. Document(d2)
  BY <1>1, <1>2, <1>3, <1>5, <1>6, <1>8, TopOpen, AssignObjectDoc
<1>11. Has(d2, pi, "obj") /\ Has(d2, pd, "obj") /\ ps \notin DOMAIN d2
  <2>1. pi \in DOMAIN d2 /\ d2[pi] = ObjValue /\ SameBut(d1, d2, pi)
    BY <1>3, <1>5, <1>6, <1>8, AssignObjectAt DEF Document
  <2>2. SameAt(d1, d2, pd) /\ SameAt(d1, d2, ps)
    BY <2>1, <1>3 DEF SameBut
  <2>3. Has(d2, pd, "obj") /\ ps \notin DOMAIN d2
    BY <2>2, <1>9, Zenon DEF SameAt, Has
  <2>4. Has(d2, pi, "obj")
    BY <2>1 DEF Has, ObjValue
  <2> QED BY <2>3, <2>4
<1>12. Ready(d2)
  BY <1>2, <1>10, <1>11 DEF Ready
<1>13. FieldsOf(d2) = <<>>
  BY <1>2, <1>11, Zenon DEF FieldsOf, Read, Has
<1>14. PICK W, U : W = {Interpretation("rule")} /\ U = {<<"valueIndex", "">>}
  OBVIOUS
<1>15. Within(pr) /\ Open(d2, pr) /\ Section(pr) \in W /\ Proper(W)
  BY <1>1, <1>2, <1>12, <1>14, Places
<1>16. Ready(d3) /\ Untouched(d2, d3, W)
  BY <1>5, <1>6, <1>12, <1>15, PutObject
<1>17. PICK top : top = <<"valueIndex">>
  OBVIOUS
<1>18. Within(top) /\ Open(d3, top) /\ Section(top) \in U /\ Proper(U)
  BY <1>1, <1>14, <1>16, <1>17, Places
<1>19. Ready(new) /\ Untouched(d3, new, U)
  BY <1>7, <1>16, <1>17, <1>18, Put
<1>20. Definition("struct") \notin W /\ Definition("struct") \notin U
  BY <1>14 DEF Definition, Interpretation
<1>21. FieldsOf(d3) = FieldsOf(d2) /\ FieldsOf(new) = FieldsOf(d3)
  BY <1>16, <1>19, <1>20, SimpleSame
<1> QED BY <1>13, <1>19, <1>21

-----------------------------------------------------------------------------
(* The builder at work.                                                    *)

\* The keys of sections.
LEMMA TwoKeys ==
  ASSUME NEW k
  PROVE  /\ Definition(k)[1] = "definition" /\ Definition(k)[2] = k
         /\ Interpretation(k)[1] = "interpretation" /\ Interpretation(k)[2] = k
         /\ <<k, "">>[1] = k /\ <<k, "">>[2] = ""
<1>1. Definition(k)[1] = "definition" /\ Definition(k)[2] = k
  BY DEF Definition
<1>2. Interpretation(k)[1] = "interpretation" /\ Interpretation(k)[2] = k
  BY DEF Interpretation
<1>3. <<k, "">>[1] = k /\ <<k, "">>[2] = ""
  OBVIOUS
<1> QED BY <1>1, <1>2, <1>3

\* The sections, by their two keys.
LEMMA InSections ==
  ASSUME NEW a \in ViewNames, NEW s \in Sections(a)
  PROVE  /\ a = "name" => s[1] = "definition" /\ s[2] = "name"
         /\ a = "dataType" => s[1] = "definition" /\ s[2] = "dataType"
         /\ a = "endian" => s[1] = "definition" /\ s[2] = "endian"
         /\ a = "rule" => s[1] = "definition" /\ s[2] = "rule"
         /\ a = "linear" => (s[1] = "definition" /\ s[2] \in {"rule", "linear"}) \/ (s[1] = "interpretation" /\ s[2] = "rule")
         /\ a = "origin" => (s[1] = "definition" /\ s[2] = "origin") \/ (s[1] = "interpretation" /\ s[2] = "origin")
         /\ a = "range" => s[1] = "definition" /\ s[2] = "range"
         /\ a = "resolution" => s[1] = "definition" /\ s[2] = "resolution"
         /\ a = "unit" => (s[1] = "definition" /\ s[2] = "unit") \/ (s[1] = "interpretation" /\ s[2] = "unit")
         /\ a = "table" => s[1] = "tableId" /\ s[2] = ""
         /\ a = "valueIndex" => s[1] = "valueIndex" /\ s[2] = ""
         /\ a = "sampleSize" => s[1] = "definition" /\ s[2] \in {"dataType", "struct"}
         /\ a = "ticks" => s[1] = "signalRate" /\ s[2] = ""
         /\ a = "extra" => s[1] = "interpretation" /\ s[2] = "metadata"
<1>1. a = "name" => s[1] = "definition" /\ s[2] = "name"
  <2> SUFFICES ASSUME a = "name" PROVE s[1] = "definition" /\ s[2] = "name"
    OBVIOUS
  <2>1. s = Definition("name")
    BY SectionsAre, Zenon
  <2> QED BY <2>1, TwoKeys
<1>2. a = "dataType" => s[1] = "definition" /\ s[2] = "dataType"
  <2> SUFFICES ASSUME a = "dataType" PROVE s[1] = "definition" /\ s[2] = "dataType"
    OBVIOUS
  <2>1. s = Definition("dataType")
    BY SectionsAre, Zenon
  <2> QED BY <2>1, TwoKeys
<1>3. a = "endian" => s[1] = "definition" /\ s[2] = "endian"
  <2> SUFFICES ASSUME a = "endian" PROVE s[1] = "definition" /\ s[2] = "endian"
    OBVIOUS
  <2>1. s = Definition("endian")
    BY SectionsAre, Zenon
  <2> QED BY <2>1, TwoKeys
<1>4. a = "rule" => s[1] = "definition" /\ s[2] = "rule"
  <2> SUFFICES ASSUME a = "rule" PROVE s[1] = "definition" /\ s[2] = "rule"
    OBVIOUS
  <2>1. s = Definition("rule")
    BY SectionsAre, Zenon
  <2> QED BY <2>1, TwoKeys
<1>5. a = "linear" => (s[1] = "definition" /\ s[2] \in {"rule", "linear"}) \/ (s[1] = "interpretation" /\ s[2] = "rule")
  <2> SUFFICES ASSUME a = "linear" PROVE (s[1] = "definition" /\ s[2] \in {"rule", "linear"}) \/ (s[1] = "interpretation" /\ s[2] = "rule")
    OBVIOUS
  <2>1. s = Definition("rule") \/ s = Definition("linear") \/ s = Interpretation("rule")
    BY SectionsAre, Zenon
  <2> QED BY <2>1, TwoKeys
<1>6. a = "origin" => (s[1] = "definition" /\ s[2] = "origin") \/ (s[1] = "interpretation" /\ s[2] = "origin")
  <2> SUFFICES ASSUME a = "origin" PROVE (s[1] = "definition" /\ s[2] = "origin") \/ (s[1] = "interpretation" /\ s[2] = "origin")
    OBVIOUS
  <2>1. s = Definition("origin") \/ s = Interpretation("origin")
    BY SectionsAre, Zenon
  <2> QED BY <2>1, TwoKeys
<1>7. a = "range" => s[1] = "definition" /\ s[2] = "range"
  <2> SUFFICES ASSUME a = "range" PROVE s[1] = "definition" /\ s[2] = "range"
    OBVIOUS
  <2>1. s = Definition("range")
    BY SectionsAre, Zenon
  <2> QED BY <2>1, TwoKeys
<1>8. a = "resolution" => s[1] = "definition" /\ s[2] = "resolution"
  <2> SUFFICES ASSUME a = "resolution" PROVE s[1] = "definition" /\ s[2] = "resolution"
    OBVIOUS
  <2>1. s = Definition("resolution")
    BY SectionsAre, Zenon
  <2> QED BY <2>1, TwoKeys
<1>9. a = "unit" => (s[1] = "definition" /\ s[2] = "unit") \/ (s[1] = "interpretation" /\ s[2] = "unit")
  <2> SUFFICES ASSUME a = "unit" PROVE (s[1] = "definition" /\ s[2] = "unit") \/ (s[1] = "interpretation" /\ s[2] = "unit")
    OBVIOUS
  <2>1. s = Definition("unit") \/ s = Interpretation("unit")
    BY SectionsAre, Zenon
  <2> QED BY <2>1, TwoKeys
<1>10. a = "table" => s[1] = "tableId" /\ s[2] = ""
  <2> SUFFICES ASSUME a = "table" PROVE s[1] = "tableId" /\ s[2] = ""
    OBVIOUS
  <2>1. s = <<"tableId", "">>
    BY SectionsAre, Zenon
  <2> QED BY <2>1, TwoKeys
<1>11. a = "valueIndex" => s[1] = "valueIndex" /\ s[2] = ""
  <2> SUFFICES ASSUME a = "valueIndex" PROVE s[1] = "valueIndex" /\ s[2] = ""
    OBVIOUS
  <2>1. s = <<"valueIndex", "">>
    BY SectionsAre, Zenon
  <2> QED BY <2>1, TwoKeys
<1>12. a = "sampleSize" => s[1] = "definition" /\ s[2] \in {"dataType", "struct"}
  <2> SUFFICES ASSUME a = "sampleSize" PROVE s[1] = "definition" /\ s[2] \in {"dataType", "struct"}
    OBVIOUS
  <2>1. s = Definition("dataType") \/ s = Definition("struct")
    BY SectionsAre, Zenon
  <2> QED BY <2>1, TwoKeys
<1>13. a = "ticks" => s[1] = "signalRate" /\ s[2] = ""
  <2> SUFFICES ASSUME a = "ticks" PROVE s[1] = "signalRate" /\ s[2] = ""
    OBVIOUS
  <2>1. s = <<"signalRate", "">>
    BY SectionsAre, Zenon
  <2> QED BY <2>1, TwoKeys
<1>14. a = "extra" => s[1] = "interpretation" /\ s[2] = "metadata"
  <2> SUFFICES ASSUME a = "extra" PROVE s[1] = "interpretation" /\ s[2] = "metadata"
    OBVIOUS
  <2>1. s = Interpretation("metadata")
    BY SectionsAre, Zenon
  <2> QED BY <2>1, TwoKeys
<1> QED BY <1>1, <1>2, <1>3, <1>4, <1>5, <1>6, <1>7, <1>8, <1>9, <1>10, <1>11, <1>12, <1>13, <1>14

\* The accessors that read what each call writes.
LEMMA ReadersAre ==
  /\ ReadOnlyBy(RuleSections, {"rule", "linear"})
  /\ ReadOnlyBy({Definition("endian")}, {"endian"})
  /\ ReadOnlyBy({Interpretation("origin")}, {"origin"})
  /\ ReadOnlyBy({Definition("range")}, {"range"})
  /\ ReadOnlyBy({Definition("resolution")}, {"resolution"})
  /\ ReadOnlyBy({Definition("unit"), Interpretation("unit")}, {"unit"})
  /\ ReadOnlyBy({<<"tableId", "">>}, {"table"})
  /\ ReadOnlyBy({Interpretation("metadata")}, {"extra"})
  /\ ReadOnlyBy({<<"signalRate", "">>}, {"ticks"})
  /\ ReadOnlyBy({Definition("dataType")}, {"dataType", "sampleSize"})
  /\ ReadOnlyBy({Definition("struct")}, {"sampleSize"})
<1>1. ReadOnlyBy(RuleSections, {"rule", "linear"})
  <2>1. ASSUME NEW a \in ViewNames \ {"rule", "linear"}, NEW s \in Sections(a), s \in RuleSections PROVE FALSE
    <3>1. s = Definition("rule") \/ s = Definition("linear") \/ s = Interpretation("rule")
      BY <2>1 DEF RuleSections
    <3>2. (s[1] = "definition" /\ s[2] = "rule") \/ (s[1] = "definition" /\ s[2] = "linear") \/ (s[1] = "interpretation" /\ s[2] = "rule")
      BY <3>1, TwoKeys
    <3>3. ~ (s[1] = "definition" /\ s[2] = "rule")
      <4> SUFFICES ASSUME s[1] = "definition" /\ s[2] = "rule" PROVE FALSE
        OBVIOUS
      <4>1. a \notin {"name", "dataType", "endian"}
        BY InSections
      <4>2. a \notin {"range", "resolution", "table", "valueIndex", "ticks"}
        BY InSections
      <4>3. a \notin {"sampleSize"}
        BY InSections
      <4>4. a \notin {"origin", "unit", "extra"}
        BY InSections
      <4> QED BY <4>1, <4>2, <4>3, <4>4 DEF ViewNames
    <3>4. ~ (s[1] = "definition" /\ s[2] = "linear")
      <4> SUFFICES ASSUME s[1] = "definition" /\ s[2] = "linear" PROVE FALSE
        OBVIOUS
      <4>1. a \notin {"name", "dataType", "endian"}
        BY InSections
      <4>2. a \notin {"range", "resolution", "table", "valueIndex", "ticks"}
        BY InSections
      <4>3. a \notin {"sampleSize"}
        BY InSections
      <4>4. a \notin {"origin", "unit", "extra"}
        BY InSections
      <4> QED BY <4>1, <4>2, <4>3, <4>4 DEF ViewNames
    <3>5. ~ (s[1] = "interpretation" /\ s[2] = "rule")
      <4> SUFFICES ASSUME s[1] = "interpretation" /\ s[2] = "rule" PROVE FALSE
        OBVIOUS
      <4>1. a # "unit"
        BY InSections
      <4>2. a # "origin"
        BY InSections
      <4>3. a \notin {"name", "dataType", "endian", "range", "resolution", "table", "valueIndex", "sampleSize", "ticks", "extra"}
        BY InSections
      <4> QED BY <4>1, <4>2, <4>3 DEF ViewNames
    <3> QED BY <3>2, <3>3, <3>4, <3>5
  <2>2. Definition("origin") \notin RuleSections
    BY DEF Definition, Interpretation, RuleSections
  <2> QED BY <2>1, <2>2 DEF ReadOnlyBy
<1>2. ReadOnlyBy({Definition("endian")}, {"endian"})
  <2>1. ASSUME NEW a \in ViewNames \ {"endian"}, NEW s \in Sections(a), s \in {Definition("endian")} PROVE FALSE
    <3>1. s = Definition("endian")
      BY <2>1
    <3>2. s[1] = "definition" /\ s[2] = "endian"
      BY <3>1, TwoKeys
    <3>3. a \notin {"name", "dataType", "rule"}
      BY <3>2, InSections
    <3>4. a \notin {"range", "resolution", "table", "valueIndex", "ticks"}
      BY <3>2, InSections
    <3>5. a \notin {"linear", "sampleSize"}
      BY <3>2, InSections
    <3>6. a \notin {"origin", "unit", "extra"}
      BY <3>2, InSections
    <3> QED BY <3>3, <3>4, <3>5, <3>6 DEF ViewNames
  <2>2. Definition("origin") \notin {Definition("endian")}
    BY DEF Definition, Interpretation
  <2> QED BY <2>1, <2>2 DEF ReadOnlyBy
<1>3. ReadOnlyBy({Interpretation("origin")}, {"origin"})
  <2>1. ASSUME NEW a \in ViewNames \ {"origin"}, NEW s \in Sections(a), s \in {Interpretation("origin")} PROVE FALSE
    <3>1. s = Interpretation("origin")
      BY <2>1
    <3>2. s[1] = "interpretation" /\ s[2] = "origin"
      BY <3>1, TwoKeys
    <3>3. a \notin {"name", "dataType", "endian", "rule"}
      BY <3>2, InSections
    <3>4. a \notin {"range", "resolution", "table", "valueIndex", "ticks"}
      BY <3>2, InSections
    <3>5. a \notin {"linear", "sampleSize"}
      BY <3>2, InSections
    <3>6. a \notin {"unit", "extra"}
      BY <3>2, InSections
    <3> QED BY <3>3, <3>4, <3>5, <3>6 DEF ViewNames
  <2>2. Definition("origin") \notin {Interpretation("origin")}
    BY DEF Definition, Interpretation
  <2> QED BY <2>1, <2>2 DEF ReadOnlyBy
<1>4. ReadOnlyBy({Definition("range")}, {"range"})
  <2>1. ASSUME NEW a \in ViewNames \ {"range"}, NEW s \in Sections(a), s \in {Definition("range")} PROVE FALSE
    <3>1. s = Definition("range")
      BY <2>1
    <3>2. s[1] = "definition" /\ s[2] = "range"
      BY <3>1, TwoKeys
    <3>3. a \notin {"name", "dataType", "endian", "rule"}
      BY <3>2, InSections
    <3>4. a \notin {"resolution", "table", "valueIndex", "ticks"}
      BY <3>2, InSections
    <3>5. a \notin {"linear", "sampleSize"}
      BY <3>2, InSections
    <3>6. a \notin {"origin", "unit", "extra"}
      BY <3>2, InSections
    <3> QED BY <3>3, <3>4, <3>5, <3>6 DEF ViewNames
  <2>2. Definition("origin") \notin {Definition("range")}
    BY DEF Definition, Interpretation
  <2> QED BY <2>1, <2>2 DEF ReadOnlyBy
<1>5. ReadOnlyBy({Definition("resolution")}, {"resolution"})
  <2>1. ASSUME NEW a \in ViewNames \ {"resolution"}, NEW s \in Sections(a), s \in {Definition("resolution")} PROVE FALSE
    <3>1. s = Definition("resolution")
      BY <2>1
    <3>2. s[1] = "definition" /\ s[2] = "resolution"
      BY <3>1, TwoKeys
    <3>3. a \notin {"name", "dataType", "endian", "rule"}
      BY <3>2, InSections
    <3>4. a \notin {"range", "table", "valueIndex", "ticks"}
      BY <3>2, InSections
    <3>5. a \notin {"linear", "sampleSize"}
      BY <3>2, InSections
    <3>6. a \notin {"origin", "unit", "extra"}
      BY <3>2, InSections
    <3> QED BY <3>3, <3>4, <3>5, <3>6 DEF ViewNames
  <2>2. Definition("origin") \notin {Definition("resolution")}
    BY DEF Definition, Interpretation
  <2> QED BY <2>1, <2>2 DEF ReadOnlyBy
<1>6. ReadOnlyBy({Definition("unit"), Interpretation("unit")}, {"unit"})
  <2>1. ASSUME NEW a \in ViewNames \ {"unit"}, NEW s \in Sections(a), s \in {Definition("unit"), Interpretation("unit")} PROVE FALSE
    <3>1. s = Definition("unit") \/ s = Interpretation("unit")
      BY <2>1
    <3>2. (s[1] = "definition" /\ s[2] = "unit") \/ (s[1] = "interpretation" /\ s[2] = "unit")
      BY <3>1, TwoKeys
    <3>3. ~ (s[1] = "definition" /\ s[2] = "unit")
      <4> SUFFICES ASSUME s[1] = "definition" /\ s[2] = "unit" PROVE FALSE
        OBVIOUS
      <4>1. a \notin {"name", "dataType", "endian", "rule"}
        BY InSections
      <4>2. a \notin {"range", "resolution", "table", "valueIndex", "ticks"}
        BY InSections
      <4>3. a \notin {"linear", "sampleSize"}
        BY InSections
      <4>4. a \notin {"origin", "extra"}
        BY InSections
      <4> QED BY <4>1, <4>2, <4>3, <4>4 DEF ViewNames
    <3>4. ~ (s[1] = "interpretation" /\ s[2] = "unit")
      <4> SUFFICES ASSUME s[1] = "interpretation" /\ s[2] = "unit" PROVE FALSE
        OBVIOUS
      <4>1. a # "linear"
        BY InSections
      <4>2. a # "origin"
        BY InSections
      <4>3. a \notin {"name", "dataType", "endian", "rule", "range", "resolution", "table", "valueIndex", "sampleSize", "ticks", "extra"}
        BY InSections
      <4> QED BY <4>1, <4>2, <4>3 DEF ViewNames
    <3> QED BY <3>2, <3>3, <3>4
  <2>2. Definition("origin") \notin {Definition("unit"), Interpretation("unit")}
    BY DEF Definition, Interpretation
  <2> QED BY <2>1, <2>2 DEF ReadOnlyBy
<1>7. ReadOnlyBy({<<"tableId", "">>}, {"table"})
  <2>1. ASSUME NEW a \in ViewNames \ {"table"}, NEW s \in Sections(a), s \in {<<"tableId", "">>} PROVE FALSE
    <3>1. s = <<"tableId", "">>
      BY <2>1
    <3>2. s[1] = "tableId" /\ s[2] = ""
      BY <3>1, TwoKeys
    <3>3. a \notin {"name", "dataType", "endian", "rule"}
      BY <3>2, InSections
    <3>4. a \notin {"range", "resolution", "valueIndex", "ticks"}
      BY <3>2, InSections
    <3>5. a \notin {"linear", "sampleSize"}
      BY <3>2, InSections
    <3>6. a \notin {"origin", "unit", "extra"}
      BY <3>2, InSections
    <3> QED BY <3>3, <3>4, <3>5, <3>6 DEF ViewNames
  <2>2. Definition("origin") \notin {<<"tableId", "">>}
    BY DEF Definition, Interpretation
  <2> QED BY <2>1, <2>2 DEF ReadOnlyBy
<1>8. ReadOnlyBy({Interpretation("metadata")}, {"extra"})
  <2>1. ASSUME NEW a \in ViewNames \ {"extra"}, NEW s \in Sections(a), s \in {Interpretation("metadata")} PROVE FALSE
    <3>1. s = Interpretation("metadata")
      BY <2>1
    <3>2. s[1] = "interpretation" /\ s[2] = "metadata"
      BY <3>1, TwoKeys
    <3>3. a \notin {"name", "dataType", "endian", "rule"}
      BY <3>2, InSections
    <3>4. a \notin {"range", "resolution", "table", "valueIndex", "ticks"}
      BY <3>2, InSections
    <3>5. a \notin {"linear", "sampleSize"}
      BY <3>2, InSections
    <3>6. a \notin {"origin", "unit"}
      BY <3>2, InSections
    <3> QED BY <3>3, <3>4, <3>5, <3>6 DEF ViewNames
  <2>2. Definition("origin") \notin {Interpretation("metadata")}
    BY DEF Definition, Interpretation
  <2> QED BY <2>1, <2>2 DEF ReadOnlyBy
<1>9. ReadOnlyBy({<<"signalRate", "">>}, {"ticks"})
  <2>1. ASSUME NEW a \in ViewNames \ {"ticks"}, NEW s \in Sections(a), s \in {<<"signalRate", "">>} PROVE FALSE
    <3>1. s = <<"signalRate", "">>
      BY <2>1
    <3>2. s[1] = "signalRate" /\ s[2] = ""
      BY <3>1, TwoKeys
    <3>3. a \notin {"name", "dataType", "endian", "rule"}
      BY <3>2, InSections
    <3>4. a \notin {"range", "resolution", "table", "valueIndex"}
      BY <3>2, InSections
    <3>5. a \notin {"linear", "sampleSize"}
      BY <3>2, InSections
    <3>6. a \notin {"origin", "unit", "extra"}
      BY <3>2, InSections
    <3> QED BY <3>3, <3>4, <3>5, <3>6 DEF ViewNames
  <2>2. Definition("origin") \notin {<<"signalRate", "">>}
    BY DEF Definition, Interpretation
  <2> QED BY <2>1, <2>2 DEF ReadOnlyBy
<1>10. ReadOnlyBy({Definition("dataType")}, {"dataType", "sampleSize"})
  <2>1. ASSUME NEW a \in ViewNames \ {"dataType", "sampleSize"}, NEW s \in Sections(a), s \in {Definition("dataType")} PROVE FALSE
    <3>1. s = Definition("dataType")
      BY <2>1
    <3>2. s[1] = "definition" /\ s[2] = "dataType"
      BY <3>1, TwoKeys
    <3>3. a \notin {"name", "endian", "rule"}
      BY <3>2, InSections
    <3>4. a \notin {"range", "resolution", "table", "valueIndex", "ticks"}
      BY <3>2, InSections
    <3>5. a \notin {"linear"}
      BY <3>2, InSections
    <3>6. a \notin {"origin", "unit", "extra"}
      BY <3>2, InSections
    <3> QED BY <3>3, <3>4, <3>5, <3>6 DEF ViewNames
  <2>2. Definition("origin") \notin {Definition("dataType")}
    BY DEF Definition, Interpretation
  <2> QED BY <2>1, <2>2 DEF ReadOnlyBy
<1>11. ReadOnlyBy({Definition("struct")}, {"sampleSize"})
  <2>1. ASSUME NEW a \in ViewNames \ {"sampleSize"}, NEW s \in Sections(a), s \in {Definition("struct")} PROVE FALSE
    <3>1. s = Definition("struct")
      BY <2>1
    <3>2. s[1] = "definition" /\ s[2] = "struct"
      BY <3>1, TwoKeys
    <3>3. a \notin {"name", "dataType", "endian", "rule"}
      BY <3>2, InSections
    <3>4. a \notin {"range", "resolution", "table", "valueIndex", "ticks"}
      BY <3>2, InSections
    <3>5. a \notin {"linear"}
      BY <3>2, InSections
    <3>6. a \notin {"origin", "unit", "extra"}
      BY <3>2, InSections
    <3> QED BY <3>3, <3>4, <3>5, <3>6 DEF ViewNames
  <2>2. Definition("origin") \notin {Definition("struct")}
    BY DEF Definition, Interpretation
  <2> QED BY <2>1, <2>2 DEF ReadOnlyBy
<1> QED BY <1>1, <1>2, <1>3, <1>4, <1>5, <1>6, <1>7, <1>8, <1>9, <1>10, <1>11

ToldNames == ViewNames \cup {"fields"}
FieldDocs == {FieldDoc(x[1], x[2]) : x \in Fields \X {"array", "dimension"}}

\* The structure in a document has the fields that were told.
FieldsAgree(d, t) ==
  /\ t.fields \in Seq(Fields) /\ FieldsOf(d) \in Seq(FieldDocs)
  /\ Len(FieldsOf(d)) = Len(t.fields)
  /\ \A i \in 1 .. Len(t.fields) : /\ FieldSize(FieldsOf(d)[i]) = ElementSize(t.fields[i])
                                   /\ StructFieldOf(FieldsOf(d)[i]) = FieldTold(t.fields[i])
  /\ t.sampleSize = RealSize(t.dataType, t.fields)

BuilderInv(d, t) == Ready(d) /\ DOMAIN t = ToldNames /\ Agree(d, t) /\ FieldsAgree(d, t)

\* The size of a sample, as read from the document.
LEMMA SizeAgrees ==
  ASSUME NEW d, NEW t, FieldsAgree(d, t), DataTypeOf(d) = t.dataType
  PROVE  SampleSize(d) = t.sampleSize /\ t.sampleSize \in Nat
<1>1. PICK inDoc, fs : inDoc = FieldsOf(d) /\ fs = t.fields
  OBVIOUS
<1>2. /\ fs \in Seq(Fields) /\ inDoc \in Seq(FieldDocs) /\ Len(inDoc) = Len(fs)
      /\ \A i \in 1 .. Len(fs) : FieldSize(inDoc[i]) = ElementSize(fs[i])
  BY <1>1 DEF FieldsAgree
<1>3. Len(fs) \in Nat /\ DOMAIN fs = 1 .. Len(fs) /\ DOMAIN inDoc = 1 .. Len(fs)
  BY <1>2, LenProperties
<1>4. [i \in DOMAIN inDoc |-> FieldSize(inDoc[i])] = [i \in DOMAIN fs |-> ElementSize(fs[i])]
  BY <1>2, <1>3, Zenon
<1>5. SampleSize(d) = RealSize(t.dataType, fs)
  BY <1>1, <1>4, Zenon DEF SampleSize, RealSize
<1>6. t.sampleSize = RealSize(t.dataType, fs)
  BY <1>1 DEF FieldsAgree
<1>7. PICK ns : ns = [i \in DOMAIN fs |-> ElementSize(fs[i])]
  OBVIOUS
<1>8. ASSUME NEW i \in 1 .. Len(fs) PROVE ElementSize(fs[i]) \in Nat
  <2>1. fs[i] \in Fields
    BY <1>2, ElementOfSeq
  <2>2. fs[i].array \in Nat
    BY <2>1, SignalMetadataAssumption
  <2>3. PICK m, n : m = PrimitiveSize(fs[i].type) /\ n = (IF fs[i].array = 0 THEN 1 ELSE fs[i].array)
    OBVIOUS
  <2>4. m \in Nat /\ n \in Nat
    BY <2>2, <2>3, PrimitiveNat
  <2>5. m * n \in Nat
    BY <2>4, TimesNat
  <2> QED BY <2>3, <2>5, Zenon DEF ElementSize
<1>9. ns \in [1 .. Len(fs) -> Nat]
  BY <1>3, <1>7, <1>8, Zenon
<1>10. Len(ns) = Len(fs)
  BY <1>3, <1>9, FunctionIsSeq
<1>11. Total(ns) \in Nat
  BY <1>3, <1>9, <1>10, TotalNat
<1>12. RealSize(t.dataType, fs) \in Nat
  BY <1>7, <1>11, PrimitiveNat, Zenon DEF RealSize
<1> QED BY <1>5, <1>6, <1>12

\* The accessors of what was told.
LEMMA ToldTypes ==
  ASSUME NEW d, NEW t, BuilderInv(d, t)
  PROVE  DataTypeOf(d) = t.dataType /\ SampleSize(d) = t.sampleSize /\ t.sampleSize \in Nat
         /\ t.sampleSize = RealSize(t.dataType, t.fields)
<1>1. "dataType" \in ViewNames /\ "dataType" # "origin"
  BY DEF ViewNames
<1>2. View(d)["dataType"] = t["dataType"]
  BY <1>1 DEF BuilderInv, Agree
<1>3. DataTypeOf(d) = t.dataType
  BY <1>2, ViewIs
<1> QED BY <1>3, SizeAgrees DEF BuilderInv, FieldsAgree

\* All that is new in what was told is about C.
ToldNew(t1, t2, C) == DOMAIN t2 = ToldNames /\ \A a \in ToldNames \ C : t2[a] = t1[a]

\* Accessors that are not about the type or the structure of samples.
Plain(W, C) ==
  Definition("struct") \notin W /\ C \cap {"dataType", "sampleSize", "fields"} = {} /\ ReadOnlyBy(W, C)

\* A call about something else than the type and the structure.
LEMMA BuilderKept ==
  ASSUME NEW d1, NEW t1, BuilderInv(d1, t1), NEW d2, NEW t2, NEW W, NEW C,
         Ready(d2), Untouched(d1, d2, W), Plain(W, C), ToldNew(t1, t2, C), Says(d2, t2, C)
  PROVE  BuilderInv(d2, t2)
<1>1. /\ \A a \in ViewNames \ C : a \in ToldNames \ C
      /\ {"dataType", "sampleSize", "fields"} \subseteq ToldNames \ C
  BY DEF ToldNames, ViewNames, Plain
<1>2. Agree(d2, t2)
  <2>1. Agree(d1, t1)
    BY DEF BuilderInv
  <2>2. ToldOnly(t1, t2, C)
    BY <1>1 DEF ToldOnly, ToldNew
  <2>3. ReadOnlyBy(W, C)
    BY DEF Plain
  <2>4. Document(d1) /\ Document(d2)
    BY DEF BuilderInv, Ready
  <2> QED BY <2>1, <2>2, <2>3, <2>4, AgreeKept
<1>3. FieldsOf(d1) = FieldsOf(d2)
  BY SimpleSame DEF Plain
<1>4. t2.fields = t1.fields /\ t2.sampleSize = t1.sampleSize /\ t2.dataType = t1.dataType
  BY <1>1 DEF ToldNew
<1>5. FieldsAgree(d2, t2)
  BY <1>3, <1>4 DEF FieldsAgree, BuilderInv
<1> QED BY <1>2, <1>5 DEF BuilderInv, ToldNew

\* The calls that are not about the type or the structure of samples.
LEMMA PlainCalls ==
  /\ Plain(RuleSections, {"rule", "linear"})
  /\ Plain({Definition("endian")}, {"endian"})
  /\ Plain({Interpretation("origin")}, {"origin"})
  /\ Plain({Definition("range")}, {"range"})
  /\ Plain({Definition("resolution")}, {"resolution"})
  /\ Plain({Definition("unit"), Interpretation("unit")}, {"unit"})
  /\ Plain({<<"tableId", "">>}, {"table"})
  /\ Plain({Interpretation("metadata")}, {"extra"})
  /\ Plain({<<"signalRate", "">>}, {"ticks"})
<1>1. Plain(RuleSections, {"rule", "linear"})
  <2>1. Definition("struct") \notin RuleSections
    BY DEF Definition, Interpretation, RuleSections
  <2>2. {"rule", "linear"} \cap {"dataType", "sampleSize", "fields"} = {}
    OBVIOUS
  <2> QED BY <2>1, <2>2, ReadersAre DEF Plain
<1>2. Plain({Definition("endian")}, {"endian"})
  <2>1. Definition("struct") \notin {Definition("endian")}
    BY DEF Definition, Interpretation
  <2>2. {"endian"} \cap {"dataType", "sampleSize", "fields"} = {}
    OBVIOUS
  <2> QED BY <2>1, <2>2, ReadersAre DEF Plain
<1>3. Plain({Interpretation("origin")}, {"origin"})
  <2>1. Definition("struct") \notin {Interpretation("origin")}
    BY DEF Definition, Interpretation
  <2>2. {"origin"} \cap {"dataType", "sampleSize", "fields"} = {}
    OBVIOUS
  <2> QED BY <2>1, <2>2, ReadersAre DEF Plain
<1>4. Plain({Definition("range")}, {"range"})
  <2>1. Definition("struct") \notin {Definition("range")}
    BY DEF Definition, Interpretation
  <2>2. {"range"} \cap {"dataType", "sampleSize", "fields"} = {}
    OBVIOUS
  <2> QED BY <2>1, <2>2, ReadersAre DEF Plain
<1>5. Plain({Definition("resolution")}, {"resolution"})
  <2>1. Definition("struct") \notin {Definition("resolution")}
    BY DEF Definition, Interpretation
  <2>2. {"resolution"} \cap {"dataType", "sampleSize", "fields"} = {}
    OBVIOUS
  <2> QED BY <2>1, <2>2, ReadersAre DEF Plain
<1>6. Plain({Definition("unit"), Interpretation("unit")}, {"unit"})
  <2>1. Definition("struct") \notin {Definition("unit"), Interpretation("unit")}
    BY DEF Definition, Interpretation
  <2>2. {"unit"} \cap {"dataType", "sampleSize", "fields"} = {}
    OBVIOUS
  <2> QED BY <2>1, <2>2, ReadersAre DEF Plain
<1>7. Plain({<<"tableId", "">>}, {"table"})
  <2>1. Definition("struct") \notin {<<"tableId", "">>}
    BY DEF Definition, Interpretation
  <2>2. {"table"} \cap {"dataType", "sampleSize", "fields"} = {}
    OBVIOUS
  <2> QED BY <2>1, <2>2, ReadersAre DEF Plain
<1>8. Plain({Interpretation("metadata")}, {"extra"})
  <2>1. Definition("struct") \notin {Interpretation("metadata")}
    BY DEF Definition, Interpretation
  <2>2. {"extra"} \cap {"dataType", "sampleSize", "fields"} = {}
    OBVIOUS
  <2> QED BY <2>1, <2>2, ReadersAre DEF Plain
<1>9. Plain({<<"signalRate", "">>}, {"ticks"})
  <2>1. Definition("struct") \notin {<<"signalRate", "">>}
    BY DEF Definition, Interpretation
  <2>2. {"ticks"} \cap {"dataType", "sampleSize", "fields"} = {}
    OBVIOUS
  <2> QED BY <2>1, <2>2, ReadersAre DEF Plain
<1> QED BY <1>1, <1>2, <1>3, <1>4, <1>5, <1>6, <1>7, <1>8, <1>9

\* constant_rule: the document says what was told.
LEMMA ConstantRuleTold ==
  ASSUME NEW d, NEW t, BuilderInv(d, t), NEW d2, d2 = ConstantRule(d),
         NEW t2, t2 = [t EXCEPT !.rule = "constant", !.linear = <<<<>>, <<>>>>]
  PROVE  BuilderInv(d2, t2)
<1>1. Ready(d) /\ DOMAIN t = ToldNames
  BY DEF BuilderInv
<1>2. PICK W, C : W = RuleSections /\ C = {"rule", "linear"}
  OBVIOUS
<1>3. Ready(d2) /\ Untouched(d, d2, W) /\ RuleOf(d2) = "constant" /\ LinearStartDelta(d2) = <<<<>>, <<>>>>
  BY <1>1, <1>2, ConstantRuleCall
<1>4. Plain(W, C)
  BY <1>2, PlainCalls
<1>5. "rule" \in DOMAIN t /\ "linear" \in DOMAIN t
  BY <1>1 DEF ToldNames, ViewNames
<1>6. ToldNew(t, t2, C) /\ t2["rule"] = "constant" /\ t2["linear"] = <<<<>>, <<>>>>
  BY <1>1, <1>2, <1>5, Zenon DEF ToldNew
<1>7. Says(d2, t2, C)
  BY <1>2, <1>3, <1>6, ViewIs, Zenon DEF Says
<1> QED BY <1>3, <1>4, <1>6, <1>7, BuilderKept

\* linear_rule.
LEMMA LinearRuleTold ==
  ASSUME NEW d, NEW t, BuilderInv(d, t), NEW start, NEW delta, NEW d2, d2 = LinearRule(d, start, delta),
         NEW t2, t2 = [t EXCEPT !.rule = "linear", !.linear = <<<<start>>, <<delta>>>>]
  PROVE  BuilderInv(d2, t2)
<1>1. Ready(d) /\ DOMAIN t = ToldNames
  BY DEF BuilderInv
<1>2. PICK W, C : W = RuleSections /\ C = {"rule", "linear"}
  OBVIOUS
<1>3. Ready(d2) /\ Untouched(d, d2, W) /\ RuleOf(d2) = "linear" /\ LinearStartDelta(d2) = <<<<start>>, <<delta>>>>
  BY <1>1, <1>2, LinearRuleCall
<1>4. Plain(W, C)
  BY <1>2, PlainCalls
<1>5. "rule" \in DOMAIN t /\ "linear" \in DOMAIN t
  BY <1>1 DEF ToldNames, ViewNames
<1>6. ToldNew(t, t2, C) /\ t2["rule"] = "linear" /\ t2["linear"] = <<<<start>>, <<delta>>>>
  BY <1>1, <1>2, <1>5, Zenon DEF ToldNew
<1>7. Says(d2, t2, C)
  BY <1>2, <1>3, <1>6, ViewIs, Zenon DEF Says
<1> QED BY <1>3, <1>4, <1>6, <1>7, BuilderKept

\* endian.
LEMMA EndianTold ==
  ASSUME NEW d, NEW t, BuilderInv(d, t), NEW endian, NEW d2, d2 = Endian(d, endian),
         NEW t2, t2 = [t EXCEPT !.endian = endian]
  PROVE  BuilderInv(d2, t2)
<1>1. Ready(d) /\ DOMAIN t = ToldNames
  BY DEF BuilderInv
<1>2. PICK W, C : W = {Definition("endian")} /\ C = {"endian"}
  OBVIOUS
<1>3. Ready(d2) /\ Untouched(d, d2, W) /\ EndianOf(d2) = endian
  BY <1>1, <1>2, EndianCall
<1>4. Plain(W, C)
  BY <1>2, PlainCalls
<1>5. "endian" \in DOMAIN t
  BY <1>1 DEF ToldNames, ViewNames
<1>6. ToldNew(t, t2, C) /\ t2["endian"] = endian
  BY <1>1, <1>2, <1>5, Zenon DEF ToldNew
<1>7. Says(d2, t2, C)
  BY <1>2, <1>3, <1>6, ViewIs, Zenon DEF Says
<1> QED BY <1>3, <1>4, <1>6, <1>7, BuilderKept

\* origin.
LEMMA OriginTold ==
  ASSUME NEW d, NEW t, BuilderInv(d, t), NEW origin, NEW d2, d2 = Origin(d, origin),
         NEW t2, t2 = [t EXCEPT !.origin = origin]
  PROVE  BuilderInv(d2, t2)
<1>1. Ready(d) /\ DOMAIN t = ToldNames
  BY DEF BuilderInv
<1>2. PICK W, C : W = {Interpretation("origin")} /\ C = {"origin"}
  OBVIOUS
<1>3. Ready(d2) /\ Untouched(d, d2, W) /\ (OriginOf(d2) = origin \/ Has(d2, Definition("origin"), "str"))
  BY <1>1, <1>2, OriginCall
<1>4. Plain(W, C)
  BY <1>2, PlainCalls
<1>5. "origin" \in DOMAIN t
  BY <1>1 DEF ToldNames, ViewNames
<1>6. ToldNew(t, t2, C) /\ t2["origin"] = origin
  BY <1>1, <1>2, <1>5, Zenon DEF ToldNew
<1>7. Says(d2, t2, C)
  BY <1>2, <1>3, <1>6, ViewIs, Zenon DEF Says
<1> QED BY <1>3, <1>4, <1>6, <1>7, BuilderKept

\* range.
LEMMA ValueRangeTold ==
  ASSUME NEW d, NEW t, BuilderInv(d, t), NEW low, NEW high, NEW d2, d2 = ValueRange(d, low, high),
         NEW t2, t2 = [t EXCEPT !.range = <<low, high>>]
  PROVE  BuilderInv(d2, t2)
<1>1. Ready(d) /\ DOMAIN t = ToldNames
  BY DEF BuilderInv
<1>2. PICK W, C : W = {Definition("range")} /\ C = {"range"}
  OBVIOUS
<1>3. Ready(d2) /\ Untouched(d, d2, W) /\ RangeOf(d2) = <<low, high>>
  BY <1>1, <1>2, ValueRangeCall
<1>4. Plain(W, C)
  BY <1>2, PlainCalls
<1>5. "range" \in DOMAIN t
  BY <1>1 DEF ToldNames, ViewNames
<1>6. ToldNew(t, t2, C) /\ t2["range"] = <<low, high>>
  BY <1>1, <1>2, <1>5, Zenon DEF ToldNew
<1>7. Says(d2, t2, C)
  BY <1>2, <1>3, <1>6, ViewIs, Zenon DEF Says
<1> QED BY <1>3, <1>4, <1>6, <1>7, BuilderKept

\* tick_resolution.
LEMMA TickResolutionTold ==
  ASSUME NEW d, NEW t, BuilderInv(d, t), NEW num, NEW denom, NEW d2, d2 = TickResolution(d, num, denom),
         NEW t2, t2 = [t EXCEPT !.resolution = <<num, denom>>]
  PROVE  BuilderInv(d2, t2)
<1>1. Ready(d) /\ DOMAIN t = ToldNames
  BY DEF BuilderInv
<1>2. PICK W, C : W = {Definition("resolution")} /\ C = {"resolution"}
  OBVIOUS
<1>3. Ready(d2) /\ Untouched(d, d2, W) /\ TickResolutionOf(d2) = <<num, denom>>
  BY <1>1, <1>2, TickResolutionCall
<1>4. Plain(W, C)
  BY <1>2, PlainCalls
<1>5. "resolution" \in DOMAIN t
  BY <1>1 DEF ToldNames, ViewNames
<1>6. ToldNew(t, t2, C) /\ t2["resolution"] = <<num, denom>>
  BY <1>1, <1>2, <1>5, Zenon DEF ToldNew
<1>7. Says(d2, t2, C)
  BY <1>2, <1>3, <1>6, ViewIs, Zenon DEF Says
<1> QED BY <1>3, <1>4, <1>6, <1>7, BuilderKept

\* unit.
LEMMA UnitTold ==
  ASSUME NEW d, NEW t, BuilderInv(d, t), NEW u \in Units, NEW d2, d2 = Unit(d, u),
         NEW t2, t2 = [t EXCEPT !.unit = <<u>>]
  PROVE  BuilderInv(d2, t2)
<1>1. Ready(d) /\ DOMAIN t = ToldNames
  BY DEF BuilderInv
<1>2. PICK W, C : W = {Definition("unit"), Interpretation("unit")} /\ C = {"unit"}
  OBVIOUS
<1>3. Ready(d2) /\ Untouched(d, d2, W) /\ UnitOf(d2) = <<u>>
  BY <1>1, <1>2, UnitCall, SignalMetadataAssumption
<1>4. Plain(W, C)
  BY <1>2, PlainCalls
<1>5. "unit" \in DOMAIN t
  BY <1>1 DEF ToldNames, ViewNames
<1>6. ToldNew(t, t2, C) /\ t2["unit"] = <<u>>
  BY <1>1, <1>2, <1>5, Zenon DEF ToldNew
<1>7. Says(d2, t2, C)
  BY <1>2, <1>3, <1>6, ViewIs, Zenon DEF Says
<1> QED BY <1>3, <1>4, <1>6, <1>7, BuilderKept

\* table.
LEMMA TableTold ==
  ASSUME NEW d, NEW t, BuilderInv(d, t), NEW id, NEW d2, d2 = Table(d, id),
         NEW t2, t2 = [t EXCEPT !.table = id]
  PROVE  BuilderInv(d2, t2)
<1>1. Ready(d) /\ DOMAIN t = ToldNames
  BY DEF BuilderInv
<1>2. PICK W, C : W = {<<"tableId", "">>} /\ C = {"table"}
  OBVIOUS
<1>3. Ready(d2) /\ Untouched(d, d2, W) /\ TableIdOf(d2) = id
  BY <1>1, <1>2, TableCall
<1>4. Plain(W, C)
  BY <1>2, PlainCalls
<1>5. "table" \in DOMAIN t
  BY <1>1 DEF ToldNames, ViewNames
<1>6. ToldNew(t, t2, C) /\ t2["table"] = id
  BY <1>1, <1>2, <1>5, Zenon DEF ToldNew
<1>7. Says(d2, t2, C)
  BY <1>2, <1>3, <1>6, ViewIs, Zenon DEF Says
<1> QED BY <1>3, <1>4, <1>6, <1>7, BuilderKept

\* extra_metadata.
LEMMA ExtraMetadataTold ==
  ASSUME NEW d, NEW t, BuilderInv(d, t), NEW key \in Key, NEW value, NEW d2, d2 = ExtraMetadata(d, key, value),
         NEW extra, extra = WithMember(t.extra, key, StrValue(value)), NEW t2, t2 = [t EXCEPT !.extra = extra]
  PROVE  BuilderInv(d2, t2)
<1>1. Ready(d) /\ DOMAIN t = ToldNames
  BY DEF BuilderInv
<1>2. PICK W, C, v : W = {Interpretation("metadata")} /\ C = {"extra"} /\ v = StrValue(value)
  OBVIOUS
<1>3. /\ Ready(d2) /\ Untouched(d, d2, W)
      /\ ExtraMetadataOf(d2) = WithMember(ExtraMetadataOf(d), key, v)
  BY <1>1, <1>2, ExtraMetadataCall
<1>4. Plain(W, C)
  BY <1>2, PlainCalls
<1>5. "extra" \in DOMAIN t /\ "extra" \in ViewNames /\ "extra" # "origin"
  BY <1>1 DEF ToldNames, ViewNames
<1>6. ToldNew(t, t2, C) /\ t2["extra"] = extra
  BY <1>1, <1>2, <1>5, Zenon DEF ToldNew
<1>7. ExtraMetadataOf(d) = t["extra"]
  <2>1. View(d)["extra"] = t["extra"]
    BY <1>5 DEF BuilderInv, Agree
  <2> QED BY <2>1, ViewIs, Zenon
<1>8. View(d2)["extra"] = t2["extra"]
  BY <1>2, <1>3, <1>6, <1>7, ViewIs, Zenon
<1>9. Says(d2, t2, C)
  BY <1>2, <1>8, Zenon DEF Says
<1> QED BY <1>3, <1>4, <1>6, <1>9, BuilderKept

\* tcp_signal_rate.
LEMMA TcpSignalRateTold ==
  ASSUME NEW d, NEW t, BuilderInv(d, t), NEW rate, NEW d2, d2 = TcpSignalRate(d, rate),
         NEW t2, t2 = [t EXCEPT !.ticks = Ticks(rate, 1, TickDenom)]
  PROVE  BuilderInv(d2, t2)
<1>1. Ready(d) /\ DOMAIN t = ToldNames
  BY DEF BuilderInv
<1>2. PICK W, C : W = {<<"signalRate", "">>} /\ C = {"ticks"}
  OBVIOUS
<1>3. Ready(d2) /\ Untouched(d, d2, W) /\ Ticking(d2, rate)
  BY <1>1, <1>2, TcpSignalRateCall
<1>3a. TcpSignalRateTicks(d2, 1, TickDenom) = Ticks(rate, 1, TickDenom)
  BY <1>3, Zenon DEF Ticking
<1>4. Plain(W, C)
  BY <1>2, PlainCalls
<1>5. "ticks" \in DOMAIN t
  BY <1>1 DEF ToldNames, ViewNames
<1>6. ToldNew(t, t2, C) /\ t2["ticks"] = Ticks(rate, 1, TickDenom)
  BY <1>1, <1>2, <1>5, Zenon DEF ToldNew
<1>7. Says(d2, t2, C)
  BY <1>2, <1>3a, <1>6, ViewIs, Zenon DEF Says
<1> QED BY <1>3, <1>4, <1>6, <1>7, BuilderKept

\* data_type: the size of a sample is that of the fields, if it is a structure.
LEMMA DataTypeTold ==
  ASSUME NEW d, NEW t, BuilderInv(d, t), NEW type, NEW d2, d2 = DataType(d, type),
         NEW t2, t2 = [t EXCEPT !.dataType = type, !.sampleSize = RealSize(type, t.fields)]
  PROVE  BuilderInv(d2, t2)
<1>1. Ready(d) /\ DOMAIN t = ToldNames /\ Agree(d, t) /\ FieldsAgree(d, t)
  BY DEF BuilderInv
<1>2. PICK W, C : W = {Definition("dataType")} /\ C = {"dataType", "sampleSize"}
  OBVIOUS
<1>3. Ready(d2) /\ Untouched(d, d2, W) /\ DataTypeOf(d2) = type
  BY <1>1, <1>2, DataTypeCall
<1>4. ReadOnlyBy(W, C)
  BY <1>2, ReadersAre
<1>5. "dataType" \in DOMAIN t /\ "sampleSize" \in DOMAIN t /\ "fields" \in DOMAIN t /\ "fields" \notin C
  BY <1>1, <1>2 DEF ToldNames, ViewNames
<1>6. /\ ToldNew(t, t2, C) /\ t2["dataType"] = type /\ t2["sampleSize"] = RealSize(type, t["fields"])
      /\ t2["fields"] = t["fields"]
  BY <1>1, <1>2, <1>5, Zenon DEF ToldNew
<1>7. Definition("struct") \notin W
  BY <1>2 DEF Definition
<1>8. FieldsOf(d2) = FieldsOf(d)
  BY <1>3, <1>7, SimpleSame
<1>9. FieldsAgree(d2, t2)
  BY <1>1, <1>6, <1>8 DEF FieldsAgree
<1>10. SampleSize(d2) = t2.sampleSize
  BY <1>3, <1>6, <1>9, SizeAgrees
<1>11. Says(d2, t2, C)
  <2>1. View(d2)["dataType"] = t2["dataType"]
    BY <1>3, <1>6, ViewIs, Zenon
  <2>2. View(d2)["sampleSize"] = t2["sampleSize"]
    BY <1>10, ViewIs, Zenon
  <2> QED BY <1>2, <2>1, <2>2, Zenon DEF Says
<1>12. ToldOnly(t, t2, C)
  BY <1>6 DEF ToldOnly, ToldNew, ToldNames
<1>13. Agree(d2, t2)
  BY <1>1, <1>3, <1>4, <1>11, <1>12, AgreeKept DEF Ready
<1> QED BY <1>3, <1>6, <1>9, <1>13 DEF BuilderInv, ToldNew

\* struct_field.
LEMMA StructFieldTold ==
  ASSUME NEW d, NEW t, BuilderInv(d, t), NEW f \in Fields, NEW way \in {"array", "dimension"},
         NEW d2, d2 = StructField(d, FieldDoc(f, way)), NEW fs, fs = Append(t.fields, f),
         NEW t2, t2 = [t EXCEPT !.fields = fs, !.sampleSize = RealSize(t.dataType, fs)]
  PROVE  BuilderInv(d2, t2)
<1>1. Ready(d) /\ DOMAIN t = ToldNames /\ Agree(d, t) /\ FieldsAgree(d, t)
  BY DEF BuilderInv
<1>2. PICK W, C, new, olds, oldt :
        /\ W = {Definition("struct")} /\ C = {"sampleSize"} /\ new = FieldDoc(f, way)
        /\ olds = FieldsOf(d) /\ oldt = t.fields
  OBVIOUS
<1>3. Ready(d2) /\ Untouched(d, d2, W) /\ FieldsOf(d2) = Append(olds, new)
  BY <1>1, <1>2, StructFieldCall
<1>4. ReadOnlyBy(W, C)
  BY <1>2, ReadersAre
<1>5. "dataType" \in DOMAIN t /\ "sampleSize" \in DOMAIN t /\ "fields" \in DOMAIN t /\ "fields" \notin ViewNames
  BY <1>1 DEF ToldNames, ViewNames
<1>6. /\ DOMAIN t2 = ToldNames /\ t2["dataType"] = t["dataType"] /\ t2["fields"] = fs
      /\ t2["sampleSize"] = RealSize(t["dataType"], fs)
  BY <1>1, <1>5, Zenon
<1>7. ToldOnly(t, t2, C)
  BY <1>1, <1>2, <1>5, Zenon DEF ToldOnly, ToldNames
<1>8. new \in FieldDocs
  <2>1. PICK x : x = <<f, way>>
    OBVIOUS
  <2>2. x \in Fields \X {"array", "dimension"} /\ x[1] = f /\ x[2] = way
    BY <2>1
  <2> QED BY <1>2, <2>2, Zenon DEF FieldDocs
<1>9. FieldSize(new) = ElementSize(f) /\ StructFieldOf(new) = FieldTold(f)
  BY <1>2, FieldSizeIs, SignalMetadataAssumption
<1>10. /\ olds \in Seq(FieldDocs) /\ oldt \in Seq(Fields) /\ Len(olds) = Len(oldt)
       /\ \A i \in 1 .. Len(oldt) : /\ FieldSize(olds[i]) = ElementSize(oldt[i])
                                     /\ StructFieldOf(olds[i]) = FieldTold(oldt[i])
  BY <1>1, <1>2 DEF FieldsAgree
<1>11. PICK news : news = Append(olds, new)
  OBVIOUS
<1>12. /\ news \in Seq(FieldDocs) /\ Len(news) = Len(olds) + 1 /\ news[Len(olds) + 1] = new
       /\ \A i \in 1 .. Len(olds) : news[i] = olds[i]
  BY <1>8, <1>10, <1>11, AppendProperties
<1>13. fs = Append(oldt, f)
  BY <1>2
<1>14. /\ fs \in Seq(Fields) /\ Len(fs) = Len(oldt) + 1 /\ fs[Len(oldt) + 1] = f
       /\ \A i \in 1 .. Len(oldt) : fs[i] = oldt[i]
  BY <1>10, <1>13, AppendProperties
<1>15. Len(oldt) \in Nat
  BY <1>10, LenProperties
<1>16. ASSUME NEW i \in 1 .. Len(fs)
       PROVE  FieldSize(news[i]) = ElementSize(fs[i]) /\ StructFieldOf(news[i]) = FieldTold(fs[i])
  <2>1. i \in 1 .. Len(oldt) \/ i = Len(oldt) + 1
    BY <1>14, <1>15
  <2>2. CASE i \in 1 .. Len(oldt)
    BY <2>2, <1>10, <1>12, <1>14, Zenon
  <2>3. CASE i = Len(oldt) + 1
    BY <2>3, <1>9, <1>10, <1>12, <1>14, Zenon
  <2> QED BY <2>1, <2>2, <2>3
<1>17. FieldsAgree(d2, t2)
  <2>1. FieldsOf(d2) = news /\ t2.fields = fs /\ Len(news) = Len(fs)
    BY <1>3, <1>6, <1>10, <1>11, <1>12, <1>14
  <2>2. t2.sampleSize = RealSize(t2.dataType, fs)
    BY <1>6
  <2> QED BY <2>1, <2>2, <1>12, <1>14, <1>16, Zenon DEF FieldsAgree
<1>18. DataTypeOf(d2) = t2.dataType
  <2>1. Definition("dataType") \notin W
    BY <1>2 DEF Definition
  <2>2. DataTypeOf(d2) = DataTypeOf(d)
    BY <1>3, <2>1, SimpleSame
  <2> QED BY <2>2, <1>6, ToldTypes
<1>19. SampleSize(d2) = t2.sampleSize
  BY <1>17, <1>18, SizeAgrees
<1>20. Says(d2, t2, C)
  BY <1>2, <1>19, ViewIs, Zenon DEF Says
<1>21. Agree(d2, t2)
  BY <1>1, <1>3, <1>4, <1>7, <1>20, AgreeKept DEF Ready
<1> QED BY <1>3, <1>6, <1>17, <1>21 DEF BuilderInv

\* What the builder starts from.
LEMMA FirstTold ==
  ASSUME NEW d, Ready(d), FieldsOf(d) = <<>>,
         NEW t, t = [a \in DOMAIN View(d) \cup {"fields"} |-> IF a = "fields" THEN <<>> ELSE View(d)[a]]
  PROVE  BuilderInv(d, t)
<1>1. DOMAIN t = ToldNames
  BY ViewIs, Zenon DEF ToldNames
<1>2. "fields" \notin ViewNames /\ "dataType" \in ViewNames /\ "sampleSize" \in ViewNames
  BY DEF ViewNames
<1>3. t["fields"] = <<>> /\ \A a \in ViewNames : t[a] = View(d)[a]
  BY <1>2, ViewIs, Zenon
<1>4. t["dataType"] = DataTypeOf(d) /\ t["sampleSize"] = SampleSize(d)
  BY <1>2, <1>3, ViewIs, Zenon
<1>5. Agree(d, t)
  BY <1>3 DEF Agree
<1>6. PICK no : no = <<>>
  OBVIOUS
<1>7. no \in Seq(Fields) /\ no \in Seq(FieldDocs) /\ Len(no) = 0 /\ DOMAIN no = {}
  BY <1>6
<1>8. [i \in DOMAIN no |-> FieldSize(no[i])] = [i \in DOMAIN no |-> ElementSize(no[i])]
  BY <1>7, Zenon
<1>9. FieldsOf(d) = no /\ t["fields"] = no
  BY <1>3, <1>6
<1>10. SampleSize(d) = RealSize(DataTypeOf(d), no)
  BY <1>8, <1>9, Zenon DEF SampleSize, RealSize
<1>11. FieldsAgree(d, t)
  <2>1. \A i \in 1 .. Len(no) : FALSE
    BY <1>7
  <2> QED BY <1>4, <1>7, <1>9, <1>10, <2>1, Zenon DEF FieldsAgree
<1> QED BY <1>1, <1>5, <1>11 DEF BuilderInv

-----------------------------------------------------------------------------
(* The time of samples.                                                    *)

\* Products and sums.
LEMMA TimesOrder ==
  /\ \A x, y \in Int : x * y = y * x
  /\ \A x, y, z \in Int : (x * y) * z = x * (y * z)
  /\ \A x, y, z \in Int : (x + y) * z = x * z + y * z /\ (x - y) * z = x * z - y * z
  BY SMT

\* Rounding to ticks, each m long, errs by less than a tick.
LEMMA TickError ==
  ASSUME NEW p \in Nat, p >= 2, NEW y \in Nat, NEW m \in Nat \ {0}, NEW q, q = (p * y + m) \div (p * m)
  PROVE  q \in Nat /\ q * m - y <= m /\ y - q * m <= m
<1>1. PICK n, b, r : n = p * y + m /\ b = p * m /\ r = n % b
  OBVIOUS
<1>2. n \in Nat /\ b \in Nat
  BY <1>1, TimesNat
<1>3. b >= m
  <2>1. 1 * m <= p * m
    BY TimesMonotone
  <2> QED BY <2>1, <1>1
<1>4. q \in Nat /\ r \in Nat /\ r < b /\ n = q * b + r
  <2>1. b \in Nat \ {0}
    BY <1>2, <1>3
  <2>2. q = n \div b
    BY <1>1
  <2>3. n \div b \in Nat /\ n % b \in 0..(b - 1) /\ n = (n \div b) * b + (n % b)
    BY <1>2, <2>1, DivMod, Zenon
  <2>4. r \in 0..(b - 1) /\ q \in Nat /\ n = q * b + r
    BY <1>1, <2>2, <2>3, Zenon
  <2> QED BY <2>4, <1>2
<1>5. PICK w : w = q * m
  OBVIOUS
<1>6. w \in Nat
  BY <1>4, <1>5, TimesNat
<1>7. q * b = w * p
  <2>1. q * b = q * (m * p)
    BY <1>1, <1>4, TimesOrder
  <2>2. q * (m * p) = (q * m) * p
    BY <1>4, TimesOrder
  <2> QED BY <1>5, <2>1, <2>2
<1>8. n = y * p + m
  BY <1>1, TimesOrder
<1>9. (w - y) * p = w * p - y * p
  BY <1>6, TimesOrder
<1>10. PICK wp, yp, up : wp = w * p /\ yp = y * p /\ up = (w - y) * p
  OBVIOUS
<1>11. wp \in Nat /\ yp \in Nat /\ up \in Int
  BY <1>6, <1>9, <1>10, TimesNat
<1>12. up = m - r
  BY <1>2, <1>4, <1>7, <1>8, <1>9, <1>10, <1>11
<1>13. (m + 1) * p = b + p /\ (0 - m) * p = 0 - b
  BY <1>1, TimesOrder
<1>14. ASSUME w - y > m PROVE FALSE
  <2>1. (m + 1) * p <= (w - y) * p
    BY <1>14, <1>6, TimesMonotone
  <2> QED BY <2>1, <1>2, <1>3, <1>4, <1>10, <1>12, <1>13
<1>15. ASSUME y - w > m PROVE FALSE
  <2>1. (w - y) * p <= (0 - m) * p
    BY <1>15, <1>6, TimesMonotone
  <2> QED BY <2>1, <1>2, <1>3, <1>4, <1>10, <1>12, <1>13
<1> QED BY <1>4, <1>5, <1>6, <1>14, <1>15

\* A rate that the arithmetic is made for.
RateOK(r) ==
  /\ r.seconds \in Nat /\ r.fraction \in Nat /\ r.subFraction \in Nat
  /\ r.samples \in Nat \ {0} /\ Fineness % r.samples = 0

\* One interval of a sample, in ticks, against the exact one.
LEMMA RateError ==
  ASSUME NEW rate, RateOK(rate)
  PROVE  /\ Ticks(rate, 1, TickDenom) \in Nat /\ Interval(rate) \in Nat
         /\ Ticks(rate, 1, TickDenom) * Fine - Interval(rate) <= Fine
         /\ Interval(rate) - Ticks(rate, 1, TickDenom) * Fine <= Fine
<1>1. PICK b2, s, k, x, y, m, p, q :
        /\ b2 = Base * Base /\ s = rate.samples /\ k = Fineness \div s
        /\ x = (rate.seconds * Base + rate.fraction) * Base + rate.subFraction
        /\ y = x * TickDenom /\ m = b2 * s /\ p = 2 * TickDenom /\ q = Ticks(rate, 1, TickDenom)
  OBVIOUS
<1>2. TickDenom \in Nat \ {0} /\ Fineness \in Nat \ {0} /\ Base \in Nat \ {0}
  BY SignalMetadataAssumption, BaseAssumption
<1>3. s \in Nat \ {0} /\ b2 \in Nat \ {0} /\ p \in Nat /\ p >= 2
  BY <1>1, <1>2 DEF RateOK
<1>4. x \in Nat
  <2>1. rate.seconds \in Nat /\ rate.fraction \in Nat /\ rate.subFraction \in Nat
    BY DEF RateOK
  <2>2. PICK a : a = rate.seconds * Base + rate.fraction
    OBVIOUS
  <2>3. a \in Nat
    BY <1>2, <2>1, <2>2, TimesNat
  <2>4. a * Base \in Nat
    BY <1>2, <2>3, TimesNat
  <2> QED BY <1>1, <2>1, <2>2, <2>4
<1>5. y \in Nat /\ m \in Nat \ {0}
  BY <1>1, <1>2, <1>3, <1>4
<1>6. k \in Nat /\ Fineness = k * s
  <2>1. Fineness % s = 0
    BY <1>1 DEF RateOK
  <2>2. k \in Nat /\ Fineness = k * s + (Fineness % s)
    BY <1>1, <1>2, <1>3, DivMod
  <2>3. k * s \in Nat
    BY <2>2, <1>3, TimesNat
  <2> QED BY <2>1, <2>2, <2>3
<1>7. q = (p * y + m) \div (p * m)
  <2>1. q = (2 * TickDenom * x * TickDenom + b2 * 1 * s) \div (2 * TickDenom * b2 * s * 1)
    BY <1>1, Zenon DEF Ticks
  <2>2. 2 * TickDenom * x * TickDenom = p * y
    <3>1. 2 * TickDenom * x * TickDenom = (p * x) * TickDenom
      BY <1>1
    <3>2. (p * x) * TickDenom = p * (x * TickDenom)
      BY <1>2, <1>3, <1>4, TimesOrder
    <3> QED BY <1>1, <3>1, <3>2
  <2>3. b2 * 1 * s = m
    <3>1. b2 * 1 = b2
      BY <1>3
    <3> QED BY <1>1, <3>1
  <2>4. 2 * TickDenom * b2 * s * 1 = p * m
    <3>1. 2 * TickDenom * b2 * s * 1 = ((p * b2) * s) * 1
      BY <1>1
    <3>2. (p * b2) * s = p * m
      BY <1>1, <1>3, TimesOrder
    <3>3. p * m \in Nat
      BY <1>3, <1>5, TimesNat
    <3>4. (p * m) * 1 = p * m
      BY <3>3
    <3> QED BY <3>1, <3>2, <3>4
  <2> QED BY <2>1, <2>2, <2>3, <2>4, Zenon
<1>8. q \in Nat /\ q * m - y <= m /\ y - q * m <= m
  BY <1>3, <1>5, <1>7, TickError
<1>9. Fine = m * k
  <2>1. Fine = b2 * (k * s)
    BY <1>1, <1>6, Zenon DEF Fine
  <2>2. k * s = s * k
    BY <1>3, <1>6, TimesOrder
  <2>3. b2 * (s * k) = (b2 * s) * k
    BY <1>3, <1>6, TimesOrder
  <2> QED BY <1>1, <2>1, <2>2, <2>3, Zenon
<1>10. Interval(rate) = y * k
  BY <1>1, Zenon DEF Interval
<1>11. PICK w : w = q * m
  OBVIOUS
<1>12. w \in Nat
  BY <1>5, <1>8, <1>11, TimesNat
<1>13. q * Fine = w * k
  BY <1>5, <1>6, <1>8, <1>9, <1>11, TimesOrder
<1>14. (w - y) * k <= m * k /\ (y - w) * k <= m * k
  <2>1. w - y <= m /\ y - w <= m /\ w - y \in Int /\ y - w \in Int
    BY <1>5, <1>8, <1>11, <1>12
  <2> QED BY <2>1, <1>5, <1>6, TimesMonotone
<1>15. (w - y) * k = w * k - y * k /\ (y - w) * k = y * k - w * k
  BY <1>5, <1>6, <1>12, TimesOrder
<1>16. y * k \in Nat
  BY <1>5, <1>6, TimesNat
<1> QED BY <1>1, <1>8, <1>9, <1>10, <1>13, <1>14, <1>15, <1>16

\* Without a rate no time passes.
LEMMA NoRateIs == RateOK(NoRate) /\ Ticks(NoRate, 1, TickDenom) = 0
<1>1. /\ NoRate.seconds = 0 /\ NoRate.fraction = 0 /\ NoRate.subFraction = 0 /\ NoRate.samples = 1
  BY DEF NoRate
<1>2. TickDenom \in Nat \ {0} /\ Fineness \in Nat \ {0} /\ Base \in Nat \ {0}
  BY SignalMetadataAssumption, BaseAssumption
<1>3. RateOK(NoRate)
  BY <1>1, <1>2 DEF RateOK
<1>4. PICK b2, q : b2 = Base * Base /\ q = Ticks(NoRate, 1, TickDenom)
  OBVIOUS
<1>5. b2 \in Nat \ {0}
  BY <1>2, <1>4
<1>6. q = (2 * TickDenom * ((0 * Base + 0) * Base + 0) * TickDenom + b2 * 1 * 1) \div (2 * TickDenom * b2 * 1 * 1)
  BY <1>1, <1>4, Zenon DEF Ticks
<1>7. PICK c : c = 2 * TickDenom * b2
  OBVIOUS
<1>8. c \in Nat \ {0} /\ b2 < c
  <2>1. 1 * b2 <= TickDenom * b2
    BY <1>2, <1>5, TimesMonotone
  <2>2. c = 2 * (TickDenom * b2) /\ TickDenom * b2 \in Nat
    BY <1>2, <1>5, <1>7, TimesOrder, TimesNat
  <2> QED BY <1>5, <2>1, <2>2
<1>9. (0 * Base + 0) * Base + 0 = 0
  BY <1>2
<1>10. 2 * TickDenom * 0 * TickDenom = 0
  BY <1>2
<1>11. b2 * 1 * 1 = b2 /\ 2 * TickDenom * b2 * 1 * 1 = c
  <2>1. c * 1 * 1 = c
    BY <1>8
  <2>2. 2 * TickDenom * b2 * 1 * 1 = c * 1 * 1
    BY <1>7, Zenon
  <2> QED BY <1>5, <2>1, <2>2
<1>12. q = (0 + b2) \div c
  BY <1>6, <1>9, <1>10, <1>11, Zenon
<1>13. b2 \div c = 0
  <2>1. b2 = 0 * c + b2
    BY <1>5, <1>8
  <2> QED BY <2>1, <1>5, <1>8, DivUnique
<1> QED BY <1>3, <1>4, <1>5, <1>12, <1>13

\* A stamp stands for a time.
LEMMA TimeOfNat == ASSUME NEW stamp \in Stamps PROVE TimeOf(stamp) \in Nat
<1>1. PICK h, a, b : h = Base \div 2 /\ a = stamp[1] /\ b = stamp[2]
  OBVIOUS
<1>2. h \in Nat \ {0} /\ a \in Nat /\ b \in Nat /\ Epoch \in Nat /\ TickDenom \in Nat
  BY <1>1, SignalMetadataAssumption, BaseAssumption
<1>3. PICK c : c = h + b + (a + Epoch) * h * 2
  OBVIOUS
<1>4. c \in Nat
  <2>1. (a + Epoch) * h \in Nat
    BY <1>2, TimesNat
  <2> QED BY <1>2, <1>3, <2>1
<1>5. c * TickDenom \in Nat
  BY <1>2, <1>4, TimesNat
<1>6. (c * TickDenom) \div (h * 2) \in Nat
  <2>1. h * 2 \in Nat \ {0}
    BY <1>2
  <2> QED BY <2>1, <1>5, DivMod
<1> QED BY <1>1, <1>3, <1>6, Zenon DEF TimeOf

-----------------------------------------------------------------------------
(* The remote signal.                                                      *)

\* What the samples are, and what the remote signal has cached of it.
Cached ==
  /\ DOMAIN source = {"type", "size", "rate"} /\ source.size \in Nat /\ RateOK(source.rate)
  /\ sampleSize = source.size /\ tcpDelta = Ticks(source.rate, 1, TickDenom)
  /\ isLinear \in BOOLEAN /\ isExplicit \in BOOLEAN /\ ~ (isLinear /\ isExplicit)

\* A WebSocket peer sends no time, a direct TCP device no rule.
KindInv ==
  /\ kind \in {"ws", "tcp"}
  /\ kind = "ws" => /\ tcpDelta = 0 /\ clock = NoTime
                    /\ source.type # "unknown" => DataTypeOf(metadata) = source.type
  /\ kind = "tcp" => /\ ~ isLinear /\ ~ isExplicit
                     /\ source.type # "unknown" => source.size # 0

Counted == [sent : 0 .. MaxSamples, reported : 0 .. MaxSamples]
ClockInv ==
  /\ tcpTime \in Nat /\ clock \in Int /\ since \in 0 .. MaxSamples /\ delivered \in Counted
  /\ subscribed \in BOOLEAN /\ DriftBounded

SinkInv == Document(metadata) /\ Cached /\ KindInv /\ ClockInv

MetadataInv == calls \in 0 .. MaxCalls /\ BuilderInv(draft, told) /\ SinkInv

\* The invariant holds at first.
LEMMA MetadataStarts == ASSUME MetadataInit PROVE MetadataInv
<1>1. MaxCalls \in Nat /\ MaxSamples \in Nat
  BY SignalMetadataAssumption
<1>2. BuilderInv(draft, told)
  <2>1. Ready(draft) /\ FieldsOf(draft) = <<>>
    <3>1. draft = Builder("v") \/ \E d \in Foreign : draft = FromJson(d)
      BY DEF MetadataInit
    <3>2. CASE draft = Builder("v")
      BY <3>2, BuilderCall
    <3>3. ASSUME NEW d \in Foreign, draft = FromJson(d) PROVE Ready(draft) /\ FieldsOf(draft) = <<>>
      <4>1. Document(d) /\ FieldsOf(d) = <<>>
        BY DocIs, ForeignAssumption
      <4> QED BY <3>3, <4>1, FromJsonCall
    <3> QED BY <3>1, <3>2, <3>3
  <2>2. told = [a \in DOMAIN View(draft) \cup {"fields"} |-> IF a = "fields" THEN <<>> ELSE View(draft)[a]]
    BY DEF MetadataInit
  <2> QED BY <2>1, <2>2, FirstTold
<1>3. Document(metadata)
  BY EmptyIs DEF MetadataInit
<1>4. source = [type |-> "unknown", size |-> 0, rate |-> NoRate]
  BY DEF MetadataInit
<1>5. DOMAIN source = {"type", "size", "rate"} /\ source.type = "unknown" /\ source.size = 0 /\ source.rate = NoRate
  BY <1>4
<1>6. Cached
  BY <1>5, NoRateIs DEF Cached, MetadataInit
<1>7. KindInv
  BY <1>5 DEF KindInv, MetadataInit
<1>8. DriftBounded
  BY DEF DriftBounded, MetadataInit, NoTime
<1>9. ClockInv
  <2>1. delivered = [sent |-> 0, reported |-> 0] /\ tcpTime = 0 /\ clock = -1 /\ since = 0 /\ subscribed = FALSE
    BY DEF MetadataInit, NoTime
  <2>2. 0 \in 0 .. MaxSamples
    BY <1>1
  <2>3. delivered \in Counted
    BY <2>1, <2>2 DEF Counted
  <2>4. tcpTime \in Nat /\ clock \in Int /\ since \in 0 .. MaxSamples
    BY <2>1, <2>2
  <2>5. subscribed \in BOOLEAN
    BY <2>1
  <2> QED BY <1>8, <2>3, <2>4, <2>5 DEF ClockInv
<1> QED BY <1>1, <1>2, <1>3, <1>6, <1>7, <1>9 DEF MetadataInv, SinkInv, MetadataInit

\* A step of the builder does not reach the remote signal.
LEMMA SinkSame ==
  ASSUME SinkInv, UNCHANGED <<kind, sinkVars, source, clock, since, delivered>>
  PROVE  SinkInv'
<1>1. /\ kind' = kind /\ source' = source /\ clock' = clock /\ since' = since /\ delivered' = delivered
      /\ subscribed' = subscribed /\ metadata' = metadata /\ sampleSize' = sampleSize
      /\ isLinear' = isLinear /\ isExplicit' = isExplicit /\ tcpDelta' = tcpDelta /\ tcpTime' = tcpTime
  BY DEF sinkVars
<1>2. Document(metadata)' /\ Cached'
  BY <1>1 DEF SinkInv, Cached
<1>3. KindInv'
  BY <1>1 DEF SinkInv, KindInv
<1>4. ClockInv'
  BY <1>1 DEF SinkInv, ClockInv, DriftBounded
<1> QED BY <1>2, <1>3, <1>4 DEF SinkInv

\* A builder call that agrees with what is told.
LEMMA BuildKeeps ==
  ASSUME MetadataInv, NEW d, NEW t, BuilderInv(d, t), Build(d, t)
  PROVE  MetadataInv'
<1>1. draft' = d /\ told' = t /\ calls' \in 0 .. MaxCalls
  BY SignalMetadataAssumption DEF Build, MetadataInv
<1>2. SinkInv'
  BY SinkSame DEF Build, MetadataInv
<1>3. BuilderInv(draft, told)'
  BY <1>1
<1> QED BY <1>1, <1>2, <1>3 DEF MetadataInv

\* Every builder call keeps the invariant.
LEMMA BuilderKeeps ==
  ASSUME MetadataInv,
         \/ BuildConstantRule \/ BuildLinearRule \/ BuildDataType \/ BuildEndian \/ BuildOrigin \/ BuildRange
         \/ BuildTickResolution \/ BuildUnit \/ BuildTable \/ BuildExtra \/ BuildStructField
         \/ BuildTcpSignalRate
  PROVE  MetadataInv'
<1>1. BuilderInv(draft, told)
  BY DEF MetadataInv
<1>2. CASE BuildConstantRule
  <2>1. PICK d, t : d = ConstantRule(draft) /\ t = [told EXCEPT !.rule = "constant", !.linear = <<<<>>, <<>>>>]
    OBVIOUS
  <2>2. Build(d, t)
    BY <1>2, <2>1, Zenon DEF BuildConstantRule
  <2>3. BuilderInv(d, t)
    BY <1>1, <2>1, ConstantRuleTold
  <2> QED BY <2>2, <2>3, BuildKeeps
<1>3. CASE BuildLinearRule
  <2>1. PICK r \in LinearRules : Build(LinearRule(draft, r[1], r[2]),
                                       [told EXCEPT !.rule = "linear", !.linear = <<<<r[1]>>, <<r[2]>>>>])
    BY <1>3, Zenon DEF BuildLinearRule
  <2>2. PICK a, b : a = r[1] /\ b = r[2]
    OBVIOUS
  <2>3. PICK d, t : d = LinearRule(draft, a, b) /\ t = [told EXCEPT !.rule = "linear", !.linear = <<<<a>>, <<b>>>>]
    OBVIOUS
  <2>4. Build(d, t)
    BY <2>1, <2>2, <2>3, Zenon
  <2>5. BuilderInv(d, t)
    BY <1>1, <2>3, LinearRuleTold
  <2> QED BY <2>4, <2>5, BuildKeeps
<1>4. CASE BuildDataType
  <2>1. PICK x \in DataTypes :
          Build(DataType(draft, x), [told EXCEPT !.dataType = x, !.sampleSize = RealSize(x, told.fields)])
    BY <1>4, Zenon DEF BuildDataType
  <2>2. PICK d, t : d = DataType(draft, x) /\ t = [told EXCEPT !.dataType = x, !.sampleSize = RealSize(x, told.fields)]
    OBVIOUS
  <2>3. Build(d, t)
    BY <2>1, <2>2, Zenon
  <2>4. BuilderInv(d, t)
    BY <1>1, <2>2, DataTypeTold
  <2> QED BY <2>3, <2>4, BuildKeeps
<1>5. CASE BuildEndian
  <2>1. PICK d, t : d = Endian(draft, "little") /\ t = [told EXCEPT !.endian = "little"]
    OBVIOUS
  <2>2. Build(d, t)
    BY <1>5, <2>1, Zenon DEF BuildEndian
  <2>3. BuilderInv(d, t)
    BY <1>1, <2>1, EndianTold
  <2> QED BY <2>2, <2>3, BuildKeeps
<1>6. CASE BuildOrigin
  <2>1. PICK d, t : d = Origin(draft, "1970") /\ t = [told EXCEPT !.origin = "1970"]
    OBVIOUS
  <2>2. Build(d, t)
    BY <1>6, <2>1, Zenon DEF BuildOrigin
  <2>3. BuilderInv(d, t)
    BY <1>1, <2>1, OriginTold
  <2> QED BY <2>2, <2>3, BuildKeeps
<1>7. CASE BuildRange
  <2>1. PICK a, b : a = -1 /\ b = 1
    OBVIOUS
  <2>2. PICK d, t : d = ValueRange(draft, a, b) /\ t = [told EXCEPT !.range = <<a, b>>]
    OBVIOUS
  <2>3. Build(d, t)
    BY <1>7, <2>1, <2>2, Zenon DEF BuildRange
  <2>4. BuilderInv(d, t)
    BY <1>1, <2>2, ValueRangeTold
  <2> QED BY <2>3, <2>4, BuildKeeps
<1>8. CASE BuildTickResolution
  <2>1. PICK a, b : a = 1 /\ b = 10
    OBVIOUS
  <2>2. PICK d, t : d = TickResolution(draft, a, b) /\ t = [told EXCEPT !.resolution = <<a, b>>]
    OBVIOUS
  <2>3. Build(d, t)
    BY <1>8, <2>1, <2>2, Zenon DEF BuildTickResolution
  <2>4. BuilderInv(d, t)
    BY <1>1, <2>2, TickResolutionTold
  <2> QED BY <2>3, <2>4, BuildKeeps
<1>9. CASE BuildUnit
  <2>1. PICK u \in Units : Build(Unit(draft, u), [told EXCEPT !.unit = <<u>>])
    BY <1>9, Zenon DEF BuildUnit
  <2>2. PICK d, t : d = Unit(draft, u) /\ t = [told EXCEPT !.unit = <<u>>]
    OBVIOUS
  <2>3. Build(d, t)
    BY <2>1, <2>2, Zenon
  <2>4. BuilderInv(d, t)
    BY <1>1, <2>2, UnitTold
  <2> QED BY <2>3, <2>4, BuildKeeps
<1>10. CASE BuildTable
  <2>1. PICK d, t : d = Table(draft, "t") /\ t = [told EXCEPT !.table = "t"]
    OBVIOUS
  <2>2. Build(d, t)
    BY <1>10, <2>1, Zenon DEF BuildTable
  <2>3. BuilderInv(d, t)
    BY <1>1, <2>1, TableTold
  <2> QED BY <2>2, <2>3, BuildKeeps
<1>11. CASE BuildExtra
  <2>1. PICK v \in {"value", "other"} :
          LET extra == [k \in DOMAIN told.extra \cup {"key"} |-> IF k = "key" THEN StrValue(v) ELSE told.extra[k]]
          IN  Build(ExtraMetadata(draft, "key", v), [told EXCEPT !.extra = extra])
    BY <1>11, Zenon DEF BuildExtra
  <2>2. PICK key, extra, d, t :
          /\ key = "key" /\ extra = WithMember(told.extra, key, StrValue(v))
          /\ d = ExtraMetadata(draft, key, v) /\ t = [told EXCEPT !.extra = extra]
    OBVIOUS
  <2>3. Build(d, t)
    BY <2>1, <2>2, Zenon DEF WithMember
  <2>4. key \in Key
    BY <2>2 DEF Key, LibraryNames
  <2>5. BuilderInv(d, t)
    BY <1>1, <2>2, <2>4, ExtraMetadataTold
  <2> QED BY <2>3, <2>5, BuildKeeps
<1>12. CASE BuildStructField
  <2>1. PICK f \in Fields, way \in {"array", "dimension"} :
          Build(StructField(draft, FieldDoc(f, way)),
                [told EXCEPT !.fields = Append(told.fields, f),
                             !.sampleSize = RealSize(told.dataType, Append(told.fields, f))])
    BY <1>12, Zenon DEF BuildStructField
  <2>2. PICK fs : fs = Append(told.fields, f)
    OBVIOUS
  <2>3. PICK d, t : /\ d = StructField(draft, FieldDoc(f, way))
                    /\ t = [told EXCEPT !.fields = fs, !.sampleSize = RealSize(told.dataType, fs)]
    OBVIOUS
  <2>4. Build(d, t)
    BY <2>1, <2>2, <2>3, Zenon
  <2>5. BuilderInv(d, t)
    BY <1>1, <2>2, <2>3, StructFieldTold
  <2> QED BY <2>4, <2>5, BuildKeeps
<1>13. CASE BuildTcpSignalRate
  <2>1. PICK r \in Rates : Build(TcpSignalRate(draft, r), [told EXCEPT !.ticks = Ticks(r, 1, TickDenom)])
    BY <1>13, Zenon DEF BuildTcpSignalRate
  <2>2. PICK d, t : d = TcpSignalRate(draft, r) /\ t = [told EXCEPT !.ticks = Ticks(r, 1, TickDenom)]
    OBVIOUS
  <2>3. Build(d, t)
    BY <2>1, <2>2, Zenon
  <2>4. BuilderInv(d, t)
    BY <1>1, <2>2, TcpSignalRateTold
  <2> QED BY <2>3, <2>4, BuildKeeps
<1> QED BY <1>2, <1>3, <1>4, <1>5, <1>6, <1>7, <1>8, <1>9, <1>10, <1>11, <1>12, <1>13

\* The builder's part is not touched by the handlers.
LEMMA BuilderSame ==
  ASSUME MetadataInv, UNCHANGED builderVars, SinkInv'
  PROVE  MetadataInv'
<1>1. draft' = draft /\ told' = told /\ calls' = calls
  BY DEF builderVars
<1> QED BY <1>1 DEF MetadataInv

\* handle_subscribe and handle_unsubscribe.
LEMMA SubscribeKeeps ==
  ASSUME MetadataInv, HandleSubscribe \/ HandleUnsubscribe
  PROVE  MetadataInv'
<1>1. /\ kind' = kind /\ source' = source /\ since' = since /\ delivered' = delivered
      /\ metadata' = metadata /\ sampleSize' = sampleSize /\ isLinear' = isLinear
      /\ isExplicit' = isExplicit /\ tcpDelta' = tcpDelta /\ tcpTime' = tcpTime /\ builderVars' = builderVars
  BY DEF HandleSubscribe, HandleUnsubscribe
<1>2. subscribed' \in BOOLEAN /\ (clock' = clock \/ clock' = NoTime)
  BY DEF HandleSubscribe, HandleUnsubscribe
<1>3. Document(metadata)' /\ Cached'
  BY <1>1 DEF MetadataInv, SinkInv, Cached
<1>4. KindInv'
  BY <1>1, <1>2 DEF MetadataInv, SinkInv, KindInv
<1>5. DriftBounded'
  BY <1>1, <1>2 DEF MetadataInv, SinkInv, ClockInv, DriftBounded
<1>6. clock' \in Int
  BY <1>2 DEF MetadataInv, SinkInv, ClockInv, NoTime
<1>7. ClockInv'
  BY <1>1, <1>2, <1>5, <1>6 DEF MetadataInv, SinkInv, ClockInv
<1> QED BY <1>1, <1>3, <1>4, <1>7, BuilderSame DEF SinkInv

\* handle_signal: the size cached is that of the samples sent from then on.
LEMMA SignalKeeps == ASSUME MetadataInv, HandleSignal PROVE MetadataInv'
<1>1. /\ kind = "ws" /\ kind' = kind /\ since' = since /\ delivered' = delivered /\ subscribed' = subscribed
      /\ tcpDelta' = tcpDelta /\ tcpTime' = tcpTime /\ clock' = clock /\ builderVars' = builderVars
      /\ metadata' = draft /\ sampleSize' = SampleSize(draft)
      /\ isLinear' = (RuleOf(draft) = "linear") /\ isExplicit' = (RuleOf(draft) = "explicit")
  BY DEF HandleSignal
<1>2. source' = [source EXCEPT !.type = told.dataType, !.size = RealSize(told.dataType, told.fields)]
  BY DEF HandleSignal
<1>3. /\ DOMAIN source = {"type", "size", "rate"} /\ RateOK(source.rate)
      /\ tcpDelta = Ticks(source.rate, 1, TickDenom)
  BY DEF MetadataInv, SinkInv, Cached
<1>4. /\ DOMAIN source' = {"type", "size", "rate"} /\ source'.type = told.dataType
      /\ source'.size = RealSize(told.dataType, told.fields) /\ source'.rate = source.rate
  BY <1>2, <1>3
<1>5. /\ DataTypeOf(draft) = told.dataType /\ SampleSize(draft) \in Nat
      /\ SampleSize(draft) = RealSize(told.dataType, told.fields)
  BY ToldTypes DEF MetadataInv
<1>6. Document(draft)
  BY DEF MetadataInv, BuilderInv, Ready
<1>7. Document(metadata)'
  BY <1>1, <1>6
<1>8. /\ isLinear' \in BOOLEAN /\ isExplicit' \in BOOLEAN /\ ~ (isLinear' /\ isExplicit')
  BY <1>1
<1>9. source'.size \in Nat /\ sampleSize' = source'.size
  BY <1>1, <1>4, <1>5
<1>10. Cached'
  BY <1>1, <1>3, <1>4, <1>8, <1>9 DEF Cached
<1>11. KindInv'
  BY <1>1, <1>4, <1>5 DEF MetadataInv, SinkInv, KindInv
<1>12. ClockInv'
  BY <1>1 DEF MetadataInv, SinkInv, ClockInv, DriftBounded
<1> QED BY <1>1, <1>7, <1>10, <1>11, <1>12, BuilderSame DEF SinkInv

\* handle_signal_rate: the interval cached is that of the rate, whatever was merged before.
LEMMA SignalRateKeeps ==
  ASSUME MetadataInv, NEW r \in Rates, HandleSignalRate(r)
  PROVE  MetadataInv'
<1>1. /\ kind = "tcp" /\ kind' = kind /\ since' = since /\ delivered' = delivered /\ subscribed' = subscribed
      /\ tcpTime' = tcpTime /\ clock' = clock /\ builderVars' = builderVars /\ sampleSize' = sampleSize
      /\ isLinear' = isLinear /\ isExplicit' = isExplicit
  BY DEF HandleSignalRate
<1>2. PICK m1, m2 : m1 = FromJson(metadata) /\ m2 = TcpSignalRate(m1, r)
  OBVIOUS
<1>3. metadata' = m2 /\ tcpDelta' = TcpSignalRateTicks(m2, 1, TickDenom)
  BY <1>2, Zenon DEF HandleSignalRate
<1>4. Ready(m1)
  BY <1>2, FromJsonCall DEF MetadataInv, SinkInv
<1>5. Ready(m2) /\ Ticking(m2, r)
  BY <1>2, <1>4, TcpSignalRateCall
<1>6. tcpDelta' = Ticks(r, 1, TickDenom)
  BY <1>3, <1>5, Zenon DEF Ticking
<1>7. source' = [source EXCEPT !.rate = r]
  BY DEF HandleSignalRate
<1>8. DOMAIN source = {"type", "size", "rate"}
  BY DEF MetadataInv, SinkInv, Cached
<1>9. /\ DOMAIN source' = {"type", "size", "rate"} /\ source'.type = source.type
      /\ source'.size = source.size /\ source'.rate = r
  BY <1>7, <1>8
<1>10. RateOK(r)
  BY SignalMetadataAssumption DEF RateOK
<1>11. Document(metadata)'
  BY <1>3, <1>5 DEF Ready
<1>12. Cached'
  BY <1>1, <1>6, <1>9, <1>10 DEF MetadataInv, SinkInv, Cached
<1>13. KindInv'
  BY <1>1, <1>9 DEF MetadataInv, SinkInv, KindInv
<1>14. ClockInv'
  BY <1>1 DEF MetadataInv, SinkInv, ClockInv, DriftBounded
<1> QED BY <1>1, <1>11, <1>12, <1>13, <1>14, BuilderSame DEF SinkInv

\* handle_data(params): the size cached is that of the type, whatever was merged before.
LEMMA DataKeeps ==
  ASSUME MetadataInv, NEW x \in DataTypes, PrimitiveSize(x) # 0, HandleData(x)
  PROVE  MetadataInv'
<1>1. /\ kind = "tcp" /\ kind' = kind /\ since' = since /\ delivered' = delivered /\ subscribed' = subscribed
      /\ tcpTime' = tcpTime /\ clock' = clock /\ builderVars' = builderVars /\ tcpDelta' = tcpDelta
      /\ isLinear' = isLinear /\ isExplicit' = isExplicit
  BY DEF HandleData
<1>2. PICK m1, m2, m3 : m1 = FromJson(metadata) /\ m2 = DataType(m1, x) /\ m3 = Endian(m2, "little")
  OBVIOUS
<1>3. metadata' = m3 /\ sampleSize' = SampleSize(m3)
  BY <1>2, Zenon DEF HandleData
<1>4. Ready(m1)
  BY <1>2, FromJsonCall DEF MetadataInv, SinkInv
<1>5. Ready(m2) /\ DataTypeOf(m2) = x
  BY <1>2, <1>4, DataTypeCall
<1>6. PICK W : W = {Definition("endian")}
  OBVIOUS
<1>7. Ready(m3) /\ Untouched(m2, m3, W)
  BY <1>2, <1>5, <1>6, EndianCall
<1>8. Definition("dataType") \notin W
  BY <1>6 DEF Definition
<1>9. DataTypeOf(m3) = x
  BY <1>5, <1>7, <1>8, SimpleSame
<1>10. x # "struct"
  <2>1. PrimitiveSize("struct") = 0
    BY DEF PrimitiveSize
  <2> QED BY <2>1
<1>11. sampleSize' = PrimitiveSize(x)
  BY <1>3, <1>9, <1>10, Zenon DEF SampleSize
<1>12. source' = [source EXCEPT !.type = x, !.size = PrimitiveSize(x)]
  BY DEF HandleData
<1>13. DOMAIN source = {"type", "size", "rate"}
  BY DEF MetadataInv, SinkInv, Cached
<1>14. /\ DOMAIN source' = {"type", "size", "rate"} /\ source'.type = x
       /\ source'.size = PrimitiveSize(x) /\ source'.rate = source.rate
  BY <1>12, <1>13
<1>15. Document(metadata)'
  BY <1>3, <1>7 DEF Ready
<1>16. Cached'
  BY <1>1, <1>11, <1>14, PrimitiveNat DEF MetadataInv, SinkInv, Cached
<1>17. KindInv'
  BY <1>1, <1>14 DEF MetadataInv, SinkInv, KindInv
<1>18. ClockInv'
  BY <1>1 DEF MetadataInv, SinkInv, ClockInv, DriftBounded
<1> QED BY <1>1, <1>15, <1>16, <1>17, <1>18, BuilderSame DEF SinkInv

\* The unit of the clock.
LEMMA FineNat == Fine \in Nat
<1>1. Base \in Nat /\ Fineness \in Nat
  BY SignalMetadataAssumption, BaseAssumption
<1>2. Base * Base \in Nat
  BY <1>1, TimesNat
<1> QED BY <1>1, <1>2, TimesNat DEF Fine

LEMMA HalfSecondNat == HalfSecond \in Nat
<1>1. PICK h : h = Base \div 2
  OBVIOUS
<1>2. h \in Nat /\ Base \in Nat /\ Fineness \in Nat /\ TickDenom \in Nat
  BY <1>1, SignalMetadataAssumption, BaseAssumption
<1>3. h * TickDenom \in Nat
  BY <1>2, TimesNat
<1>4. h * TickDenom * Base \in Nat
  BY <1>2, <1>3, TimesNat
<1>5. h * TickDenom * Base * Fineness \in Nat
  BY <1>2, <1>4, TimesNat
<1> QED BY <1>1, <1>5 DEF HalfSecond

\* What handle_time makes of a stamp, against what the device means by it.
LEMMA StampError ==
  ASSUME NEW stamp \in Stamps
  PROVE  /\ StampTime(stamp) \in Nat /\ HalfSecond \in Nat
         /\ TimeOf(stamp) * Fine - StampTime(stamp) <= HalfSecond
         /\ StampTime(stamp) - TimeOf(stamp) * Fine <= Fine
<1>1. PICK h, a, b, x, q, k :
        /\ h = Base \div 2 /\ a = stamp[1] + Epoch /\ b = stamp[2] /\ x = a * Base + b
        /\ q = TimeOf(stamp) /\ k = Base * Fineness
  OBVIOUS
<1>2. /\ h \in Nat \ {0} /\ Base = h * 2 /\ a \in Nat /\ b \in Nat /\ TickDenom \in Nat
      /\ Base \in Nat \ {0} /\ Fineness \in Nat
  BY <1>1, SignalMetadataAssumption, BaseAssumption
<1>3. x \in Nat /\ k \in Nat /\ q \in Nat
  BY <1>1, <1>2, TimesNat, TimeOfNat
<1>4. PICK y, z, n : y = x * TickDenom /\ z = h * TickDenom /\ n = (h + x) * TickDenom
  OBVIOUS
<1>5. y \in Nat /\ z \in Nat /\ n \in Nat /\ n = z + y
  BY <1>2, <1>3, <1>4, TimesNat, TimesOrder
<1>6. q = n \div Base
  <2>1. a * h * 2 = a * Base
    BY <1>2, TimesOrder
  <2>2. h + b + a * h * 2 = h + x
    <3>1. a * Base \in Nat
      BY <1>2, TimesNat
    <3> QED BY <3>1, <2>1, <1>1, <1>2
  <2>3. q = ((h + b + a * h * 2) * TickDenom) \div (h * 2)
    BY <1>1, Zenon DEF TimeOf
  <2> QED BY <1>2, <1>4, <2>2, <2>3, Zenon
<1>7. PICK w, left : w = q * Base /\ left = n % Base
  OBVIOUS
<1>8. w \in Nat /\ left \in Nat /\ left < Base /\ n = w + left
  <2>1. n % Base \in 0 .. (Base - 1) /\ n = (n \div Base) * Base + (n % Base)
    BY <1>2, <1>5, DivMod, Zenon
  <2>2. left \in 0 .. (Base - 1) /\ n = w + left
    BY <1>6, <1>7, <2>1, Zenon
  <2> QED BY <1>2, <1>3, <1>7, <2>2, TimesNat
<1>9. w - y <= z /\ y - w <= Base
  BY <1>2, <1>5, <1>8
<1>10. (w - y) * k <= z * k /\ (y - w) * k <= Base * k
  <2>1. w - y \in Int /\ y - w \in Int
    BY <1>5, <1>8
  <2> QED BY <2>1, <1>2, <1>3, <1>5, <1>9, TimesMonotone
<1>11. (w - y) * k = w * k - y * k /\ (y - w) * k = y * k - w * k
  BY <1>3, <1>5, <1>8, TimesOrder
<1>12. w * k \in Nat /\ y * k \in Nat /\ z * k \in Nat
  BY <1>3, <1>5, <1>8, TimesNat
<1>13. Fine = Base * k
  <2>1. (Base * Base) * Fineness = Base * (Base * Fineness)
    BY <1>2, TimesOrder
  <2> QED BY <1>1, <2>1, Zenon DEF Fine
<1>14. q * Fine = w * k
  BY <1>2, <1>3, <1>7, <1>13, TimesOrder
<1>15. StampTime(stamp) = y * k
  <2>1. StampTime(stamp) = y * Base * Fineness
    BY <1>1, <1>4, Zenon DEF StampTime
  <2> QED BY <2>1, <1>1, <1>2, <1>5, TimesOrder
<1>16. HalfSecond = z * k
  <2>1. HalfSecond = z * Base * Fineness
    BY <1>1, <1>4, Zenon DEF HalfSecond
  <2> QED BY <2>1, <1>1, <1>2, <1>5, TimesOrder
<1> QED BY <1>1, <1>10, <1>11, <1>12, <1>13, <1>14, <1>15, <1>16

\* handle_time: at a stamp the time is half a second ahead at most.
LEMMA TimeKeeps ==
  ASSUME MetadataInv, NEW s \in Stamps, HandleTime(s)
  PROVE  MetadataInv'
<1>1. /\ kind = "tcp" /\ kind' = kind /\ source' = source /\ delivered' = delivered /\ subscribed' = subscribed
      /\ metadata' = metadata /\ sampleSize' = sampleSize /\ isLinear' = isLinear
      /\ isExplicit' = isExplicit /\ tcpDelta' = tcpDelta /\ builderVars' = builderVars
      /\ tcpTime' = TimeOf(s) /\ clock' = StampTime(s) /\ since' = 0
  BY DEF HandleTime
<1>2. TimeOf(s) \in Nat
  BY TimeOfNat
<1>3. StampTime(s) \in Nat
  BY StampError
<1>4. DriftBounded'
  <2>1. PICK tf, c, h, fine : tf = TimeOf(s) * Fine /\ c = StampTime(s) /\ h = HalfSecond /\ fine = Fine
    OBVIOUS
  <2>2. c \in Nat /\ h \in Nat /\ tf - c <= h /\ c - tf <= fine
    BY <2>1, StampError, Zenon
  <2>3. fine \in Nat /\ 0 * fine = 0
    BY <2>1, FineNat
  <2>4. tf - c <= h + 0 * fine /\ c - tf <= fine + 0 * fine
    BY <2>2, <2>3
  <2>5. tcpTime' * Fine = tf /\ clock' = c /\ since' * Fine = 0 * fine
    BY <1>1, <2>1, Zenon
  <2> QED BY <2>1, <2>4, <2>5, Zenon DEF DriftBounded, Fine, HalfSecond
<1>5. since' \in 0 .. MaxSamples /\ tcpTime' \in Nat /\ clock' \in Int
  BY <1>1, <1>2, <1>3, SignalMetadataAssumption
<1>6. Document(metadata)' /\ Cached'
  BY <1>1 DEF MetadataInv, SinkInv, Cached
<1>7. KindInv'
  BY <1>1 DEF MetadataInv, SinkInv, KindInv
<1>8. ClockInv'
  BY <1>1, <1>4, <1>5 DEF MetadataInv, SinkInv, ClockInv
<1> QED BY <1>1, <1>6, <1>7, <1>8, BuilderSame DEF SinkInv

\* A payload of samples of the cached size.
LEMMA PayloadCount ==
  ASSUME MetadataInv, NEW n \in 1 .. 2, n <= MaxSamples, source.type # "unknown",
         NEW bytes, bytes = IF source.size = 0 THEN 3 ELSE n * source.size
  PROVE  /\ SampleCount(bytes) \in 0 .. MaxSamples
         /\ tcpDelta # 0 => kind = "tcp" /\ SampleCount(bytes) = n
         /\ isExplicit /\ source.size # 0 => SampleCount(bytes) = n
         /\ isExplicit /\ source.size = 0 /\ source.type = "binary" => SampleCount(bytes) = 1
<1>1. /\ sampleSize = source.size /\ source.size \in Nat /\ isLinear \in BOOLEAN /\ isExplicit \in BOOLEAN
      /\ ~ (isLinear /\ isExplicit)
  BY DEF MetadataInv, SinkInv, Cached
<1>2. ASSUME source.size # 0 PROVE bytes \div sampleSize = n /\ bytes \in Nat
  <2>1. PICK z : z = source.size
    OBVIOUS
  <2>2. z \in Nat \ {0} /\ bytes = n * z /\ sampleSize = z
    BY <1>1, <1>2, <2>1
  <2>3. n * z \in Nat
    BY <2>2, TimesNat
  <2>4. n * z = n * z + 0
    BY <2>3
  <2>5. (n * z) \div z = n
    BY <2>2, <2>3, <2>4, DivUnique
  <2> QED BY <2>2, <2>3, <2>5
<1>3. MaxSamples \in Nat /\ n \in 0 .. MaxSamples /\ 0 \in 0 .. MaxSamples /\ 1 \in 0 .. MaxSamples
  BY SignalMetadataAssumption
<1>4. PICK c : c = SampleCount(bytes)
  OBVIOUS
<1>5. CASE tcpDelta # 0
  <2>1. kind = "tcp" /\ source.size # 0 /\ ~ isExplicit
    BY <1>5 DEF MetadataInv, SinkInv, KindInv
  <2>2. c = bytes \div sampleSize
    BY <1>1, <1>4, <1>5, <2>1 DEF SampleCount
  <2>3. c = n
    BY <1>2, <2>1, <2>2
  <2> QED BY <1>3, <1>4, <2>1, <2>3
<1>6. CASE tcpDelta = 0 /\ isLinear
  <2>1. c = 0
    BY <1>4, <1>6 DEF SampleCount
  <2> QED BY <1>1, <1>3, <1>4, <1>6, <2>1
<1>7. CASE tcpDelta = 0 /\ ~ isLinear /\ isExplicit
  <2>1. CASE source.size # 0
    <3>1. c = bytes \div sampleSize
      BY <1>1, <1>4, <1>7, <2>1 DEF SampleCount
    <3>2. c = n
      BY <1>2, <2>1, <3>1
    <3> QED BY <1>3, <1>4, <1>7, <2>1, <3>2
  <2>2. CASE source.size = 0
    <3>1. kind = "ws" /\ DataTypeOf(metadata) = source.type
      BY <1>7 DEF MetadataInv, SinkInv, KindInv
    <3>2. c = IF source.type = "binary" THEN 1 ELSE 0
      BY <1>1, <1>4, <1>7, <2>2, <3>1 DEF SampleCount
    <3> QED BY <1>3, <1>4, <1>7, <2>2, <3>2
  <2> QED BY <2>1, <2>2
<1>8. CASE tcpDelta = 0 /\ ~ isLinear /\ ~ isExplicit
  <2>1. c \in {0, 1}
    BY <1>4, <1>8 DEF SampleCount
  <2> QED BY <1>3, <1>4, <1>8, <2>1
<1> QED BY <1>1, <1>5, <1>6, <1>7, <1>8

\* handle_data(data, size): each sample adds an interval, rounded, to the time.
LEMMA PayloadKeeps ==
  ASSUME MetadataInv, NEW n \in 1 .. 2, HandlePayload(n)
  PROVE  MetadataInv'
<1>1. /\ kind' = kind /\ source' = source /\ subscribed' = subscribed
      /\ metadata' = metadata /\ sampleSize' = sampleSize /\ isLinear' = isLinear
      /\ isExplicit' = isExplicit /\ tcpDelta' = tcpDelta /\ builderVars' = builderVars
      /\ source.type # "unknown" /\ since + n <= MaxSamples /\ since' = since + n
      /\ clock' = IF clock = NoTime THEN NoTime ELSE clock + n * Interval(source.rate)
  BY DEF HandlePayload
<1>2. PICK bytes, c : bytes = (IF source.size = 0 THEN 3 ELSE n * source.size) /\ c = SampleCount(bytes)
  OBVIOUS
<1>3. /\ delivered' = [sent |-> IF source.size = 0 THEN 1 ELSE n, reported |-> c]
      /\ tcpTime' = IF tcpDelta # 0 THEN tcpTime + tcpDelta * c ELSE tcpTime
  BY <1>2, Zenon DEF HandlePayload
<1>4. /\ since \in Nat /\ MaxSamples \in Nat /\ tcpTime \in Nat /\ clock \in Int
  BY SignalMetadataAssumption DEF MetadataInv, SinkInv, ClockInv
<1>5. n <= MaxSamples /\ since' \in 0 .. MaxSamples
  BY <1>1, <1>4
<1>6. c \in 0 .. MaxSamples /\ (tcpDelta # 0 => c = n)
  BY <1>1, <1>2, <1>5, PayloadCount
<1>7. PICK q, g, fine, i : /\ q = tcpDelta /\ g = q * fine /\ fine = Fine /\ i = Interval(source.rate)
  OBVIOUS
<1>8. /\ q \in Nat /\ i \in Nat /\ fine \in Nat /\ g - i <= fine /\ i - g <= fine
  <2>1. RateOK(source.rate) /\ tcpDelta = Ticks(source.rate, 1, TickDenom)
    BY DEF MetadataInv, SinkInv, Cached
  <2>2. PICK rate : rate = source.rate
    OBVIOUS
  <2>3. RateOK(rate) /\ q = Ticks(rate, 1, TickDenom) /\ i = Interval(rate)
    BY <1>7, <2>1, <2>2, Zenon
  <2>4. /\ Ticks(rate, 1, TickDenom) \in Nat /\ Interval(rate) \in Nat
        /\ Ticks(rate, 1, TickDenom) * Fine - Interval(rate) <= Fine
        /\ Interval(rate) - Ticks(rate, 1, TickDenom) * Fine <= Fine
    BY <2>3, RateError, Zenon
  <2>5. q \in Nat /\ i \in Nat /\ g - i <= fine /\ i - g <= fine
    BY <1>7, <2>3, <2>4, Zenon
  <2> QED BY <1>7, <2>5, FineNat
<1>9. tcpTime' = tcpTime + q * n
  BY <1>3, <1>4, <1>6, <1>7
<1>10. tcpTime' \in Nat /\ clock' \in Int
  <2>1. q * n \in Nat /\ n * i \in Nat
    BY <1>8, TimesNat
  <2> QED BY <1>1, <1>4, <1>7, <1>9, <2>1 DEF NoTime
<1>11. DriftBounded'
  <2> SUFFICES ASSUME clock' # NoTime
               PROVE  /\ tcpTime' * Fine - clock' <= HalfSecond + since' * Fine
                      /\ clock' - tcpTime' * Fine <= Fine + since' * Fine
    BY DEF DriftBounded, Fine, HalfSecond
  <2>1. clock # NoTime /\ clock' = clock + n * i
    BY <1>1, <1>7
  <2>2. PICK tf, sf, h : tf = tcpTime * fine /\ sf = since * fine /\ h = HalfSecond
    OBVIOUS
  <2>3. tf - clock <= h + sf /\ clock - tf <= fine + sf
    BY <1>7, <2>1, <2>2, Zenon DEF MetadataInv, SinkInv, ClockInv, DriftBounded
  <2>4. tf \in Nat /\ sf \in Nat /\ g \in Nat /\ h \in Nat
    BY <1>4, <1>7, <1>8, <2>2, TimesNat, HalfSecondNat
  <2>5. tcpTime' * fine = tf + g * n
    <3>1. (tcpTime + q * n) * fine = tcpTime * fine + (q * n) * fine
      BY <1>4, <1>8, TimesOrder
    <3>2. (q * n) * fine = (q * fine) * n
      BY <1>8, TimesOrder
    <3> QED BY <1>7, <1>9, <2>2, <3>1, <3>2
  <2>6. since' * fine = sf + n * fine
    BY <1>1, <1>4, <1>8, <2>2, TimesOrder
  <2>7. CASE n = 1
    <3>1. tcpTime' * fine = tf + g /\ since' * fine = sf + fine /\ clock' = clock + i
      BY <1>4, <1>8, <2>1, <2>4, <2>5, <2>6, <2>7
    <3> QED BY <1>4, <1>7, <1>8, <2>2, <2>3, <2>4, <3>1
  <2>8. CASE n = 2
    <3>1. tcpTime' * fine = tf + g + g /\ since' * fine = sf + fine + fine /\ clock' = clock + i + i
      BY <1>4, <1>8, <2>1, <2>4, <2>5, <2>6, <2>8
    <3> QED BY <1>4, <1>7, <1>8, <2>2, <2>3, <2>4, <3>1
  <2> QED BY <2>7, <2>8
<1>12. delivered' \in Counted
  <2>1. (IF source.size = 0 THEN 1 ELSE n) \in 0 .. MaxSamples
    BY <1>4, <1>5
  <2> QED BY <1>3, <1>6, <2>1 DEF Counted
<1>13. Document(metadata)' /\ Cached'
  BY <1>1 DEF MetadataInv, SinkInv, Cached
<1>14. KindInv'
  BY <1>1 DEF MetadataInv, SinkInv, KindInv
<1>15. ClockInv'
  BY <1>1, <1>5, <1>10, <1>11, <1>12 DEF MetadataInv, SinkInv, ClockInv
<1> QED BY <1>1, <1>13, <1>14, <1>15, BuilderSame DEF SinkInv

\* Every step keeps the invariant.
LEMMA MetadataStep == ASSUME MetadataInv, [MetadataNext]_metadataVars PROVE MetadataInv'
<1>1. CASE \/ BuildConstantRule \/ BuildLinearRule \/ BuildDataType \/ BuildEndian \/ BuildOrigin \/ BuildRange
           \/ BuildTickResolution \/ BuildUnit \/ BuildTable \/ BuildExtra \/ BuildStructField
           \/ BuildTcpSignalRate
  BY <1>1, BuilderKeeps
<1>2. CASE HandleSubscribe \/ HandleUnsubscribe
  BY <1>2, SubscribeKeeps
<1>3. CASE HandleSignal
  BY <1>3, SignalKeeps
<1>4. CASE \E r \in Rates : HandleSignalRate(r)
  BY <1>4, SignalRateKeeps
<1>5. CASE \E t \in {d \in DataTypes : PrimitiveSize(d) # 0} : HandleData(t)
  BY <1>5, DataKeeps
<1>6. CASE \E s \in Stamps : HandleTime(s)
  BY <1>6, TimeKeeps
<1>7. CASE \E n \in 1 .. 2 : HandlePayload(n)
  BY <1>7, PayloadKeeps
<1>8. CASE UNCHANGED metadataVars
  <2>1. UNCHANGED <<kind, sinkVars, source, clock, since, delivered>> /\ UNCHANGED builderVars
    BY <1>8 DEF metadataVars
  <2>2. SinkInv
    BY DEF MetadataInv
  <2> QED BY <2>1, <2>2, SinkSame, BuilderSame
<1> QED BY <1>1, <1>2, <1>3, <1>4, <1>5, <1>6, <1>7, <1>8 DEF MetadataNext

\* The invariant always holds.
LEMMA MetadataAlways == MetadataSpec => []MetadataInv
  BY MetadataStarts, MetadataStep, PTL DEF MetadataSpec

\* What the invariant says of the properties.
LEMMA InvGives == ASSUME MetadataInv PROVE DriftBounded /\ DocumentsSound
<1>1. DriftBounded
  BY DEF MetadataInv, SinkInv, ClockInv
<1>2. WellFormed(draft) /\ WellFormed(metadata)
  BY DEF MetadataInv, SinkInv, BuilderInv, Ready, Document, Open, Parent, WellFormed
<1>3. tcpDelta \in Nat
  <2>1. PICK rate : rate = source.rate
    OBVIOUS
  <2>2. RateOK(rate) /\ tcpDelta = Ticks(rate, 1, TickDenom)
    BY <2>1 DEF MetadataInv, SinkInv, Cached
  <2> QED BY <2>2, RateError, Zenon
<1>4. MetadataTypeOK
  BY <1>2, <1>3 DEF MetadataInv, SinkInv, KindInv, ClockInv, Cached, Counted, MetadataTypeOK
<1>5. ReadsAsTold
  <2>1. PICK inDoc, fs : inDoc = FieldsOf(draft) /\ fs = told.fields
    OBVIOUS
  <2>2. /\ fs \in Seq(Fields) /\ inDoc \in Seq(FieldDocs) /\ Len(inDoc) = Len(fs)
        /\ \A i \in 1 .. Len(fs) : StructFieldOf(inDoc[i]) = FieldTold(fs[i])
    BY <2>1 DEF MetadataInv, BuilderInv, FieldsAgree
  <2>3. DOMAIN fs = 1 .. Len(fs) /\ DOMAIN inDoc = 1 .. Len(fs)
    BY <2>2, LenProperties
  <2>4. [i \in DOMAIN inDoc |-> StructFieldOf(inDoc[i])] = [i \in DOMAIN fs |-> FieldTold(fs[i])]
    BY <2>2, <2>3, Zenon
  <2>5. StructFieldsOf(draft) = [i \in DOMAIN told.fields |-> FieldTold(told.fields[i])]
    BY <2>1, <2>4, Zenon DEF StructFieldsOf
  <2> QED BY <2>5, ViewIs DEF MetadataInv, BuilderInv, Agree, ReadsAsTold
<1> QED BY <1>1, <1>4, <1>5 DEF DocumentsSound

\* Whatever calls built a document, in whatever order, and from whatever document of another
\* peer, it stays well-formed and each accessor of metadata.cpp returns what the last call of
\* metadata_builder.cpp about it said.
THEOREM MetadataDocuments == MetadataSpec => []DocumentsSound
  BY MetadataAlways, InvGives, PTL

\* The time that remote_signal_impl gives the samples of a direct TCP device is behind the time
\* the device means by at most a tick and ahead of it by at most the half second that handle_time
\* adds, plus one tick per sample since the last time message, for every rate, every word size
\* and every tick.
THEOREM MetadataDrift == MetadataSpec => []DriftBounded
  BY MetadataAlways, InvGives, PTL

\* remote_signal_impl reports as many samples of a payload as the source put into it, whatever
\* the order of descriptions, rates and subscriptions before it.
THEOREM MetadataSamples == MetadataSpec => SamplesCounted
<1>1. ASSUME MetadataInv, [MetadataNext]_metadataVars
      PROVE  [ /\ since' > since
               /\ tcpDelta # 0 \/ isExplicit
               /\ source.size # 0 \/ source.type = "binary"
               => delivered'.reported = delivered'.sent ]_metadataVars
  <2> SUFFICES ASSUME MetadataNext, since' > since, tcpDelta # 0 \/ isExplicit,
                      source.size # 0 \/ source.type = "binary"
               PROVE  delivered'.reported = delivered'.sent
    BY <1>1
  <2>1. since \in Nat
    BY <1>1, SignalMetadataAssumption DEF MetadataInv, SinkInv, ClockInv
  <2>2. PICK n \in 1 .. 2 : HandlePayload(n)
    <3>1. CASE since' = since
      BY <3>1, <2>1
    <3>2. CASE since' = 0
      BY <3>2, <2>1
    <3>3. since' = since \/ since' = 0 \/ \E n \in 1 .. 2 : HandlePayload(n)
      BY DEF MetadataNext, BuildConstantRule, BuildLinearRule, BuildDataType, BuildEndian, BuildOrigin,
             BuildRange, BuildTickResolution, BuildUnit, BuildTable, BuildExtra, BuildStructField,
             BuildTcpSignalRate, Build, HandleSubscribe, HandleUnsubscribe, HandleSignal, HandleSignalRate,
             HandleData, HandleTime
    <3> QED BY <3>1, <3>2, <3>3
  <2>3. PICK bytes, c : bytes = (IF source.size = 0 THEN 3 ELSE n * source.size) /\ c = SampleCount(bytes)
    OBVIOUS
  <2>4. /\ delivered' = [sent |-> IF source.size = 0 THEN 1 ELSE n, reported |-> c]
        /\ source.type # "unknown" /\ since + n <= MaxSamples
    BY <2>2, <2>3, Zenon DEF HandlePayload
  <2>5. n <= MaxSamples
    BY <2>1, <2>4, SignalMetadataAssumption
  <2>6. /\ tcpDelta # 0 => kind = "tcp" /\ c = n
        /\ isExplicit /\ source.size # 0 => c = n
        /\ isExplicit /\ source.size = 0 /\ source.type = "binary" => c = 1
    BY <1>1, <2>3, <2>4, <2>5, PayloadCount
  <2>7. tcpDelta # 0 => source.size # 0
    BY <1>1, <2>4, <2>6 DEF MetadataInv, SinkInv, KindInv
  <2> QED BY <2>4, <2>6, <2>7
<1> QED BY <1>1, MetadataAlways, PTL DEF MetadataSpec, SamplesCounted
=============================================================================
