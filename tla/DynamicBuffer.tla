--------------------------- MODULE DynamicBuffer ----------------------------
(***************************************************************************)
(* detail::dynamic_buffer, the queue of outgoing bytes the operating       *)
(* system did not take at once: a deque of fixed-size blocks with a read   *)
(* offset in the first block and a write offset in the last occupied one.  *)
(*                                                                         *)
(* write() and consume() are single calls in the code, but each runs a     *)
(* loop over blocks.  The call's straight-line part is one action and each *)
(* iteration of its loop another; nothing else is enabled before the loop  *)
(* ends, so the call remains atomic to its caller, and the proofs need no  *)
(* closed form of what the loops compute.                                  *)
(***************************************************************************)
EXTENDS Integers, Sequences, SequencesExt, FiniteSetsExt

CONSTANTS MaxSize,      \* max_size given to the constructor
          BlockSizeArg, \* block_size given to the constructor
          MaxBuffers,   \* MAX_BUFFERS: descriptors data() returns at most
          MaxRequest,   \* bound: the longest write() and consume() considered
          Modulus       \* bytes are numbered modulo this

ASSUME SizeAssumption ==
  /\ MaxSize \in Nat \ {0}
  /\ BlockSizeArg \in Nat \ {0}
  /\ MaxBuffers \in Nat \ {0}
  /\ MaxRequest \in Nat
  /\ Modulus \in Nat \ {0}

MinOf(a, b) == IF a <= b THEN a ELSE b
MaxOf(a, b) == IF a <= b THEN b ELSE a

\* The constructor's clamping: a block never exceeds the limit, and only whole
\* blocks are allocated.
BlockSize == MinOf(BlockSizeArg, MaxSize)
MaxBlocks == MaxSize \div BlockSize

VARIABLES blocks,      \* _blocks: every allocated block, occupied ones first
          used,        \* _used: how many of them hold data
          readOffset,  \* _read_offset, into the first block
          writeOffset, \* _write_offset, into the last occupied block
          size,        \* _size
          pc,          \* "idle", or the loop that is running
          rest,        \* the loop's local variable size
          nextByte     \* the number of the next byte the caller writes

vars == <<blocks, used, readOffset, writeOffset, size, pc, rest, nextByte>>
-----------------------------------------------------------------------------
Byte == 0..(Modulus - 1)
Block == [0..(BlockSize - 1) -> Byte]

\* A block as emplace_back leaves it: std::vector zero-fills.
FreshBlock == [i \in 0..(BlockSize - 1) |-> 0]

Init ==
  /\ blocks = <<>>
  /\ used = 0 /\ readOffset = 0 /\ writeOffset = 0 /\ size = 0
  /\ pc = "idle" /\ rest = 0
  /\ nextByte = 0

\* The free bytes in the tail of the last occupied block.
TailRoom == IF used > 0 THEN BlockSize - writeOffset ELSE 0

\* The whole blocks that n bytes occupy.
BlocksFor(n) == IF n > 0 THEN (n + BlockSize - 1) \div BlockSize ELSE 0

\* prepare(n) takes the recycled blocks and allocates further ones until the
\* request fits or the limit is reached: how many blocks there are afterwards.
BlocksAfterPrepare(n) ==
  MaxOf(Len(blocks), MinOf(MaxBlocks, used + BlocksFor(n - TailRoom)))

Prepared(n) ==
  blocks \o [i \in 1..(BlocksAfterPrepare(n) - Len(blocks)) |-> FreshBlock]

\* The bytes that fit in the buffers prepare(n) returns.
Room(n) == TailRoom + (BlocksAfterPrepare(n) - used) * BlockSize

\* The distance of the first free byte from the start of the first block.
WritePosition == IF used > 0 THEN (used - 1) * BlockSize + writeOffset ELSE 0

\* buffer_copy of the next k bytes into the scatter list prepare() built.
Filled(bs, k) ==
  [b \in DOMAIN bs |->
    [i \in 0..(BlockSize - 1) |->
      LET at == (b - 1) * BlockSize + i - WritePosition
      IN  IF at \in 0..(k - 1) THEN (nextByte + at) % Modulus ELSE bs[b][i]]]

\* write(): prepare, copy, and the part of commit before its loop.
Write(n) ==
  LET accepted == MinOf(n, Room(n))
      tail     == MinOf(accepted, TailRoom)
  IN  /\ pc = "idle"
      /\ blocks' = Filled(Prepared(n), accepted)
      /\ nextByte' = (nextByte + accepted) % Modulus
      /\ size' = size + accepted
      /\ writeOffset' = writeOffset + tail
      /\ rest' = accepted - tail
      /\ pc' = "commit"
      /\ UNCHANGED <<used, readOffset>>

\* One iteration of commit()'s while loop, and its end.
CommitBlock ==
  /\ pc = "commit" /\ rest > 0
  /\ used' = used + 1
  /\ writeOffset' = MinOf(rest, BlockSize)
  /\ rest' = rest - MinOf(rest, BlockSize)
  /\ UNCHANGED <<blocks, readOffset, size, pc, nextByte>>

\* consume(): the clamp and the new size, before its loop.
Consume(n) ==
  /\ pc = "idle"
  /\ size' = size - MinOf(n, size)
  /\ rest' = MinOf(n, size)
  /\ pc' = "consume"
  /\ UNCHANGED <<blocks, used, readOffset, writeOffset, nextByte>>

\* Mutants of RecycleFrontBlock: the write offset survives the last block; the
\* deque is not rotated.
RecycleKeepsWriteOffset ==
  /\ blocks' = Append(Tail(blocks), Head(blocks))
  /\ used' = used - 1
  /\ readOffset' = 0
  /\ UNCHANGED writeOffset

RecycleInPlace ==
  /\ UNCHANGED blocks
  /\ used' = used - 1
  /\ readOffset' = 0
  /\ writeOffset' = IF used = 1 THEN 0 ELSE writeOffset

\* recycle_front_block(): the emptied block becomes the last available one.
RecycleFrontBlock ==
  /\ blocks' = Append(Tail(blocks), Head(blocks))
  /\ used' = used - 1
  /\ readOffset' = 0
  /\ writeOffset' = IF used = 1 THEN 0 ELSE writeOffset

\* One iteration of consume()'s while loop.
ConsumeBlock ==
  LET end   == IF used = 1 THEN writeOffset ELSE BlockSize
      taken == MinOf(rest, end - readOffset)
  IN  /\ pc = "consume" /\ rest > 0
      /\ rest' = rest - taken
      /\ IF readOffset + taken = end
           THEN RecycleFrontBlock
           ELSE /\ readOffset' = readOffset + taken
                /\ UNCHANGED <<blocks, used, writeOffset>>
      /\ UNCHANGED <<size, pc, nextByte>>

\* The loop condition while (size) fails and the call returns.
Return ==
  /\ pc \in {"commit", "consume"} /\ rest = 0
  /\ pc' = "idle"
  /\ UNCHANGED <<blocks, used, readOffset, writeOffset, size, rest, nextByte>>

Next ==
  \/ \E n \in 0..MaxRequest : Write(n) \/ Consume(n)
  \/ CommitBlock \/ ConsumeBlock \/ Return

Spec == Init /\ [][Next]_vars
-----------------------------------------------------------------------------
\* data(): the bytes the returned descriptors cover, oldest first; at most
\* MaxBuffers blocks are described.
Data ==
  LET count == MinOf(used, MaxBuffers)
      begin(b) == IF b = 1 THEN readOffset ELSE 0
      end(b)   == IF b = used THEN writeOffset ELSE BlockSize
      part(b)  == [i \in 1..(end(b) - begin(b)) |-> blocks[b][begin(b) + i - 1]]
  IN  FlattenSeq([b \in 1..count |-> part(b)])

\* The logical content: the size bytes that follow the ones still to be
\* discarded by a consume() in progress.
Content ==
  LET skip == readOffset + (IF pc = "consume" THEN rest ELSE 0)
      at(p) == blocks[(p \div BlockSize) + 1][p % BlockSize]
  IN  [i \in 1..size |-> at(skip + i - 1)]
-----------------------------------------------------------------------------
\* Every variable has its type between any two steps of any call.
TypeOK ==
  /\ blocks \in Seq(Block)
  /\ used \in Nat /\ readOffset \in Nat /\ writeOffset \in Nat
  /\ size \in Nat /\ rest \in Nat
  /\ pc \in {"idle", "commit", "consume"}
  /\ nextByte \in Byte

\* The bytes between the two offsets.
Span == IF used = 0 THEN 0 ELSE (used - 1) * BlockSize + writeOffset - readOffset

\* The comment on the fields of dynamic_buffer, made exact: the occupied
\* blocks come first and exist, the offsets lie inside them, an unused buffer
\* has both offsets zero, and _size is the number of bytes between the offsets
\* once the loop in progress has done its remaining work.  This is what keeps
\* data(), prepare() and consume() from indexing a block that is not there.
OffsetsConsistent ==
  /\ used <= Len(blocks) /\ Len(blocks) <= MaxBlocks
  /\ used = 0 => readOffset = 0 /\ writeOffset = 0
  /\ used > 0 => readOffset < BlockSize /\ writeOffset \in 1..BlockSize
  /\ used = 1 => readOffset < writeOffset
  /\ pc = "idle" => rest = 0 /\ size = Span
  /\ pc = "consume" => size + rest = Span
  /\ pc = "commit" => /\ size = Span + rest
                      /\ rest > 0 => TailRoom = 0
                      /\ rest <= (Len(blocks) - used) * BlockSize

\* data() always describes a prefix of the buffered bytes, all of them when
\* the blocks fit its descriptor limit, and never nothing while there is
\* something to send: a sender that loops over data() and consume() gets on.
DataIsPrefix ==
  pc = "idle" =>
    /\ IsPrefix(Data, Content)
    /\ used <= MaxBuffers => Data = Content
    /\ size > 0 => Data # <<>>

\* The bookkeeping of dynamic_buffer is sound at every step of its loops: types,
\* offsets and byte count, and what data() hands to the socket.
BufferInv == TypeOK /\ OffsetsConsistent /\ DataIsPrefix

\* The detailed buffer keeps the promise of the class comment.
Fifo == INSTANCE ByteFifo
          WITH queue <- Content, Capacity <- MaxBlocks * BlockSize, Slack <- BlockSize - 1

\* Bytes come back in the order they were written, none lost, duplicated or
\* invented, and a short write() happens only when the limit is really near.
ImplementsFifo == Fifo!Spec
=============================================================================
