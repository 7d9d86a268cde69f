----------------------------- MODULE PeerProofs -----------------------------
(***************************************************************************)
(* Proofs about Peer, for every set of frame sizes, transmit limit and     *)
(* bound.                                                                  *)
(***************************************************************************)
EXTENDS Peer, SequenceTheorems, TLAPS

\* The inductive invariant: what is shown, and that close() has really closed
\* the socket, without which nothing keeps a closed peer from sending.
IInv ==
  /\ TypeOK
  /\ WaitIffBuffered
  /\ StreamIntact
  /\ ClosedOnce
  /\ isClosed => sock = "closed"
-----------------------------------------------------------------------------
(* The stream of numbered bytes. *)

\* A stretch of the byte stream is a sequence of the expected length.
LEMMA StreamType ==
  ASSUME NEW a \in Nat, NEW b \in Nat, a <= b
  PROVE  /\ Stream(a, b) \in Seq(Nat)
         /\ Len(Stream(a, b)) = b - a
         /\ \A i \in 1..(b - a) : Stream(a, b)[i] = a + i
  BY DEF Stream

\* Adjacent stretches concatenate: what write() sends directly and what it
\* leaves to the buffer make up the frame.
LEMMA StreamConcat ==
  ASSUME NEW a \in Nat, NEW b \in Nat, NEW c \in Nat, a <= b, b <= c
  PROVE  Stream(a, b) \o Stream(b, c) = Stream(a, c)
<1> DEFINE l == Stream(a, b) \o Stream(b, c)
<1>0. a <= c
  OBVIOUS
<1>1. /\ Stream(a, b) \in Seq(Nat) /\ Len(Stream(a, b)) = b - a
      /\ Stream(b, c) \in Seq(Nat) /\ Len(Stream(b, c)) = c - b
      /\ Stream(a, c) \in Seq(Nat) /\ Len(Stream(a, c)) = c - a
  BY <1>0, StreamType
<1>2. /\ l \in Seq(Nat) /\ Len(l) = Len(Stream(a, b)) + Len(Stream(b, c))
      /\ \A i \in 1..(Len(Stream(a, b)) + Len(Stream(b, c))) :
           l[i] = IF i <= Len(Stream(a, b)) THEN Stream(a, b)[i]
                                            ELSE Stream(b, c)[i - Len(Stream(a, b))]
  BY <1>1, ConcatProperties, Zenon
<1> HIDE DEF l
<1>3. \A i \in 1..(c - a) : l[i] = a + i
  <2> SUFFICES ASSUME NEW i \in 1..(c - a)
               PROVE  l[i] = a + i
    OBVIOUS
  <2>1. CASE i <= b - a
    <3>1. Stream(a, b)[i] = a + i
      BY <2>1, StreamType
    <3> QED BY <1>1, <1>2, <2>1, <3>1
  <2>2. CASE i > b - a
    <3>1. i - (b - a) \in 1..(c - b)
      BY <2>2
    <3>2. Stream(b, c)[i - (b - a)] = b + (i - (b - a))
      BY <3>1, StreamType
    <3> QED BY <1>1, <1>2, <2>2, <3>2
  <2> QED BY <2>1, <2>2
<1>4. \A i \in 1..(c - a) : Stream(a, c)[i] = a + i
  BY <1>0, StreamType
<1>5. l = Stream(a, c)
  <2>1. Len(l) = c - a /\ Len(Stream(a, c)) = c - a
    BY <1>1, <1>2
  <2>2. \A i \in 1..Len(l) : l[i] = Stream(a, c)[i]
    BY <1>3, <1>4, <2>1
  <2> QED BY <1>1, <1>2, <2>1, <2>2, SeqEqual, Zenon
<1> QED BY <1>5 DEF l

\* The same facts for a frame of n bytes that starts behind byte g, of which
\* the socket takes k.
LEMMA FrameBytes ==
  ASSUME NEW g \in Nat, NEW n \in Nat, NEW k \in 0..n
  PROVE  /\ Stream(0, g + k) \in Seq(Nat) /\ Len(Stream(0, g + k)) = g + k
         /\ Stream(g, g + n) \in Seq(Nat) /\ Len(Stream(g, g + n)) = n
         /\ Stream(g + k, g + n) \in Seq(Nat) /\ Len(Stream(g + k, g + n)) = n - k
         /\ Stream(0, g) \o Stream(g, g + k) = Stream(0, g + k)
         /\ Stream(0, g) \o Stream(g, g + n) = Stream(0, g + n)
         /\ Stream(0, g + k) \o Stream(g + k, g + n) = Stream(0, g + n)
<1>1. PICK b \in Nat, c \in Nat : b = g + k /\ c = g + n
  OBVIOUS
<1>2. 0 \in Nat /\ 0 <= g /\ 0 <= b /\ g <= b /\ g <= c /\ b <= c
  BY <1>1
<1>3. /\ Stream(0, b) \in Seq(Nat) /\ Len(Stream(0, b)) = b - 0
      /\ Stream(g, c) \in Seq(Nat) /\ Len(Stream(g, c)) = c - g
      /\ Stream(b, c) \in Seq(Nat) /\ Len(Stream(b, c)) = c - b
  BY <1>2, StreamType, Zenon
<1>4. /\ Stream(0, g) \o Stream(g, b) = Stream(0, b)
      /\ Stream(0, g) \o Stream(g, c) = Stream(0, c)
      /\ Stream(0, b) \o Stream(b, c) = Stream(0, c)
  BY <1>2, StreamConcat, Zenon
<1>5. b - 0 = g + k /\ c - g = n /\ c - b = n - k
  BY <1>1
<1>6. /\ Stream(0, b) \in Seq(Nat) /\ Len(Stream(0, b)) = g + k
      /\ Stream(g, c) \in Seq(Nat) /\ Len(Stream(g, c)) = n
      /\ Stream(b, c) \in Seq(Nat) /\ Len(Stream(b, c)) = n - k
  BY <1>3, <1>5, Zenon
<1> QED BY <1>1, <1>4, <1>6, Zenon

\* Concatenation of byte sequences is associative.
LEMMA ByteConcatAssociative ==
  ASSUME NEW x \in Seq(Nat), NEW y \in Seq(Nat), NEW z \in Seq(Nat)
  PROVE  (x \o y) \o z = x \o (y \o z)
  OBVIOUS

\* consume() after a send moves bytes from the front of the buffer to the
\* wire and changes nothing else.
LEMMA SendSplits ==
  ASSUME NEW w \in Seq(Nat), NEW t \in Seq(Nat), NEW k \in 0..Len(t)
  PROVE  /\ w \o SubSeq(t, 1, k) \in Seq(Nat)
         /\ SubSeq(t, k + 1, Len(t)) \in Seq(Nat)
         /\ Len(SubSeq(t, k + 1, Len(t))) = Len(t) - k
         /\ (w \o SubSeq(t, 1, k)) \o SubSeq(t, k + 1, Len(t)) = w \o t
<1> DEFINE p == SubSeq(t, 1, k)
           q == SubSeq(t, k + 1, Len(t))
<1>1. p \in Seq(Nat) /\ Len(p) = k
  BY SubSeqProperties
<1>2. q \in Seq(Nat) /\ Len(q) = Len(t) - k
  BY SubSeqProperties
<1>3. p \o q = t
  <2>1. 1 \in 1..(Len(t) + 1) /\ k \in (1 - 1)..Len(t) /\ Len(t) \in k..Len(t)
    OBVIOUS
  <2>2. p \o q = SubSeq(t, 1, Len(t))
    BY <2>1, ConcatAdjacentSubSeq, Zenon
  <2> QED BY <2>2, SubSeqFull, Zenon
<1> HIDE DEF p, q
<1>4. (w \o p) \o q = w \o t
  <2>1. (w \o p) \o q = w \o (p \o q)
    BY <1>1, <1>2, ByteConcatAssociative
  <2> QED BY <1>3, <2>1
<1>5. w \o p \in Seq(Nat)
  BY <1>1, ConcatProperties
<1> QED BY <1>2, <1>4, <1>5 DEF p, q

\* A front part of the byte stream is itself a stretch of it.
LEMMA StreamPrefix ==
  ASSUME NEW w \in Seq(Nat), NEW t \in Seq(Nat), NEW n \in Nat,
         w \o t = Stream(0, n)
  PROVE  w = Stream(0, Len(w))
<1>1. /\ Len(w \o t) = Len(w) + Len(t)
      /\ \A i \in 1..(Len(w) + Len(t)) :
           (w \o t)[i] = IF i <= Len(w) THEN w[i] ELSE t[i - Len(w)]
  BY ConcatProperties, Zenon
<1>2. Len(Stream(0, n)) = n /\ \A i \in 1..n : Stream(0, n)[i] = i
  BY DEF Stream
<1>3. Len(w) \in Nat /\ Len(t) \in Nat /\ Len(w) + Len(t) = n
  BY <1>1, <1>2
<1>4. \A i \in 1..Len(w) : w[i] = i
  BY <1>1, <1>2, <1>3
<1>5. /\ Stream(0, Len(w)) \in Seq(Nat) /\ Len(Stream(0, Len(w))) = Len(w)
      /\ \A i \in 1..Len(w) : Stream(0, Len(w))[i] = i
  BY <1>3 DEF Stream
<1> QED BY <1>4, <1>5, SeqEqual
-----------------------------------------------------------------------------
(* The operations the handlers share. *)

\* What every handler may count on after calling close().
LEMMA CloseEffect ==
  ASSUME IInv, NEW ec \in ErrorCode, NEW why \in Cause, Close(ec, why)
  PROVE  /\ isClosed' = TRUE /\ sock' = "closed"
         /\ onClosed' \in Seq(ErrorCode) /\ Len(onClosed') = 1
         /\ cause' \in Cause
<1>1. CASE isClosed
  BY <1>1 DEF IInv, TypeOK, ClosedOnce, Close, closeVars
<1>2. CASE ~isClosed
  <2>1. onClosed \in Seq(ErrorCode) /\ Len(onClosed) = 0
    BY <1>2 DEF IInv, TypeOK, ClosedOnce
  <2>2. onClosed' = Append(onClosed, ec) /\ isClosed' = TRUE /\ sock' = "closed" /\ cause' = why
    BY <1>2 DEF Close
  <2> QED BY <2>1, <2>2, AppendProperties
<1> QED BY <1>1, <1>2

\* The part of the invariant that write() can disturb.
WriteInv ==
  /\ sock \in {"open", "closed"}
  /\ tx \in Seq(Nat) /\ Len(tx) <= TxLimit /\ wire \in Seq(Nat) /\ given \in Nat
  /\ waitingTx \in BOOLEAN /\ txWait \in WaitState /\ shutdownWhenEmpty \in BOOLEAN
  /\ isClosed \in BOOLEAN /\ onClosed \in Seq(ErrorCode) /\ cause \in Cause
  /\ WaitIffBuffered
  /\ StreamIntact
  /\ ClosedOnce
  /\ isClosed => sock = "closed"

\* enqueue() either closes the connection or leaves all of s behind the
\* buffered bytes with a write wait active.
LEMMA EnqueueEffect ==
  ASSUME IInv, NEW s \in Seq(Nat), Len(s) > 0, NEW sd \in BOOLEAN, Enqueue(s, sd)
  PROVE  /\ tx' \in Seq(Nat) /\ Len(tx') <= TxLimit
         /\ waitingTx' \in BOOLEAN /\ txWait' \in WaitState /\ shutdownWhenEmpty' \in BOOLEAN
         /\ \/ /\ isClosed' = TRUE /\ sock' = "closed"
               /\ onClosed' \in Seq(ErrorCode) /\ Len(onClosed') = 1 /\ cause' \in Cause
            \/ /\ UNCHANGED <<isClosed, onClosed, cause, sock>>
               /\ tx' = tx \o s
               /\ waitingTx' = TRUE
               /\ txWait' = "none" => waitingTx /\ txWait = "none"
<1>1. PICK k \in Buffer!Acceptable(Len(s)) :
        /\ tx' = tx \o SubSeq(s, 1, k)
        /\ IF k < Len(s)
             THEN /\ Close("no_buffer_space", "limit")
                  /\ UNCHANGED <<waitingTx, txWait, shutdownWhenEmpty>>
             ELSE /\ shutdownWhenEmpty' = (shutdownWhenEmpty \/ sd)
                  /\ IF waitingTx THEN UNCHANGED <<waitingTx, txWait>> ELSE DoWaitTx
                  /\ UNCHANGED <<closeVars, sock>>
  BY DEF Enqueue
<1>2. k \in 0..Len(s) /\ tx \in Seq(Nat)
  BY <1>1 DEF Buffer!Acceptable, IInv, TypeOK
<1>3. SubSeq(s, 1, k) \in Seq(Nat) /\ Len(SubSeq(s, 1, k)) = k
  BY <1>2, SubSeqProperties
<1>4. tx' \in Seq(Nat) /\ Len(tx') <= TxLimit
  <2>1. Len(tx) + k <= TxLimit
    BY <1>1 DEF Buffer!Acceptable
  <2> QED BY <1>1, <1>2, <1>3, <2>1, ConcatProperties
<1>5. CASE k < Len(s)
  <2>1. Close("no_buffer_space", "limit")
    BY <1>1, <1>5
  <2>2. "no_buffer_space" \in ErrorCode /\ "limit" \in Cause
    BY DEF ErrorCode, Cause
  <2>3. waitingTx' \in BOOLEAN /\ txWait' \in WaitState /\ shutdownWhenEmpty' \in BOOLEAN
    BY <1>1, <1>5 DEF IInv, TypeOK
  <2> QED BY <1>4, <2>1, <2>2, <2>3, CloseEffect
<1>6. CASE ~(k < Len(s))
  <2>1. SubSeq(s, 1, k) = s
    <3>1. k = Len(s)
      BY <1>2, <1>6
    <3> QED BY <3>1, SubSeqFull
  <2>2. UNCHANGED <<isClosed, onClosed, cause, sock>> /\ tx' = tx \o s
    BY <1>1, <1>6, <2>1 DEF closeVars
  <2>3. shutdownWhenEmpty' \in BOOLEAN
    BY <1>1, <1>6, Zenon DEF IInv, TypeOK
  <2>4. CASE waitingTx
    <3>1. waitingTx' = waitingTx /\ txWait' = txWait /\ waitingTx = TRUE
      BY <1>1, <1>6, <2>4 DEF IInv, TypeOK
    <3> QED BY <1>4, <2>2, <2>3, <3>1 DEF IInv, TypeOK
  <2>5. CASE ~waitingTx
    <3>1. waitingTx' = TRUE /\ txWait' \in {"pending", "refused"}
      BY <1>1, <1>6, <2>5 DEF DoWaitTx
    <3> QED BY <1>4, <2>2, <2>3, <3>1 DEF WaitState
  <2> QED BY <2>4, <2>5
<1> QED BY <1>5, <1>6

\* The invariant says all that WriteInv does.
LEMMA WriteInvHolds == IInv => WriteInv
  BY DEF IInv, TypeOK, WriteInv

\* A write() keeps the stream and the wait consistent, on each of its paths:
\* behind buffered data, failing, completely sent, or partly sent.
LEMMA WriteEffect ==
  ASSUME IInv, NEW n \in Nat \ {0}, NEW sd \in BOOLEAN, Write(n, sd)
  PROVE  WriteInv'
<1> USE WriteInvHolds
<1>1. given' = given + n /\ given \in Nat /\ given' \in Nat /\ n > 0
  BY DEF Write, WriteInv
<1>0. /\ Stream(given, given + n) \in Seq(Nat) /\ Len(Stream(given, given + n)) = n
      /\ Stream(0, given) \o Stream(given, given + n) = Stream(0, given + n)
  <2>1. n \in Nat /\ 0 \in 0..n
    OBVIOUS
  <2> QED BY <1>1, <2>1, FrameBytes, Zenon
<1>2. CASE waitingTx
  <2> DEFINE s == Stream(given, given + n)
  <2>1. s \in Seq(Nat) /\ Len(s) > 0
    BY <1>0, <1>1
  <2> HIDE DEF s
  <2>2. Enqueue(s, sd) /\ wire' = wire
    BY <1>2 DEF Write, s
  <2>3. CASE /\ isClosed' = TRUE /\ sock' = "closed"
             /\ onClosed' \in Seq(ErrorCode) /\ Len(onClosed') = 1 /\ cause' \in Cause
    BY <1>1, <2>1, <2>2, <2>3, EnqueueEffect
       DEF WriteInv, WaitIffBuffered, StreamIntact, ClosedOnce
  <2>4. CASE /\ UNCHANGED <<isClosed, onClosed, cause, sock>>
             /\ tx' = tx \o s /\ waitingTx' = TRUE
             /\ txWait' = "none" => waitingTx /\ txWait = "none"
    <3>1. tx' # <<>>
      BY <2>1, <2>4, ConcatEqualIffEmpty DEF WriteInv
    <3>2. ~isClosed => wire \o tx' = Stream(0, given')
      <4> SUFFICES ASSUME ~isClosed PROVE wire \o tx' = Stream(0, given')
        OBVIOUS
      <4>1. wire \o (tx \o s) = (wire \o tx) \o s
        BY <2>1, ByteConcatAssociative DEF WriteInv
      <4>2. (wire \o tx) \o s = Stream(0, given + n)
        BY <1>0 DEF s, WriteInv, StreamIntact
      <4> QED BY <1>1, <2>4, <4>1, <4>2
    <3>3. WaitIffBuffered'
      BY <1>2, <2>4, <3>1 DEF WriteInv, WaitIffBuffered
    <3> QED BY <1>1, <2>1, <2>2, <2>4, <3>2, <3>3, EnqueueEffect
            DEF WriteInv, StreamIntact, ClosedOnce
  <2> QED BY <2>1, <2>2, <2>3, <2>4, EnqueueEffect
<1>3. CASE /\ ~waitingTx
           /\ \E ec \in ErrorCode, why \in Cause : SendError(ec, why) /\ Close(ec, why)
           /\ UNCHANGED <<tx, waitingTx, txWait, shutdownWhenEmpty, wire>>
  BY <1>1, <1>3, CloseEffect DEF WriteInv, WaitIffBuffered, StreamIntact, ClosedOnce
<1>4. ASSUME ~waitingTx, sock = "open",
             NEW k \in 0..n,
             wire' = wire \o Stream(given, given + k),
             IF k = n
               THEN /\ IF sd THEN Close("success", "shutdown") ELSE UNCHANGED <<closeVars, sock>>
                    /\ UNCHANGED <<tx, waitingTx, txWait, shutdownWhenEmpty>>
               ELSE Enqueue(Stream(given + k, given + n), sd)
      PROVE  WriteInv'
  <2>1. ~isClosed /\ tx = <<>> /\ wire = Stream(0, given)
    <3>1. ~isClosed /\ tx = <<>>
      BY <1>4 DEF WriteInv, WaitIffBuffered
    <3> QED BY <3>1 DEF WriteInv, StreamIntact
  <2>2. /\ Stream(0, given + k) \in Seq(Nat) /\ Len(Stream(0, given + k)) = given + k
        /\ Stream(given + k, given + n) \in Seq(Nat)
        /\ Len(Stream(given + k, given + n)) = n - k
        /\ Stream(0, given) \o Stream(given, given + k) = Stream(0, given + k)
        /\ Stream(0, given + k) \o Stream(given + k, given + n) = Stream(0, given + n)
    <3>1. given \in Nat /\ n \in Nat
      BY <1>1
    <3>2. Stream(0, given + k) \in Seq(Nat) /\ Len(Stream(0, given + k)) = given + k
      BY <3>1, FrameBytes, Zenon
    <3>3. Stream(given + k, given + n) \in Seq(Nat)
      BY <3>1, FrameBytes, Zenon
    <3>4. Len(Stream(given + k, given + n)) = n - k
      BY <3>1, FrameBytes, Zenon
    <3>5. Stream(0, given) \o Stream(given, given + k) = Stream(0, given + k)
      BY <3>1, FrameBytes, Zenon
    <3>6. Stream(0, given + k) \o Stream(given + k, given + n) = Stream(0, given + n)
      BY <3>1, FrameBytes, Zenon
    <3> QED BY <3>2, <3>3, <3>4, <3>5, <3>6
  <2>3. wire' = Stream(0, given + k) /\ wire' \in Seq(Nat) /\ Len(wire') = given + k
    BY <1>4, <2>1, <2>2
  <2>4. wire' = Stream(0, Len(wire'))
    BY <2>3
  <2>5. CASE k = n
    <3>1. tx' = <<>> /\ UNCHANGED <<tx, waitingTx, txWait, shutdownWhenEmpty>>
      BY <1>4, <2>1, <2>5
    <3>2. wire' \o tx' = Stream(0, given')
      BY <1>1, <2>3, <2>5, <3>1
    <3>3. CASE sd
      <4>1. Close("success", "shutdown") /\ "success" \in ErrorCode /\ "shutdown" \in Cause
        BY <1>4, <2>5, <3>3 DEF ErrorCode, Cause
      <4> QED BY <1>1, <2>3, <2>4, <3>1, <4>1, CloseEffect
              DEF WriteInv, WaitIffBuffered, StreamIntact, ClosedOnce
    <3>4. CASE ~sd
      <4>1. UNCHANGED <<isClosed, onClosed, cause, sock>>
        BY <1>4, <2>5, <3>4 DEF closeVars
      <4> QED BY <1>1, <2>3, <2>4, <3>1, <3>2, <4>1
              DEF WriteInv, WaitIffBuffered, StreamIntact, ClosedOnce
    <3> QED BY <3>3, <3>4
  <2>6. CASE k # n
    <3> DEFINE s == Stream(given + k, given + n)
    <3>1. s \in Seq(Nat) /\ Len(s) > 0
      BY <1>1, <1>4, <2>2, <2>6
    <3>2. Enqueue(s, sd)
      BY <1>4, <2>6
    <3>3. Stream(0, given + k) \o s = Stream(0, given')
      BY <1>1, <2>2
    <3> HIDE DEF s
    <3>4. CASE /\ isClosed' = TRUE /\ sock' = "closed"
               /\ onClosed' \in Seq(ErrorCode) /\ Len(onClosed') = 1 /\ cause' \in Cause
      BY <1>1, <2>3, <2>4, <3>1, <3>2, <3>4, EnqueueEffect
         DEF WriteInv, WaitIffBuffered, StreamIntact, ClosedOnce
    <3>5. CASE /\ UNCHANGED <<isClosed, onClosed, cause, sock>>
               /\ tx' = tx \o s /\ waitingTx' = TRUE
               /\ txWait' = "none" => waitingTx /\ txWait = "none"
      <4>1. tx' = s
        BY <2>1, <3>1, <3>5, ConcatEmptySeq
      <4>2. tx' # <<>> /\ wire' \o tx' = Stream(0, given')
        BY <2>3, <3>1, <3>3, <4>1
      <4>3. WaitIffBuffered'
        BY <1>4, <3>5, <4>2 DEF WaitIffBuffered
      <4> QED BY <1>1, <2>3, <2>4, <3>1, <3>2, <3>5, <4>2, <4>3, EnqueueEffect
              DEF WriteInv, StreamIntact, ClosedOnce
    <3> QED BY <3>1, <3>2, <3>4, <3>5, EnqueueEffect
  <2> QED BY <2>5, <2>6
<1> QED BY <1>2, <1>3, <1>4 DEF Write
-----------------------------------------------------------------------------
(* The invariant. *)

\* What of the state write() does not touch, and its type.
OtherTypes ==
  /\ link \in {"up", "eof", "reset"}
  /\ rx \in RxState /\ frames \in Seq(FrameKind)
  /\ stopped \in BOOLEAN

\* The two halves make up the invariant.
LEMMA IInvSplits == IInv <=> WriteInv /\ OtherTypes
  BY DEF IInv, TypeOK, WriteInv, OtherTypes

\* A handler that ends in close() and leaves the transmit side alone.
LEMMA CloseOnly ==
  ASSUME IInv, NEW ec \in ErrorCode, NEW why \in Cause, Close(ec, why), UNCHANGED txVars
  PROVE  WriteInv'
  BY CloseEffect DEF txVars, IInv, TypeOK, WriteInv, WaitIffBuffered, StreamIntact, ClosedOnce

\* A handler that leaves closing and the transmit side alone.
LEMMA NoWrite ==
  ASSUME IInv, UNCHANGED <<closeVars, txVars, sock>>
  PROVE  WriteInv'
  BY DEF closeVars, txVars, IInv, TypeOK, WriteInv, WaitIffBuffered, StreamIntact, ClosedOnce

\* Received batches are sequences of frame kinds.
LEMMA BatchType == \A b \in Batches : b \in Seq(FrameKind)
<1> SUFFICES ASSUME NEW b \in Batches
             PROVE  b \in Seq(FrameKind)
  OBVIOUS
<1> DEFINE kinds == IF given < MaxBytes THEN FrameKind ELSE FrameKind \ {"ping", "close"}
<1>1. PICK m \in 0..MaxBatch : b \in [1..m -> kinds]
  BY DEF Batches
<1>2. m \in Nat /\ kinds \subseteq FrameKind
  BY PeerAssumption
<1>3. b \in [1..m -> FrameKind]
  BY <1>1, <1>2
<1> QED BY <1>2, <1>3

\* finish_wait_tx sends, consumes and decides how to go on.
LEMMA FinishWaitTxStep ==
  ASSUME IInv, NEW k \in 0..Len(tx), FinishWaitTx(k)
  PROVE  WriteInv'
<1>1. /\ tx \in Seq(Nat) /\ wire \in Seq(Nat) /\ given \in Nat
      /\ sock = "open" /\ ~isClosed /\ wire \o tx = Stream(0, given)
      /\ shutdownWhenEmpty \in BOOLEAN
  BY DEF FinishWaitTx, IInv, TypeOK, StreamIntact
<1>2. /\ wire' = wire \o SubSeq(tx, 1, k)
      /\ tx' = SubSeq(tx, k + 1, Len(tx))
      /\ given' = given /\ shutdownWhenEmpty' = shutdownWhenEmpty
  BY DEF FinishWaitTx
<1>3. /\ wire' \in Seq(Nat) /\ tx' \in Seq(Nat) /\ Len(tx') = Len(tx) - k
      /\ wire' \o tx' = Stream(0, given')
  BY <1>1, <1>2, SendSplits
<1>7. Len(tx') <= TxLimit
  BY <1>1, <1>3, PeerAssumption DEF IInv, TypeOK
<1>4. wire' = Stream(0, Len(wire'))
  BY <1>1, <1>2, <1>3, StreamPrefix
<1>5. CASE k = Len(tx)
  <2>1. tx' = <<>> /\ waitingTx' = FALSE /\ txWait' = "none"
    BY <1>1, <1>3, <1>5 DEF FinishWaitTx
  <2>2. CASE shutdownWhenEmpty
    <3>1. Close("success", "shutdown") /\ "success" \in ErrorCode /\ "shutdown" \in Cause
      BY <1>5, <2>2 DEF FinishWaitTx, ErrorCode, Cause
    <3> QED BY <1>1, <1>2, <1>3, <1>4, <2>1, <3>1, <1>7, CloseEffect
            DEF WriteInv, WaitIffBuffered, StreamIntact, ClosedOnce, WaitState
  <2>3. CASE ~shutdownWhenEmpty
    <3>1. UNCHANGED <<isClosed, onClosed, cause, sock>>
      BY <1>5, <2>3 DEF FinishWaitTx, closeVars
    <3> QED BY <1>1, <1>2, <1>3, <1>4, <2>1, <3>1, <1>7
            DEF IInv, TypeOK, WriteInv, WaitIffBuffered, StreamIntact, ClosedOnce, WaitState
  <2> QED BY <2>2, <2>3
<1>6. CASE k # Len(tx)
  <2>0. tx' # <<>>
    <3>1. Len(tx') > 0
      BY <1>1, <1>3, <1>6
    <3> QED BY <3>1
  <2>1. tx' # <<>> /\ waitingTx' = TRUE /\ txWait' = "pending"
    BY <1>1, <1>6, <2>0 DEF FinishWaitTx, DoWaitTx
  <2>2. UNCHANGED <<isClosed, onClosed, cause, sock>>
    BY <1>6 DEF FinishWaitTx, closeVars
  <2> QED BY <1>1, <1>2, <1>3, <1>4, <2>1, <2>2, <1>7
          DEF IInv, TypeOK, WriteInv, WaitIffBuffered, StreamIntact, ClosedOnce, WaitState
<1> QED BY <1>5, <1>6

\* finish_wait_tx that meets an error gives up the wait and closes.
LEMMA FinishWaitTxFailure ==
  ASSUME IInv, NEW ec \in ErrorCode, NEW why \in Cause, Close(ec, why),
         waitingTx' = FALSE, txWait' = "none",
         UNCHANGED <<tx, shutdownWhenEmpty, wire, given>>
  PROVE  WriteInv'
  BY CloseEffect DEF IInv, TypeOK, WriteInv, WaitIffBuffered, StreamIntact, ClosedOnce, WaitState

\* The initial state satisfies the invariant.
LEMMA InitIInv == Init => IInv
<1> SUFFICES ASSUME Init PROVE IInv
  OBVIOUS
<1>1. Stream(0, 0) = <<>> /\ <<>> \o <<>> = <<>> /\ Len(<<>>) = 0
  BY DEF Stream
<1>2. TypeOK
  <2>1. \A S : <<>> \in Seq(S)
    OBVIOUS
  <2>2. tx \in Seq(Nat) /\ wire \in Seq(Nat) /\ frames \in Seq(FrameKind) /\ onClosed \in Seq(ErrorCode)
    BY <2>1 DEF Init
  <2>3. Len(tx) <= TxLimit
    BY <1>1, PeerAssumption DEF Init
  <2> QED BY <2>2, <2>3 DEF Init, TypeOK, RxState, WaitState, Cause
<1> QED BY <1>1, <1>2 DEF Init, IInv, WaitIffBuffered, StreamIntact, ClosedOnce

\* Every step preserves the invariant.
LEMMA NextIInv == IInv /\ [Next]_vars => IInv'
<1> SUFFICES ASSUME IInv, [Next]_vars
             PROVE  WriteInv' /\ OtherTypes'
  BY DEF IInv, TypeOK, WriteInv, OtherTypes
<1> USE DEF WaitState, RxState
<1>0. OtherTypes /\ WriteInv
  BY IInvSplits
<1>1. ASSUME NEW n \in FrameSizes, Send(n)
      PROVE  WriteInv' /\ OtherTypes'
  <2>1. n \in Nat \ {0} /\ FALSE \in BOOLEAN
    BY PeerAssumption
  <2>2. Write(n, FALSE)
    BY <1>1 DEF Send
  <2> QED BY <1>0, <1>1, <2>1, <2>2, WriteEffect DEF Send, OtherTypes, rxVars
<1>2. CASE Stop
  BY <1>0, <1>2
     DEF Stop, OtherTypes, WriteInv, rxVars, closeVars, txVars,
         WaitIffBuffered, StreamIntact, ClosedOnce
<1>3. CASE Run \/ RunWithData \/ RxReady
  BY <1>0, <1>3, NoWrite DEF Run, RunWithData, RxReady, DoRead, OtherTypes, netVars
<1>4. CASE RunPosted
  <2>1. CASE rx = "posted"
    BY <1>0, <1>4, <2>1, NoWrite, BatchType DEF RunPosted, OtherTypes, netVars
  <2>2. CASE rx = "overflow"
    <3>1. "no_buffer_space" \in ErrorCode /\ "limit" \in Cause
      BY DEF ErrorCode, Cause
    <3> QED BY <1>0, <1>4, <2>2, <3>1, CloseOnly DEF RunPosted, OtherTypes
  <2> QED BY <1>4, <2>1, <2>2 DEF RunPosted
<1>5. CASE FinishWaitRxError
  <2>1. PICK ec \in ErrorCode, why \in Cause : Close(ec, why)
    BY <1>5 DEF FinishWaitRxError, ErrorCode, Cause
  <2> QED BY <1>0, <1>5, <2>1, CloseOnly DEF FinishWaitRxError, OtherTypes
<1>6. CASE FinishWaitRx
  <2>1. CASE /\ rx' = "none" /\ Close("success", EmptyReceive)
             /\ UNCHANGED <<link, frames, txVars, stopped>>
    <3>1. "success" \in ErrorCode /\ EmptyReceive \in Cause
      BY <1>0 DEF ErrorCode, Cause, EmptyReceive, OtherTypes
    <3> QED BY <1>0, <2>1, <3>1, CloseOnly DEF OtherTypes
  <2>2. CASE /\ rx' = "processing" /\ frames' \in Batches
             /\ UNCHANGED <<netVars, closeVars, txVars, stopped>>
    BY <1>0, <2>2, NoWrite, BatchType DEF OtherTypes, netVars
  <2> QED BY <1>6, <2>1, <2>2 DEF FinishWaitRx
<1>7. CASE ProcessFrame
  <2>1. frames \in Seq(FrameKind) /\ frames # <<>> /\ Tail(frames) \in Seq(FrameKind)
    BY <1>0, <1>7, HeadTailProperties DEF OtherTypes, ProcessFrame
  <2>2. CASE /\ frames' = Tail(frames)
             /\ UNCHANGED <<netVars, rx, closeVars, txVars, stopped>>
    BY <1>0, <2>1, <2>2, NoWrite DEF OtherTypes, netVars
  <2>3. CASE /\ frames' = Tail(frames)
             /\ Write(ControlSize, Head(frames) = "close")
             /\ UNCHANGED <<link, rx, stopped>>
    <3>1. ControlSize \in Nat \ {0} /\ (Head(frames) = "close") \in BOOLEAN
      BY PeerAssumption
    <3>2. WriteInv'
      BY <2>3, <3>1, WriteEffect
    <3> QED BY <1>0, <2>1, <2>3, <3>2 DEF OtherTypes
  <2>4. CASE /\ frames' = <<>> /\ rx' = "none"
             /\ Close("not_supported", "frame")
             /\ UNCHANGED <<link, txVars, stopped>>
    <3>1. "not_supported" \in ErrorCode /\ "frame" \in Cause /\ <<>> \in Seq(FrameKind)
      BY DEF ErrorCode, Cause
    <3> QED BY <1>0, <2>4, <3>1, CloseOnly DEF OtherTypes
  <2> QED BY <1>7, <2>2, <2>3, <2>4 DEF ProcessFrame
<1>8. CASE FinishProcess
  <2>1. CASE DoRead /\ UNCHANGED <<closeVars, sock>> /\ UNCHANGED <<link, frames, txVars, stopped>>
    BY <1>0, <2>1, NoWrite DEF DoRead, OtherTypes
  <2>2. CASE /\ rx' = "none" /\ Close("no_buffer_space", "limit")
             /\ UNCHANGED <<link, frames, txVars, stopped>>
    <3>1. "no_buffer_space" \in ErrorCode /\ "limit" \in Cause
      BY DEF ErrorCode, Cause
    <3> QED BY <1>0, <2>2, <3>1, CloseOnly DEF OtherTypes
  <2> QED BY <1>8, <2>1, <2>2 DEF FinishProcess
<1>9. CASE TxReady
  BY <1>0, <1>9
     DEF TxReady, OtherTypes, WriteInv, netVars, rxVars, closeVars,
         WaitIffBuffered, StreamIntact, ClosedOnce
<1>10. CASE FinishWaitTxError \/ FinishWaitTxFailed
  <2>1. PICK ec \in ErrorCode, why \in Cause : Close(ec, why)
    BY <1>10 DEF FinishWaitTxError, FinishWaitTxFailed, ErrorCode, Cause
  <2> QED BY <1>0, <1>10, <2>1, FinishWaitTxFailure
          DEF FinishWaitTxError, FinishWaitTxFailed, OtherTypes, rxVars
<1>11. ASSUME NEW k \in 0..Len(tx), FinishWaitTx(k)
       PROVE  WriteInv' /\ OtherTypes'
  BY <1>0, <1>11, FinishWaitTxStep DEF FinishWaitTx, OtherTypes, rxVars
<1>12. CASE RemoteClose \/ NetworkReset
  BY <1>0, <1>12, NoWrite DEF RemoteClose, NetworkReset, OtherTypes, rxVars
<1>13. CASE UNCHANGED vars
  BY <1>0, <1>13, NoWrite DEF vars, OtherTypes, netVars, rxVars
<1> QED BY <1>1, <1>2, <1>3, <1>4, <1>5, <1>6, <1>7, <1>8, <1>9, <1>10, <1>11, <1>12, <1>13
        DEF Next, Handlers
-----------------------------------------------------------------------------
(* The theorems. *)

\* The invariant holds in every reachable state, for every set of frame sizes
\* and every transmit limit.
THEOREM IInvHolds == Spec => []IInv
<1>1. Init => IInv
  BY InitIInv
<1>2. IInv /\ [Next]_vars => IInv'
  BY NextIInv
<1> QED BY <1>1, <1>2, PTL DEF Spec

\* Type correctness of the peer.
THEOREM PeerTypeCorrect == Spec => []TypeOK
<1>1. IInv => TypeOK
  BY DEF IInv
<1> QED BY <1>1, IInvHolds, PTL

\* write() never overtakes buffered data, because a clear _waiting_tx means
\* that nothing is buffered, and no buffered data is left without a wait.
THEOREM PeerWaitIffBuffered == Spec => []WaitIffBuffered
<1>1. IInv => WaitIffBuffered
  BY DEF IInv
<1> QED BY <1>1, IInvHolds, PTL

\* The wire carries the frames in order and without gap or repetition, for any
\* pattern of short writes, and nothing is lost while the peer is not closed.
THEOREM PeerStreamIntact == Spec => []StreamIntact
<1>1. IInv => StreamIntact
  BY DEF IInv
<1> QED BY <1>1, IInvHolds, PTL

\* on_closed is raised once and only by the step that closes the peer.
THEOREM PeerClosedOnce == Spec => []ClosedOnce
<1>1. IInv => ClosedOnce
  BY DEF IInv
<1> QED BY <1>1, IInvHolds, PTL

\* Nothing goes out once on_closed was raised: close() has closed the socket.
THEOREM PeerSilentAfterClosed == Spec => SilentAfterClosed
<1>1. IInv /\ [Next]_vars => [isClosed => wire' = wire]_vars
  <2> SUFFICES ASSUME IInv, Next, isClosed
               PROVE  wire' = wire
    BY DEF vars
  <2>1. sock = "closed"
    BY DEF IInv
  <2>2. ASSUME NEW n, NEW sd, Write(n, sd)
        PROVE  wire' = wire
    BY <2>1, <2>2 DEF Write
  <2> QED BY <2>1, <2>2
          DEF Next, Handlers, Send, Stop, Run, RunWithData, RxReady, TxReady, RunPosted,
              FinishWaitRxError, FinishWaitRx, ProcessFrame, FinishProcess, FinishWaitTxError,
              FinishWaitTxFailed, FinishWaitTx, RemoteClose, NetworkReset, txVars
<1> QED BY <1>1, IInvHolds, PTL DEF Spec, SilentAfterClosed

\* A CLOSE frame's shutdown happens only with everything on the wire.
THEOREM PeerShutdownFlushes == Spec => ShutdownFlushes
<1> DEFINE Shuts == cause' = "shutdown" /\ cause # "shutdown"
<1>1. IInv /\ [Next]_vars => [Shuts => wire' = Stream(0, given')]_vars
  <2> SUFFICES ASSUME IInv, Next, Shuts
               PROVE  wire' = Stream(0, given')
    BY DEF vars
  <2>1. ASSUME NEW ec, NEW why, Close(ec, why), why # "shutdown"
        PROVE  FALSE
    BY <2>1 DEF Close, closeVars
  <2>2. ~(UNCHANGED cause)
    OBVIOUS
  <2>3. ASSUME NEW n \in Nat \ {0}, NEW sd \in BOOLEAN, Write(n, sd)
        PROVE  wire' = Stream(0, given')
    <3>1. ASSUME NEW s, Enqueue(s, sd)
          PROVE  FALSE
      BY <2>1, <2>2, <3>1 DEF Enqueue, closeVars
    <3>2. ~ \E ec \in ErrorCode, why \in Cause : SendError(ec, why) /\ Close(ec, why)
      BY <2>1 DEF SendError
    <3>3. PICK k \in 0..n :
            /\ ~waitingTx /\ sock = "open"
            /\ wire' = wire \o Stream(given, given + k)
            /\ k = n
            /\ UNCHANGED tx
      BY <2>3, <3>1, <3>2 DEF Write
    <3>4. tx = <<>> /\ ~isClosed /\ isClosed' \in BOOLEAN
      BY <2>3, <3>3, WriteEffect DEF IInv, WaitIffBuffered, WriteInv
    <3>5. wire = Stream(0, given) /\ given \in Nat
      BY <3>4 DEF IInv, TypeOK, StreamIntact
    <3>6. wire' = Stream(0, given) \o Stream(given, given + n)
      BY <3>3, <3>5
    <3>7. n \in Nat /\ 0 \in 0..n
      OBVIOUS
    <3>8. wire' = Stream(0, given + n)
      BY <3>5, <3>6, <3>7, FrameBytes, Zenon
    <3> QED BY <2>3, <3>8 DEF Write
  <2>4. ASSUME NEW k \in 0..Len(tx), FinishWaitTx(k)
        PROVE  wire' = Stream(0, given')
    <3>1. k = Len(tx)
      BY <2>2, <2>4 DEF FinishWaitTx, closeVars
    <3>2. tx \in Seq(Nat) /\ wire \in Seq(Nat) /\ wire \o tx = Stream(0, given)
      BY <2>4 DEF FinishWaitTx, IInv, TypeOK, StreamIntact
    <3>3. SubSeq(tx, 1, k) = tx
      BY <3>1, <3>2, SubSeqFull
    <3> QED BY <2>4, <3>2, <3>3 DEF FinishWaitTx
  <2>5. ASSUME NEW n \in FrameSizes, Send(n)
        PROVE  wire' = Stream(0, given')
    <3>1. n \in Nat \ {0} /\ FALSE \in BOOLEAN
      BY PeerAssumption
    <3> QED BY <2>3, <2>5, <3>1 DEF Send
  <2>6. CASE ProcessFrame
    <3>1. ControlSize \in Nat \ {0} /\ (Head(frames) = "close") \in BOOLEAN
      BY PeerAssumption
    <3> QED BY <2>1, <2>2, <2>3, <2>6, <3>1 DEF ProcessFrame, closeVars
  <2>7. ~(\/ Stop \/ Run \/ RunWithData \/ RxReady \/ TxReady \/ RemoteClose \/ NetworkReset)
    BY <2>2 DEF Stop, Run, RunWithData, RxReady, TxReady, RemoteClose, NetworkReset, closeVars
  <2>8. ~(\/ RunPosted \/ FinishWaitRxError \/ FinishWaitRx \/ FinishProcess)
    <3>1. EmptyReceive # "shutdown"
      BY DEF EmptyReceive, IInv, TypeOK
    <3> QED BY <2>1, <2>2, <3>1
            DEF RunPosted, FinishWaitRxError, FinishWaitRx, FinishProcess, closeVars
  <2>9. ~(\/ FinishWaitTxError \/ FinishWaitTxFailed)
    BY <2>1 DEF FinishWaitTxError, FinishWaitTxFailed, SendError
  <2> QED BY <2>4, <2>5, <2>6, <2>7, <2>8, <2>9 DEF Next, Handlers
<1> QED BY <1>1, IInvHolds, PTL DEF Spec, ShutdownFlushes
-----------------------------------------------------------------------------
(* The refinement. *)

\* No step changes what close() keeps except by closing.
LEMMA ClosesOrNot ==
  ASSUME [Next]_vars
  PROVE  UNCHANGED closeVars \/ \E ec, why : Close(ec, why)
<1>1. ASSUME NEW s, NEW sd, Enqueue(s, sd)
      PROVE  UNCHANGED closeVars \/ \E ec, why : Close(ec, why)
  BY <1>1 DEF Enqueue
<1>2. ASSUME NEW n, NEW sd, Write(n, sd)
      PROVE  UNCHANGED closeVars \/ \E ec, why : Close(ec, why)
  BY <1>1, <1>2 DEF Write
<1>3. CASE Next
  BY <1>2, <1>3
     DEF Next, Handlers, Send, Stop, Run, RunWithData, RxReady, TxReady, RunPosted,
         FinishWaitRxError, FinishWaitRx, ProcessFrame, FinishProcess, FinishWaitTxError,
         FinishWaitTxFailed, FinishWaitTx, RemoteClose, NetworkReset
<1>4. CASE UNCHANGED vars
  BY <1>4 DEF vars, closeVars
<1> QED BY <1>3, <1>4

\* A peer that is not closed has no cause yet.
QuietCause == ~isClosed => cause = "none"

\* The cause appears with the close.
LEMMA QuietCauseHolds == Spec => []QuietCause
<1>1. Init => QuietCause
  BY DEF Init, QuietCause
<1>2. QuietCause /\ [Next]_vars => QuietCause'
  BY ClosesOrNot DEF QuietCause, Close, closeVars
<1> QED BY <1>1, <1>2, PTL DEF Spec

\* Until it closes, a step of the peer only adds to the wire, and never more
\* than was given to write(); the step that closes it does so too.
LEMMA WireStep ==
  ASSUME IInv, [Next]_vars, ~isClosed
  PROVE  /\ given' \in Nat /\ given' >= given
         /\ Len(wire) \in Nat /\ Len(wire') \in Len(wire)..given'
<1> DEFINE Goal == /\ given' \in Nat /\ given' >= given
                   /\ Len(wire) \in Nat /\ Len(wire') \in Len(wire)..given'
<1>1. /\ given \in Nat /\ tx \in Seq(Nat) /\ wire \in Seq(Nat)
      /\ wire \o tx = Stream(0, given)
  BY DEF IInv, TypeOK, StreamIntact
<1>2. Len(Stream(0, given)) = given
  BY <1>1 DEF Stream
<1>3. Len(wire) \in Nat /\ Len(tx) \in Nat /\ Len(wire) + Len(tx) = given
  BY <1>1, <1>2, ConcatProperties
<1>4. CASE UNCHANGED <<wire, given>>
  BY <1>1, <1>3, <1>4
<1>5. ASSUME NEW n \in Nat \ {0}, NEW sd \in BOOLEAN, Write(n, sd)
      PROVE  Goal
  <2>1. given' = given + n
    BY <1>5 DEF Write
  <2>2. CASE wire' = wire
    BY <1>1, <1>3, <2>1, <2>2
  <2>3. ASSUME NEW k \in 0..n, ~waitingTx, wire' = wire \o Stream(given, given + k)
        PROVE  Goal
    <3>1. tx = <<>> /\ Len(tx) = 0
      BY <2>3 DEF IInv, WaitIffBuffered
    <3>2. Stream(given, given + k) \in Seq(Nat) /\ Len(Stream(given, given + k)) = k
      BY <1>1, <2>3 DEF Stream
    <3>3. Len(wire') = Len(wire) + Len(Stream(given, given + k))
      BY <1>1, <2>3, <3>2, ConcatProperties
    <3>4. Len(wire') = Len(wire) + k
      BY <3>2, <3>3, Zenon
    <3>5. Len(tx) = 0
      BY <3>1
    <3>6. Len(wire) = given
      BY <1>1, <1>3, <3>5
    <3> QED BY <1>1, <2>1, <2>3, <3>4, <3>6
  <2> QED BY <1>5, <2>2, <2>3 DEF Write
<1>6. ASSUME NEW k \in 0..Len(tx), FinishWaitTx(k)
      PROVE  Goal
  <2>1. SubSeq(tx, 1, k) \in Seq(Nat) /\ Len(SubSeq(tx, 1, k)) = k
    BY <1>1, <1>3, <1>6, SubSeqProperties
  <2>2. wire' = wire \o SubSeq(tx, 1, k) /\ given' = given
    BY <1>6 DEF FinishWaitTx
  <2>3. Len(wire') = Len(wire) + k
    BY <1>1, <2>1, <2>2, ConcatProperties
  <2> QED BY <1>1, <1>3, <1>6, <2>2, <2>3
<1>7. ASSUME NEW n \in FrameSizes, Send(n)
      PROVE  Goal
  <2>1. n \in Nat \ {0} /\ FALSE \in BOOLEAN
    BY PeerAssumption
  <2> QED BY <1>5, <1>7, <2>1 DEF Send
<1>8. CASE ProcessFrame
  <2>1. ControlSize \in Nat \ {0} /\ (Head(frames) = "close") \in BOOLEAN
    BY PeerAssumption
  <2> QED BY <1>4, <1>5, <1>8, <2>1 DEF ProcessFrame, txVars
<1>9. CASE \/ Stop \/ Run \/ RunWithData \/ RxReady \/ TxReady \/ RemoteClose \/ NetworkReset
           \/ RunPosted \/ FinishWaitRxError \/ FinishWaitRx \/ FinishProcess
           \/ FinishWaitTxError \/ FinishWaitTxFailed
  BY <1>4, <1>9
     DEF Stop, Run, RunWithData, RxReady, TxReady, RemoteClose, NetworkReset, RunPosted,
         FinishWaitRxError, FinishWaitRx, FinishProcess, FinishWaitTxError, FinishWaitTxFailed, txVars
<1>10. CASE UNCHANGED vars
  BY <1>4, <1>10 DEF vars, txVars
<1> QED BY <1>6, <1>7, <1>8, <1>9, <1>10 DEF Next, Handlers

\* write() counts up.
LEMMA GivenGrows ==
  ASSUME IInv, [Next]_vars
  PROVE  given' \in Nat /\ given' >= given
<1>1. given \in Nat /\ FrameSizes \subseteq Nat /\ ControlSize \in Nat
  BY PeerAssumption DEF IInv, TypeOK
<1>2. ASSUME NEW n \in Nat, NEW sd, Write(n, sd)
      PROVE  given' \in Nat /\ given' >= given
  BY <1>1, <1>2 DEF Write
<1>3. CASE UNCHANGED given
  BY <1>1, <1>3
<1> QED BY <1>1, <1>2, <1>3
        DEF Next, Handlers, Send, Stop, Run, RunWithData, RxReady, TxReady, RunPosted,
            FinishWaitRxError, FinishWaitRx, ProcessFrame, FinishProcess, FinishWaitTxError,
            FinishWaitTxFailed, FinishWaitTx, RemoteClose, NetworkReset, txVars, vars

\* The abstract stream numbers its bytes as the wire does.
LEMMA FirstBytesAreStream == \A n \in Nat : Abstract!FirstBytes(n) = Stream(0, n)
  BY DEF Abstract!FirstBytes, Stream

\* The plain TCP peer implements the abstract stream: every step of write() and
\* of its handlers is a transfer, an end that cuts the stream, an orderly end
\* with everything on the wire, or nothing.
THEOREM PeerImplementsStream == Spec => ImplementsStream
<1>1. Init => Abstract!Init
  BY DEF Init, Abstract!Init
<1>2. /\ IInv /\ IInv' /\ QuietCause /\ [Next]_vars
      /\ [isClosed => wire' = wire]_vars
      /\ [(cause' = "shutdown" /\ cause # "shutdown") => wire' = Stream(0, given')]_vars
      => [Abstract!Next]_(Abstract!vars)
  <2> SUFFICES ASSUME IInv, IInv', QuietCause, Next,
                      isClosed => wire' = wire,
                      (cause' = "shutdown" /\ cause # "shutdown") => wire' = Stream(0, given')
               PROVE  Abstract!Next
    BY DEF vars, closeVars, txVars, Abstract!vars
  <2>1. /\ isClosed \in BOOLEAN /\ isClosed' \in BOOLEAN
        /\ given' \in Nat /\ given' >= given
    BY GivenGrows DEF IInv, TypeOK
  <2>2. CASE isClosed
    <3>1. isClosed' /\ cause' = cause /\ wire' = wire
      BY <2>2, ClosesOrNot DEF Close, closeVars
    <3> QED BY <2>1, <2>2, <3>1 DEF Abstract!Next, Abstract!Discard
  <2>3. CASE ~isClosed
    <3>1. Len(wire') \in Len(wire)..given'
      BY <2>3, WireStep
    <3>2. Len(wire') \in Nat /\ wire' = Stream(0, Len(wire'))
      BY DEF IInv, TypeOK, StreamIntact
    <3>3. wire' = Abstract!FirstBytes(Len(wire'))
      BY <3>2, FirstBytesAreStream
    <3>4. Abstract!Progress
      BY <2>1, <3>1, <3>3 DEF Abstract!Progress
    <3>5. CASE ~isClosed'
      BY <2>3, <3>4, <3>5 DEF Abstract!Next, Abstract!Transfer
    <3>6. CASE isClosed' /\ cause' # "shutdown"
      BY <2>3, <3>4, <3>6 DEF Abstract!Next, Abstract!Cut
    <3>7. CASE isClosed' /\ cause' = "shutdown"
      <4>1. wire' = Abstract!FirstBytes(given')
        BY <2>1, <2>3, <3>7, FirstBytesAreStream DEF QuietCause
      <4> QED BY <2>3, <3>4, <3>7, <4>1 DEF Abstract!Next, Abstract!Finish
    <3> QED BY <3>5, <3>6, <3>7
  <2> QED BY <2>2, <2>3
<1> QED BY <1>1, <1>2, IInvHolds, QuietCauseHolds, PeerSilentAfterClosed, PeerShutdownFlushes, PTL
        DEF Spec, ImplementsStream, Abstract!Spec, SilentAfterClosed, ShutdownFlushes
=============================================================================
