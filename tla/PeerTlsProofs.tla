--------------------------- MODULE PeerTlsProofs ---------------------------
(***************************************************************************)
(* Proofs about PeerTls: its queue and its write agree, the wire carries   *)
(* the frames in order, and the TLS peer implements OrderlyStream, for any *)
(* frame sizes, any transmit limit and any way the operating system cuts   *)
(* the writes.                                                             *)
(*                                                                         *)
(* The properties are not inductive by themselves: that the next write     *)
(* continues where the wire ends follows from the messages in the queue    *)
(* being adjacent stretches of the stream, of which the one in flight is   *)
(* the first.                                                              *)
(***************************************************************************)
EXTENDS PeerTls, SequenceTheorems, TLAPS

\* The queued messages are adjacent stretches of the stream that end with the
\* last byte given to write().
QueueInv ==
  /\ \A i \in 1..Len(queue) : queue[i].first < queue[i].last /\ queue[i].last <= given
  /\ \A i \in 1..Len(queue), j \in 1..Len(queue) : i < j => queue[i].last <= queue[j].first
  /\ \A i \in 1..Len(queue) : i < Len(queue) => queue[i + 1].first = queue[i].last
  /\ queue # <<>> => queue[Len(queue)].last = given

\* A write in flight sends the first message and continues the wire; without
\* one, an open connection has nothing left to send.
OpInv ==
  /\ inFlight => /\ queue # <<>>
                 /\ op.state # "none"
                 /\ op.last = queue[1].last
                 /\ op.next \in queue[1].first..queue[1].last
                 /\ Len(wire) = op.next
                 /\ op.state = "done" => op.next = op.last
  /\ ~inFlight => op = Idle
  /\ ~inFlight /\ ~isClosed => queue = <<>> /\ Len(wire) = given
  /\ Len(wire) <= given
  /\ closeMark > 0 => Len(wire) <= closeMark

\* The first CLOSE frame of an open connection is in the queue.
MarkInv ==
  /\ closeMark <= given
  /\ \A i \in 1..Len(queue) : queue[i].shutdownAfter => closeMark > 0 /\ closeMark <= queue[i].last
  /\ ~isClosed /\ closeMark > 0 =>
       \E i \in 1..Len(queue) : queue[i].shutdownAfter /\ queue[i].last = closeMark

\* What write() and finish_write can disturb.
CoreInv ==
  /\ sock \in {"open", "closed"}
  /\ queue \in Seq(Message) /\ queuedBytes \in Nat
  /\ given \in Nat /\ closeMark \in Nat
  /\ inFlight \in BOOLEAN
  /\ op \in [state : OpState, next : Nat, last : Nat]
  /\ isClosed \in BOOLEAN /\ onClosed \in Seq(ErrorCode) /\ cause \in Cause
  /\ wire \in Seq(Nat)
  /\ ~isClosed => queuedBytes <= TxLimit
  /\ QueueInv /\ OpInv /\ MarkInv
  /\ QueueAccounted
  /\ overlapped = FALSE
  /\ wire = Stream(0, Len(wire))
  /\ ClosedOnce
  /\ isClosed => sock = "closed"
  /\ ~isClosed => cause = "none"

\* What they leave alone.
RestInv ==
  /\ link \in {"up", "eof", "reset"}
  /\ rx \in RxState /\ frames \in Seq(FrameKind)
  /\ stopped \in BOOLEAN

\* The inductive invariant.
IInv == CoreInv /\ RestInv
-----------------------------------------------------------------------------
(* Sequences of messages and stretches of the stream. *)

\* Appending to the queue leaves the messages in it where they are.
LEMMA AppendMessage ==
  ASSUME NEW q \in Seq(Message), NEW m \in Message
  PROVE  /\ Append(q, m) \in Seq(Message) /\ Append(q, m) # <<>>
         /\ Len(q) \in Nat /\ Len(Append(q, m)) = Len(q) + 1
         /\ \A i \in 1..Len(q) : Append(q, m)[i] = q[i]
         /\ Append(q, m)[Len(q) + 1] = m
  BY AppendProperties

\* Removing the front message moves the others up by one.
LEMMA TailMessages ==
  ASSUME NEW q \in Seq(Message), q # <<>>
  PROVE  /\ Tail(q) \in Seq(Message) /\ Head(q) = q[1]
         /\ Len(q) \in Nat \ {0} /\ Len(Tail(q)) = Len(q) - 1
         /\ \A i \in 1..Len(Tail(q)) : Tail(q)[i] = q[i + 1]
         /\ Tail(q) = <<>> <=> Len(q) = 1
<1>1. Head(q) = q[1] /\ Tail(q) \in Seq(Message) /\ Len(Tail(q)) = Len(q) - 1
  BY HeadTailProperties
<1>2. \A i \in 1..Len(Tail(q)) : Tail(q)[i] = q[i + 1]
  BY HeadTailProperties
<1>3. Len(q) \in Nat \ {0}
  BY EmptySeq
<1>4. Tail(q) = <<>> <=> Len(Tail(q)) = 0
  BY <1>1, EmptySeq
<1> QED BY <1>1, <1>2, <1>3, <1>4

\* The stream up to byte a and the next k bytes of it.
LEMMA WireGrows ==
  ASSUME NEW a \in Nat, NEW k \in Nat
  PROVE  /\ Stream(0, a) \o Stream(a, a + k) \in Seq(Nat)
         /\ Len(Stream(0, a) \o Stream(a, a + k)) = a + k
         /\ Stream(0, a) \o Stream(a, a + k) = Stream(0, a + k)
<1> DEFINE w == Stream(0, a)
           s == Stream(a, a + k)
           u == Stream(0, a + k)
<1>1. s \in Seq(Nat) /\ Len(s) = k /\ \A i \in 1..k : s[i] = a + i
  BY DEF Stream
<1>2. u \in Seq(Nat) /\ Len(u) = a + k /\ \A i \in 1..(a + k) : u[i] = i
  BY DEF Stream
<1>3. w \in Seq(Nat) /\ Len(w) = a /\ \A i \in 1..a : w[i] = i
  BY DEF Stream
<1> HIDE DEF s, u, w
<1>4. /\ w \o s \in Seq(Nat) /\ Len(w \o s) = a + k
      /\ \A i \in 1..(a + k) : (w \o s)[i] = i
  <2>1. /\ w \o s \in Seq(Nat) /\ Len(w \o s) = Len(w) + Len(s)
        /\ \A i \in 1..(Len(w) + Len(s)) :
             (w \o s)[i] = IF i <= Len(w) THEN w[i] ELSE s[i - Len(w)]
    BY <1>1, <1>3, ConcatProperties, Zenon
  <2>2. ASSUME NEW i \in 1..(a + k)
        PROVE  (w \o s)[i] = i
    <3>1. CASE i <= a
      <4>1. (w \o s)[i] = w[i] /\ w[i] = i
        BY <1>1, <1>3, <2>1, <3>1
      <4> QED BY <4>1
    <3>2. CASE i > a
      <4>1. (w \o s)[i] = s[i - a]
        BY <1>1, <1>3, <2>1, <3>2
      <4>2. s[i - a] = a + (i - a)
        BY <1>1, <3>2
      <4> QED BY <4>1, <4>2
    <3>3. i <= a \/ i > a
      OBVIOUS
    <3> QED BY <3>1, <3>2, <3>3, Zenon
  <2> QED BY <1>1, <1>3, <2>1, <2>2
<1>5. w \o s = u
  <2> DEFINE v == w \o s
  <2>1. v \in Seq(Nat) /\ Len(v) = Len(u) /\ \A i \in 1..Len(v) : v[i] = u[i]
    BY <1>2, <1>4
  <2> HIDE DEF v
  <2>2. v = u
    BY <1>2, <2>1, SeqEqual
  <2> QED BY <2>2 DEF v
<1> QED BY <1>4, <1>5 DEF s, u, w
-----------------------------------------------------------------------------
(* The operations the handlers share. *)

\* What every handler may count on after calling close().
LEMMA CloseEffect ==
  ASSUME CoreInv, NEW ec \in ErrorCode, NEW why \in Cause, Close(ec, why)
  PROVE  /\ isClosed' = TRUE /\ sock' = "closed"
         /\ onClosed' \in Seq(ErrorCode) /\ Len(onClosed') = 1
         /\ cause' \in Cause
<1>1. CASE isClosed
  BY <1>1 DEF CoreInv, ClosedOnce, Close, closeVars
<1>2. CASE ~isClosed
  <2>1. onClosed \in Seq(ErrorCode) /\ Len(onClosed) = 0
    BY <1>2 DEF CoreInv, ClosedOnce
  <2>2. onClosed' = Append(onClosed, ec) /\ isClosed' = TRUE /\ sock' = "closed" /\ cause' = why
    BY <1>2 DEF Close
  <2> QED BY <2>1, <2>2, AppendProperties
<1> QED BY <1>1, <1>2

\* A handler that ends in close() and leaves the transmit side alone.
LEMMA CloseOnly ==
  ASSUME CoreInv, NEW ec \in ErrorCode, NEW why \in Cause, Close(ec, why),
         UNCHANGED <<queueVars, opVars, wire>>
  PROVE  CoreInv'
  BY CloseEffect
     DEF CoreInv, queueVars, opVars, QueueInv, OpInv, MarkInv, QueueAccounted, ClosedOnce

\* A handler that leaves closing and the transmit side alone.
LEMMA NoWrite ==
  ASSUME CoreInv, UNCHANGED <<closeVars, queueVars, opVars, wire, sock>>
  PROVE  CoreInv'
  BY DEF CoreInv, closeVars, queueVars, opVars, QueueInv, OpInv, MarkInv, QueueAccounted, ClosedOnce

\* A write() on an open connection: the message joins the queue behind the
\* others; then the limit closes the connection, the write in flight goes on,
\* or the queue was empty and its write starts where the wire ends.
LEMMA WriteEffect ==
  ASSUME CoreInv, NEW n \in Nat \ {0}, NEW sd \in BOOLEAN, Write(n, sd), UNCHANGED wire
  PROVE  CoreInv'
<1>1. CASE isClosed
  BY <1>1, NoWrite DEF Write
<1>2. CASE ~isClosed
  <2> DEFINE m == [first |-> given, last |-> given + n, shutdownAfter |-> sd]
  <2>1. /\ queue' = Append(queue, m)
        /\ queuedBytes' = queuedBytes + n
        /\ given' = given + n
        /\ closeMark' = IF sd /\ closeMark = 0 THEN given + n ELSE closeMark
    BY <1>2 DEF Write
  <2>2. m \in Message /\ m.first = given /\ m.last = given + n /\ m.shutdownAfter = sd
    BY DEF CoreInv, Message
  <2> HIDE DEF m
  <2>3. /\ queue' \in Seq(Message) /\ queue' # <<>>
        /\ Len(queue) \in Nat /\ Len(queue') = Len(queue) + 1
        /\ \A i \in 1..Len(queue) : queue'[i] = queue[i]
        /\ queue'[Len(queue) + 1] = m
    <3>1. queue \in Seq(Message)
      BY DEF CoreInv
    <3>2. /\ Append(queue, m) \in Seq(Message) /\ Append(queue, m) # <<>>
          /\ Len(queue) \in Nat /\ Len(Append(queue, m)) = Len(queue) + 1
          /\ \A i \in 1..Len(queue) : Append(queue, m)[i] = queue[i]
          /\ Append(queue, m)[Len(queue) + 1] = m
      BY <2>2, <3>1, AppendMessage, Zenon
    <3> QED BY <2>1, <3>2, Zenon
  <2>4. \A i \in 1..Len(queue) : queue[i] \in Message
    BY DEF CoreInv
  <2>5. /\ given' \in Nat /\ given' > given /\ closeMark' \in Nat /\ queuedBytes' \in Nat
    BY <2>1 DEF CoreInv
  <2>6. QueueInv'
    <3>1. ASSUME NEW i \in 1..Len(queue')
          PROVE  queue'[i].first < queue'[i].last /\ queue'[i].last <= given'
      <4>1. CASE i = Len(queue) + 1
        BY <2>1, <2>2, <2>3, <4>1 DEF CoreInv
      <4>2. CASE i # Len(queue) + 1
        <5>1. i \in 1..Len(queue) /\ queue'[i] = queue[i] /\ queue[i] \in Message
          BY <2>3, <2>4, <4>2
        <5>2. queue[i].first < queue[i].last /\ queue[i].last <= given
          BY <5>1 DEF CoreInv, QueueInv
        <5> QED BY <2>5, <5>1, <5>2 DEF CoreInv, Message
      <4> QED BY <4>1, <4>2
    <3>2. ASSUME NEW i \in 1..Len(queue'), NEW j \in 1..Len(queue'), i < j
          PROVE  queue'[i].last <= queue'[j].first
      <4>1. i \in 1..Len(queue) /\ queue'[i] = queue[i] /\ queue[i].last <= given
        BY <2>3, <3>2 DEF CoreInv, QueueInv
      <4>2. CASE j = Len(queue) + 1
        BY <2>2, <2>3, <4>1, <4>2
      <4>3. CASE j # Len(queue) + 1
        <5>1. j \in 1..Len(queue) /\ queue'[j] = queue[j]
          BY <2>3, <4>3
        <5> QED BY <3>2, <4>1, <5>1 DEF CoreInv, QueueInv
      <4> QED BY <4>2, <4>3
    <3>3. ASSUME NEW i \in 1..Len(queue'), i < Len(queue')
          PROVE  queue'[i + 1].first = queue'[i].last
      <4>1. i \in 1..Len(queue) /\ queue'[i] = queue[i]
        BY <2>3, <3>3
      <4>2. CASE i = Len(queue)
        <5>1. queue # <<>> /\ queue[i].last = given
          BY <4>1, <4>2 DEF CoreInv, QueueInv
        <5> QED BY <2>2, <2>3, <4>1, <4>2, <5>1
      <4>3. CASE i # Len(queue)
        <5>1. i + 1 \in 1..Len(queue) /\ queue'[i + 1] = queue[i + 1] /\ i < Len(queue)
          BY <2>3, <4>1, <4>3
        <5> QED BY <4>1, <5>1 DEF CoreInv, QueueInv
      <4> QED BY <4>2, <4>3
    <3>4. queue'[Len(queue')].last = given'
      BY <2>1, <2>2, <2>3
    <3> QED BY <3>1, <3>2, <3>3, <3>4 DEF QueueInv
  <2>7. queue # <<>> => Len(queue) >= 1 /\ queue'[1] = queue[1] /\ queue[1] \in Message
    BY <2>3, <2>4, EmptySeq DEF CoreInv
  <2>8. queue = <<>> => queue'[1] = m /\ Head(queue') = m /\ Len(queue) = 0
    BY <2>3, HeadTailProperties
  <2>9. QueueAccounted'
    <3>1. queuedBytes' = queue'[Len(queue')].last - queue'[1].first
      <4>1. CASE queue = <<>>
        <5>1. queuedBytes = 0
          BY <4>1 DEF CoreInv, QueueAccounted
        <5> QED BY <2>1, <2>2, <2>3, <2>8, <4>1, <5>1 DEF CoreInv
      <4>2. CASE queue # <<>>
        <5>1. queuedBytes = given - queue[1].first
          BY <4>2 DEF CoreInv, QueueAccounted, QueueInv
        <5> QED BY <2>1, <2>2, <2>3, <2>7, <4>2, <5>1 DEF CoreInv, Message
      <4> QED BY <4>1, <4>2
    <3> QED BY <2>3, <3>1 DEF QueueAccounted
  <2>10. closeMark' <= given' /\ (closeMark > 0 => closeMark' = closeMark)
    BY <2>1, <2>5 DEF CoreInv, MarkInv
  <2>11. ASSUME NEW i \in 1..Len(queue'), queue'[i].shutdownAfter
         PROVE  closeMark' > 0 /\ closeMark' <= queue'[i].last
    <3>1. CASE i = Len(queue) + 1
      <4>1. queue'[i] = m /\ sd
        BY <2>2, <2>3, <2>11, <3>1
      <4>2. closeMark' > 0
        BY <2>1, <4>1 DEF CoreInv
      <4> QED BY <2>1, <2>2, <2>10, <4>1, <4>2
    <3>2. CASE i # Len(queue) + 1
      <4>1. i \in 1..Len(queue) /\ queue'[i] = queue[i]
        BY <2>3, <3>2
      <4>2. closeMark > 0 /\ closeMark <= queue[i].last
        BY <2>11, <4>1 DEF CoreInv, MarkInv
      <4> QED BY <2>10, <4>1, <4>2
    <3> QED BY <3>1, <3>2
  <2>12. closeMark' > 0 => \E i \in 1..Len(queue') : queue'[i].shutdownAfter /\ queue'[i].last = closeMark'
    <3>1. CASE closeMark > 0
      <4>1. PICK i \in 1..Len(queue) : queue[i].shutdownAfter /\ queue[i].last = closeMark
        BY <1>2, <3>1 DEF CoreInv, MarkInv
      <4>2. i \in 1..Len(queue') /\ queue'[i] = queue[i]
        BY <2>3, <4>1
      <4> QED BY <2>10, <3>1, <4>1, <4>2
    <3>2. CASE ~(closeMark > 0) /\ sd
      <4>1. closeMark' = given + n
        BY <2>1, <3>2 DEF CoreInv
      <4>2. Len(queue) + 1 \in 1..Len(queue')
        BY <2>3
      <4>3. queue'[Len(queue) + 1].shutdownAfter /\ queue'[Len(queue) + 1].last = closeMark'
        BY <2>2, <2>3, <3>2, <4>1, Zenon
      <4> QED BY <4>2, <4>3, Zenon
    <3>3. CASE ~(closeMark > 0) /\ ~sd
      BY <2>1, <3>3
    <3> QED BY <3>1, <3>2, <3>3
  <2>13. MarkInv'
    BY <2>10, <2>11, <2>12 DEF MarkInv
  <2>14. Len(wire') <= given' /\ (closeMark' > 0 => Len(wire') <= closeMark')
    <3>1. Len(wire) \in Nat /\ Len(wire) <= given /\ (closeMark > 0 => Len(wire) <= closeMark)
      BY DEF CoreInv, OpInv
    <3> QED BY <2>1, <2>5, <3>1 DEF CoreInv
  <2>15. CASE inFlight /\ UNCHANGED opVars
    <3>1. OpInv'
      BY <2>3, <2>7, <2>14, <2>15 DEF CoreInv, OpInv, opVars
    <3>2. CASE Close("no_buffer_space", "limit")
      <4>1. "no_buffer_space" \in ErrorCode /\ "limit" \in Cause
        BY DEF ErrorCode, Cause
      <4> QED BY <2>3, <2>5, <2>6, <2>9, <2>13, <2>15, <3>1, <3>2, <4>1, CloseEffect
              DEF CoreInv, ClosedOnce, opVars
    <3>3. CASE UNCHANGED <<closeVars, sock>> /\ ~(queuedBytes' > TxLimit)
      <4>1. queuedBytes' <= TxLimit
        BY <2>5, <3>3, PeerTlsAssumption
      <4> QED BY <2>3, <2>5, <2>6, <2>9, <2>13, <2>15, <3>1, <3>3, <4>1
              DEF CoreInv, ClosedOnce, opVars, closeVars
    <3> QED BY <1>2, <2>15, <3>2, <3>3 DEF Write
  <2>16. CASE ~inFlight
    <3>1. queue = <<>> /\ Len(wire) = given /\ op = Idle
      BY <1>2, <2>16 DEF CoreInv, OpInv
    <3>2. CASE queuedBytes' > TxLimit
      <4>1. Close("no_buffer_space", "limit") /\ UNCHANGED opVars
        BY <1>2, <3>2 DEF Write
      <4>2. "no_buffer_space" \in ErrorCode /\ "limit" \in Cause
        BY DEF ErrorCode, Cause
      <4>3. isClosed'
        BY <4>1, <4>2, CloseEffect
      <4>4. OpInv'
        BY <2>14, <2>16, <3>1, <4>1, <4>3 DEF OpInv, opVars
      <4> QED BY <2>3, <2>5, <2>6, <2>9, <2>13, <4>1, <4>2, <4>4, CloseEffect
              DEF CoreInv, ClosedOnce, opVars
    <3>3. CASE ~(queuedBytes' > TxLimit)
      <4>1. /\ DoWrite(m) /\ overlapped' = (overlapped \/ op # Idle)
            /\ UNCHANGED <<closeVars, sock>>
        BY <1>2, <2>8, <2>16, <3>1, <3>3 DEF Write
      <4>2. overlapped' = FALSE /\ inFlight' = TRUE
        BY <3>1, <4>1 DEF DoWrite, CoreInv
      <4>3. /\ op' \in [state : OpState, next : Nat, last : Nat]
            /\ op'.state # "none" /\ op'.state # "done" /\ op'.next = given /\ op'.last = given + n
        BY <2>2, <4>1 DEF DoWrite, OpState, CoreInv
      <4>4. OpInv'
        BY <2>2, <2>3, <2>8, <2>14, <3>1, <4>2, <4>3 DEF OpInv, CoreInv
      <4>5. queuedBytes' <= TxLimit
        BY <2>5, <3>3, PeerTlsAssumption
      <4> QED BY <2>3, <2>5, <2>6, <2>9, <2>13, <4>1, <4>2, <4>3, <4>4, <4>5
              DEF CoreInv, ClosedOnce, closeVars
    <3> QED BY <3>2, <3>3
  <2>17. inFlight => UNCHANGED opVars
    BY <1>2 DEF Write
  <2> QED BY <2>15, <2>16, <2>17
<1> QED BY <1>1, <1>2
-----------------------------------------------------------------------------
(* The write cycle. *)

\* In an open connection the front message ends no later than the first CLOSE
\* frame, since that frame is still queued.
LEMMA FrontBeforeMark ==
  ASSUME CoreInv, ~isClosed, queue # <<>>, closeMark > 0
  PROVE  queue[1] \in Message /\ queue[1].last <= closeMark
<1>1. PICK i \in 1..Len(queue) : queue[i].last = closeMark
  BY DEF CoreInv, MarkInv
<1>2. Len(queue) \in Nat /\ 1 \in 1..Len(queue) /\ queue \in Seq(Message)
  BY EmptySeq DEF CoreInv
<1>3. queue[1] \in Message /\ queue[i] \in Message
  BY <1>2
<1>4. CASE i = 1
  BY <1>1, <1>3, <1>4 DEF Message
<1>5. CASE i # 1
  <2>1. queue[1].last <= queue[i].first /\ queue[i].first < queue[i].last
    BY <1>2, <1>5 DEF CoreInv, QueueInv
  <2> QED BY <1>1, <1>3, <2>1 DEF Message
<1> QED BY <1>4, <1>5

\* async_write extends the wire by the next bytes of the front message.
LEMMA TransmitStep ==
  ASSUME CoreInv, NEW k \in Nat \ {0}, Transmit(k)
  PROVE  /\ CoreInv'
         /\ ~isClosed /\ UNCHANGED <<closeVars, queueVars>>
         /\ Len(wire) \in Nat /\ Len(wire') >= Len(wire)
<1>1. /\ op.state = "pending" /\ sock = "open" /\ op.next + k <= op.last
      /\ wire' = wire \o Stream(op.next, op.next + k)
      /\ op' = [op EXCEPT !.next = op.next + k,
                          !.state = IF op.next + k = op.last THEN "done" ELSE "pending"]
      /\ UNCHANGED <<closeVars, queueVars, inFlight, overlapped, sock>>
  BY DEF Transmit, netVars
<1>2. ~isClosed /\ inFlight
  BY <1>1 DEF CoreInv, OpInv, Idle
<1>3. /\ queue # <<>> /\ Len(wire) = op.next /\ op.last = queue[1].last
      /\ op.next \in queue[1].first..queue[1].last
  BY <1>2 DEF CoreInv, OpInv
<1>4. /\ op.next \in Nat /\ op.last \in Nat /\ wire \in Seq(Nat) /\ wire = Stream(0, op.next)
      /\ queue \in Seq(Message) /\ given \in Nat /\ closeMark \in Nat
  BY <1>3 DEF CoreInv
<1>5. 1 \in 1..Len(queue) /\ queue[1] \in Message /\ queue[1].first \in Nat /\ queue[1].last <= given
  <2>1. 1 \in 1..Len(queue) /\ queue[1] \in Message
    BY <1>3, <1>4, EmptySeq
  <2> QED BY <2>1 DEF CoreInv, QueueInv, Message
<1>6. wire' \in Seq(Nat) /\ Len(wire') = op.next + k /\ wire' = Stream(0, op.next + k)
  <2>1. k \in Nat /\ op.next \in Nat
    BY <1>4
  <2>2. /\ Stream(0, op.next) \o Stream(op.next, op.next + k) \in Seq(Nat)
        /\ Len(Stream(0, op.next) \o Stream(op.next, op.next + k)) = op.next + k
        /\ Stream(0, op.next) \o Stream(op.next, op.next + k) = Stream(0, op.next + k)
    BY <2>1, WireGrows, Zenon
  <2>3. wire' = Stream(0, op.next) \o Stream(op.next, op.next + k)
    BY <1>1, <1>4
  <2> QED BY <2>2, <2>3, Zenon
<1>7. /\ op' \in [state : OpState, next : Nat, last : Nat]
      /\ op'.next = op.next + k /\ op'.last = op.last
      /\ op'.state = IF op.next + k = op.last THEN "done" ELSE "pending"
  <2>1. op \in [state : OpState, next : Nat, last : Nat]
    BY DEF CoreInv
  <2>2. op.next + k \in Nat /\ {"done", "pending"} \subseteq OpState
    BY <1>4 DEF OpState
  <2> QED BY <1>1, <2>1, <2>2
<1>8. Len(wire') <= given' /\ (closeMark' > 0 => Len(wire') <= closeMark')
  <2>1. closeMark > 0 => queue[1].last <= closeMark
    BY <1>2, <1>3, FrontBeforeMark
  <2> QED BY <1>1, <1>3, <1>4, <1>5, <1>6, <2>1 DEF queueVars
<1>9. OpInv'
  BY <1>1, <1>2, <1>3, <1>4, <1>5, <1>6, <1>7, <1>8 DEF OpInv, closeVars, queueVars
<1>10. CoreInv'
  BY <1>1, <1>6, <1>7, <1>9
     DEF CoreInv, closeVars, queueVars, QueueInv, MarkInv, QueueAccounted, ClosedOnce
<1> QED BY <1>1, <1>2, <1>3, <1>4, <1>6, <1>10

\* What a finished write leaves of the queue.
LEMMA TailQueue ==
  ASSUME CoreInv, queue # <<>>, queue' = Tail(queue),
         queuedBytes' = queuedBytes - (Head(queue).last - Head(queue).first),
         UNCHANGED <<given, closeMark>>
  PROVE  /\ queue' \in Seq(Message) /\ queuedBytes' \in Nat /\ queuedBytes' <= queuedBytes
         /\ Head(queue) = queue[1] /\ queue[1] \in Message
         /\ QueueInv' /\ QueueAccounted'
         /\ \A i \in 1..Len(queue') : queue'[i].shutdownAfter
                                     => closeMark > 0 /\ closeMark <= queue'[i].last
         /\ queue' # <<>> => /\ Head(queue') = queue'[1] /\ queue'[1] \in Message
                            /\ queue'[1].first = queue[1].last
         /\ queue' = <<>> => queue[1].last = given
<1>1. /\ queue' \in Seq(Message) /\ Head(queue) = queue[1]
      /\ Len(queue) \in Nat \ {0} /\ Len(queue') = Len(queue) - 1
      /\ \A i \in 1..Len(queue') : queue'[i] = queue[i + 1]
      /\ queue' = <<>> <=> Len(queue) = 1
  <2>1. queue \in Seq(Message)
    BY DEF CoreInv
  <2>2. /\ Tail(queue) \in Seq(Message) /\ Head(queue) = queue[1]
        /\ Len(queue) \in Nat \ {0} /\ Len(Tail(queue)) = Len(queue) - 1
        /\ \A i \in 1..Len(Tail(queue)) : Tail(queue)[i] = queue[i + 1]
        /\ Tail(queue) = <<>> <=> Len(queue) = 1
    BY <2>1, TailMessages, Zenon
  <2> QED BY <2>2, Zenon
<1>2. \A i \in 1..Len(queue) : queue[i] \in Message /\ queue[i].first \in Nat /\ queue[i].last \in Nat
  <2>1. \A i \in 1..Len(queue) : queue[i] \in Message
    BY DEF CoreInv
  <2> QED BY <2>1 DEF Message
<1>3. \A i \in 1..Len(queue') : i + 1 \in 1..Len(queue) /\ queue'[i] = queue[i + 1]
  BY <1>1
<1>4. QueueInv'
  <2>1. ASSUME NEW i \in 1..Len(queue')
        PROVE  queue'[i].first < queue'[i].last /\ queue'[i].last <= given'
    BY <1>3 DEF CoreInv, QueueInv
  <2>2. ASSUME NEW i \in 1..Len(queue'), NEW j \in 1..Len(queue'), i < j
        PROVE  queue'[i].last <= queue'[j].first
    <3>1. i + 1 < j + 1
      BY <2>2, <1>1
    <3> QED BY <1>3, <3>1 DEF CoreInv, QueueInv
  <2>3. ASSUME NEW i \in 1..Len(queue'), i < Len(queue')
        PROVE  queue'[i + 1].first = queue'[i].last
    <3>1. i + 1 \in 1..Len(queue') /\ i + 1 < Len(queue)
      BY <1>1, <2>3
    <3> QED BY <1>3, <3>1 DEF CoreInv, QueueInv
  <2>4. queue' # <<>> => queue'[Len(queue')].last = given'
    <3>1. SUFFICES ASSUME queue' # <<>>
                   PROVE  queue'[Len(queue')].last = given'
      OBVIOUS
    <3>2. Len(queue') \in 1..Len(queue') /\ Len(queue') + 1 = Len(queue)
      BY <1>1, <3>1
    <3>3. queue'[Len(queue')] = queue[Len(queue)]
      BY <1>3, <3>2
    <3> QED BY <3>3 DEF CoreInv, QueueInv
  <2> QED BY <2>1, <2>2, <2>3, <2>4 DEF QueueInv
<1>5. 1 \in 1..Len(queue) /\ Len(queue) \in 1..Len(queue) /\ given \in Nat
  BY <1>1 DEF CoreInv
<1>6. queuedBytes = given - queue[1].first /\ queue[1].first < queue[1].last /\ queue[1].last <= given
  BY <1>5 DEF CoreInv, QueueAccounted, QueueInv
<1>7. queuedBytes' = given - queue[1].last /\ queuedBytes' \in Nat /\ queuedBytes' <= queuedBytes
  BY <1>1, <1>2, <1>5, <1>6
<1>8. queue' # <<>> => /\ Head(queue') = queue'[1] /\ queue'[1] \in Message
                       /\ queue'[1].first = queue[1].last
  <2>1. SUFFICES ASSUME queue' # <<>>
                 PROVE  /\ Head(queue') = queue'[1] /\ queue'[1] \in Message
                        /\ queue'[1].first = queue[1].last
    OBVIOUS
  <2>2. 1 \in 1..Len(queue') /\ 1 < Len(queue)
    BY <1>1, <2>1
  <2>3. queue'[1] = queue[1 + 1] /\ 1 + 1 \in 1..Len(queue)
    BY <1>3, <2>2
  <2>4. queue[1 + 1].first = queue[1].last
    BY <1>5, <2>2 DEF CoreInv, QueueInv
  <2>5. Head(queue') = queue'[1]
    BY <1>1, <2>1, HeadTailProperties
  <2> QED BY <1>2, <2>3, <2>4, <2>5
<1>9. queue' = <<>> => queue[1].last = given
  BY <1>1 DEF CoreInv, QueueInv
<1>10. QueueAccounted'
  <2>1. CASE queue' = <<>>
    BY <1>2, <1>5, <1>7, <1>9, <2>1 DEF QueueAccounted
  <2>2. CASE queue' # <<>>
    BY <1>4, <1>7, <1>8, <2>2 DEF QueueAccounted, QueueInv
  <2> QED BY <2>1, <2>2
<1>11. ASSUME NEW i \in 1..Len(queue'), queue'[i].shutdownAfter
       PROVE  closeMark > 0 /\ closeMark <= queue'[i].last
  BY <1>3, <1>11 DEF CoreInv, MarkInv
<1> QED BY <1>1, <1>2, <1>4, <1>5, <1>7, <1>8, <1>9, <1>10, <1>11

\* A write that is done has sent the whole front message.
LEMMA DoneIsSent ==
  ASSUME CoreInv, op.state = "done"
  PROVE  inFlight /\ queue # <<>> /\ Len(wire) = queue[1].last
  BY DEF CoreInv, OpInv, Idle

\* finish_write removes the front message and closes, rests, or starts the
\* next write.
LEMMA FinishWriteStep ==
  ASSUME CoreInv, FinishWrite
  PROVE  CoreInv'
<1>1. inFlight /\ queue # <<>> /\ Len(wire) = queue[1].last
  BY DoneIsSent DEF FinishWrite
<1>2. /\ queue' = Tail(queue)
      /\ queuedBytes' = queuedBytes - (Head(queue).last - Head(queue).first)
      /\ UNCHANGED <<given, closeMark>> /\ wire' = wire /\ overlapped' = overlapped
  BY DEF FinishWrite
<1>3. /\ queue' \in Seq(Message) /\ queuedBytes' \in Nat /\ queuedBytes' <= queuedBytes
      /\ Head(queue) = queue[1] /\ queue[1] \in Message
      /\ QueueInv' /\ QueueAccounted'
      /\ \A i \in 1..Len(queue') : queue'[i].shutdownAfter
                                  => closeMark > 0 /\ closeMark <= queue'[i].last
      /\ queue' # <<>> => /\ Head(queue') = queue'[1] /\ queue'[1] \in Message
                         /\ queue'[1].first = queue[1].last
      /\ queue' = <<>> => queue[1].last = given
  BY <1>1, <1>2, TailQueue
<1>4. Len(wire') <= given' /\ (closeMark' > 0 => Len(wire') <= closeMark')
  BY <1>2 DEF CoreInv, OpInv
<1>5. ~isClosed => queuedBytes' <= TxLimit
  BY <1>3, PeerTlsAssumption DEF CoreInv
<1>6. CASE Head(queue).shutdownAfter
  <2>1. Close("success", "shutdown") /\ inFlight' = FALSE /\ op' = Idle
    BY <1>6 DEF FinishWrite
  <2>2. "success" \in ErrorCode /\ "shutdown" \in Cause
    BY DEF ErrorCode, Cause
  <2>3. isClosed' = TRUE /\ sock' = "closed" /\ Len(onClosed') = 1
        /\ onClosed' \in Seq(ErrorCode) /\ cause' \in Cause
    BY <2>1, <2>2, CloseEffect
  <2>4. OpInv'
    BY <1>4, <2>1, <2>3 DEF OpInv
  <2>5. MarkInv'
    BY <1>2, <1>3, <2>3 DEF MarkInv, CoreInv
  <2>6. op' \in [state : OpState, next : Nat, last : Nat]
    BY <2>1 DEF Idle, OpState
  <2> QED BY <1>2, <1>3, <2>1, <2>3, <2>4, <2>5, <2>6 DEF CoreInv, ClosedOnce
<1>7. CASE ~Head(queue).shutdownAfter
  <2>1. UNCHANGED <<closeVars, sock>>
    BY <1>7 DEF FinishWrite
  <2>2. MarkInv'
    <3>1. CASE ~isClosed /\ closeMark > 0
      <4>1. PICK i \in 1..Len(queue) : queue[i].shutdownAfter /\ queue[i].last = closeMark
        BY <3>1 DEF CoreInv, MarkInv
      <4>2. i # 1
        BY <1>3, <1>7, <4>1
      <4>3. /\ queue \in Seq(Message) /\ Len(queue) \in Nat /\ Len(queue') = Len(queue) - 1
            /\ \A j \in 1..Len(queue') : queue'[j] = queue[j + 1]
        <5>1. queue \in Seq(Message)
          BY DEF CoreInv
        <5> QED BY <1>1, <1>2, <5>1, TailMessages
      <4>4. i - 1 \in 1..Len(queue') /\ queue'[i - 1] = queue[i]
        BY <4>2, <4>3
      <4> QED BY <1>2, <1>3, <2>1, <4>1, <4>4 DEF MarkInv, CoreInv
    <3>2. CASE ~(~isClosed /\ closeMark > 0)
      BY <1>2, <1>3, <2>1, <3>2 DEF MarkInv, CoreInv, closeVars
    <3> QED BY <3>1, <3>2
  <2>3. CASE queue' = <<>>
    <3>1. inFlight' = FALSE /\ op' = Idle
      BY <2>3 DEF FinishWrite
    <3>2. OpInv'
      BY <1>1, <1>2, <1>3, <1>4, <2>3, <3>1 DEF OpInv
    <3>3. op' \in [state : OpState, next : Nat, last : Nat]
      BY <3>1 DEF Idle, OpState
    <3> QED BY <1>2, <1>3, <1>5, <2>1, <2>2, <3>1, <3>2, <3>3 DEF CoreInv, ClosedOnce, closeVars
  <2>4. CASE queue' # <<>>
    <3>1. DoWrite(queue'[1])
      BY <1>3, <1>7, <2>4 DEF FinishWrite
    <3>2. /\ queue'[1].first \in Nat /\ queue'[1].last \in Nat
          /\ queue'[1].first = Len(wire') /\ queue'[1].first <= queue'[1].last
      <4>1. queue'[1].first \in Nat /\ queue'[1].last \in Nat
        BY <1>3, <2>4 DEF Message
      <4>2. 1 \in 1..Len(queue')
        BY <1>3, <2>4, EmptySeq
      <4>3. queue'[1].first < queue'[1].last
        BY <1>3, <4>2 DEF QueueInv
      <4> QED BY <1>1, <1>2, <1>3, <2>4, <4>1, <4>3
    <3>3. /\ inFlight' = TRUE /\ op' \in [state : OpState, next : Nat, last : Nat]
          /\ op'.state # "none" /\ op'.state # "done"
          /\ op'.next = queue'[1].first /\ op'.last = queue'[1].last
      BY <3>1, <3>2 DEF DoWrite, OpState
    <3>4. OpInv'
      BY <1>4, <2>4, <3>2, <3>3 DEF OpInv
    <3> QED BY <1>2, <1>3, <1>5, <2>1, <2>2, <3>3, <3>4 DEF CoreInv, ClosedOnce, closeVars
  <2> QED BY <2>3, <2>4
<1> QED BY <1>6, <1>7

\* A failed write closes the connection; the message stays in the queue.
LEMMA FinishWriteErrorStep ==
  ASSUME CoreInv, FinishWriteError
  PROVE  CoreInv'
<1>1. PICK ec \in ErrorCode : Close(ec, "network")
  BY DEF FinishWriteError
<1>2. "network" \in Cause
  BY DEF Cause
<1>3. isClosed' = TRUE /\ sock' = "closed" /\ Len(onClosed') = 1
      /\ onClosed' \in Seq(ErrorCode) /\ cause' \in Cause
  BY <1>1, <1>2, CloseEffect
<1>4. inFlight' = FALSE /\ op' = Idle /\ UNCHANGED <<queueVars, overlapped, wire>>
  BY DEF FinishWriteError
<1>5. op' \in [state : OpState, next : Nat, last : Nat]
  BY <1>4 DEF Idle, OpState
<1> QED BY <1>3, <1>4, <1>5
        DEF CoreInv, queueVars, QueueInv, OpInv, MarkInv, QueueAccounted, ClosedOnce
-----------------------------------------------------------------------------
(* The invariant. *)

\* Received batches are sequences of frame kinds.
LEMMA BatchType == \A b \in Batches : b \in Seq(FrameKind)
<1> SUFFICES ASSUME NEW b \in Batches
             PROVE  b \in Seq(FrameKind)
  OBVIOUS
<1> DEFINE kinds == IF given < MaxBytes THEN FrameKind ELSE FrameKind \ {"ping", "close"}
<1>1. PICK m \in 0..MaxBatch : b \in [1..m -> kinds]
  BY DEF Batches
<1>2. m \in Nat /\ kinds \subseteq FrameKind
  BY PeerTlsAssumption
<1>3. b \in [1..m -> FrameKind]
  BY <1>1, <1>2
<1> QED BY <1>2, <1>3

\* A new peer satisfies the invariant.
LEMMA InitIInv == Init => IInv
<1> SUFFICES ASSUME Init PROVE IInv
  OBVIOUS
<1>1. /\ \A S : <<>> \in Seq(S)
      /\ Len(<<>>) = 0
  OBVIOUS
<1>2. Stream(0, 0) = <<>>
  BY DEF Stream
<1>3. RestInv
  BY <1>1 DEF Init, RestInv, RxState
<1>4. QueueInv /\ MarkInv /\ QueueAccounted /\ ClosedOnce
  BY <1>1 DEF Init, QueueInv, MarkInv, QueueAccounted, ClosedOnce
<1>5. OpInv
  BY <1>1 DEF Init, OpInv
<1>6. op \in [state : OpState, next : Nat, last : Nat]
  BY DEF Init, Idle, OpState
<1>7. queue \in Seq(Message) /\ onClosed \in Seq(ErrorCode) /\ wire \in Seq(Nat)
  BY <1>1 DEF Init
<1>8. wire = Stream(0, Len(wire))
  BY <1>1, <1>2 DEF Init
<1>9. queuedBytes <= TxLimit
  BY PeerTlsAssumption DEF Init
<1>10. CoreInv
  BY <1>4, <1>5, <1>6, <1>7, <1>8, <1>9 DEF Init, CoreInv, Cause
<1> QED BY <1>3, <1>10 DEF IInv

\* Every handler preserves the invariant.
LEMMA NextIInv == IInv /\ [Next]_vars => IInv'
<1> SUFFICES ASSUME IInv, [Next]_vars
             PROVE  CoreInv' /\ RestInv'
  BY DEF IInv
<1>0. CoreInv /\ RestInv
  BY DEF IInv
<1>1. ASSUME NEW n \in FrameSizes, Send(n)
      PROVE  CoreInv' /\ RestInv'
  <2>1. n \in Nat \ {0} /\ FALSE \in BOOLEAN
    BY PeerTlsAssumption
  <2> QED BY <1>0, <1>1, <2>1, WriteEffect DEF Send, RestInv, rxVars
<1>2. CASE Stop
  <2>1. CoreInv'
    BY <1>0, <1>2
       DEF Stop, CoreInv, closeVars, queueVars, opVars, QueueInv, OpInv, MarkInv,
           QueueAccounted, ClosedOnce
  <2>2. stopped' \in BOOLEAN
    BY <1>0, <1>2, Zenon DEF Stop
  <2> QED BY <1>0, <1>2, <2>1, <2>2 DEF Stop, RestInv, rxVars
<1>3. CASE Run \/ RunWithData \/ ReadDone
  BY <1>0, <1>3, NoWrite DEF Run, RunWithData, ReadDone, DoRead, RestInv, RxState, OpState, netVars
<1>4. CASE RunPosted
  <2>1. CASE /\ rx' = "processing" /\ frames' \in Batches
             /\ UNCHANGED <<closeVars, sock>>
             /\ UNCHANGED <<link, queueVars, opVars, wire, stopped>>
    BY <1>0, <2>1, NoWrite, BatchType DEF RestInv, RxState
  <2>2. CASE /\ rx' = "none" /\ UNCHANGED frames /\ Close("no_buffer_space", "limit")
             /\ UNCHANGED <<link, queueVars, opVars, wire, stopped>>
    <3>1. "no_buffer_space" \in ErrorCode /\ "limit" \in Cause
      BY DEF ErrorCode, Cause
    <3> QED BY <1>0, <2>2, <3>1, CloseOnly DEF RestInv, RxState, OpState
  <2> QED BY <1>4, <2>1, <2>2 DEF RunPosted
<1>5. CASE FinishReadError
  <2>1. PICK ec \in ErrorCode : Close(ec, "network")
    BY <1>5 DEF FinishReadError
  <2>2. "network" \in Cause
    BY DEF Cause
  <2> QED BY <1>0, <1>5, <2>1, <2>2, CloseOnly DEF FinishReadError, RestInv, RxState, OpState
<1>6. CASE FinishRead
  BY <1>0, <1>6, NoWrite, BatchType DEF FinishRead, RestInv, RxState, netVars
<1>7. CASE ProcessFrame
  <2>1. frames \in Seq(FrameKind) /\ frames # <<>> /\ Tail(frames) \in Seq(FrameKind)
    BY <1>0, <1>7, HeadTailProperties DEF RestInv, ProcessFrame
  <2>2. UNCHANGED <<link, wire, stopped>>
    BY <1>7 DEF ProcessFrame
  <2>3. CASE /\ frames' = Tail(frames)
             /\ UNCHANGED <<sock, rx, closeVars, queueVars, opVars>>
    BY <1>0, <2>1, <2>2, <2>3, NoWrite DEF RestInv
  <2>4. CASE /\ frames' = Tail(frames)
             /\ Write(ControlSize, Head(frames) = "close")
             /\ UNCHANGED rx
    <3>1. ControlSize \in Nat \ {0} /\ (Head(frames) = "close") \in BOOLEAN
      BY PeerTlsAssumption
    <3>2. CoreInv'
      BY <1>0, <2>2, <2>4, <3>1, WriteEffect
    <3> QED BY <1>0, <2>1, <2>2, <2>4, <3>2 DEF RestInv
  <2>5. CASE /\ frames' = <<>> /\ rx' = "none"
             /\ Close("not_supported", "frame")
             /\ UNCHANGED <<queueVars, opVars>>
    <3>1. "not_supported" \in ErrorCode /\ "frame" \in Cause /\ <<>> \in Seq(FrameKind)
      BY DEF ErrorCode, Cause
    <3> QED BY <1>0, <2>2, <2>5, <3>1, CloseOnly DEF RestInv, RxState, OpState
  <2> QED BY <1>7, <2>3, <2>4, <2>5 DEF ProcessFrame
<1>8. CASE FinishProcess
  <2>1. CASE DoRead /\ UNCHANGED <<closeVars, sock, link, frames, queueVars, opVars, wire, stopped>>
    BY <1>0, <2>1, NoWrite DEF DoRead, RestInv, RxState, OpState
  <2>2. CASE /\ rx' = "none" /\ Close("no_buffer_space", "limit")
             /\ UNCHANGED <<link, frames, queueVars, opVars, wire, stopped>>
    <3>1. "no_buffer_space" \in ErrorCode /\ "limit" \in Cause
      BY DEF ErrorCode, Cause
    <3> QED BY <1>0, <2>2, <3>1, CloseOnly DEF RestInv, RxState, OpState
  <2> QED BY <1>8, <2>1, <2>2 DEF FinishProcess
<1>9. ASSUME NEW k \in 1..MaxBytes, Transmit(k)
      PROVE  CoreInv' /\ RestInv'
  <2>1. k \in Nat \ {0}
    BY PeerTlsAssumption
  <2> QED BY <1>0, <1>9, <2>1, TransmitStep DEF Transmit, RestInv, rxVars, netVars
<1>10. CASE FinishWriteError
  BY <1>0, <1>10, FinishWriteErrorStep DEF FinishWriteError, RestInv, rxVars
<1>11. CASE FinishWrite
  BY <1>0, <1>11, FinishWriteStep DEF FinishWrite, RestInv, rxVars
<1>12. CASE RemoteClose \/ NetworkReset
  BY <1>0, <1>12, NoWrite DEF RemoteClose, NetworkReset, RestInv, rxVars
<1>13. CASE UNCHANGED vars
  BY <1>0, <1>13, NoWrite DEF vars, RestInv, netVars, rxVars
<1> QED BY <1>1, <1>2, <1>3, <1>4, <1>5, <1>6, <1>7, <1>8, <1>9, <1>10, <1>11, <1>12, <1>13
        DEF Next
-----------------------------------------------------------------------------
(* The theorems. *)

\* The invariant holds in every reachable state, for every set of frame sizes
\* and every transmit limit.
THEOREM IInvHolds == Spec => []IInv
<1>1. Init => IInv
  BY InitIInv
<1>2. IInv /\ [Next]_vars => IInv'
  BY NextIInv
<1> QED BY <1>1, <1>2, PTL DEF Spec

\* Type correctness of the TLS peer, and that only a peer which write() closed
\* has queued more than its limit.
THEOREM PeerTlsTypeCorrect == Spec => []TypeOK
<1>1. IInv => TypeOK
  BY DEF IInv, CoreInv, RestInv, TypeOK
<1> QED BY <1>1, IInvHolds, PTL

\* At most one asynchronous write is outstanding, and none is missing while
\* something is queued.
THEOREM PeerTlsOneWriteInFlight == Spec => []OneWriteInFlight
<1>1. IInv => OneWriteInFlight
  <2> SUFFICES ASSUME CoreInv PROVE OneWriteInFlight
    BY DEF IInv
  <2>1. inFlight <=> op # Idle
    BY DEF CoreInv, OpInv, Idle
  <2> QED BY <2>1 DEF CoreInv, OpInv, OneWriteInFlight
<1> QED BY <1>1, IInvHolds, PTL

\* _tx_queued_bytes is the number of bytes of the queued messages.
THEOREM PeerTlsQueueAccounted == Spec => []QueueAccounted
<1>1. IInv => QueueAccounted
  BY DEF IInv, CoreInv
<1> QED BY <1>1, IInvHolds, PTL

\* The wire carries the frames in order and without gap or repetition, however
\* the operating system cuts the writes.
THEOREM PeerTlsStreamIntact == Spec => []StreamIntact
<1>1. IInv => StreamIntact
  <2> SUFFICES ASSUME CoreInv PROVE StreamIntact
    BY DEF IInv
  <2>1. CASE queue = <<>>
    BY <2>1 DEF CoreInv, OpInv, StreamIntact
  <2>2. CASE queue # <<>>
    BY <2>2 DEF CoreInv, OpInv, QueueInv, StreamIntact
  <2> QED BY <2>1, <2>2
<1> QED BY <1>1, IInvHolds, PTL

\* on_closed is raised once and only by the step that closes the peer.
THEOREM PeerTlsClosedOnce == Spec => []ClosedOnce
<1>1. IInv => ClosedOnce
  BY DEF IInv, CoreInv
<1> QED BY <1>1, IInvHolds, PTL
-----------------------------------------------------------------------------
(* The refinement. *)

\* The bytes up to the first CLOSE frame, which are all that may go out.
Accepted == IF closeMark > 0 THEN closeMark ELSE given

\* What a step may do to the refinement's state: a closed connection stays as
\* it is; an open one sends more or not, and closes for a CLOSE frame only
\* when everything accepted is out.
StreamStep ==
  /\ isClosed => wire' = wire /\ isClosed' = isClosed /\ cause' = cause
  /\ Len(wire') >= Len(wire)
  /\ ~isClosed /\ isClosed' /\ cause' = "shutdown" => Len(wire') = Accepted'
  /\ Accepted' >= Accepted

\* A step that leaves the queue and the wire alone closes for another reason.
LEMMA QuietStreamStep ==
  ASSUME CoreInv, UNCHANGED <<queueVars, wire>>,
         \/ UNCHANGED closeVars
         \/ \E ec, why : Close(ec, why) /\ why # "shutdown"
  PROVE  StreamStep
<1>1. Accepted \in Nat /\ Accepted' = Accepted /\ Len(wire) \in Nat
  BY DEF CoreInv, Accepted, queueVars
<1> QED BY <1>1 DEF StreamStep, Close, closeVars

\* write() adds to what is accepted until the first CLOSE frame is.
LEMMA WriteStreamStep ==
  ASSUME CoreInv, NEW n \in Nat \ {0}, NEW sd \in BOOLEAN, Write(n, sd), UNCHANGED wire
  PROVE  StreamStep
<1>1. Len(wire) \in Nat /\ given \in Nat /\ closeMark \in Nat /\ closeMark <= given
  BY DEF CoreInv, MarkInv
<1>2. CASE isClosed
  BY <1>2, QuietStreamStep DEF Write
<1>3. CASE ~isClosed
  <2>1. /\ given' = given + n
        /\ closeMark' = IF sd /\ closeMark = 0 THEN given + n ELSE closeMark
        /\ UNCHANGED closeVars \/ Close("no_buffer_space", "limit")
    BY <1>3 DEF Write
  <2>2. Accepted' >= Accepted
    BY <1>1, <2>1 DEF Accepted
  <2>3. isClosed' => cause' # "shutdown"
    BY <1>3, <2>1 DEF Close, closeVars
  <2> QED BY <1>1, <1>3, <2>2, <2>3 DEF StreamStep
<1> QED BY <1>2, <1>3

\* finish_write shuts down for the first CLOSE frame, and everything up to it
\* is out.
LEMMA FinishWriteStreamStep ==
  ASSUME CoreInv, FinishWrite
  PROVE  StreamStep
<1>1. inFlight /\ queue # <<>> /\ Len(wire) = queue[1].last /\ Len(wire) \in Nat
  <2>1. op.state = "done"
    BY DEF FinishWrite
  <2>2. Len(wire) \in Nat
    BY DEF CoreInv
  <2> QED BY <2>1, <2>2, DoneIsSent
<1>2. UNCHANGED <<given, closeMark, wire>> /\ Accepted \in Nat /\ Accepted' = Accepted
  BY DEF FinishWrite, CoreInv, Accepted
<1>3. CASE isClosed
  BY <1>1, <1>2, <1>3 DEF FinishWrite, Close, closeVars, StreamStep
<1>4. CASE ~isClosed /\ ~Head(queue).shutdownAfter
  BY <1>1, <1>2, <1>4 DEF FinishWrite, closeVars, StreamStep
<1>5. CASE ~isClosed /\ Head(queue).shutdownAfter
  <2>1. Head(queue) = queue[1] /\ 1 \in 1..Len(queue)
    BY <1>1, HeadTailProperties, EmptySeq DEF CoreInv
  <2>2. closeMark > 0 /\ closeMark <= queue[1].last
    BY <1>5, <2>1 DEF CoreInv, MarkInv
  <2>3. queue[1].last <= closeMark
    BY <1>1, <1>5, <2>2, FrontBeforeMark
  <2>4. Len(wire') = Accepted'
    BY <1>1, <1>2, <2>2, <2>3 DEF Accepted, CoreInv
  <2> QED BY <1>1, <1>2, <1>5, <2>4 DEF StreamStep
<1> QED BY <1>3, <1>4, <1>5

\* Every step is a StreamStep.
LEMMA NextStreamStep == IInv /\ Next => StreamStep
<1> SUFFICES ASSUME CoreInv, Next
             PROVE  StreamStep
  BY DEF IInv
<1>1. ASSUME NEW n \in FrameSizes, Send(n)
      PROVE  StreamStep
  <2>1. n \in Nat \ {0} /\ FALSE \in BOOLEAN
    BY PeerTlsAssumption
  <2> QED BY <1>1, <2>1, WriteStreamStep DEF Send
<1>2. CASE \/ Stop \/ Run \/ RunWithData \/ ReadDone \/ FinishRead \/ RemoteClose \/ NetworkReset
           \/ RunPosted \/ FinishReadError \/ FinishProcess \/ FinishWriteError
  <2>1. /\ UNCHANGED <<queueVars, wire>>
        /\ UNCHANGED closeVars \/ \E ec, why : Close(ec, why) /\ why # "shutdown"
    BY <1>2 DEF Stop, Run, RunWithData, ReadDone, FinishRead, RemoteClose, NetworkReset,
                RunPosted, FinishReadError, FinishProcess, FinishWriteError
  <2> QED BY <2>1, QuietStreamStep
<1>3. CASE ProcessFrame
  <2>1. ControlSize \in Nat \ {0} /\ (Head(frames) = "close") \in BOOLEAN
    BY PeerTlsAssumption
  <2>2. CASE Write(ControlSize, Head(frames) = "close") /\ UNCHANGED wire
    BY <2>1, <2>2, WriteStreamStep
  <2>3. CASE /\ UNCHANGED <<queueVars, wire>>
             /\ UNCHANGED closeVars \/ Close("not_supported", "frame")
    BY <2>3, QuietStreamStep
  <2> QED BY <1>3, <2>2, <2>3 DEF ProcessFrame
<1>4. ASSUME NEW k \in 1..MaxBytes, Transmit(k)
      PROVE  StreamStep
  <2>1. k \in Nat \ {0}
    BY PeerTlsAssumption
  <2>2. /\ ~isClosed /\ UNCHANGED <<closeVars, queueVars>>
        /\ Len(wire) \in Nat /\ Len(wire') >= Len(wire)
    BY <1>4, <2>1, TransmitStep
  <2>3. Accepted \in Nat /\ Accepted' = Accepted
    BY <2>2 DEF CoreInv, Accepted, queueVars
  <2> QED BY <2>2, <2>3 DEF StreamStep, closeVars
<1>5. CASE FinishWrite
  BY <1>5, FinishWriteStreamStep
<1> QED BY <1>1, <1>2, <1>3, <1>4, <1>5 DEF Next

\* The abstract stream numbers its bytes as the wire does.
LEMMA FirstBytesAreStream == \A n \in Nat : Abstract!FirstBytes(n) = Stream(0, n)
  BY DEF Abstract!FirstBytes, Stream

\* The TLS peer implements the abstract stream: every step of write() and of
\* its handlers is a transfer, an end that cuts the stream, an orderly end with
\* everything up to the CLOSE frame on the wire, or nothing.
THEOREM PeerTlsImplementsStream == Spec => ImplementsStream
<1>1. Init => Abstract!Init
  BY DEF Init, Abstract!Init
<1>2. IInv /\ IInv' /\ [Next]_vars => [Abstract!Next]_(Abstract!vars)
  <2> SUFFICES ASSUME IInv, IInv', Next
               PROVE  Abstract!Next
    BY DEF vars, closeVars, queueVars, Abstract!vars
  <2>1. StreamStep
    BY NextStreamStep
  <2>2. /\ isClosed \in BOOLEAN /\ isClosed' \in BOOLEAN
        /\ Accepted' \in Nat /\ Accepted' >= Accepted
    BY <2>1 DEF IInv, CoreInv, Accepted, StreamStep
  <2>3. CASE isClosed
    BY <2>1, <2>2, <2>3 DEF StreamStep, Accepted, Abstract!Next, Abstract!Discard
  <2>4. CASE ~isClosed
    <3>1. /\ Len(wire) \in Nat /\ Len(wire') \in Nat
          /\ Len(wire') >= Len(wire) /\ Len(wire') <= Accepted'
      BY <2>1 DEF IInv, CoreInv, OpInv, Accepted, StreamStep
    <3>2. wire' = Abstract!FirstBytes(Len(wire'))
      BY <3>1, FirstBytesAreStream DEF IInv, CoreInv
    <3>3. Len(wire') \in Len(wire)..Accepted'
      BY <2>2, <3>1
    <3>4. Abstract!Progress
      BY <2>2, <3>2, <3>3 DEF Abstract!Progress, Accepted
    <3>5. CASE ~isClosed'
      BY <2>4, <3>4, <3>5 DEF Abstract!Next, Abstract!Transfer
    <3>6. CASE isClosed' /\ cause' # "shutdown"
      BY <2>4, <3>4, <3>6 DEF Abstract!Next, Abstract!Cut
    <3>7. CASE isClosed' /\ cause' = "shutdown"
      <4>1. wire' = Abstract!FirstBytes(Accepted')
        BY <2>1, <2>4, <3>2, <3>7 DEF StreamStep
      <4> QED BY <2>4, <3>4, <3>7, <4>1 DEF Abstract!Next, Abstract!Finish, Accepted
    <3> QED BY <3>5, <3>6, <3>7
  <2> QED BY <2>3, <2>4
<1> QED BY <1>1, <1>2, IInvHolds, PTL DEF Spec, ImplementsStream, Abstract!Spec
=============================================================================
