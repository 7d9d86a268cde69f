------------------------------- MODULE PeerTls -------------------------------
(***************************************************************************)
(* detail::peer_tls, the TLS implementation of detail::base_peer.  Unlike  *)
(* the plain peer it never writes to the socket itself: every frame is     *)
(* copied into a queue, and one asynchronous write at a time sends the     *)
(* frame at its front.  Reading is one asynchronous read at a time; every  *)
(* frame of the received bytes is processed before the next one starts.    *)
(*                                                                         *)
(* All of this runs on one execution context.  A handler is one action,    *)
(* except that the loop over received frames takes one step per frame,     *)
(* because a frame's callbacks may send or stop in between.  The handlers  *)
(* own the peer, so they also run after everybody else dropped it.         *)
(*                                                                         *)
(* A byte is its position in the stream of all bytes write() accepted.     *)
(***************************************************************************)
EXTENDS Integers, Sequences

CONSTANTS FrameSizes,  \* lengths of the frames the application sends
          ControlSize, \* length of a PONG or CLOSE frame
          TxLimit,     \* tx_buffer_size, in bytes
          MaxBatch,    \* bound: complete frames in one receive
          MaxBytes     \* bound: bytes the application sends in one behaviour

ASSUME PeerTlsAssumption ==
  /\ FrameSizes \subseteq Nat \ {0}
  /\ ControlSize \in Nat \ {0}
  /\ TxLimit \in Nat
  /\ MaxBatch \in Nat
  /\ MaxBytes \in Nat

VARIABLES sock,        \* the local socket: "open" or "closed"
          link,        \* the network: "up", "eof" (remote close_notify or FIN) or "reset"
          rx,          \* where the read cycle is
          frames,      \* frames the running read handler still has to process
          queue,       \* _tx_queue
          queuedBytes, \* _tx_queued_bytes
          inFlight,    \* _write_in_flight
          op,          \* the asynchronous write as the reactor sees it
          overlapped,  \* a write was started while another one was outstanding
          isClosed,    \* _is_closed
          onClosed,    \* the error codes on_closed was raised with
          cause,       \* what made close() run
          stopped,     \* stop() was called on a peer that was not closed
          wire,        \* every byte the socket accepted, in order
          given,       \* how many bytes write() accepted
          closeMark    \* where the first CLOSE frame ends, 0 if there is none

netVars == <<sock, link>>
rxVars == <<rx, frames>>
closeVars == <<isClosed, onClosed, cause>>
queueVars == <<queue, queuedBytes, given, closeMark>>
opVars == <<inFlight, op, overlapped>>
vars == <<netVars, rxVars, closeVars, queueVars, opVars, wire, stopped>>

\* An operation is pending, its handler is queued with success, or it was
\* started on a closed socket.
OpState == {"none", "pending", "done", "refused"}
RxState == OpState \cup {"new", "posted", "overflow", "processing"}
FrameKind == {"binary", "other", "ping", "close", "fragment"}
ErrorCode == {"success", "aborted", "bad_descriptor", "eof", "reset",
              "no_buffer_space", "not_supported"}
Cause == {"none", "network", "limit", "frame", "shutdown"}

\* A tx_message: the bytes first + 1 .. last of the stream.
Message == [first : Nat, last : Nat, shutdownAfter : BOOLEAN]

Idle == [state |-> "none", next |-> 0, last |-> 0]

\* The bytes a+1 .. b of the stream given to write().
Stream(a, b) == [i \in 1..(b - a) |-> a + i]

Init ==
  /\ sock = "open" /\ link = "up"
  /\ rx = "new" /\ frames = <<>>
  /\ queue = <<>> /\ queuedBytes = 0 /\ given = 0 /\ closeMark = 0
  /\ inFlight = FALSE /\ op = Idle /\ overlapped = FALSE
  /\ isClosed = FALSE /\ onClosed = <<>> /\ cause = "none"
  /\ stopped = FALSE
  /\ wire = <<>>
-----------------------------------------------------------------------------
\* base_peer::close with shutdown_and_close; on_closed is raised synchronously.
Close(ec, why) ==
  IF isClosed
    THEN UNCHANGED <<closeVars, sock>>
    ELSE /\ isClosed' = TRUE /\ sock' = "closed"
         /\ onClosed' = Append(onClosed, ec) /\ cause' = why

\* do_write: one asynchronous write of the whole message m.
DoWrite(m) ==
  /\ inFlight' = TRUE
  /\ op' = [state |-> IF sock = "open" THEN "pending" ELSE "refused",
            next |-> m.first, last |-> m.last]

\* Mutant of Write: every message starts a write.
WriteAlwaysStarts(n, shutdownAfter) ==
  IF isClosed
    THEN UNCHANGED <<queueVars, opVars, closeVars, sock>>
    ELSE /\ queue' = Append(queue, [first |-> given, last |-> given + n,
                                    shutdownAfter |-> shutdownAfter])
         /\ queuedBytes' = queuedBytes + n
         /\ given' = given + n
         /\ closeMark' = IF shutdownAfter /\ closeMark = 0 THEN given + n ELSE closeMark
         /\ IF queuedBytes' > TxLimit
              THEN Close("no_buffer_space", "limit") /\ UNCHANGED opVars
              ELSE /\ DoWrite(Head(queue')) /\ overlapped' = (overlapped \/ op # Idle)
                   /\ UNCHANGED <<closeVars, sock>>

\* write: the message joins the queue, even when it is the one that exceeds
\* the limit; a write starts unless one is in flight.
Write(n, shutdownAfter) ==
  IF isClosed
    THEN UNCHANGED <<queueVars, opVars, closeVars, sock>>
    ELSE /\ queue' = Append(queue, [first |-> given, last |-> given + n,
                                    shutdownAfter |-> shutdownAfter])
         /\ queuedBytes' = queuedBytes + n
         /\ given' = given + n
         /\ closeMark' = IF shutdownAfter /\ closeMark = 0 THEN given + n ELSE closeMark
         /\ IF queuedBytes' > TxLimit
              THEN Close("no_buffer_space", "limit") /\ UNCHANGED opVars
              ELSE /\ IF inFlight THEN UNCHANGED opVars
                      ELSE DoWrite(Head(queue')) /\ overlapped' = (overlapped \/ op # Idle)
                   /\ UNCHANGED <<closeVars, sock>>
-----------------------------------------------------------------------------
(* The application and its callbacks. *)

\* send_data, send_metadata.
Send(n) ==
  /\ given + n <= MaxBytes
  /\ Write(n, FALSE)
  /\ UNCHANGED <<rxVars, link, wire, stopped>>

\* base_peer::stop: only the socket is closed.
Stop ==
  /\ ~stopped
  /\ sock' = "closed"
  /\ stopped' = ~isClosed
  /\ UNCHANGED <<link, rxVars, closeVars, queueVars, opVars, wire>>
-----------------------------------------------------------------------------
(* The read cycle. *)

\* do_read.
DoRead == rx' = IF sock = "open" THEN "pending" ELSE "refused"

\* run without initial data.
Run ==
  /\ rx = "new"
  /\ DoRead
  /\ UNCHANGED <<netVars, frames, closeVars, queueVars, opVars, wire, stopped>>

\* run(data, size): handed-over bytes are processed, or found not to fit, by a
\* posted handler.
RunWithData ==
  /\ rx = "new"
  /\ rx' \in {"posted", "overflow"}
  /\ UNCHANGED <<netVars, frames, closeVars, queueVars, opVars, wire, stopped>>

\* The complete frames the received bytes hold.  Frames that call for an
\* answer stop arriving once the bound on written bytes is reached.
Batches ==
  LET kinds == IF given < MaxBytes THEN FrameKind ELSE FrameKind \ {"ping", "close"}
  IN  UNION {[1..m -> kinds] : m \in 0..MaxBatch}

\* The posted process_buffer, or the posted close.
RunPosted ==
  /\ \/ /\ rx = "posted"
        /\ rx' = "processing" /\ frames' \in Batches
        /\ UNCHANGED <<closeVars, sock>>
     \/ /\ rx = "overflow"
        /\ rx' = "none" /\ UNCHANGED frames
        /\ Close("no_buffer_space", "limit")
  /\ UNCHANGED <<link, queueVars, opVars, wire, stopped>>

\* The TLS engine has decrypted bytes for the pending read.
ReadDone ==
  /\ rx = "pending" /\ sock = "open" /\ link # "reset"
  /\ rx' = "done"
  /\ UNCHANGED <<netVars, frames, closeVars, queueVars, opVars, wire, stopped>>

\* How an operation that is not done can fail.
Failure(state, ec) ==
  \/ state = "pending" /\ sock = "closed" /\ ec = "aborted"
  \/ state = "pending" /\ sock = "open" /\ link = "reset" /\ ec = "reset"
  \/ state = "refused" /\ ec = "bad_descriptor"

\* finish_read with an error.
FinishReadError ==
  /\ \E ec \in ErrorCode :
       /\ Failure(rx, ec) \/ (rx = "pending" /\ sock = "open" /\ link = "eof" /\ ec = "eof")
       /\ Close(ec, "network")
  /\ rx' = "none"
  /\ UNCHANGED <<link, frames, queueVars, opVars, wire, stopped>>

\* finish_read: process_buffer starts, also on a peer that was stopped or
\* closed meanwhile.  A read always has room, so that it brings some byte.
FinishRead ==
  /\ rx = "done"
  /\ rx' = "processing" /\ frames' \in Batches
  /\ UNCHANGED <<netVars, closeVars, queueVars, opVars, wire, stopped>>

\* One iteration of process_buffer_ws's loop: process_websocket_frame.
ProcessFrame ==
  /\ rx = "processing" /\ frames # <<>>
  /\ \/ /\ Head(frames) \in {"binary", "other"}
        /\ frames' = Tail(frames)
        /\ UNCHANGED <<sock, rx, closeVars, queueVars, opVars>>
     \/ /\ Head(frames) \in {"ping", "close"}
        /\ frames' = Tail(frames)
        /\ Write(ControlSize, Head(frames) = "close")
        /\ UNCHANGED rx
     \/ /\ Head(frames) = "fragment"
        /\ frames' = <<>> /\ rx' = "none"
        /\ Close("not_supported", "frame")
        /\ UNCHANGED <<queueVars, opVars>>
  /\ UNCHANGED <<link, wire, stopped>>

\* The end of process_buffer: the remainder does not fit even the grown
\* buffer, or the next read starts.
FinishProcess ==
  /\ rx = "processing" /\ frames = <<>>
  /\ \/ /\ DoRead
        /\ UNCHANGED <<closeVars, sock>>
     \/ /\ rx' = "none"
        /\ Close("no_buffer_space", "limit")
  /\ UNCHANGED <<link, frames, queueVars, opVars, wire, stopped>>
-----------------------------------------------------------------------------
(* The write cycle.  Completion handlers run between, not inside, the read *)
(* handler's frames.                                                       *)

\* async_write gets k more bytes of its message to the socket.
Transmit(k) ==
  /\ op.state = "pending" /\ sock = "open" /\ link # "reset"
  /\ op.next + k <= op.last
  /\ wire' = wire \o Stream(op.next, op.next + k)
  /\ op' = [op EXCEPT !.next = op.next + k,
                      !.state = IF op.next + k = op.last THEN "done" ELSE "pending"]
  /\ UNCHANGED <<netVars, rxVars, closeVars, queueVars, inFlight, overlapped, stopped>>

\* finish_write with an error.
FinishWriteError ==
  /\ rx # "processing"
  /\ \E ec \in ErrorCode : Failure(op.state, ec) /\ Close(ec, "network")
  /\ inFlight' = FALSE /\ op' = Idle
  /\ UNCHANGED <<link, rxVars, queueVars, overlapped, wire, stopped>>

\* Mutants of FinishWrite: the count of queued bytes is not reduced; no
\* next write is started; a CLOSE frame anywhere in the queue closes the
\* connection.
FinishWriteKeepsCount ==
  /\ rx # "processing" /\ op.state = "done"
  /\ queue' = Tail(queue)
  /\ queuedBytes' = queuedBytes
  /\ IF Head(queue).shutdownAfter \/ queue' = <<>>
       THEN inFlight' = FALSE /\ op' = Idle
       ELSE DoWrite(Head(queue'))
  /\ IF Head(queue).shutdownAfter
       THEN Close("success", "shutdown") ELSE UNCHANGED <<closeVars, sock>>
  /\ UNCHANGED <<link, rxVars, given, closeMark, overlapped, wire, stopped>>

FinishWriteStuck ==
  /\ rx # "processing" /\ op.state = "done"
  /\ queue' = Tail(queue)
  /\ queuedBytes' = queuedBytes - (Head(queue).last - Head(queue).first)
  /\ IF Head(queue).shutdownAfter \/ queue' = <<>>
       THEN inFlight' = FALSE /\ op' = Idle
       ELSE inFlight' = TRUE /\ op' = Idle
  /\ IF Head(queue).shutdownAfter
       THEN Close("success", "shutdown") ELSE UNCHANGED <<closeVars, sock>>
  /\ UNCHANGED <<link, rxVars, given, closeMark, overlapped, wire, stopped>>

FinishWriteShutsDownEarly ==
  /\ rx # "processing" /\ op.state = "done"
  /\ queue' = Tail(queue)
  /\ queuedBytes' = queuedBytes - (Head(queue).last - Head(queue).first)
  /\ IF Head(queue).shutdownAfter \/ queue' = <<>> \/ closeMark > 0
       THEN inFlight' = FALSE /\ op' = Idle
       ELSE DoWrite(Head(queue'))
  /\ IF closeMark > 0
       THEN Close("success", "shutdown") ELSE UNCHANGED <<closeVars, sock>>
  /\ UNCHANGED <<link, rxVars, given, closeMark, overlapped, wire, stopped>>

\* finish_write: the front message is done with; its shutdown mark closes the
\* connection, whatever is queued behind it; otherwise the next write starts,
\* also on a peer that was closed meanwhile.
FinishWrite ==
  /\ rx # "processing" /\ op.state = "done"
  /\ queue' = Tail(queue)
  /\ queuedBytes' = queuedBytes - (Head(queue).last - Head(queue).first)
  /\ IF Head(queue).shutdownAfter \/ queue' = <<>>
       THEN inFlight' = FALSE /\ op' = Idle
       ELSE DoWrite(Head(queue'))
  /\ IF Head(queue).shutdownAfter
       THEN Close("success", "shutdown") ELSE UNCHANGED <<closeVars, sock>>
  /\ UNCHANGED <<link, rxVars, given, closeMark, overlapped, wire, stopped>>
-----------------------------------------------------------------------------
(* The remote end and the network. *)

RemoteClose ==
  /\ link = "up" /\ link' = "eof"
  /\ UNCHANGED <<sock, rxVars, closeVars, queueVars, opVars, wire, stopped>>

NetworkReset ==
  /\ link # "reset" /\ link' = "reset"
  /\ UNCHANGED <<sock, rxVars, closeVars, queueVars, opVars, wire, stopped>>
-----------------------------------------------------------------------------
Next ==
  \/ \E n \in FrameSizes : Send(n)
  \/ Stop \/ Run \/ RunWithData
  \/ RunPosted \/ ReadDone \/ FinishReadError \/ FinishRead \/ ProcessFrame \/ FinishProcess
  \/ \E k \in 1..MaxBytes : Transmit(k)
  \/ FinishWriteError \/ FinishWrite
  \/ RemoteClose \/ NetworkReset

\* The execution context keeps running handlers, and a remote end that reads
\* lets a write make progress.  A write that fails is noticed in the end.
Fairness ==
  /\ WF_vars(RunPosted) /\ WF_vars(FinishReadError) /\ WF_vars(FinishRead)
  /\ WF_vars(ProcessFrame) /\ WF_vars(FinishProcess)
  /\ WF_vars(\E k \in 1..MaxBytes : Transmit(k))
  /\ SF_vars(FinishWriteError) /\ SF_vars(FinishWrite)

Spec == Init /\ [][Next]_vars

FairSpec == Spec /\ Fairness
-----------------------------------------------------------------------------
(* Properties. *)

\* Every variable has its type, and only a peer that is closed for it has more
\* queued than its limit.
TypeOK ==
  /\ sock \in {"open", "closed"} /\ link \in {"up", "eof", "reset"}
  /\ rx \in RxState /\ frames \in Seq(FrameKind)
  /\ queue \in Seq(Message) /\ queuedBytes \in Nat
  /\ given \in Nat /\ closeMark \in Nat
  /\ inFlight \in BOOLEAN /\ overlapped \in BOOLEAN
  /\ op \in [state : OpState, next : Nat, last : Nat]
  /\ isClosed \in BOOLEAN /\ onClosed \in Seq(ErrorCode) /\ cause \in Cause
  /\ stopped \in BOOLEAN /\ wire \in Seq(Nat)
  /\ ~isClosed => queuedBytes <= TxLimit

\* write(), do_write and finish_write keep at most one asynchronous write
\* outstanding, as the TLS stream requires, and none is missing while something
\* is queued.
OneWriteInFlight ==
  /\ ~overlapped
  /\ inFlight <=> op # Idle
  /\ ~isClosed => (inFlight <=> queue # <<>>)

\* The limit is compared with _tx_queued_bytes, which two handlers maintain:
\* it is the number of bytes of the queued messages, also after close().
QueueAccounted ==
  queuedBytes = IF queue = <<>> THEN 0 ELSE queue[Len(queue)].last - queue[1].first

\* The wire carries the frames in the order they were given to write(), without
\* gap, repetition or reordering, and until the connection closes what has not
\* gone out is in the queue.
StreamIntact ==
  /\ wire = Stream(0, Len(wire))
  /\ ~isClosed => IF queue = <<>> THEN Len(wire) = given
                  ELSE Len(wire) \in queue[1].first..queue[1].last /\ queue[Len(queue)].last = given

\* on_closed is raised exactly when the peer becomes closed, and never twice,
\* however many handlers meet the closed socket afterwards.
ClosedOnce == Len(onClosed) = IF isClosed THEN 1 ELSE 0

\* The stream of this peer: what was written behind the first CLOSE frame is
\* not accepted, since the connection closes when that frame is out.
Abstract == INSTANCE OrderlyStream
              WITH accepted <- IF closeMark > 0 THEN closeMark ELSE given,
                   sent <- wire,
                   end <- IF ~isClosed THEN "no"
                          ELSE IF cause = "shutdown" THEN "orderly" ELSE "cut"

\* The TLS peer keeps the promises of OrderlyStream: nothing is sent out of
\* order or after on_closed, and finish_write closes for a CLOSE frame exactly
\* when everything up to it has gone out.
ImplementsStream == Abstract!Spec

\* Queued messages do not stay behind a write that nobody starts.
Drains == (queue # <<>>) ~> (queue = <<>> \/ isClosed)

\* stop() closes only the socket: the pending handlers still raise on_closed.
StopCloses == (stopped /\ rx # "new") ~> isClosed

\* The TLS peer never gets stuck: the queue drains, and stop() leads to the end.
Progresses == Drains /\ StopCloses
=============================================================================
