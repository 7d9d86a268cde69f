-------------------------------- MODULE Peer --------------------------------
(***************************************************************************)
(* detail::base_peer and its plain TCP implementation detail::peer: one    *)
(* end of a connection.  A frame is written to the socket at once when     *)
(* nothing is buffered; what the operating system does not take goes to    *)
(* the transmit buffer, and a write wait stays active until it is empty.   *)
(* Reading is driven by a read wait; every frame of the received bytes is  *)
(* processed before the next wait starts.                                  *)
(*                                                                         *)
(* All of this runs on one execution context.  A handler is one action,    *)
(* except that the loop over received frames takes one step per frame,     *)
(* because a frame's callbacks may send or stop in between.                *)
(*                                                                         *)
(* A byte is its position in the stream of all bytes given to write(), so  *)
(* the order of the wire is visible; how a frame is built is WireFormat's  *)
(* subject.  The transmit buffer is used through ByteFifo, the promise     *)
(* that DynamicBuffer is shown to keep.                                    *)
(***************************************************************************)
EXTENDS Integers, Sequences

CONSTANTS FrameSizes,  \* lengths of the frames the application sends
          ControlSize, \* length of a PONG or CLOSE frame
          TxLimit,     \* tx_buffer_size, in bytes
          TxSlack,     \* what partly consumed blocks may withhold of it
          MaxBatch,    \* bound: complete frames in one receive
          MaxBytes     \* bound: bytes the application sends in one behaviour

ASSUME PeerAssumption ==
  /\ FrameSizes \subseteq Nat \ {0}
  /\ ControlSize \in Nat \ {0}
  /\ TxLimit \in Nat \ {0}
  /\ TxSlack \in 0..(TxLimit - 1)
  /\ MaxBatch \in Nat
  /\ MaxBytes \in Nat

VARIABLES sock,              \* the local socket: "open" or "closed"
          link,              \* the network: "up", "eof" (remote FIN) or "reset"
          rx,                \* where the read cycle is
          frames,            \* frames the running receive handler still has to process
          tx,                \* _tx_buffer
          waitingTx,         \* _waiting_tx
          txWait,            \* the write wait as the reactor sees it
          shutdownWhenEmpty, \* _shutdown_when_empty
          isClosed,          \* _is_closed
          onClosed,          \* the error codes on_closed was raised with
          cause,             \* what made close() run
          stopped,           \* stop() was called on a peer that was not closed
          wire,              \* every byte the socket accepted, in order
          given              \* how many bytes write() was given

netVars == <<sock, link>>
rxVars == <<rx, frames>>
closeVars == <<isClosed, onClosed, cause>>
txVars == <<tx, waitingTx, txWait, shutdownWhenEmpty, wire, given>>
vars == <<netVars, rxVars, closeVars, txVars, stopped>>

\* A wait is pending in the reactor, or its completion handler is queued with
\* success; a pending wait completes with operation_aborted once the socket is
\* closed, and one that is started on a closed socket with bad_descriptor.
WaitState == {"none", "pending", "ready", "refused"}
RxState == WaitState \cup {"new", "posted", "overflow", "processing"}
FrameKind == {"binary", "other", "ping", "close", "fragment"}
ErrorCode == {"success", "aborted", "bad_descriptor", "reset",
              "no_buffer_space", "not_supported"}
Cause == {"none", "stop", "eof", "reset", "would_block", "closed_socket",
          "limit", "frame", "shutdown"}

\* The bytes a+1 .. b of the stream given to write().
Stream(a, b) == [i \in 1..(b - a) |-> a + i]

\* The transmit buffer as its users know it.
Buffer == INSTANCE ByteFifo
            WITH queue <- tx, nextByte <- given, Capacity <- TxLimit,
                 Slack <- TxSlack, MaxRequest <- MaxBytes, Modulus <- MaxBytes + 1

Init ==
  /\ sock = "open" /\ link = "up"
  /\ rx = "new" /\ frames = <<>>
  /\ tx = <<>> /\ waitingTx = FALSE /\ txWait = "none" /\ shutdownWhenEmpty = FALSE
  /\ isClosed = FALSE /\ onClosed = <<>> /\ cause = "none"
  /\ stopped = FALSE
  /\ wire = <<>> /\ given = 0
-----------------------------------------------------------------------------
\* Mutant of Close: the _is_closed test dropped.
CloseUnguarded(ec, why) ==
  /\ isClosed' = TRUE
  /\ sock' = "closed"
  /\ onClosed' = Append(onClosed, ec)
  /\ cause' = why

\* base_peer::close with shutdown_and_close; on_closed is raised synchronously.
Close(ec, why) ==
  IF isClosed
    THEN UNCHANGED <<closeVars, sock>>
    ELSE /\ isClosed' = TRUE
         /\ sock' = "closed"
         /\ onClosed' = Append(onClosed, ec)
         /\ cause' = why

\* do_wait_tx.
DoWaitTx ==
  /\ waitingTx' = TRUE
  /\ txWait' = IF sock = "open" THEN "pending" ELSE "refused"

\* enqueue: the bytes s go to the transmit buffer, all of them or the
\* connection cannot continue.
Enqueue(s, shutdownAfter) ==
  \E k \in Buffer!Acceptable(Len(s)) :
    /\ tx' = tx \o SubSeq(s, 1, k)
    /\ IF k < Len(s)
         THEN /\ Close("no_buffer_space", "limit")
              /\ UNCHANGED <<waitingTx, txWait, shutdownWhenEmpty>>
         ELSE /\ shutdownWhenEmpty' = (shutdownWhenEmpty \/ shutdownAfter)
              /\ IF waitingTx THEN UNCHANGED <<waitingTx, txWait>> ELSE DoWaitTx
              /\ UNCHANGED <<closeVars, sock>>

\* The error of a send on this socket, if there is one.
SendError(ec, why) ==
  \/ sock = "closed" /\ ec = "bad_descriptor" /\ why = "closed_socket"
  \/ sock = "open" /\ link = "reset" /\ ec = "reset" /\ why = "reset"

\* write: queue behind buffered data, or send what the socket takes and queue
\* the remainder.
Write(n, shutdownAfter) ==
  /\ given' = given + n
  /\ \/ /\ waitingTx
        /\ Enqueue(Stream(given, given + n), shutdownAfter)
        /\ UNCHANGED wire
     \/ /\ ~waitingTx
        /\ \E ec \in ErrorCode, why \in Cause : SendError(ec, why) /\ Close(ec, why)
        /\ UNCHANGED <<tx, waitingTx, txWait, shutdownWhenEmpty, wire>>
     \/ /\ ~waitingTx
        /\ sock = "open" /\ link # "reset"
        /\ \E k \in 0..n :
             /\ wire' = wire \o Stream(given, given + k)
             /\ IF k = n
                  THEN /\ IF shutdownAfter
                            THEN Close("success", "shutdown")
                            ELSE UNCHANGED <<closeVars, sock>>
                       /\ UNCHANGED <<tx, waitingTx, txWait, shutdownWhenEmpty>>
                  ELSE Enqueue(Stream(given + k, given + n), shutdownAfter)
-----------------------------------------------------------------------------
(* The application and its callbacks. *)

\* send_data, send_metadata.
Send(n) ==
  /\ given + n <= MaxBytes
  /\ Write(n, FALSE)
  /\ UNCHANGED <<rxVars, link, stopped>>

\* stop: only the socket is closed; the completion handlers do the rest.
Stop ==
  /\ ~stopped
  /\ sock' = "closed"
  /\ stopped' = ~isClosed
  /\ UNCHANGED <<link, rxVars, closeVars, txVars>>
-----------------------------------------------------------------------------
(* The receive cycle. *)

\* do_read.
DoRead == rx' = IF sock = "open" THEN "pending" ELSE "refused"

\* run without initial data.
Run ==
  /\ rx = "new"
  /\ DoRead
  /\ UNCHANGED <<netVars, frames, closeVars, txVars, stopped>>

\* run(data, size): handed-over bytes are processed, or found not to fit, by a
\* posted handler.
RunWithData ==
  /\ rx = "new"
  /\ rx' \in {"posted", "overflow"}
  /\ UNCHANGED <<netVars, frames, closeVars, txVars, stopped>>

\* The complete frames the received bytes hold.  Frames that call for an
\* answer stop arriving once the bound on written bytes is reached.
Batches ==
  LET kinds == IF given < MaxBytes THEN FrameKind ELSE FrameKind \ {"ping", "close"}
  IN  UNION {[1..m -> kinds] : m \in 0..MaxBatch}

\* The posted process_buffer, or the posted close.
RunPosted ==
  \/ /\ rx = "posted"
     /\ rx' = "processing" /\ frames' \in Batches
     /\ UNCHANGED <<netVars, closeVars, txVars, stopped>>
  \/ /\ rx = "overflow"
     /\ rx' = "none"
     /\ Close("no_buffer_space", "limit")
     /\ UNCHANGED <<link, frames, txVars, stopped>>

\* The reactor finds the socket readable, or believes so.
RxReady ==
  /\ rx = "pending" /\ sock = "open"
  /\ rx' = "ready"
  /\ UNCHANGED <<netVars, frames, closeVars, txVars, stopped>>

\* Mutant of FinishWaitRxError: operation_aborted is taken as a reason to
\* return without closing.
FinishWaitRxIgnoresAbort ==
  /\ \/ rx = "pending" /\ sock = "closed" /\ UNCHANGED <<closeVars, sock>>
     \/ rx = "refused" /\ Close("bad_descriptor", "closed_socket")
  /\ rx' = "none"
  /\ UNCHANGED <<link, frames, txVars, stopped>>

\* finish_wait_rx with an error from the wait.
FinishWaitRxError ==
  /\ \/ rx = "pending" /\ sock = "closed" /\ Close("aborted", "stop")
     \/ rx = "refused" /\ Close("bad_descriptor", "closed_socket")
  /\ rx' = "none"
  /\ UNCHANGED <<link, frames, txVars, stopped>>

\* What a receive that returns no byte really met.
EmptyReceive ==
  IF sock = "closed" THEN "closed_socket"
  ELSE CASE link = "up"    -> "would_block"
         [] link = "eof"   -> "eof"
         [] link = "reset" -> "reset"

\* finish_wait_rx: zero bytes close the connection without an error code,
\* before the code looks at receive_ec; otherwise process_buffer starts.
FinishWaitRx ==
  /\ rx = "ready"
  /\ \/ /\ rx' = "none"
        /\ Close("success", EmptyReceive)
        /\ UNCHANGED <<link, frames, txVars, stopped>>
     \/ /\ sock = "open" /\ link # "reset"
        /\ rx' = "processing" /\ frames' \in Batches
        /\ UNCHANGED <<netVars, closeVars, txVars, stopped>>

\* One iteration of process_buffer_ws's loop: process_websocket_frame.  The
\* loop goes on after a CLOSE frame, even when the answer closed the socket.
ProcessFrame ==
  /\ rx = "processing" /\ frames # <<>>
  /\ \/ /\ Head(frames) \in {"binary", "other"}
        /\ frames' = Tail(frames)
        /\ UNCHANGED <<netVars, rx, closeVars, txVars, stopped>>
     \/ /\ Head(frames) \in {"ping", "close"}
        /\ frames' = Tail(frames)
        /\ Write(ControlSize, Head(frames) = "close")
        /\ UNCHANGED <<link, rx, stopped>>
     \/ /\ Head(frames) = "fragment"
        /\ frames' = <<>> /\ rx' = "none"
        /\ Close("not_supported", "frame")
        /\ UNCHANGED <<link, txVars, stopped>>

\* The end of process_buffer: the remainder does not fit even the grown
\* buffer, or the next read starts.
FinishProcess ==
  /\ rx = "processing" /\ frames = <<>>
  /\ \/ /\ DoRead
        /\ UNCHANGED <<closeVars, sock>>
     \/ /\ rx' = "none"
        /\ Close("no_buffer_space", "limit")
  /\ UNCHANGED <<link, frames, txVars, stopped>>
-----------------------------------------------------------------------------
(* The transmit cycle.  Completion handlers run between, not inside, the   *)
(* receive handler's frames.                                               *)

\* The reactor finds the socket writeable.
TxReady ==
  /\ txWait = "pending" /\ sock = "open"
  /\ txWait' = "ready"
  /\ UNCHANGED <<netVars, rxVars, closeVars, tx, waitingTx, shutdownWhenEmpty, wire, given, stopped>>

\* finish_wait_tx with an error from the wait.
FinishWaitTxError ==
  /\ rx # "processing"
  /\ \/ txWait = "pending" /\ sock = "closed" /\ Close("aborted", "stop")
     \/ txWait = "refused" /\ Close("bad_descriptor", "closed_socket")
  /\ waitingTx' = FALSE /\ txWait' = "none"
  /\ UNCHANGED <<link, rxVars, tx, shutdownWhenEmpty, wire, given, stopped>>

\* finish_wait_tx: the send fails.
FinishWaitTxFailed ==
  /\ rx # "processing"
  /\ txWait = "ready"
  /\ \E ec \in ErrorCode, why \in Cause : SendError(ec, why) /\ Close(ec, why)
  /\ waitingTx' = FALSE /\ txWait' = "none"
  /\ UNCHANGED <<link, rxVars, tx, shutdownWhenEmpty, wire, given, stopped>>

\* Mutants of FinishWaitTx: the flag is cleared and no new wait started while
\* data remains; a new wait is assumed but not started; the shutdown does not
\* wait for the buffer to empty.
FinishWaitTxOnce(k) ==
  /\ rx # "processing"
  /\ txWait = "ready" /\ sock = "open" /\ link # "reset"
  /\ wire' = wire \o SubSeq(tx, 1, k)
  /\ tx' = SubSeq(tx, k + 1, Len(tx))
  /\ waitingTx' = FALSE /\ txWait' = "none"
  /\ UNCHANGED <<closeVars, sock, link, rxVars, shutdownWhenEmpty, given, stopped>>

FinishWaitTxStuck(k) ==
  /\ rx # "processing"
  /\ txWait = "ready" /\ sock = "open" /\ link # "reset"
  /\ wire' = wire \o SubSeq(tx, 1, k)
  /\ tx' = SubSeq(tx, k + 1, Len(tx))
  /\ waitingTx' = (k < Len(tx)) /\ txWait' = "none"
  /\ UNCHANGED <<closeVars, sock, link, rxVars, shutdownWhenEmpty, given, stopped>>

FinishWaitTxHasty(k) ==
  /\ rx # "processing"
  /\ txWait = "ready" /\ sock = "open" /\ link # "reset"
  /\ wire' = wire \o SubSeq(tx, 1, k)
  /\ tx' = SubSeq(tx, k + 1, Len(tx))
  /\ waitingTx' = FALSE /\ txWait' = "none"
  /\ IF shutdownWhenEmpty THEN Close("success", "shutdown") ELSE UNCHANGED <<closeVars, sock>>
  /\ UNCHANGED <<link, rxVars, shutdownWhenEmpty, given, stopped>>

\* finish_wait_tx: the socket takes k bytes (none if the readiness was
\* spurious); then shut down, wait again, or rest.
FinishWaitTx(k) ==
  /\ rx # "processing"
  /\ txWait = "ready" /\ sock = "open" /\ link # "reset"
  /\ k \in 0..Len(tx)
  /\ wire' = wire \o SubSeq(tx, 1, k)
  /\ tx' = SubSeq(tx, k + 1, Len(tx))
  /\ IF k = Len(tx)
       THEN /\ waitingTx' = FALSE /\ txWait' = "none"
            /\ IF shutdownWhenEmpty
                 THEN Close("success", "shutdown")
                 ELSE UNCHANGED <<closeVars, sock>>
       ELSE DoWaitTx /\ UNCHANGED <<closeVars, sock>>
  /\ UNCHANGED <<link, rxVars, shutdownWhenEmpty, given, stopped>>
-----------------------------------------------------------------------------
(* The remote end and the network. *)

RemoteClose ==
  /\ link = "up" /\ link' = "eof"
  /\ UNCHANGED <<sock, rxVars, closeVars, txVars, stopped>>

NetworkReset ==
  /\ link # "reset" /\ link' = "reset"
  /\ UNCHANGED <<sock, rxVars, closeVars, txVars, stopped>>
-----------------------------------------------------------------------------
\* The handlers the execution context runs when they are due.
Handlers ==
  \/ RunPosted \/ FinishWaitRxError \/ FinishWaitRx \/ ProcessFrame \/ FinishProcess
  \/ FinishWaitTxError \/ FinishWaitTxFailed
  \/ \E k \in 0..Len(tx) : FinishWaitTx(k)

Next ==
  \/ \E n \in FrameSizes : Send(n)
  \/ Stop \/ Run \/ RunWithData
  \/ RxReady \/ TxReady
  \/ Handlers
  \/ RemoteClose \/ NetworkReset

\* The execution context keeps running handlers, a socket whose remote end
\* reads becomes writeable, and readiness is not spurious for ever.
Fairness ==
  /\ WF_vars(RunPosted) /\ WF_vars(FinishWaitRxError)
  /\ WF_vars(FinishWaitRx) /\ WF_vars(ProcessFrame) /\ WF_vars(FinishProcess)
  /\ WF_vars(TxReady) /\ WF_vars(FinishWaitTxError) /\ WF_vars(FinishWaitTxFailed)
  /\ SF_vars(\E k \in 1..Len(tx) : FinishWaitTx(k))

Spec == Init /\ [][Next]_vars

FairSpec == Spec /\ Fairness
-----------------------------------------------------------------------------
(* Properties. *)

\* Every variable has its type, and the transmit buffer respects its limit.
TypeOK ==
  /\ sock \in {"open", "closed"} /\ link \in {"up", "eof", "reset"}
  /\ rx \in RxState /\ frames \in Seq(FrameKind)
  /\ tx \in Seq(Nat) /\ Len(tx) <= TxLimit
  /\ wire \in Seq(Nat) /\ given \in Nat
  /\ waitingTx \in BOOLEAN /\ txWait \in WaitState
  /\ shutdownWhenEmpty \in BOOLEAN /\ stopped \in BOOLEAN
  /\ isClosed \in BOOLEAN /\ onClosed \in Seq(ErrorCode) /\ cause \in Cause

\* The comment at the end of finish_wait_tx: as long as anything remains
\* buffered a write wait stays active, and write() may take a clear _waiting_tx
\* to mean that nothing is buffered ahead of it.
WaitIffBuffered ==
  ~isClosed => /\ waitingTx <=> tx # <<>>
               /\ waitingTx <=> txWait # "none"

\* Whatever mix of direct and buffered writes happened, the wire carries the
\* frames in the order they were given to write(), without gap, repetition or
\* reordering; and until the connection closes nothing is missing either.
StreamIntact ==
  /\ wire = Stream(0, Len(wire))
  /\ ~isClosed => wire \o tx = Stream(0, given)

\* on_closed is raised exactly when the peer becomes closed, and never twice,
\* however many handlers meet the closed socket afterwards.
ClosedOnce == Len(onClosed) = IF isClosed THEN 1 ELSE 0

\* Once on_closed was raised nothing more goes out.
SilentAfterClosed == [][isClosed => wire' = wire]_vars

\* A shutdown asked for by a CLOSE frame closes the socket only when every
\* byte given to write() has gone out, the CLOSE frame included.
ShutdownFlushes ==
  [][(cause' = "shutdown" /\ cause # "shutdown") => wire' = Stream(0, given')]_vars

\* The stream of this peer.
Abstract == INSTANCE OrderlyStream
              WITH accepted <- given, sent <- wire,
                   end <- IF ~isClosed THEN "no"
                          ELSE IF cause = "shutdown" THEN "orderly" ELSE "cut"

\* The plain peer keeps the promises of OrderlyStream, as the TLS peer does:
\* write() and finish_wait_tx send in order, close() ends it, and a close for a
\* CLOSE frame comes when everything has gone out.
ImplementsStream == Abstract!Spec

\* Buffered data does not stay behind a write wait that nobody restarts.
Drains == (tx # <<>>) ~> (tx = <<>> \/ isClosed)

\* stop() closes only the socket: the pending handlers still raise on_closed.
StopCloses == (stopped /\ rx # "new") ~> isClosed
=============================================================================
