----------------------------- MODULE HttpClient -----------------------------
(***************************************************************************)
(* detail::basic_http_client: a request is a chain of asynchronous         *)
(* operations (resolve, connect, TLS handshake, write, read), each started *)
(* by the handler of the one before; the first error or the response ends  *)
(* it and the caller's handler is called.  The handlers hold weak          *)
(* references: they do nothing once the object is destroyed.               *)
(*                                                                         *)
(* The operators below change the state of one object.  Its user adds, in  *)
(* the same step, what the handler does that complete() calls: see Client. *)
(*                                                                         *)
(* The streams and timers of Boost are external.  What is used of them:    *)
(* cancel() may make a pending operation complete with operation_aborted,  *)
(* and may come too late for it: name resolution that is running, a connect *)
(* with further addresses to try, or a handshake, write or read whose next *)
(* piece has completed all go on, and a completed operation whose handler  *)
(* is queued is out of its reach.  The deadline of a stream stays set      *)
(* until it is changed; a moved-from stream must not be used; the TLS      *)
(* state of a stream serves for one session.                               *)
(***************************************************************************)
EXTENDS Integers

CONSTANTS Objects,   \* the http_client and https_client objects
          TlsObjects \* those that are https_client objects

ASSUME TlsObjectsAssumption == TlsObjects \subseteq Objects

VARIABLES chain,     \* the operation that is outstanding
          op,        \* where it is
          handler,   \* whether _handler is set
          deadline,  \* the deadline of the stream: "off", "running" or "past"
          stream,    \* the stream: "fresh", "session" (its TLS state is in use), "spent"
                     \* (a second request found it used) or "moved"
          undefined  \* the code used a moved-from stream or a destroyed object

httpVars == <<chain, op, handler, deadline, stream>>

Step == {"idle", "resolve", "connect", "handshake", "write", "read"}

\* The operation is pending, or its handler is queued with a result.
Failure == {"error", "aborted", "timeout"}
OpState == {"none", "pending", "done"} \cup Failure

HttpInit ==
  /\ chain = [h \in Objects |-> "idle"]
  /\ op = [h \in Objects |-> "none"]
  /\ handler = [h \in Objects |-> FALSE]
  /\ deadline = [h \in Objects |-> "off"]
  /\ stream = [h \in Objects |-> "fresh"]
  /\ undefined = FALSE
-----------------------------------------------------------------------------
(* The operations and the deadline, as the library reports them. *)

OpSucceeds(h) ==
  /\ op[h] = "pending"
  /\ ~(chain[h] = "read" /\ stream[h] = "spent")
  /\ op' = [op EXCEPT ![h] = "done"]
  /\ UNCHANGED <<chain, handler, deadline, stream>>

OpFails(h) ==
  /\ op[h] = "pending"
  /\ op' = [op EXCEPT ![h] = "error"]
  /\ UNCHANGED <<chain, handler, deadline, stream>>

OpTimesOut(h) ==
  /\ op[h] = "pending" /\ chain[h] # "resolve" /\ deadline[h] = "past"
  /\ op' = [op EXCEPT ![h] = "timeout"]
  /\ UNCHANGED <<chain, handler, deadline, stream>>

DeadlineExpires(h) ==
  /\ deadline[h] = "running"
  /\ deadline' = [deadline EXCEPT ![h] = "past"]
  /\ UNCHANGED <<chain, op, handler, stream>>
-----------------------------------------------------------------------------
\* A second request on a stream whose TLS state was used.
Reused(h) == [stream EXCEPT ![h] = IF @ = "session" THEN "spent" ELSE @]

\* async_request.
AsyncRequest(h) ==
  /\ chain[h] = "idle"
  /\ chain' = [chain EXCEPT ![h] = "resolve"]
  /\ op' = [op EXCEPT ![h] = "pending"]
  /\ handler' = [handler EXCEPT ![h] = TRUE]
  /\ stream' = Reused(h)
  /\ UNCHANGED deadline

\* The objects in S with an operation that cancel() may reach.
Cancellable(S) == {h \in S : op[h] = "pending"}

\* cancel, for the objects in S.  No mark is left for the operations it misses.
CancelAll(S) ==
  \E reached \in SUBSET Cancellable(S) :
    op' = [h \in Objects |-> IF h \in reached THEN "aborted" ELSE op[h]]

\* Mutant of FinishStep: the deadline is not set after the connect.
FinishStepUnarmed(h) ==
  /\ op[h] = "done" /\ chain[h] # "read"
  /\ chain' = [chain EXCEPT ![h] =
       CASE @ = "resolve"   -> "connect"
         [] @ = "connect"   -> IF h \in TlsObjects THEN "handshake" ELSE "write"
         [] @ = "handshake" -> "write"
         [] @ = "write"     -> "read"]
  /\ op' = [op EXCEPT ![h] = "pending"]
  /\ stream' = IF chain[h] = "handshake" /\ stream[h] = "fresh"
                 THEN [stream EXCEPT ![h] = "session"] ELSE stream
  /\ undefined' = (undefined \/ (chain[h] = "resolve" /\ stream[h] = "moved"))
  /\ UNCHANGED <<handler, deadline>>

\* finish_resolve, finish_connect, finish_handshake and finish_write without an
\* error: the next operation starts.
FinishStep(h) ==
  /\ op[h] = "done" /\ chain[h] # "read"
  /\ chain' = [chain EXCEPT ![h] =
       CASE @ = "resolve"   -> "connect"
         [] @ = "connect"   -> IF h \in TlsObjects THEN "handshake" ELSE "write"
         [] @ = "handshake" -> "write"
         [] @ = "write"     -> "read"]
  /\ op' = [op EXCEPT ![h] = "pending"]
  /\ deadline' = IF chain[h] = "connect" THEN [deadline EXCEPT ![h] = "running"] ELSE deadline
  /\ stream' = IF chain[h] = "handshake" /\ stream[h] = "fresh"
                 THEN [stream EXCEPT ![h] = "session"] ELSE stream
  /\ undefined' = (undefined \/ (chain[h] = "resolve" /\ stream[h] = "moved"))
  /\ UNCHANGED handler

\* The end of the chain, which complete() tells a handler that is still set:
\* an error, or the response that was read.
Completes(h) == op[h] \in Failure \/ (op[h] = "done" /\ chain[h] = "read")

\* Mutant of Complete: the handler is not cleared.
CompleteKeeps(h, again) ==
  /\ Completes(h)
  /\ chain' = [chain EXCEPT ![h] = IF again THEN "resolve" ELSE "idle"]
  /\ op' = [op EXCEPT ![h] = IF again THEN "pending" ELSE "none"]
  /\ UNCHANGED handler

\* complete: the handler is cleared after it was called, so that a request that
\* the handler itself makes on this object (again) loses its own.
Complete(h, again) ==
  /\ Completes(h)
  /\ chain' = [chain EXCEPT ![h] = IF again THEN "resolve" ELSE "idle"]
  /\ op' = [op EXCEPT ![h] = IF again THEN "pending" ELSE "none"]
  /\ handler' = [handler EXCEPT ![h] = FALSE]
=============================================================================
