---------------------------- MODULE HttpServicer ----------------------------
(***************************************************************************)
(* detail::basic_http_client_servicer: the HTTP side of every connection   *)
(* the server accepts.  It performs the TLS handshake if there is one,     *)
(* reads a request, writes the response, and then reads the next request,  *)
(* closes, or hands its socket over for a WebSocket connection.  One       *)
(* asynchronous operation is outstanding at any time; the handlers hold    *)
(* weak references, so that they do nothing once the servicer is dropped.  *)
(*                                                                         *)
(* The operators below change the servicer's own state.  Its owner adds,   *)
(* in the same step, what the slots of on_command_interface_request,       *)
(* on_websocket_upgrade and on_closed do: see Server.                      *)
(***************************************************************************)
EXTENDS Integers

CONSTANTS Sockets,    \* the connections that are accepted in one behaviour
          MaxRequests \* bound: HTTP requests on one connection

ASSUME ServicerAssumption == MaxRequests \in Nat

VARIABLES phase,  \* which operation a servicer has outstanding
          reply,  \* the response that is being written: its status and what follows
          armed,  \* whether the deadline of the stream is set
          asked   \* how many requests were read

servicerVars == <<phase, reply, armed, asked>>

\* "handed": the socket was handed over, the object is still referred to;
\* "over": closed or dropped.
Phase == {"new", "handshake", "reading", "writing", "handed", "over"}
Outstanding == {"handshake", "reading", "writing"}

\* What finish_read distinguishes: an upgrade with a key, a POST whose body
\* does not parse, is no proper request, or is one, OPTIONS, anything else.
RequestKind == {"upgrade", "malformed", "invalid", "command", "options", "other"}

NoReply == [status |-> 0, action |-> "close"]
Reply == [status : {0, 101, 200, 204, 400, 500}, action : {"close", "keepalive", "upgrade"}]

ServicerInit ==
  /\ phase = [c \in Sockets |-> "new"]
  /\ reply = [c \in Sockets |-> NoReply]
  /\ armed = [c \in Sockets |-> FALSE]
  /\ asked = [c \in Sockets |-> 0]
-----------------------------------------------------------------------------
\* run, with do_read for a plaintext stream.
ServicerRun(c, tls) ==
  /\ phase[c] = "new"
  /\ phase' = [phase EXCEPT ![c] = IF tls THEN "handshake" ELSE "reading"]
  /\ armed' = [armed EXCEPT ![c] = TRUE]
  /\ UNCHANGED <<reply, asked>>

\* Mutant of DoRead: the deadline is not set.
DoReadUnarmed(c) ==
  /\ phase' = [phase EXCEPT ![c] = "reading"]
  /\ armed' = [armed EXCEPT ![c] = FALSE]

\* do_read.
DoRead(c) ==
  /\ phase' = [phase EXCEPT ![c] = "reading"]
  /\ armed' = [armed EXCEPT ![c] = TRUE]

\* finish_handshake.
FinishHandshake(c) ==
  /\ phase[c] = "handshake"
  /\ DoRead(c)
  /\ UNCHANGED <<reply, asked>>

\* finish_handshake, finish_read or finish_write with an error, and close(ec):
\* on_closed is raised.  After the deadline the stream has closed its socket.
OperationFails(c, timeout) ==
  /\ phase[c] \in Outstanding
  /\ timeout => armed[c]
  /\ phase' = [phase EXCEPT ![c] = "over"]
  /\ armed' = [armed EXCEPT ![c] = FALSE]
  /\ UNCHANGED <<reply, asked>>

\* The status finish_read answers with; a command's depends on its slot.
Status(kind, outcome) ==
  CASE kind = "upgrade"   -> 101
    [] kind = "malformed" -> 500
    [] kind = "invalid"   -> 400
    [] kind = "command"   -> outcome
    [] kind = "options"   -> 204
    [] kind = "other"     -> 400

\* do_response: what follows the response.  keepAlive is any value: the order in
\* which the arguments of do_write are evaluated is unspecified, and a response
\* that was moved from no longer knows what its request asked for.
FollowUp(status, keepAlive) ==
  IF status = 101 THEN "upgrade" ELSE IF keepAlive THEN "keepalive" ELSE "close"

\* finish_read with do_response and do_write; the deadline of the read stays.
FinishRead(c, kind, outcome, keepAlive) ==
  /\ phase[c] = "reading" /\ asked[c] < MaxRequests
  /\ phase' = [phase EXCEPT ![c] = "writing"]
  /\ reply' = [reply EXCEPT ![c] = [status |-> Status(kind, outcome),
                                    action |-> FollowUp(Status(kind, outcome), keepAlive)]]
  /\ asked' = [asked EXCEPT ![c] = @ + 1]
  /\ UNCHANGED armed

\* finish_write, keepalive.
FinishWriteKeepalive(c) ==
  /\ phase[c] = "writing" /\ reply[c].action = "keepalive"
  /\ DoRead(c)
  /\ UNCHANGED <<reply, asked>>

\* finish_write, close: on_closed is raised.
FinishWriteClose(c) ==
  /\ phase[c] = "writing" /\ reply[c].action = "close"
  /\ phase' = [phase EXCEPT ![c] = "over"]
  /\ armed' = [armed EXCEPT ![c] = FALSE]
  /\ UNCHANGED <<reply, asked>>

\* Mutant of FinishWriteUpgrade: the deadline goes with the stream.
FinishWriteUpgradeArmed(c) ==
  /\ phase[c] = "writing" /\ reply[c].action = "upgrade"
  /\ phase' = [phase EXCEPT ![c] = "handed"]
  /\ UNCHANGED <<reply, asked, armed>>

\* finish_write, upgrade: expires_never or release_socket disarms the deadline,
\* and on_websocket_upgrade is raised; on_closed is not.
FinishWriteUpgrade(c) ==
  /\ phase[c] = "writing" /\ reply[c].action = "upgrade"
  /\ phase' = [phase EXCEPT ![c] = "handed"]
  /\ armed' = [armed EXCEPT ![c] = FALSE]
  /\ UNCHANGED <<reply, asked>>

\* The last reference to the servicers in S is dropped: outstanding operations
\* and the close() that stop() posts find nobody, and on_closed is not raised.
DropServicers(S) ==
  /\ phase' = [c \in Sockets |-> IF c \in S THEN "over" ELSE phase[c]]
  /\ armed' = [c \in Sockets |-> armed[c] /\ c \notin S]
  /\ UNCHANGED <<reply, asked>>
=============================================================================
