------------------------------- MODULE Client -------------------------------
(***************************************************************************)
(* The two users of HttpClient.  wss::client connects: over ws:// with its *)
(* http_client, over wss:// with an https_client that enable_tls and       *)
(* enable_tls_without_verification replace, or directly over TCP with a    *)
(* resolver and a socket of its own.  detail::http_command_interface_client *)
(* sends each command with an http_client of its own.  They share nothing, *)
(* so that a behaviour has one of them.                                    *)
(*                                                                         *)
(* The application keeps to one connection attempt at a time, as client.hpp *)
(* demands; it may start the next one inside the handler of the last.      *)
(***************************************************************************)
EXTENDS HttpClient, FiniteSets

CONSTANTS Commands,   \* the commands sent in one behaviour, each with its object
          MaxAttempts \* bound: connection attempts in one behaviour

ASSUME ClientAssumption ==
  /\ MaxAttempts \in Nat
  /\ "none" \notin Objects
  /\ "http" \in Objects \ TlsObjects
  /\ Commands \subseteq Objects \ (TlsObjects \cup {"http"})

VARIABLES user,      \* which of the two is used
          busy,      \* the attempt in progress: "no" or its scheme
          forsaken,  \* why nobody will call its handler, if so
          started,   \* attempts
          calls,     \* calls of their handlers
          last,      \* the result the last call reported
          secured,   \* _https_client: "none" or the object
          direct,    \* the operation of a direct TCP attempt
          owner,     \* the command interface client: "none", "alive" or "gone"
          port,      \* the port it connects to
          inFlight,  \* _clients
          answered   \* commands whose handler was called

attemptVars == <<busy, forsaken, started, calls, last, secured, direct>>
commandVars == <<owner, port, inFlight, answered>>
vars == <<httpVars, undefined, user, attemptVars, commandVars>>

Result == {"none", "connected", "bad_status"} \cup Failure

Init ==
  /\ HttpInit
  /\ user \in {"connect", "command"}
  /\ busy = "no" /\ forsaken = "no" /\ started = 0 /\ calls = 0 /\ last = "none"
  /\ secured = "none" /\ direct = "idle"
  /\ owner = "none" /\ port = "none" /\ inFlight = {} /\ answered = {}

\* The object that serves a scheme.
ObjectOf(scheme) == IF scheme = "ws" THEN "http" ELSE secured
-----------------------------------------------------------------------------
(* wss::client. *)

\* enable_tls, enable_tls_without_verification: a new object replaces the one
\* there is, whose pending handlers then find nobody.
EnableTls(h) ==
  /\ user = "connect" /\ h \in TlsObjects
  /\ h # secured /\ stream[h] = "fresh" /\ chain[h] = "idle"
  /\ secured' = h
  /\ IF secured = "none"
       THEN UNCHANGED <<httpVars, forsaken>>
       ELSE /\ op' = [op EXCEPT ![secured] = "none"]
            /\ chain' = [chain EXCEPT ![secured] = "idle"]
            /\ handler' = [handler EXCEPT ![secured] = FALSE]
            /\ stream' = [stream EXCEPT ![secured] = "moved"]
            /\ UNCHANGED deadline
            /\ forsaken' = IF busy = "wss" /\ forsaken = "no" THEN "replaced" ELSE forsaken
  /\ UNCHANGED <<undefined, user, busy, started, calls, last, direct, commandVars>>

\* An attempt starts.
Begin(scheme) ==
  /\ started < MaxAttempts
  /\ started' = started + 1
  /\ busy' = scheme

\* async_connect, ws:// and wss://.  Without a CA file ensure_https_client
\* throws and there is no attempt.
ConnectHttp(scheme) ==
  /\ user = "connect" /\ busy = "no" /\ scheme \in {"ws", "wss"}
  /\ scheme = "wss" => secured # "none"
  /\ Begin(scheme)
  /\ AsyncRequest(ObjectOf(scheme))
  /\ UNCHANGED <<undefined, user, forsaken, calls, last, secured, direct, commandVars>>

\* async_connect, any other scheme.
ConnectDirect ==
  /\ user = "connect" /\ busy = "no"
  /\ Begin("tcp")
  /\ direct' = "resolve"
  /\ UNCHANGED <<httpVars, undefined, user, forsaken, calls, last, secured, commandVars>>

\* cancel: both objects, not a direct attempt; after a wss:// connection was
\* made, the https_client's stream has been moved away.
Cancel ==
  /\ user = "connect" /\ started > 0
  /\ LET S == {"http"} \cup ({secured} \cap Objects)
     IN  /\ CancelAll(S)
         /\ undefined' = (undefined \/ \E h \in S : stream[h] = "moved")
  /\ UNCHANGED <<chain, handler, deadline, stream, user, busy, forsaken, started, calls, last,
                 secured, direct, commandVars>>

\* An object of wss::client makes progress.
Proceed(h) ==
  /\ user = "connect"
  /\ \/ /\ OpSucceeds(h) \/ OpFails(h) \/ OpTimesOut(h) \/ DeadlineExpires(h)
        /\ UNCHANGED undefined
     \/ FinishStep(h)
  /\ UNCHANGED <<user, attemptVars, commandVars>>

\* The application's handler is called.  It may itself start the next attempt:
\* on the same object that matters, and is part of the step; on another one it
\* does not, and is the step after.
Report(result) ==
  /\ calls' = calls + 1
  /\ last' = result

\* What the handler then does on the same object.
Follow(again) ==
  IF again THEN Begin(busy) ELSE busy' = "no" /\ UNCHANGED started

\* The handler that async_connect gives to async_request, after an error or a
\* status other than 101.
Done(h) ==
  /\ user = "connect" /\ handler[h] /\ h = ObjectOf(busy)
  /\ \E result \in Failure \cup {"bad_status"}, again \in BOOLEAN :
       /\ result = IF op[h] = "done" THEN "bad_status" ELSE op[h]
       /\ Complete(h, again)
       /\ Report(result) /\ Follow(again)
       /\ forsaken' = IF again THEN "reentrant" ELSE forsaken
       /\ stream' = IF again THEN Reused(h) ELSE stream
  /\ UNCHANGED <<deadline, undefined, user, secured, direct, commandVars>>

\* The handler that async_connect gives to async_request, after a response 101:
\* release_socket or expires_never and a move of the stream, and a connection
\* that runs; but no call at all if the remote endpoint is unknown.
Connected(h) ==
  /\ user = "connect" /\ handler[h] /\ h = ObjectOf(busy) /\ op[h] = "done"
  /\ \/ /\ Complete(h, FALSE)
        /\ forsaken' = "endpoint"
        /\ UNCHANGED <<busy, started, calls, last, deadline, stream>>
     \/ \E again \in BOOLEAN :
        /\ Complete(h, again)
        /\ Report("connected") /\ Follow(again)
        /\ forsaken' = IF again THEN "reentrant" ELSE forsaken
        /\ IF h \in TlsObjects
             THEN /\ deadline' = [deadline EXCEPT ![h] = "off"]
                  /\ stream' = [stream EXCEPT ![h] = "moved"]
             ELSE UNCHANGED <<deadline, stream>>
  /\ UNCHANGED <<undefined, user, secured, direct, commandVars>>

\* complete without a handler: nothing is called.
Unheard(h) ==
  /\ user = "connect" /\ ~handler[h]
  /\ Complete(h, FALSE)
  /\ UNCHANGED <<deadline, stream, undefined, user, attemptVars, commandVars>>

\* The direct attempt: resolve, connect to the first address, and report.
DirectStep ==
  /\ direct # "idle"
  /\ \/ /\ direct = "resolve" /\ direct' = "connect"
        /\ UNCHANGED <<busy, forsaken, calls, last>>
     \/ /\ direct' = "idle" /\ busy' = "no"
        /\ Report("error") \/ (direct = "connect" /\ Report("connected"))
        /\ UNCHANGED forsaken
     \/ /\ direct = "connect" /\ direct' = "idle"
        /\ forsaken' = "endpoint"
        /\ UNCHANGED <<busy, calls, last>>
  /\ UNCHANGED <<httpVars, undefined, user, started, secured, commandVars>>
-----------------------------------------------------------------------------
(* detail::http_command_interface_client. *)

\* What the init message of the remote end may say of its command interfaces,
\* where incomplete descriptions count as none.
Offer == [inBand : BOOLEAN, http : {"none", "text", "number"}]

\* command_interface_client_factory::create_client: the in-band interface is
\* preferred; a port given as a number is not read but replaced by 1; nothing
\* is created if the remote endpoint is unknown.
CreateClient(offer) ==
  /\ user = "command" /\ owner = "none"
  /\ ~offer.inBand /\ offer.http # "none"
  /\ owner' = "alive"
  /\ port' = IF offer.http = "number" THEN "1" ELSE "offered"
  /\ UNCHANGED <<httpVars, undefined, user, attemptVars, inFlight, answered>>

\* async_request, with an http_client of its own.
SendCommand(k) ==
  /\ owner = "alive" /\ k \in Commands \ (inFlight \cup answered) /\ ~handler[k]
  /\ AsyncRequest(k)
  /\ inFlight' = inFlight \cup {k}
  /\ UNCHANGED <<undefined, user, attemptVars, owner, port, answered>>

\* A command's object makes progress; nobody listens at port 1.
CommandStep(k) ==
  /\ user = "command" /\ k \in Commands
  /\ \/ /\ \/ OpSucceeds(k) /\ (chain[k] = "connect" => port = "offered")
           \/ OpFails(k) \/ OpTimesOut(k) \/ DeadlineExpires(k)
        /\ UNCHANGED undefined
     \/ FinishStep(k)
  /\ UNCHANGED <<user, attemptVars, commandVars>>

\* The handler that async_request gives to the http_client.  It keeps that
\* object alive and refers to its owner, alive or not.
CommandDone(k) ==
  /\ k \in Commands /\ handler[k]
  /\ Complete(k, FALSE)
  /\ inFlight' = inFlight \ {k}
  /\ answered' = answered \cup {k}
  /\ undefined' = (undefined \/ owner = "gone")
  /\ UNCHANGED <<deadline, stream, user, attemptVars, owner, port>>

\* cancel.
CancelCommands ==
  /\ owner = "alive" /\ inFlight # {}
  /\ CancelAll(inFlight)
  /\ inFlight' = {}
  /\ UNCHANGED <<chain, handler, deadline, stream, undefined, user, attemptVars, owner, port, answered>>

\* The connection, and with it the command interface client, is destroyed.
DropOwner ==
  /\ owner = "alive"
  /\ owner' = "gone" /\ inFlight' = {}
  /\ UNCHANGED <<httpVars, undefined, user, attemptVars, port, answered>>
-----------------------------------------------------------------------------
Operations ==
  \/ \E h \in TlsObjects : EnableTls(h)
  \/ \E scheme \in {"ws", "wss"} : ConnectHttp(scheme)
  \/ ConnectDirect \/ Cancel \/ DirectStep
  \/ \E h \in {"http"} \cup TlsObjects : Proceed(h) \/ Done(h) \/ Connected(h) \/ Unheard(h)
  \/ \E offer \in Offer : CreateClient(offer)
  \/ \E k \in Commands : SendCommand(k) \/ CommandStep(k) \/ CommandDone(k)
  \/ CancelCommands \/ DropOwner

\* Nothing is known of what follows undefined behaviour.
Next == ~undefined /\ Operations

Spec == Init /\ [][Next]_vars

\* The execution context runs handlers, a resolver and a connect come to an
\* end by themselves, and every later operation does so at its deadline.
Fairness ==
  /\ WF_vars(~undefined /\ DirectStep)
  /\ \A h \in {"http"} \cup TlsObjects :
       /\ WF_vars(~undefined /\ user = "connect" /\ UNCHANGED <<undefined, user, attemptVars, commandVars>>
                  /\ chain[h] \in {"resolve", "connect"} /\ OpFails(h))
       /\ WF_vars(~undefined /\ user = "connect" /\ UNCHANGED <<user, attemptVars, commandVars>>
                  /\ FinishStep(h))
       /\ WF_vars(~undefined /\ user = "connect" /\ UNCHANGED <<undefined, user, attemptVars, commandVars>>
                  /\ (DeadlineExpires(h) \/ OpTimesOut(h)))
       /\ WF_vars(~undefined /\ (Done(h) \/ Connected(h) \/ Unheard(h)))
  /\ \A k \in Commands :
       /\ WF_vars(~undefined /\ user = "command" /\ UNCHANGED <<undefined, user, attemptVars, commandVars>>
                  /\ chain[k] \in {"resolve", "connect"} /\ OpFails(k))
       /\ WF_vars(~undefined /\ user = "command" /\ UNCHANGED <<user, attemptVars, commandVars>>
                  /\ FinishStep(k))
       /\ WF_vars(~undefined /\ user = "command" /\ UNCHANGED <<undefined, user, attemptVars, commandVars>>
                  /\ (DeadlineExpires(k) \/ OpTimesOut(k)))
       /\ WF_vars(~undefined /\ CommandDone(k))

FairSpec == Spec /\ Fairness
-----------------------------------------------------------------------------
(* Properties. *)

\* Every variable has its type, and no handler is called for an attempt that was
\* not made or was answered already.
TypeOK ==
  /\ chain \in [Objects -> Step] /\ op \in [Objects -> OpState]
  /\ handler \in [Objects -> BOOLEAN]
  /\ deadline \in [Objects -> {"off", "running", "past"}]
  /\ stream \in [Objects -> {"fresh", "session", "spent", "moved"}]
  /\ undefined \in BOOLEAN
  /\ user \in {"connect", "command"} /\ busy \in {"no", "ws", "wss", "tcp"}
  /\ forsaken \in {"no", "replaced", "endpoint", "reentrant"}
  /\ started \in 0 .. MaxAttempts /\ calls \in 0 .. started /\ last \in Result
  /\ secured \in {"none"} \cup TlsObjects /\ direct \in {"idle", "resolve", "connect"}
  /\ owner \in {"none", "alive", "gone"} /\ port \in {"none", "offered", "1"}
  /\ inFlight \subseteq Commands /\ answered \subseteq Commands

\* The attempt in progress, and it alone, has somebody who will call its handler:
\* an object of the client that is at work and holds the handler, or the direct
\* operations.  The three ways in which the code loses a handler are forsaken.
AttemptOwned ==
  user = "connect" =>
    /\ \A h \in Objects : handler[h] =>
          chain[h] # "idle" /\ busy \in {"ws", "wss"} /\ h = ObjectOf(busy) /\ forsaken = "no"
    /\ busy \in {"ws", "wss"} /\ forsaken = "no" => handler[ObjectOf(busy)]
    /\ direct # "idle" => busy = "tcp" /\ forsaken = "no"
    /\ busy = "tcp" /\ forsaken = "no" => direct # "idle"
    /\ busy = "no" <=> calls = started

\* The objects the command interface client keeps are at work on commands that
\* nobody has answered: none is leaked.  A command is answered once.
CommandsAccounted ==
  /\ \A k \in inFlight : handler[k] /\ chain[k] # "idle"
  /\ \A k \in answered : ~handler[k]

\* Every attempt is answered, unless the code loses its handler in one of the
\* three ways or its stream was moved away.
AttemptsAnswered == busy # "no" ~> busy = "no" \/ forsaken # "no" \/ undefined

\* Every command is answered, cancelled or not, unless the command interface
\* client is destroyed first.
CommandsAnswered ==
  \A k \in Commands : handler[k] ~> ~handler[k] \/ undefined

\* Every HTTP object at work belongs to the attempt or to the command that waits
\* for it, and the other way round.
ObjectsOwned == TypeOK /\ AttemptOwned /\ CommandsAccounted

\* Attempts and commands are answered, whatever cancel() reaches or misses.
Answered == AttemptsAnswered /\ CommandsAnswered
=============================================================================
