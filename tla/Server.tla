------------------------------- MODULE Server -------------------------------
(***************************************************************************)
(* wss::server with one wss::listener and an HTTP servicer for every       *)
(* accepted connection.  The server keeps the sessions (servicers), the    *)
(* clients (connections that were upgraded) and the local signals; it      *)
(* forwards what the connections raise to the application.                 *)
(*                                                                         *)
(* A connection is reduced to whether it runs, which local signals it was  *)
(* given and whether a remote signal is available from it; what happens    *)
(* inside is the subject of SignalLink and Peer.  A connection is broken   *)
(* when the next send on it fails or exceeds its transmit buffer: the peer *)
(* then closes inside that very call, and the slots of on_disconnected run *)
(* before it returns.                                                      *)
(*                                                                         *)
(* The application calls close() from its own context or from              *)
(* on_client_connected, not from on_client_disconnected.                   *)
(***************************************************************************)
EXTENDS HttpServicer, FiniteSets

CONSTANTS Signals     \* local signals of the application

VARIABLES kind,         \* who owns the listener and how it is served
          accept,       \* the accept operation of the listener
          closed,       \* _closed
          onClosed,     \* how often on_closed was raised
          sessions,     \* _sessions
          clients,      \* _clients
          signals,      \* _signals and _ordered_signals
          conn,         \* the life of the WebSocket connection of each socket
          shown,        \* the local signals registered with each connection
          offered,      \* connections from which a remote signal is available
          broken,       \* connections on which the next send closes
          connected,    \* how often on_client_connected was raised for each
          disconnected, \* how often on_client_disconnected was raised for each
          appSees,      \* connections whose remote signal the application knows
          undefined     \* the code used a destroyed list node or connection

listenerVars == <<kind, accept>>
clientVars == <<clients, conn, shown, offered, connected, disconnected, appSees>>
vars == <<servicerVars, listenerVars, closed, onClosed, sessions, clientVars,
          signals, broken, undefined>>

\* add_listener(port), add_listener(listener) with a listener that the
\* application keeps as well, add_tls_listener.
ListenerKind == {"none", "own", "shared", "tls"}

\* No operation; outstanding; its handler is queued with a socket or an error;
\* the loop has ended.
AcceptState == {"none", "pending", "done", "failed", "ended"}

Init ==
  /\ ServicerInit
  /\ kind = "none" /\ accept = "none"
  /\ closed = FALSE /\ onClosed = 0
  /\ sessions = {} /\ clients = {} /\ signals = {}
  /\ conn = [c \in Sockets |-> "none"]
  /\ shown = [c \in Sockets |-> {}]
  /\ offered = {} /\ broken = {} /\ appSees = {}
  /\ connected = [c \in Sockets |-> 0]
  /\ disconnected = [c \in Sockets |-> 0]
  /\ undefined = FALSE
-----------------------------------------------------------------------------
(* Listening. *)

AddListener(k) ==
  /\ kind = "none" /\ ~closed /\ k # "none"
  /\ kind' = k
  /\ UNCHANGED <<servicerVars, accept, closed, onClosed, sessions, clientVars, signals, broken, undefined>>

\* server::run, listener::run.
Run ==
  /\ kind # "none" /\ accept = "none" /\ ~closed
  /\ accept' = "pending"
  /\ UNCHANGED <<servicerVars, kind, closed, onClosed, sessions, clientVars, signals, broken, undefined>>

\* The operating system accepts a connection, or reports an error.
AcceptCompletes ==
  /\ accept = "pending"
  /\ \/ accept' = "done" /\ \E c \in Sockets : phase[c] = "new"
     \/ accept' = "failed"
  /\ UNCHANGED <<servicerVars, kind, closed, onClosed, sessions, clientVars, signals, broken, undefined>>

\* start_session.
StartSession(c) == ServicerRun(c, kind = "tls") /\ sessions' = sessions \cup {c}

\* on_listener_accept or on_tls_listener_accept.  After close() nobody takes the
\* socket and it is closed.
OnListenerAccept(c) ==
  IF closed THEN DropServicers({c}) /\ UNCHANGED sessions ELSE StartSession(c)

\* finish_accept.
FinishAccept(c) ==
  /\ accept = "done"
  /\ phase[c] = "new"
  /\ OnListenerAccept(c)
  /\ accept' = "pending"
  /\ UNCHANGED <<kind, closed, onClosed, clientVars, signals, broken, undefined>>

\* finish_accept with an error: the loop ends.
FinishAcceptError ==
  /\ accept = "failed"
  /\ accept' = "ended"
  /\ UNCHANGED <<servicerVars, kind, closed, onClosed, sessions, clientVars, signals, broken, undefined>>
-----------------------------------------------------------------------------
(* Connections. *)

\* Mutant of Disconnected: the entry of the client is kept.
DisconnectedKeepsClient(c) ==
  /\ conn' = [conn EXCEPT ![c] = "closed"]
  /\ shown' = [shown EXCEPT ![c] = {}]
  /\ offered' = offered \ {c}
  /\ UNCHANGED clients
  /\ IF c \in clients
       THEN /\ appSees' = appSees \ {c}
            /\ disconnected' = [disconnected EXCEPT ![c] = @ + 1]
       ELSE UNCHANGED <<appSees, disconnected>>

\* connection::on_peer_closed: on_unavailable for the remote signals, then
\* on_disconnected; on_connection_unavailable and on_connection_disconnected
\* are connected as long as the client's entry exists.
Disconnected(c) ==
  /\ conn' = [conn EXCEPT ![c] = "closed"]
  /\ shown' = [shown EXCEPT ![c] = {}]
  /\ offered' = offered \ {c}
  /\ IF c \in clients
       THEN /\ appSees' = appSees \ {c}
            /\ clients' = clients \ {c}
            /\ disconnected' = [disconnected EXCEPT ![c] = @ + 1]
       ELSE UNCHANGED <<appSees, clients, disconnected>>

\* The peer notices the end of a connection by itself.
ConnectionLost(c) ==
  /\ conn[c] = "running"
  /\ Disconnected(c)
  /\ UNCHANGED <<servicerVars, listenerVars, closed, onClosed, sessions, signals,
                 connected, broken, undefined>>

\* The network or a remote end that does not read: the next send closes.
Break(c) ==
  /\ phase[c] \in Outstanding \/ conn[c] = "running"
  /\ c \notin broken
  /\ broken' = broken \cup {c}
  /\ UNCHANGED <<servicerVars, listenerVars, closed, onClosed, sessions, clientVars, signals, undefined>>

\* on_connection_available, on_connection_unavailable.
RemoteSignal(c) ==
  /\ conn[c] = "running"
  /\ \/ c \notin offered /\ offered' = offered \cup {c} /\ appSees' = appSees \cup {c}
     \/ c \in offered /\ offered' = offered \ {c} /\ appSees' = appSees \ {c}
  /\ UNCHANGED <<servicerVars, listenerVars, closed, onClosed, sessions, clients, conn,
                 shown, connected, disconnected, signals, broken, undefined>>
-----------------------------------------------------------------------------
(* Sessions. *)

Handshake(c) ==
  /\ FinishHandshake(c)
  /\ UNCHANGED <<listenerVars, closed, onClosed, sessions, clientVars, signals, broken, undefined>>

Keepalive(c) ==
  /\ FinishWriteKeepalive(c)
  /\ UNCHANGED <<listenerVars, closed, onClosed, sessions, clientVars, signals, broken, undefined>>

\* on_servicer_closed.
OnServicerClosed(c) == sessions' = sessions \ {c}

SessionEnds(c) ==
  /\ OperationFails(c, FALSE) \/ FinishWriteClose(c)
  /\ OnServicerClosed(c)
  /\ UNCHANGED <<listenerVars, closed, onClosed, clientVars, signals, broken, undefined>>

Deadline(c) ==
  /\ OperationFails(c, TRUE)
  /\ OnServicerClosed(c)
  /\ UNCHANGED <<listenerVars, closed, onClosed, clientVars, signals, broken, undefined>>

\* A request without a command.
Request(c, k, keepAlive) ==
  /\ k # "command"
  /\ FinishRead(c, k, 0, keepAlive)
  /\ UNCHANGED <<listenerVars, closed, onClosed, sessions, clientVars, signals, broken, undefined>>

\* on_servicer_command_interface_request for the stream id of connection d: an
\* exception if there is no such client, otherwise do_command_interface.  If a
\* message that one sends closes the connection, its entry goes, and with it
\* the connection that is executing, unless the application keeps it.
Command(c, d, keepAlive) ==
  /\ \E status \in {200, 500} : FinishRead(c, "command", status, keepAlive)
  /\ d \notin clients => reply'[c].status = 500
  /\ \/ UNCHANGED <<clientVars, undefined>>
     \/ /\ d \in clients \cap broken
        /\ Disconnected(d)
        /\ UNCHANGED connected
        /\ undefined' \in BOOLEAN
  /\ UNCHANGED <<listenerVars, closed, onClosed, sessions, signals, broken>>

\* Mutant of Upgrade: the connection runs before its slots are connected.
UpgradeRunsFirst(c) ==
  /\ FinishWriteUpgrade(c)
  /\ clients' = clients \cup {c}
  /\ conn' = [conn EXCEPT ![c] = IF c \in broken THEN "closed" ELSE "running"]
  /\ connected' = [connected EXCEPT ![c] = @ + 1]
  /\ shown' = [shown EXCEPT ![c] = IF c \in broken THEN {} ELSE signals]
  /\ UNCHANGED <<offered, appSees, disconnected>>
  /\ UNCHANGED <<listenerVars, closed, onClosed, sessions, signals, broken, undefined>>

\* on_servicer_websocket_upgrade.  On a broken connection the remote endpoint
\* may be unknown, in which case nothing is made of it; or the hello fails, and
\* a plaintext connection is reported as disconnected before connected.
Upgrade(c) ==
  /\ FinishWriteUpgrade(c)
  /\ \/ /\ c \in broken
        /\ UNCHANGED clientVars
     \/ /\ c \notin broken \/ kind = "tls"
        /\ clients' = clients \cup {c}
        /\ conn' = [conn EXCEPT ![c] = "running"]
        /\ shown' = [shown EXCEPT ![c] = signals]
        /\ connected' = [connected EXCEPT ![c] = @ + 1]
        /\ UNCHANGED <<offered, appSees, disconnected>>
     \/ /\ c \in broken /\ kind # "tls"
        /\ conn' = [conn EXCEPT ![c] = "closed"]
        /\ connected' = [connected EXCEPT ![c] = @ + 1]
        /\ disconnected' = [disconnected EXCEPT ![c] = @ + 1]
        /\ UNCHANGED <<clients, shown, offered, appSees>>
  /\ UNCHANGED <<listenerVars, closed, onClosed, sessions, signals, broken, undefined>>
-----------------------------------------------------------------------------
(* The application. *)

\* Mutant of AddLocalSignal: only future clients get the signal.
AddLocalSignalForFuture(s) ==
  /\ s \notin signals
  /\ signals' = signals \cup {s}
  /\ UNCHANGED <<shown, undefined, servicerVars, listenerVars, closed, onClosed, sessions,
                 clients, conn, offered, connected, disconnected, appSees, broken>>

\* add_local_signal.  A send that fails removes the list node the loop over
\* _clients stands on.
AddLocalSignal(s) ==
  /\ s \notin signals
  /\ signals' = signals \cup {s}
  /\ IF clients \cap broken # {}
       THEN undefined' = TRUE /\ UNCHANGED shown
       ELSE /\ shown' = [c \in Sockets |-> IF c \in clients THEN shown[c] \cup {s} ELSE shown[c]]
            /\ UNCHANGED undefined
  /\ UNCHANGED <<servicerVars, listenerVars, closed, onClosed, sessions, clients, conn,
                 offered, connected, disconnected, appSees, broken>>

\* remove_local_signal, likewise.
RemoveLocalSignal(s) ==
  /\ s \in signals
  /\ signals' = signals \ {s}
  /\ IF clients \cap broken # {}
       THEN undefined' = TRUE /\ UNCHANGED shown
       ELSE /\ shown' = [c \in Sockets |-> IF c \in clients THEN shown[c] \ {s} ELSE shown[c]]
            /\ UNCHANGED undefined
  /\ UNCHANGED <<servicerVars, listenerVars, closed, onClosed, sessions, clients, conn,
                 offered, connected, disconnected, appSees, broken>>

\* Mutant of Close: the sessions are kept.
CloseKeepsSessions ==
  /\ ~closed
  /\ closed' = TRUE /\ onClosed' = onClosed + 1
  /\ accept' = IF kind # "shared" THEN "none"
               ELSE IF accept = "pending" THEN "failed" ELSE accept
  /\ conn' = [c \in Sockets |-> IF c \in clients THEN "closed" ELSE conn[c]]
  /\ shown' = [c \in Sockets |-> {}]
  /\ offered' = offered \ clients
  /\ clients' = {}
  /\ UNCHANGED <<servicerVars, sessions>>
  /\ UNCHANGED <<kind, connected, disconnected, appSees, signals, broken, undefined>>

\* close: a listener nobody else holds is destroyed, another one's accept is
\* cancelled unless its handler is already queued; the connections are closed
\* and their entries destroyed, so that what they raise goes nowhere; so are
\* the servicers.
Close ==
  /\ ~closed
  /\ closed' = TRUE /\ onClosed' = onClosed + 1
  /\ accept' = IF kind # "shared" THEN "none"
               ELSE IF accept = "pending" THEN "failed" ELSE accept
  /\ conn' = [c \in Sockets |-> IF c \in clients THEN "closed" ELSE conn[c]]
  /\ shown' = [c \in Sockets |-> {}]
  /\ offered' = offered \ clients
  /\ clients' = {} /\ sessions' = {}
  /\ DropServicers(sessions)
  /\ UNCHANGED <<kind, connected, disconnected, appSees, signals, broken, undefined>>
-----------------------------------------------------------------------------
Operations ==
  \/ \E k \in ListenerKind : AddListener(k)
  \/ Run \/ AcceptCompletes \/ FinishAcceptError
  \/ \E c \in Sockets :
       \/ FinishAccept(c) \/ Handshake(c) \/ Keepalive(c) \/ SessionEnds(c) \/ Deadline(c) \/ Upgrade(c)
       \/ \E k \in RequestKind, keepAlive \in BOOLEAN : Request(c, k, keepAlive)
       \/ \E d \in Sockets, keepAlive \in BOOLEAN : Command(c, d, keepAlive)
       \/ ConnectionLost(c) \/ Break(c) \/ RemoteSignal(c)
  \/ \E s \in Signals : AddLocalSignal(s) \/ RemoveLocalSignal(s)
  \/ Close

\* Nothing is known of what follows undefined behaviour.
Next == ~undefined /\ Operations

\* The execution context runs the handler of a completed accept, and an armed
\* deadline expires.  A network that stalls needs no fairness.
Fairness ==
  \A c \in Sockets : WF_vars(~undefined /\ FinishAccept(c)) /\ WF_vars(~undefined /\ Deadline(c))

Spec == Init /\ [][Next]_vars

FairSpec == Spec /\ Fairness
-----------------------------------------------------------------------------
(* Properties. *)

\* Every variable has its type.
TypeOK ==
  /\ phase \in [Sockets -> Phase] /\ reply \in [Sockets -> Reply]
  /\ armed \in [Sockets -> BOOLEAN] /\ asked \in [Sockets -> 0..MaxRequests]
  /\ kind \in ListenerKind /\ accept \in AcceptState
  /\ closed \in BOOLEAN /\ onClosed \in 0..1
  /\ sessions \subseteq Sockets /\ clients \subseteq Sockets /\ signals \subseteq Signals
  /\ conn \in [Sockets -> {"none", "running", "closed"}]
  /\ shown \in [Sockets -> SUBSET Signals]
  /\ offered \subseteq Sockets /\ broken \subseteq Sockets /\ appSees \subseteq Sockets
  /\ connected \in [Sockets -> 0..1] /\ disconnected \in [Sockets -> 0..1]
  /\ undefined \in BOOLEAN

\* server.hpp, add_local_signal: the signal is advertised "to all current and
\* future clients".  Whatever the order of adding, removing, upgrading and
\* losing connections, every client has exactly the server's signals.
SignalsEverywhere == ~undefined => \A c \in clients : shown[c] = signals

\* The list of clients holds the connections that run: on_connection_disconnected
\* leaves no dead one behind and drops no other.
ClientsRun == ~undefined => clients = {c \in Sockets : conn[c] = "running"}

\* A session is in the list as long as its servicer works, and no servicer is
\* left in it that has closed: on_closed comes with every end that is not a
\* hand-over, and close() leaves none behind.  Whether a servicer that has handed
\* its socket over is still listed is left open: the code lists it until close(),
\* http_client_servicer.hpp:51 says that it raises on_closed.
SessionsExact ==
  /\ \A c \in Sockets : phase[c] \in Outstanding => c \in sessions
  /\ \A c \in sessions : ~closed /\ phase[c] \in Outstanding \cup {"handed"}

\* While the server is open the application's view is complete: a client is one
\* that was reported connected and not disconnected, and each is reported once.
ClientsReported ==
  (~closed /\ ~undefined) =>
    \A c \in Sockets : c \in clients <=> (connected[c] = 1 /\ disconnected[c] = 0)

\* The application knows the remote signals of live connections and of no
\* other: on_unavailable is forwarded before the entry of the client goes.
RemoteSignalsReported == (~closed /\ ~undefined) => appSees = offered

\* The deadline of the HTTP phase does not reach into the WebSocket connection,
\* and a connection comes only from a servicer that has answered 101.
UpgradedUndisturbed ==
  \A c \in Sockets : conn[c] # "none" => ~armed[c] /\ reply[c].status = 101

\* After close() has raised on_closed the application hears nothing more, and
\* no session starts, although handlers of all kinds were due.
QuietAfterClose ==
  [][closed => UNCHANGED <<onClosed, sessions, clients, connected, disconnected, appSees>>]_vars

\* Every accepted connection is followed by another accept.
KeepsAccepting == (accept = "done") ~> (accept = "pending" \/ closed \/ undefined)

\* A session that is not handed over ends: the deadline that run() and do_read
\* set covers the handshake, every read and every write.
SessionsEnd ==
  \A c \in Sockets : (c \in sessions) ~> (c \notin sessions \/ phase[c] = "handed" \/ undefined)

\* The lists of the server are exact: _clients holds the connections that run,
\* _sessions the servicers at work.
ListsExact == TypeOK /\ ClientsRun /\ SessionsExact

\* The application's view of clients and of their signals is complete.
ReportsComplete == ClientsReported /\ RemoteSignalsReported

\* The server stays usable: it goes on accepting, and no stalled client holds a
\* session for ever.
StaysUsable == KeepsAccepting /\ SessionsEnd
=============================================================================
