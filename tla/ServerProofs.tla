---------------------------- MODULE ServerProofs ----------------------------
(***************************************************************************)
(* The safety of the server for every set of sockets and signals and every *)
(* number of requests: its lists are exact, every client has every signal, *)
(* the application's reports are complete, an upgraded socket is left      *)
(* alone by the HTTP side, and nothing is heard after close().             *)
(***************************************************************************)
EXTENDS Server, TLAPS

\* A servicer without an outstanding operation has no deadline; the only answer
\* that is followed by a hand-over is 101; a connection comes from a hand-over.
HandedOver ==
  \A c \in Sockets :
    /\ phase[c] \notin Outstanding => ~armed[c]
    /\ reply[c].action = "upgrade" => reply[c].status = 101
    /\ phase[c] = "handed" => reply[c].status = 101
    /\ conn[c] # "none" => phase[c] \in {"handed", "over"} /\ reply[c].status = 101

\* What the application was told of each socket.  A connection that close()
\* ends is not reported, so that only the upper bound remains afterwards.
Told ==
  \A c \in Sockets :
    /\ conn[c] = "none" => connected[c] = 0 /\ disconnected[c] = 0
    /\ conn[c] = "running" => connected[c] = 1 /\ disconnected[c] = 0
    /\ conn[c] = "closed" /\ ~closed => connected[c] = 1 /\ disconnected[c] = 1

\* Remote signals come from clients only, and the application knows them all.
Offers == offered \subseteq clients /\ (~closed => appSees = offered)

\* close() leaves no client and no servicer at work.
ClosedIsEmpty ==
  /\ onClosed = IF closed THEN 1 ELSE 0
  /\ closed => clients = {} /\ \A c \in Sockets : phase[c] \in {"new", "over"}

\* ClientsRun holds even where a list node was used after it was destroyed.
Running == clients = {c \in Sockets : conn[c] = "running"}

\* Where each session in the list is: SessionsExact, with the sessions that were
\* handed over among them until close() clears the list.
SessionsListed ==
  sessions = IF closed THEN {}
             ELSE {c \in Sockets : phase[c] \in Outstanding \cup {"handed"}}

\* The inductive invariant.  The lists determine who reports what: the entry of
\* a client is what connects the slots, and SessionsListed is what makes close()
\* reach every servicer at work.
IInv ==
  /\ TypeOK /\ Running /\ SessionsListed /\ SignalsEverywhere
  /\ HandedOver /\ Told /\ Offers /\ ClosedIsEmpty

-----------------------------------------------------------------------------
LEMMA InitIInv == Init => IInv
<1> SUFFICES ASSUME Init PROVE IInv
  OBVIOUS
<1> USE ServicerAssumption DEF Init, ServicerInit
<1>0. NoReply \in Reply
  BY DEF NoReply, Reply
<1>1. TypeOK
  <2>1. /\ phase \in [Sockets -> Phase] /\ reply \in [Sockets -> Reply]
        /\ armed \in [Sockets -> BOOLEAN]
    BY <1>0 DEF Phase
  <2>2. /\ asked \in [Sockets -> 0..MaxRequests]
        /\ connected \in [Sockets -> 0..1] /\ disconnected \in [Sockets -> 0..1]
    OBVIOUS
  <2>3. /\ conn \in [Sockets -> {"none", "running", "closed"}]
        /\ shown \in [Sockets -> SUBSET Signals]
    OBVIOUS
  <2>4. closed \in BOOLEAN /\ undefined \in BOOLEAN
    OBVIOUS
  <2>6. onClosed \in 0..1
    OBVIOUS
  <2>5. /\ kind \in ListenerKind /\ accept \in AcceptState
        /\ sessions \subseteq Sockets /\ clients \subseteq Sockets /\ signals \subseteq Signals
        /\ offered \subseteq Sockets /\ broken \subseteq Sockets /\ appSees \subseteq Sockets
    BY DEF ListenerKind, AcceptState
  <2> HIDE DEF Init, ServicerInit
  <2> QED BY <2>1, <2>2, <2>3, <2>4, <2>5, <2>6 DEF TypeOK
<1>2. Running /\ SignalsEverywhere /\ Told /\ Offers /\ ClosedIsEmpty
  BY DEF Running, SignalsEverywhere, Told, Offers, ClosedIsEmpty
<1>3. SessionsListed
  BY DEF SessionsListed, Outstanding
<1>4. HandedOver
  BY DEF HandedOver, NoReply
<1> QED BY <1>1, <1>2, <1>3, <1>4 DEF IInv

\* A step of the servicers changes nothing that the clients' part depends on:
\* what is left to show is the types, the list of sessions and the hand-over.
LEMMA ServicerStep ==
  ASSUME IInv,
         UNCHANGED <<closed, onClosed, clientVars, signals, undefined>>,
         TypeOK', SessionsListed', HandedOver',
         closed => \A c \in Sockets : phase'[c] \in {"new", "over"}
  PROVE  IInv'
BY DEF IInv, clientVars, Running, SignalsEverywhere, Told, Offers, ClosedIsEmpty

\* A step of the listener, or of the network, that no servicer notices.
LEMMA ListenerStep ==
  ASSUME IInv,
         UNCHANGED <<servicerVars, closed, onClosed, sessions, clientVars, signals, undefined>>,
         kind' \in ListenerKind, accept' \in AcceptState, broken' \subseteq Sockets
  PROVE  IInv'
BY DEF IInv, servicerVars, clientVars, TypeOK, Running, SessionsListed, SignalsEverywhere,
       HandedOver, Told, Offers, ClosedIsEmpty

LEMMA StutterIInv == IInv /\ UNCHANGED vars => IInv'
BY DEF IInv, vars, servicerVars, listenerVars, clientVars, TypeOK, Running, SessionsListed,
       SignalsEverywhere, HandedOver, Told, Offers, ClosedIsEmpty

\* The listener: adding it, running it, its completions and the end of its loop.
LEMMA ListenerIInv ==
  ASSUME IInv,
         (\E k \in ListenerKind : AddListener(k)) \/ Run \/ AcceptCompletes \/ FinishAcceptError
  PROVE  IInv'
<1>0. TypeOK
  BY DEF IInv
<1>1. ASSUME NEW k \in ListenerKind, AddListener(k) PROVE IInv'
  BY <1>0, <1>1, ListenerStep DEF AddListener, TypeOK
<1>2. CASE Run
  BY <1>0, <1>2, ListenerStep DEF Run, TypeOK, AcceptState
<1>3. CASE AcceptCompletes
  BY <1>0, <1>3, ListenerStep DEF AcceptCompletes, TypeOK, AcceptState
<1>4. CASE FinishAcceptError
  BY <1>0, <1>4, ListenerStep DEF FinishAcceptError, TypeOK, AcceptState
<1> QED BY <1>1, <1>2, <1>3, <1>4

\* A connection that breaks is only noticed by the next send.
LEMMA BreakIInv ==
  ASSUME IInv, NEW c \in Sockets, Break(c)
  PROVE  IInv'
BY ListenerStep DEF IInv, Break, TypeOK, listenerVars

\* The socket of a finished accept goes to a new session, or nowhere once the
\* server is closed.
LEMMA FinishAcceptIInv ==
  ASSUME IInv, NEW c \in Sockets, FinishAccept(c)
  PROVE  IInv'
<1> USE DEF FinishAccept, OnListenerAccept, StartSession, ServicerRun, DropServicers
<1>0. TypeOK /\ SessionsListed /\ HandedOver /\ ClosedIsEmpty
  BY DEF IInv
<1>1. TypeOK'
  BY <1>0 DEF TypeOK, Phase, AcceptState, clientVars
<1>2. SessionsListed'
  BY <1>0 DEF TypeOK, SessionsListed, Outstanding
<1>3. HandedOver'
  BY <1>0 DEF TypeOK, HandedOver, Outstanding, clientVars
<1>4. closed => \A d \in Sockets : phase'[d] \in {"new", "over"}
  BY <1>0 DEF TypeOK, ClosedIsEmpty
<1> QED BY <1>1, <1>2, <1>3, <1>4, ServicerStep

\* The reads, writes and handshakes that go on with the session.
LEMMA SessionGoesOnIInv ==
  ASSUME IInv, NEW c \in Sockets, Handshake(c) \/ Keepalive(c)
  PROVE  IInv'
<1> USE DEF Handshake, Keepalive, FinishHandshake, FinishWriteKeepalive, DoRead
<1>0. TypeOK /\ SessionsListed /\ HandedOver /\ ClosedIsEmpty
  BY DEF IInv
<1>1. TypeOK'
  BY <1>0 DEF TypeOK, Phase, listenerVars, clientVars
<1>2. SessionsListed'
  BY <1>0 DEF TypeOK, SessionsListed, Outstanding
<1>3. HandedOver'
  BY <1>0 DEF TypeOK, HandedOver, Outstanding, clientVars
<1>4. closed => \A d \in Sockets : phase'[d] \in {"new", "over"}
  BY <1>0 DEF TypeOK, ClosedIsEmpty
<1> QED BY <1>1, <1>2, <1>3, <1>4, ServicerStep

\* The ends of a session, each of which takes its entry along.
LEMMA SessionEndsIInv ==
  ASSUME IInv, NEW c \in Sockets, SessionEnds(c) \/ Deadline(c)
  PROVE  IInv'
<1> USE DEF SessionEnds, Deadline, OperationFails, FinishWriteClose, OnServicerClosed
<1>0. TypeOK /\ SessionsListed /\ HandedOver /\ ClosedIsEmpty
  BY DEF IInv
<1>1. TypeOK'
  BY <1>0 DEF TypeOK, Phase, listenerVars, clientVars
<1>2. SessionsListed'
  BY <1>0 DEF TypeOK, SessionsListed, Outstanding
<1>3. HandedOver'
  BY <1>0 DEF TypeOK, HandedOver, Outstanding, clientVars
<1>4. closed => \A d \in Sockets : phase'[d] \in {"new", "over"}
  BY <1>0 DEF TypeOK, ClosedIsEmpty
<1> QED BY <1>1, <1>2, <1>3, <1>4, ServicerStep

\* The answer to a request: only an upgrade with a key is answered with 101, and
\* only that answer is followed by a hand-over.
LEMMA FinishReadServicer ==
  ASSUME IInv, NEW c \in Sockets, NEW k \in RequestKind, NEW keepAlive \in BOOLEAN,
         NEW outcome \in {0, 200, 500}, k = "command" => outcome # 0,
         FinishRead(c, k, outcome, keepAlive),
         UNCHANGED <<listenerVars, closed, onClosed, sessions, signals, broken>>
  PROVE  /\ phase' \in [Sockets -> Phase] /\ reply' \in [Sockets -> Reply]
         /\ armed' = armed /\ asked' \in [Sockets -> 0..MaxRequests]
         /\ SessionsListed'
         /\ \A d \in Sockets :
              /\ phase'[d] \notin Outstanding => ~armed'[d]
              /\ reply'[d].action = "upgrade" => reply'[d].status = 101
              /\ phase'[d] = "handed" => phase[d] = "handed" /\ reply'[d] = reply[d]
              /\ phase[d] \in {"handed", "over"} => phase'[d] = phase[d] /\ reply'[d] = reply[d]
         /\ closed => \A d \in Sockets : phase'[d] \in {"new", "over"}
<1> DEFINE status == Status(k, outcome)
           r == [status |-> status, action |-> FollowUp(status, keepAlive)]
<1> USE DEF FinishRead
<1>0. TypeOK /\ SessionsListed /\ HandedOver /\ ClosedIsEmpty
  BY DEF IInv
<1>1. status \in {0, 101, 200, 204, 400, 500}
  BY DEF Status, RequestKind
<1>2. FollowUp(status, keepAlive) \in {"close", "keepalive", "upgrade"}
  BY DEF FollowUp
<1>3. FollowUp(status, keepAlive) = "upgrade" => status = 101
  BY DEF FollowUp
<1>4. r \in Reply /\ (r.action = "upgrade" => r.status = 101)
  BY <1>1, <1>2, <1>3 DEF Reply
<1>5. reply' = [reply EXCEPT ![c] = r]
  OBVIOUS
<1> HIDE DEF r, status
<1>6. phase' \in [Sockets -> Phase] /\ armed' = armed /\ asked' \in [Sockets -> 0..MaxRequests]
  BY <1>0, ServicerAssumption DEF TypeOK, Phase
<1>7. reply' \in [Sockets -> Reply]
  BY <1>0, <1>4, <1>5 DEF TypeOK
<1>8. SessionsListed'
  <2>1. \A d \in Sockets :
          phase'[d] \in Outstanding \cup {"handed"} <=> phase[d] \in Outstanding \cup {"handed"}
    BY <1>0 DEF TypeOK, Outstanding
  <2> QED BY <1>0, <2>1 DEF SessionsListed
<1>9. ASSUME NEW d \in Sockets
      PROVE  /\ phase'[d] \notin Outstanding => ~armed'[d]
             /\ reply'[d].action = "upgrade" => reply'[d].status = 101
             /\ phase'[d] = "handed" => phase[d] = "handed" /\ reply'[d] = reply[d]
             /\ phase[d] \in {"handed", "over"} => phase'[d] = phase[d] /\ reply'[d] = reply[d]
  <2>1. reply'[d] = IF d = c THEN r ELSE reply[d]
    BY <1>0, <1>5 DEF TypeOK
  <2>2. phase'[d] = (IF d = c THEN "writing" ELSE phase[d]) /\ phase[c] = "reading"
    BY <1>0 DEF TypeOK
  <2> QED BY <1>0, <1>4, <2>1, <2>2 DEF HandedOver, Outstanding
<1>10. closed => \A d \in Sockets : phase'[d] \in {"new", "over"}
  BY <1>0 DEF ClosedIsEmpty
<1> QED BY <1>6, <1>7, <1>8, <1>9, <1>10

\* A request without a command changes the servicer only.
LEMMA RequestIInv ==
  ASSUME IInv, NEW c \in Sockets, NEW k \in RequestKind, NEW keepAlive \in BOOLEAN,
         Request(c, k, keepAlive)
  PROVE  IInv'
<1> USE DEF Request
<1>0. TypeOK /\ HandedOver
  BY DEF IInv
<1>1. /\ phase' \in [Sockets -> Phase] /\ reply' \in [Sockets -> Reply]
      /\ armed' = armed /\ asked' \in [Sockets -> 0..MaxRequests]
      /\ SessionsListed'
      /\ \A d \in Sockets :
           /\ phase'[d] \notin Outstanding => ~armed'[d]
           /\ reply'[d].action = "upgrade" => reply'[d].status = 101
           /\ phase'[d] = "handed" => phase[d] = "handed" /\ reply'[d] = reply[d]
           /\ phase[d] \in {"handed", "over"} => phase'[d] = phase[d] /\ reply'[d] = reply[d]
      /\ closed => \A d \in Sockets : phase'[d] \in {"new", "over"}
  BY FinishReadServicer
<1>2. TypeOK'
  BY <1>0, <1>1 DEF TypeOK, listenerVars, clientVars
<1>3. HandedOver'
  BY <1>0, <1>1 DEF HandedOver, clientVars
<1> QED BY <1>1, <1>2, <1>3, ServicerStep

\* The end of a connection: with its entry go its remote signal and the signals
\* it was shown, and it is reported.
LEMMA DisconnectedClients ==
  ASSUME IInv, NEW c \in Sockets, conn[c] = "running", Disconnected(c),
         UNCHANGED <<connected, closed, onClosed, signals>>
  PROVE  /\ clients' \subseteq Sockets /\ conn' \in [Sockets -> {"none", "running", "closed"}]
         /\ shown' \in [Sockets -> SUBSET Signals]
         /\ offered' \subseteq Sockets /\ appSees' \subseteq Sockets
         /\ connected' \in [Sockets -> 0..1] /\ disconnected' \in [Sockets -> 0..1]
         /\ Running' /\ Told' /\ Offers'
         /\ ~undefined => \A d \in clients' : shown'[d] = signals'
         /\ \A d \in Sockets : conn'[d] # "none" <=> conn[d] # "none"
         /\ clients' \subseteq clients
<1> USE DEF Disconnected
<1>0. TypeOK /\ Running /\ Told /\ Offers /\ SignalsEverywhere
  BY DEF IInv
<1>1. c \in clients
  BY <1>0 DEF Running
<1>2. conn' \in [Sockets -> {"none", "running", "closed"}] /\ shown' \in [Sockets -> SUBSET Signals]
  BY <1>0 DEF TypeOK
<1>3. /\ clients' \subseteq Sockets /\ offered' \subseteq Sockets /\ appSees' \subseteq Sockets
      /\ clients' = clients \ {c} /\ appSees' = appSees \ {c}
  BY <1>0, <1>1 DEF TypeOK
<1>4. connected[c] = 1 /\ disconnected[c] = 0
  BY <1>0 DEF Told
<1>5. disconnected' = [disconnected EXCEPT ![c] = 1]
  BY <1>0, <1>1, <1>4 DEF TypeOK
<1>6. connected' \in [Sockets -> 0..1] /\ disconnected' \in [Sockets -> 0..1]
  BY <1>0, <1>5 DEF TypeOK
<1>7. Running'
  BY <1>0, <1>3 DEF TypeOK, Running
<1>8. Told'
  BY <1>0, <1>4, <1>5 DEF TypeOK, Told
<1>9. Offers'
  BY <1>0, <1>3 DEF TypeOK, Offers
<1>10. ~undefined => \A d \in clients' : shown'[d] = signals'
  BY <1>0, <1>3 DEF TypeOK, SignalsEverywhere
<1>11. \A d \in Sockets : conn'[d] # "none" <=> conn[d] # "none"
  BY <1>0 DEF TypeOK
<1> QED BY <1>2, <1>3, <1>6, <1>7, <1>8, <1>9, <1>10, <1>11

\* The peer notices the end of a connection.
LEMMA ConnectionLostIInv ==
  ASSUME IInv, NEW c \in Sockets, ConnectionLost(c)
  PROVE  IInv'
<1> USE DEF ConnectionLost
<1>0. TypeOK /\ SessionsListed /\ HandedOver /\ ClosedIsEmpty
  BY DEF IInv
<1>1. /\ clients' \subseteq Sockets /\ conn' \in [Sockets -> {"none", "running", "closed"}]
      /\ shown' \in [Sockets -> SUBSET Signals]
      /\ offered' \subseteq Sockets /\ appSees' \subseteq Sockets
      /\ connected' \in [Sockets -> 0..1] /\ disconnected' \in [Sockets -> 0..1]
      /\ Running' /\ Told' /\ Offers'
      /\ ~undefined => \A d \in clients' : shown'[d] = signals'
      /\ \A d \in Sockets : conn'[d] # "none" <=> conn[d] # "none"
      /\ clients' \subseteq clients
  BY DisconnectedClients
<1>2. TypeOK'
  BY <1>0, <1>1 DEF TypeOK, servicerVars, listenerVars
<1>3. SessionsListed' /\ SignalsEverywhere' /\ HandedOver' /\ ClosedIsEmpty'
  BY <1>0, <1>1 DEF SessionsListed, SignalsEverywhere, HandedOver, ClosedIsEmpty, servicerVars
<1> QED BY <1>1, <1>2, <1>3 DEF IInv

\* A command may close the connection it is addressed to, which is a client.
LEMMA CommandIInv ==
  ASSUME IInv, NEW c \in Sockets, NEW d \in Sockets, NEW keepAlive \in BOOLEAN,
         ~undefined, Command(c, d, keepAlive)
  PROVE  IInv'
<1>0. TypeOK /\ Running /\ SessionsListed /\ HandedOver /\ ClosedIsEmpty
  BY DEF IInv
<1>1. PICK status \in {200, 500} : FinishRead(c, "command", status, keepAlive)
  BY DEF Command
<1>2. UNCHANGED <<listenerVars, closed, onClosed, sessions, signals, broken>>
  BY DEF Command
<1>3. "command" \in RequestKind /\ status \in {0, 200, 500} /\ status # 0
  BY DEF RequestKind
<1>4. /\ phase' \in [Sockets -> Phase] /\ reply' \in [Sockets -> Reply]
      /\ armed' = armed /\ asked' \in [Sockets -> 0..MaxRequests]
      /\ SessionsListed'
      /\ \A e \in Sockets :
           /\ phase'[e] \notin Outstanding => ~armed'[e]
           /\ reply'[e].action = "upgrade" => reply'[e].status = 101
           /\ phase'[e] = "handed" => phase[e] = "handed" /\ reply'[e] = reply[e]
           /\ phase[e] \in {"handed", "over"} => phase'[e] = phase[e] /\ reply'[e] = reply[e]
      /\ closed => \A e \in Sockets : phase'[e] \in {"new", "over"}
  BY <1>1, <1>2, <1>3, FinishReadServicer
<1>5. CASE UNCHANGED <<clientVars, undefined>>
  <2>1. TypeOK'
    BY <1>0, <1>2, <1>4, <1>5 DEF TypeOK, listenerVars, clientVars
  <2>2. HandedOver'
    BY <1>0, <1>4, <1>5 DEF HandedOver, clientVars
  <2> QED BY <1>2, <1>4, <1>5, <2>1, <2>2, ServicerStep
<1>6. CASE d \in clients /\ Disconnected(d) /\ UNCHANGED connected /\ undefined' \in BOOLEAN
  <2>1. /\ clients' \subseteq Sockets /\ conn' \in [Sockets -> {"none", "running", "closed"}]
        /\ shown' \in [Sockets -> SUBSET Signals]
        /\ offered' \subseteq Sockets /\ appSees' \subseteq Sockets
        /\ connected' \in [Sockets -> 0..1] /\ disconnected' \in [Sockets -> 0..1]
        /\ Running' /\ Told' /\ Offers'
        /\ ~undefined => \A e \in clients' : shown'[e] = signals'
        /\ \A e \in Sockets : conn'[e] # "none" <=> conn[e] # "none"
        /\ clients' \subseteq clients
    <3>1. conn[d] = "running"
      BY <1>0, <1>6 DEF Running
    <3> QED BY <1>2, <1>6, <3>1, DisconnectedClients
  <2>2. TypeOK'
    BY <1>0, <1>2, <1>4, <1>6, <2>1 DEF TypeOK, listenerVars
  <2>3. HandedOver'
    BY <1>0, <1>4, <2>1 DEF HandedOver
  <2>4. SignalsEverywhere' /\ ClosedIsEmpty'
    BY <1>0, <1>2, <1>4, <2>1 DEF SignalsEverywhere, ClosedIsEmpty
  <2> QED BY <1>4, <2>1, <2>2, <2>3, <2>4 DEF IInv
<1> QED BY <1>5, <1>6 DEF Command

\* The hand-over: the socket becomes a client, unless it is found broken.
LEMMA UpgradeIInv ==
  ASSUME IInv, NEW c \in Sockets, Upgrade(c)
  PROVE  IInv'
<1> USE DEF Upgrade, FinishWriteUpgrade
<1>0. TypeOK /\ Running /\ SessionsListed /\ SignalsEverywhere /\ HandedOver /\ Told
      /\ Offers /\ ClosedIsEmpty
  BY DEF IInv
<1>1. ~closed /\ conn[c] = "none" /\ connected[c] = 0 /\ disconnected[c] = 0 /\ c \notin clients
  BY <1>0 DEF ClosedIsEmpty, HandedOver, Told, Running
<1>2. reply[c].status = 101 /\ reply' = reply
  BY <1>0 DEF HandedOver
<1>3. \A d \in Sockets : /\ phase'[d] = IF d = c THEN "handed" ELSE phase[d]
                         /\ armed'[d] = IF d = c THEN FALSE ELSE armed[d]
  BY <1>0 DEF TypeOK
<1>4. \/ UNCHANGED clientVars
      \/ /\ clients' = clients \cup {c}
         /\ conn' = [conn EXCEPT ![c] = "running"]
         /\ shown' = [shown EXCEPT ![c] = signals]
         /\ connected' = [connected EXCEPT ![c] = 1]
         /\ UNCHANGED <<offered, appSees, disconnected>>
      \/ /\ conn' = [conn EXCEPT ![c] = "closed"]
         /\ connected' = [connected EXCEPT ![c] = 1]
         /\ disconnected' = [disconnected EXCEPT ![c] = 1]
         /\ UNCHANGED <<clients, shown, offered, appSees>>
  BY <1>0, <1>1 DEF TypeOK
<1>5. UNCHANGED <<listenerVars, closed, onClosed, sessions, signals, broken, undefined>>
  OBVIOUS
<1>6. phase' \in [Sockets -> Phase] /\ armed' \in [Sockets -> BOOLEAN] /\ UNCHANGED asked
  BY <1>0 DEF TypeOK, Phase
<1>7. SessionsListed'
  <2>1. \A d \in Sockets :
          phase'[d] \in Outstanding \cup {"handed"} <=> phase[d] \in Outstanding \cup {"handed"}
    BY <1>0, <1>3 DEF Outstanding
  <2> QED BY <1>0, <1>5, <2>1 DEF SessionsListed
<1> HIDE DEF Upgrade, FinishWriteUpgrade
<1>8. TypeOK'
  BY <1>0, <1>2, <1>4, <1>5, <1>6 DEF TypeOK, clientVars, listenerVars
<1>9. Running' /\ Offers'
  BY <1>0, <1>1, <1>4, <1>5 DEF TypeOK, Running, Offers, clientVars
<1>10. SignalsEverywhere'
  BY <1>0, <1>1, <1>4, <1>5 DEF TypeOK, SignalsEverywhere, clientVars
<1>11. \A d \in Sockets : d # c => conn'[d] = conn[d] /\ connected'[d] = connected[d] /\ disconnected'[d] = disconnected[d]
  BY <1>0, <1>4 DEF TypeOK, clientVars
<1>12. HandedOver'
  BY <1>0, <1>2, <1>3, <1>11 DEF HandedOver, Outstanding
<1>13. Told'
  <2>1. /\ conn'[c] = "none" => connected'[c] = 0 /\ disconnected'[c] = 0
        /\ conn'[c] = "running" => connected'[c] = 1 /\ disconnected'[c] = 0
        /\ conn'[c] = "closed" => connected'[c] = 1 /\ disconnected'[c] = 1
    BY <1>0, <1>1, <1>4 DEF TypeOK, clientVars
  <2> QED BY <1>0, <1>5, <1>11, <2>1 DEF Told
<1>14. ClosedIsEmpty'
  BY <1>0, <1>1, <1>5 DEF ClosedIsEmpty
<1> QED BY <1>7, <1>8, <1>9, <1>10, <1>12, <1>13, <1>14 DEF IInv

\* What a connection offers is forwarded while its entry exists.
LEMMA RemoteSignalIInv ==
  ASSUME IInv, NEW c \in Sockets, RemoteSignal(c)
  PROVE  IInv'
<1> USE DEF RemoteSignal
<1>0. TypeOK /\ Running /\ SessionsListed /\ SignalsEverywhere /\ HandedOver /\ Told
      /\ Offers /\ ClosedIsEmpty
  BY DEF IInv
<1>1. c \in clients
  BY <1>0 DEF Running
<1>2. TypeOK'
  BY <1>0 DEF TypeOK, servicerVars, listenerVars
<1>3. Offers'
  BY <1>0, <1>1 DEF Offers
<1>4. /\ Running' /\ SessionsListed' /\ SignalsEverywhere' /\ HandedOver' /\ Told'
      /\ ClosedIsEmpty'
  BY <1>0 DEF Running, SessionsListed, SignalsEverywhere, HandedOver, Told, ClosedIsEmpty, servicerVars
<1> QED BY <1>2, <1>3, <1>4 DEF IInv

\* A local signal that is added or removed reaches all clients, unless the loop
\* over them lost its place.
LEMMA LocalSignalIInv ==
  ASSUME IInv, NEW s \in Signals, AddLocalSignal(s) \/ RemoveLocalSignal(s)
  PROVE  IInv'
<1> USE DEF AddLocalSignal, RemoveLocalSignal
<1>0. TypeOK /\ Running /\ SessionsListed /\ SignalsEverywhere /\ HandedOver /\ Told
      /\ Offers /\ ClosedIsEmpty
  BY DEF IInv
<1>1. /\ signals' \subseteq Signals /\ shown' \in [Sockets -> SUBSET Signals]
      /\ undefined' \in BOOLEAN
  BY <1>0 DEF TypeOK
<1>2. TypeOK'
  BY <1>0, <1>1 DEF TypeOK, servicerVars, listenerVars
<1>3. SignalsEverywhere'
  BY <1>0 DEF TypeOK, SignalsEverywhere
<1>4. Running' /\ SessionsListed' /\ HandedOver' /\ Told' /\ Offers' /\ ClosedIsEmpty'
  BY <1>0 DEF Running, SessionsListed, HandedOver, Told, Offers, ClosedIsEmpty, servicerVars
<1> QED BY <1>2, <1>3, <1>4 DEF IInv

\* close() takes all clients and all sessions along, the handed-over ones too.
LEMMA CloseIInv ==
  ASSUME IInv, Close
  PROVE  IInv'
<1> USE DEF Close, DropServicers
<1>0. TypeOK /\ Running /\ SessionsListed /\ SignalsEverywhere /\ HandedOver /\ Told
      /\ Offers /\ ClosedIsEmpty
  BY DEF IInv
<1>1. closed' = TRUE /\ onClosed' = 1
  BY <1>0 DEF ClosedIsEmpty
<1>2. \A c \in Sockets : phase'[c] \in {"new", "over"} /\ (~armed'[c] \/ (armed[c] /\ c \notin sessions))
  BY <1>0 DEF TypeOK, SessionsListed, Phase, Outstanding
<1>3. \A c \in Sockets : ~armed'[c]
  BY <1>0, <1>2 DEF HandedOver, SessionsListed
<1>4. \A c \in Sockets : conn'[c] = IF conn[c] = "running" THEN "closed" ELSE conn[c]
  BY <1>0 DEF Running
<1>5. TypeOK'
  <2>1. phase' \in [Sockets -> Phase] /\ armed' \in [Sockets -> BOOLEAN]
    BY <1>0 DEF TypeOK, Phase
  <2>2. accept' \in AcceptState
    BY <1>0 DEF TypeOK, AcceptState
  <2>3. conn' \in [Sockets -> {"none", "running", "closed"}] /\ shown' \in [Sockets -> SUBSET Signals]
    BY <1>0 DEF TypeOK
  <2> QED BY <1>0, <1>1, <2>1, <2>2, <2>3 DEF TypeOK
<1>6. Running' /\ Offers' /\ SignalsEverywhere'
  BY <1>0, <1>1, <1>4 DEF Running, Offers, SignalsEverywhere
<1>7. Told'
  BY <1>0, <1>1, <1>4 DEF Told
<1>8. HandedOver'
  BY <1>0, <1>2, <1>3, <1>4 DEF HandedOver, Outstanding
<1>9. SessionsListed' /\ ClosedIsEmpty'
  BY <1>1, <1>2 DEF SessionsListed, ClosedIsEmpty
<1> QED BY <1>5, <1>6, <1>7, <1>8, <1>9 DEF IInv

LEMMA NextIInv == IInv /\ [Next]_vars => IInv'
<1> SUFFICES ASSUME IInv, [Next]_vars PROVE IInv'
  OBVIOUS
<1>1. CASE UNCHANGED vars
  BY <1>1, StutterIInv
<1>2. CASE Next
  BY <1>2, ListenerIInv, FinishAcceptIInv, SessionGoesOnIInv, SessionEndsIInv, UpgradeIInv,
     RequestIInv, CommandIInv, ConnectionLostIInv, BreakIInv, RemoteSignalIInv, LocalSignalIInv,
     CloseIInv
  DEF Next, Operations
<1> QED BY <1>1, <1>2

\* The invariant of server and servicers holds in every reachable state.
THEOREM ServerInvariant == Spec => []IInv
BY InitIInv, NextIInv, PTL DEF Spec
-----------------------------------------------------------------------------
\* server::_clients holds exactly the connections that run and server::_sessions
\* every servicer at work and none that has closed, whatever is accepted,
\* upgraded, lost or closed in whatever order.
THEOREM ListsExactTheorem == Spec => []ListsExact
<1>1. ASSUME IInv PROVE ListsExact
  <2>1. ClientsRun
    BY <1>1 DEF IInv, Running, ClientsRun
  <2>2. SessionsExact
    BY <1>1 DEF IInv, TypeOK, SessionsListed, SessionsExact, ClosedIsEmpty, Outstanding
  <2> QED BY <1>1, <2>1, <2>2 DEF IInv, ListsExact
<1> QED BY <1>1, ServerInvariant, PTL

\* Every client has exactly the signals of the server: add_local_signal,
\* remove_local_signal and on_servicer_websocket_upgrade leave no gap.
THEOREM SignalsEverywhereTheorem == Spec => []SignalsEverywhere
<1>1. IInv => SignalsEverywhere
  BY DEF IInv
<1> QED BY <1>1, ServerInvariant, PTL

\* While the server is open, on_client_connected and on_client_disconnected are
\* raised once each and in balance with the list of clients, and the application
\* knows the remote signals of live clients and no other.
THEOREM ReportsCompleteTheorem == Spec => []ReportsComplete
<1>1. ASSUME IInv PROVE ReportsComplete
  <2>1. ClientsReported
    <3> SUFFICES ASSUME ~closed, NEW c \in Sockets
                 PROVE  c \in clients <=> (connected[c] = 1 /\ disconnected[c] = 0)
      BY DEF ClientsReported
    <3>1. c \in clients <=> conn[c] = "running"
      BY <1>1 DEF IInv, Running
    <3>2. conn[c] \in {"none", "running", "closed"}
      BY <1>1 DEF IInv, TypeOK
    <3>3. /\ conn[c] = "none" => connected[c] = 0
          /\ conn[c] = "running" => connected[c] = 1 /\ disconnected[c] = 0
          /\ conn[c] = "closed" => disconnected[c] = 1
      BY <1>1 DEF IInv, Told
    <3> QED BY <3>1, <3>2, <3>3
  <2>2. RemoteSignalsReported
    BY <1>1 DEF IInv, RemoteSignalsReported, Offers
  <2> QED BY <2>1, <2>2 DEF ReportsComplete
<1> QED BY <1>1, ServerInvariant, PTL

\* A connection that exists comes from a 101 answer, and no deadline of the HTTP
\* side is left on its socket.
THEOREM UpgradedUndisturbedTheorem == Spec => []UpgradedUndisturbed
<1>1. IInv => UpgradedUndisturbed
  BY DEF IInv, HandedOver, UpgradedUndisturbed, Outstanding
<1> QED BY <1>1, ServerInvariant, PTL

\* After close() has raised on_closed nothing is reported, no session starts and
\* no client appears, although handlers that were queued before still run.
THEOREM QuietAfterCloseTheorem == Spec => QuietAfterClose
<1> DEFINE Q == closed => UNCHANGED <<onClosed, sessions, clients, connected, disconnected, appSees>>
<1>1. ASSUME IInv, [Next]_vars PROVE [Q]_vars
  <2> SUFFICES ASSUME closed, Next PROVE Q
    BY <1>1
  <2>1. /\ clients = {} /\ \A c \in Sockets : phase[c] \in {"new", "over"} /\ conn[c] # "running"
    BY <1>1 DEF IInv, ClosedIsEmpty, Running
  <2>2. ASSUME NEW c \in Sockets, FinishAccept(c) PROVE Q
    BY <2>2 DEF FinishAccept, OnListenerAccept, clientVars
  <2>3. ASSUME NEW c \in Sockets,
               \/ Handshake(c) \/ Keepalive(c) \/ SessionEnds(c) \/ Deadline(c) \/ Upgrade(c)
               \/ \E k \in RequestKind, keepAlive \in BOOLEAN : Request(c, k, keepAlive)
               \/ \E d \in Sockets, keepAlive \in BOOLEAN : Command(c, d, keepAlive)
        PROVE  FALSE
    BY <2>1, <2>3
    DEF Handshake, FinishHandshake, Keepalive, FinishWriteKeepalive, SessionEnds, Deadline,
        OperationFails, FinishWriteClose, Upgrade, FinishWriteUpgrade, Request, Command, FinishRead,
        Outstanding
  <2>4. ASSUME NEW c \in Sockets, ConnectionLost(c) \/ RemoteSignal(c) PROVE FALSE
    BY <2>1, <2>4 DEF ConnectionLost, RemoteSignal
  <2>5. ASSUME NEW c \in Sockets, Break(c) PROVE Q
    BY <2>5 DEF Break, clientVars
  <2>6. ASSUME NEW s \in Signals, AddLocalSignal(s) \/ RemoveLocalSignal(s) PROVE Q
    BY <2>6 DEF AddLocalSignal, RemoveLocalSignal
  <2>7. ASSUME \/ (\E k \in ListenerKind : AddListener(k)) \/ Run
               \/ AcceptCompletes \/ FinishAcceptError \/ Close
        PROVE  Q
    BY <2>7 DEF AddListener, Run, AcceptCompletes, FinishAcceptError, Close, clientVars
  <2> QED BY <2>2, <2>3, <2>4, <2>5, <2>6, <2>7 DEF Next, Operations
<1> QED BY <1>1, ServerInvariant, PTL DEF Spec, QuietAfterClose
=============================================================================
