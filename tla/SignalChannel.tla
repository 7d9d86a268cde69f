--------------------------- MODULE SignalChannel ----------------------------
(***************************************************************************)
(* What the two ends of a connection share: the signals, and one reliable  *)
(* FIFO of messages per direction (PeerProofs shows that a peer keeps the  *)
(* order; TCP does the rest).  Signals flow from the source, which has     *)
(* local_signals, to the sink, which sees them as remote_signals; requests *)
(* flow back over the in-band command interface.                           *)
(***************************************************************************)
EXTENDS Integers, Sequences, FiniteSets

CONSTANTS Signals,  \* the signal ids
          NoSignal, \* the empty table id
          TableOf,  \* metadata().table_id() of each signal
          LinearSignals, \* the signals whose metadata().rule() is linear
          MaxQueue  \* bound: applications act only while a queue is shorter

\* A domain signal has no domain of its own: its table id is empty or itself.
ASSUME TableAssumption ==
  /\ IsFiniteSet(Signals)
  /\ NoSignal \notin Signals
  /\ TableOf \in [Signals -> Signals \cup {NoSignal}]
  /\ \A s \in Signals :
       TableOf[s] # NoSignal => TableOf[TableOf[s]] \in {NoSignal, TableOf[s]}
  /\ LinearSignals \subseteq Signals
  /\ MaxQueue \in Nat

VARIABLES toSink,   \* messages from the source to the sink
          toSource  \* requests from the sink to the source

\* The signal another signal's domain values come from, if any.
HasDomain(s) == TableOf[s] # NoSignal /\ TableOf[s] # s

\* The signals whose linear table, at the sink, has the table id of s: a
\* linear_table takes its id from the metadata of its own signal.
TablesNamed(s) == {u \in LinearSignals : TableOf[u] = TableOf[s]}

\* The messages.  Metadata and data of one signal carry its signal number.
InitMsg == [kind |-> "init"]
AvailableMsg(ids) == [kind |-> "available", ids |-> ids]
UnavailableMsg(s) == [kind |-> "unavailable", id |-> s]
SubscribeMsg(n, s) == [kind |-> "subscribe", signo |-> n, id |-> s]
UnsubscribeMsg(n) == [kind |-> "unsubscribe", signo |-> n]
SignalMsg(n, s) == [kind |-> "signal", signo |-> n, id |-> s]
DataMsg(n) == [kind |-> "data", signo |-> n]
ResponseMsg == [kind |-> "response"]

Request(method, s) == [method |-> method, id |-> s]
=============================================================================
