----------------------------- MODULE SignalLink -----------------------------
(***************************************************************************)
(* One connection with both ends of this library: LocalSignals at the      *)
(* source, RemoteSignals at the sink, applications at both, and the        *)
(* messages between them in flight for as long as it takes.                *)
(***************************************************************************)
EXTENDS LocalSignals, RemoteSignals

CONSTANTS MaxRemovals, \* bound: remove_local_signal calls in one behaviour
          DomainFirst  \* whether the application adds domain signals before their users

VARIABLE removals

vars == <<toSink, toSource, localVars, remoteVars, removals>>

Init ==
  /\ toSink = <<>> /\ toSource = <<>>
  /\ LocalInit /\ RemoteInit
  /\ removals = 0

\* The source application acts while the queue to the sink is short.
SourceApp ==
  /\ Len(toSink) < MaxQueue
  /\ UNCHANGED remoteVars
  /\ \/ \E s \in Signals :
          /\ (DomainFirst /\ HasDomain(s)) => IsRegistered(TableOf[s])
          /\ AddLocalSignal(s)
          /\ UNCHANGED removals
     \/ \E s \in Signals : RemoveLocalSignal(s) /\ removals < MaxRemovals /\ removals' = removals + 1
     \/ \E s \in Signals, jump \in BOOLEAN : Publish(s, jump) /\ UNCHANGED removals
     \/ Hello /\ UNCHANGED removals

\* The source reads the next request, while the queue to the sink is short.
Source ==
  /\ Len(toSink) < MaxQueue
  /\ HandleRequest
  /\ UNCHANGED <<remoteVars, removals>>

SinkApp ==
  /\ Len(toSource) < MaxQueue
  /\ \E s \in Signals : AppSubscribe(s) \/ AppUnsubscribe(s)
  /\ UNCHANGED <<localVars, removals>>

Sink ==
  /\ \/ HandleInit \/ HandleAvailable \/ HandleUnavailable
     \/ HandleSubscribe \/ HandleUnsubscribe \/ HandleSignal
     \/ HandleData \/ HandleResponse
  /\ UNCHANGED <<localVars, removals>>

Disconnect ==
  \/ SourceClosed /\ UNCHANGED <<remoteVars, removals>>
  \/ SinkClosed /\ UNCHANGED <<localVars, removals>>

Next == SourceApp \/ Source \/ SinkApp \/ Sink \/ Disconnect

Spec == Init /\ [][Next]_vars

\* Both execution contexts keep handling what arrives.  Fairness of the source
\* is strong because the queue bound, which the code does not have, disables it
\* from time to time.
FairSpec == Spec /\ SF_vars(Source) /\ WF_vars(Sink)
-----------------------------------------------------------------------------
(* Properties. *)

\* Every variable has its type.
TypeOK ==
  /\ registered \in [Signals -> Entry \cup {Unregistered}]
  /\ nextSigno \in 1..(MaxSigno + 1)
  /\ \A s \in Signals : IsKnown(s) =>
       /\ known[s].object \in 1..(nextObject - 1)
       /\ known[s].uses \in 0..MaxUses
  /\ pending \in Nat
  /\ announced \in [Signals -> Nat]

\* When nothing is in flight, the sink shows exactly the registered signals.
AvailabilityAgrees ==
  (sourceOpen /\ sinkOpen /\ helloSent /\ toSink = <<>>) =>
    {s \in Signals : IsKnown(s) /\ ~known[s].hidden} = {s \in Signals : IsRegistered(s)}

\* When nothing is in flight, both ends agree on what is being transmitted.
SubscriptionAgrees ==
  (sourceOpen /\ sinkOpen /\ helloSent /\ toSink = <<>>) =>
    \A s \in Signals : IsRegistered(s) =>
      (known[s].subscribed <=> registered[s].hooked)

\* Every request is answered exactly once.
RequestsAnswered ==
  (sourceOpen /\ sinkOpen) =>
    pending = Len(toSource) + Cardinality({i \in DOMAIN toSink : toSink[i].kind = "response"})

\* What the sink's application wants transmitted is what the source transmits,
\* once all requests are handled.
DemandMet ==
  (sourceOpen /\ sinkOpen /\ helloSent /\ toSink = <<>> /\ toSource = <<>>) =>
    \A s \in Signals : (IsKnown(s) /\ IsRegistered(s)) =>
      (known[s].uses > 0 <=> registered[s].explicit)

\* A transmitted signal's domain signal is transmitted too, and is counted
\* once for each of its users.
DomainCounted ==
  \A t \in Signals : IsRegistered(t) =>
    registered[t].implicit =
      Cardinality({s \in Signals : HasDomain(s) /\ TableOf[s] = t /\ IsRegistered(s) /\ registered[s].hooked})

\* At the sink a subscribed signal whose domain signal has the linear table of
\* that name is bound to the live domain signal as soon as its metadata is
\* there; a signal for which no linear table of that name exists, because the
\* domain signal is not linear or gives no table id, is bound to nothing.
DomainBound ==
  sinkOpen => \A s \in Signals :
    (IsKnown(s) /\ known[s].subscribed /\ known[s].described /\ HasDomain(s)) =>
      /\ TablesNamed(s) = {TableOf[s]} =>
           known[s].domain = known[TableOf[s]].object /\ known[s].domain # 0
      /\ TablesNamed(s) = {} => known[s].domain = 0

\* An application that subscribes and stays subscribed is eventually served.
SubscribeTakesEffect ==
  \A s \in Signals :
    (IsKnown(s) /\ known[s].uses > 0) ~>
      (~IsKnown(s) \/ known[s].uses = 0 \/ known[s].subscribed \/ ~sourceOpen)

\* local_signal.hpp: a signal a remote peer is subscribed to is transmitted, even
\* when it is a domain signal whose users come and go.
ExplicitIsTransmitted ==
  \A s \in Signals : IsRegistered(s) /\ registered[s].explicit => registered[s].hooked

\* Demand is served: what the sink asked for is marked at the source, and what is
\* marked there is transmitted.
DemandServed == DemandMet /\ ExplicitIsTransmitted

\* Domain signals follow their users, at the source and at the sink.
DomainFollowsUsers == DomainCounted /\ DomainBound

\* Through every order of adding and removing signals the containers of both ends
\* stay sound, and once nothing is in flight they show the same signals.
LinkInv == TypeOK /\ NoDanglingSigno /\ AvailabilityAgrees
=============================================================================
