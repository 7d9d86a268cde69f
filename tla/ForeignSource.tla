--------------------------- MODULE ForeignSource ----------------------------
(***************************************************************************)
(* The sink end against a source that is not this library but follows the  *)
(* protocol.  It may start transmitting a signal it has not advertised,    *)
(* the case the comments in handle_available and handle_unavailable are    *)
(* about; it may move a signal to another number while it streams it, use  *)
(* numbers again, and end once more what has ended already.  Two things it *)
(* does not do, and the code would not stand: it gives no signal the       *)
(* number another one had last, until that one is withdrawn, and it says   *)
(* nothing more under a number it has replaced, unless it gives it out     *)
(* again.                                                                  *)
(***************************************************************************)
EXTENDS RemoteSignals

CONSTANTS MaxNumber,     \* bound: the signal numbers are 1..MaxNumber
          MaxWithdrawals \* bound: withdrawals in one behaviour

ASSUME ForeignAssumption == MaxNumber \in Nat

VARIABLES advertised, \* the signals the source has advertised
          streaming,  \* the signals it transmits
          number,     \* signal -> the signo it was last given, 0 if none since its withdrawal
          replaced,   \* every number that was given up for another one while in use
          withdrawals

foreignVars == <<advertised, streaming, number, replaced, withdrawals>>
linkVars == <<toSink, toSource, remoteVars, foreignVars>>

ForeignInit ==
  /\ toSink = <<InitMsg>> /\ toSource = <<>>
  /\ RemoteInit
  /\ advertised = {} /\ streaming = {}
  /\ number = [s \in Signals |-> 0] /\ replaced = {}
  /\ withdrawals = 0

Advertise(ids) ==
  /\ ids # {} /\ ids \cap advertised = {}
  /\ advertised' = advertised \cup ids
  /\ toSink' = Append(toSink, AvailableMsg(ids))
  /\ UNCHANGED <<streaming, number, replaced, withdrawals>>

\* A withdrawn signal's subscription ends with it.
Withdraw(s) ==
  /\ s \in advertised \cup streaming
  /\ withdrawals < MaxWithdrawals
  /\ withdrawals' = withdrawals + 1
  /\ advertised' = advertised \ {s}
  /\ streaming' = streaming \ {s}
  /\ number' = [number EXCEPT ![s] = 0]
  /\ toSink' = Append(toSink, UnavailableMsg(s))
  /\ UNCHANGED replaced

\* A subscribe message, also for a signal that is streamed already: under the
\* same number again, or under another, which replaces the one it had.
StartStreaming(s, n) ==
  /\ \A u \in Signals \ {s} : number[u] # n
  /\ streaming' = streaming \cup {s}
  /\ number' = [number EXCEPT ![s] = n]
  /\ replaced' = replaced \cup ({number[u] : u \in streaming \cap {s}} \ {n})
  /\ toSink' = toSink \o <<SubscribeMsg(n, s), SignalMsg(n, s)>>
  /\ UNCHANGED <<advertised, withdrawals>>

\* An unsubscribe message under the number of a streamed signal, or once more
\* under one that nothing is streamed under; not under a replaced one.
StopStreaming(n) ==
  /\ n \in replaced => \E s \in streaming : number[s] = n
  /\ streaming' = {s \in streaming : number[s] # n}
  /\ toSink' = Append(toSink, UnsubscribeMsg(n))
  /\ UNCHANGED <<advertised, number, replaced, withdrawals>>

Stream(s) ==
  /\ s \in streaming
  /\ toSink' = Append(toSink, DataMsg(number[s]))
  /\ UNCHANGED foreignVars

Foreign ==
  /\ Len(toSink) < MaxQueue
  /\ \/ \E ids \in SUBSET Signals : Advertise(ids)
     \/ \E s \in Signals : Withdraw(s) \/ Stream(s)
     \/ \E s \in Signals, n \in 1 .. MaxNumber : StartStreaming(s, n)
     \/ \E n \in 1 .. MaxNumber : StopStreaming(n)
  /\ UNCHANGED <<toSource, remoteVars>>

\* Requests are answered without effect: when to stream is the source's choice.
Answer ==
  /\ Len(toSink) < MaxQueue /\ toSource # <<>>
  /\ toSource' = Tail(toSource)
  /\ toSink' = Append(toSink, ResponseMsg)
  /\ UNCHANGED <<remoteVars, foreignVars>>

ReceiverApp ==
  /\ Len(toSource) < MaxQueue
  /\ \E s \in Signals : AppSubscribe(s) \/ AppUnsubscribe(s)
  /\ UNCHANGED foreignVars

Receiver ==
  /\ \/ HandleInit \/ HandleAvailable \/ HandleUnavailable
     \/ HandleSubscribe \/ HandleUnsubscribe \/ HandleSignal
     \/ HandleData \/ HandleResponse
     \/ SinkClosed
  /\ UNCHANGED foreignVars

ForeignNext == Foreign \/ Answer \/ ReceiverApp \/ Receiver

ForeignSpec == ForeignInit /\ [][ForeignNext]_linkVars
-----------------------------------------------------------------------------
\* When nothing is in flight, the application sees exactly the advertised
\* signals: one that was streamed first is announced when it is advertised.
AdvertisedShown ==
  (sinkOpen /\ toSink = <<>>) =>
    {s \in Signals : announced[s] > 0} = advertised

\* When nothing is in flight, exactly the streamed signals are subscribed.
StreamedSubscribed ==
  (sinkOpen /\ toSink = <<>>) =>
    streaming = {s \in Signals : IsKnown(s) /\ known[s].subscribed}

\* Signals come and go for the application as the source says: each announced
\* once, and shown exactly while it is advertised.
ShownAsAdvertised == AnnouncedExactly /\ AdvertisedShown

\* _signals_by_signo holds raw pointers into _signals_by_id.  One that outlives
\* its entry is the pointer of a replaced number, which set_remote_signal_signo
\* leaves behind and remove_remote_signal does not know of; no other does.
DanglingOnlyReplaced == \A n \in DOMAIN bySigno : Target(n) # {} \/ n \in replaced

\* A subscribed signal is found under the number it holds, and no other signal is.
FoundUnderOwnNumber ==
  \A s \in Signals : IsKnown(s) /\ known[s].subscribed => Target(known[s].signo) = {s}

\* Signal numbers lead where they should, through renumbering, reuse, repeated
\* and late unsubscribes: no pointer dangles but those of replaced numbers, each
\* subscribed signal has its own number, and the number of each message leads to
\* a signal that is subscribed.
NumbersResolve == DanglingOnlyReplaced /\ FoundUnderOwnNumber /\ MessagesAttributable
=============================================================================
