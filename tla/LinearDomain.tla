---------------------------- MODULE LinearDomain ----------------------------
(***************************************************************************)
(* The domain values (timestamps) of samples.  A linear-rule domain signal *)
(* is not transmitted sample by sample: both ends keep a linear_table that *)
(* predicts the value at every sample index, and the source transmits a    *)
(* new anchor point only where the prediction fails.  Several signals can  *)
(* share one table: explicit-rule signals count their own samples and use  *)
(* that count as the index; the others are driven, using the index the     *)
(* explicit ones have driven the table to.                                 *)
(*                                                                         *)
(* A message here is the metadata or data of a subscribed signal; that     *)
(* they arrive in order while the sink can attribute them is what          *)
(* PeerProofs and SignalLink (MessagesAttributable) establish.             *)
(***************************************************************************)
EXTENDS Integers, Sequences

CONSTANTS Explicit,        \* the explicit-rule signals on the table
          Driven,          \* the other signals on the table
          Domain,          \* the domain signal
          Rules,           \* [start, delta] of the domain metadata
          MetadataIndexes, \* "valueIndex" of application metadata, NoIndex if absent
          DomainValues,    \* the domain values published
          Counts,          \* the sample counts published
          MaxQueue,        \* bound: the source acts only while the queue is shorter
          MaxSamples,      \* bound: value_index
          MaxChanges       \* bound: set_metadata calls in one behaviour

NoIndex == -1

ASSUME LinearAssumption ==
  /\ Domain \notin Explicit \cup Driven /\ Explicit \cap Driven = {}
  /\ Rules \subseteq [start : Int, delta : Int]
  /\ MetadataIndexes \subseteq Nat \cup {NoIndex}
  /\ DomainValues \subseteq Int /\ Counts \subseteq Nat
  /\ MaxQueue \in Nat /\ MaxSamples \in Nat /\ MaxChanges \in Nat

VARIABLES metadata,    \* the domain signal's metadata: its rule and valueIndex
          subscribed,  \* the signals whose slots are connected at the source
          table,       \* linear_table of the domain signal at the source
          valueIndex,  \* value_index of each explicit signal at the source
          toSink,      \* messages in flight
          sinkTable,   \* linear_table at the sink
          sinkIndex,   \* _value_index of each explicit signal at the sink
          delivered,   \* the last sample: published with, and delivered with
          changes

sourceVars == <<metadata, subscribed, table, valueIndex, changes>>
sinkVars == <<sinkTable, sinkIndex, delivered>>
vars == <<sourceVars, sinkVars, toSink>>

Values == Explicit \cup Driven
-----------------------------------------------------------------------------
(* linear_table *)

EmptyTable == [index |-> 0, value |-> 0, delta |-> 0, driven |-> 0]

\* update(metadata): the anchor moves to the start; the index only if given.
UpdateFromMetadata(t, rule, index) ==
  [index  |-> IF index = NoIndex THEN t.index ELSE index,
   value  |-> rule.start,
   delta  |-> rule.delta,
   driven |-> IF index = NoIndex THEN t.driven ELSE index]

\* update(payload) at the sink, set() at the source.
Set(t, index, value) == [t EXCEPT !.index = index, !.value = value, !.driven = index]

ValueAt(t, index) == t.value + t.delta * (index - t.index)

DriveTo(t, index) == [t EXCEPT !.driven = index]
-----------------------------------------------------------------------------
DomainSignalMsg(rule, index) == [kind |-> "domainSignal", rule |-> rule, index |-> index]
SignalMsg(s, index) == [kind |-> "signal", id |-> s, index |-> index]
DomainDataMsg(index, value) == [kind |-> "domainData", index |-> index, value |-> value]
\* value is what the sample was published with; it is not on the wire.
DataMsg(s, count, value) == [kind |-> "data", id |-> s, count |-> count, value |-> value]

Init ==
  /\ metadata \in [rule : Rules, index : MetadataIndexes]
  /\ subscribed = {}
  /\ table = UpdateFromMetadata(EmptyTable, metadata.rule, metadata.index)
  /\ valueIndex = [s \in Explicit |-> 0]
  /\ toSink = <<>>
  /\ sinkTable = EmptyTable
  /\ sinkIndex = [s \in Explicit |-> 0]
  /\ delivered = [published |-> 0, received |-> 0]
  /\ changes = 0

-----------------------------------------------------------------------------
(* The source. *)

\* The metadata subscribe() sends: the valueIndex is the signal's own count.
OwnMetadata(s) == IF s \in Explicit THEN <<SignalMsg(s, valueIndex[s])>> ELSE <<>>

\* subscribe(): the first subscription of a signal subscribes the domain
\* signal, which refreshes the source's table from the metadata and sends it
\* with the domain signal's own value_index, which is 0.
Subscribe(s) ==
  /\ s \in Values \cup {Domain} /\ s \notin subscribed
  /\ subscribed' = subscribed \cup {s}
  /\ IF subscribed = {}
       THEN /\ table' = UpdateFromMetadata(table, metadata.rule, metadata.index)
            /\ toSink' = toSink \o <<DomainSignalMsg(metadata.rule, 0)>> \o OwnMetadata(s)
       ELSE /\ toSink' = toSink \o OwnMetadata(s)
            /\ UNCHANGED table
  /\ UNCHANGED <<metadata, valueIndex, changes, sinkVars>>

\* unsubscribe(): both ends keep their tables and counts.
Unsubscribe(s) ==
  /\ s \in subscribed
  /\ subscribed' = subscribed \ {s}
  /\ UNCHANGED <<metadata, table, valueIndex, changes, toSink, sinkVars>>

\* set_metadata on the domain signal; on_local_signal_metadata_changed runs
\* only while it is subscribed.
ChangeDomainMetadata(rule, index) ==
  /\ changes < MaxChanges
  /\ changes' = changes + 1
  /\ metadata' = [rule |-> rule, index |-> index]
  /\ IF subscribed # {}
       THEN /\ table' = UpdateFromMetadata(table, rule, index)
            /\ toSink' = Append(toSink, DomainSignalMsg(rule, index))
       ELSE UNCHANGED <<table, toSink>>
  /\ UNCHANGED <<subscribed, valueIndex, sinkVars>>

\* set_metadata on an explicit signal that is subscribed.
ChangeMetadata(s, index) ==
  /\ s \in subscribed \cap Explicit
  /\ changes < MaxChanges
  /\ changes' = changes + 1
  /\ valueIndex' = [valueIndex EXCEPT ![s] = 0]
  /\ toSink' = Append(toSink, SignalMsg(s, index))
  /\ UNCHANGED <<metadata, subscribed, table, sinkVars>>

\* The domain data that precedes a sample, and the table after it.
Anchored(index, value) ==
  IF value = ValueAt(table, index)
    THEN [table |-> table, sent |-> <<>>]
    ELSE [table |-> Set(table, index, value), sent |-> <<DomainDataMsg(index, value)>>]

\* Mutant of PublishExplicit: the table is not driven along.
PublishExplicitUndriven(s, value, count) ==
  LET anchored == Anchored(valueIndex[s], value)
  IN  /\ s \in subscribed \cap Explicit
      /\ valueIndex[s] + count <= MaxSamples
      /\ toSink' = toSink \o anchored.sent \o <<DataMsg(s, count, value)>>
      /\ valueIndex' = [valueIndex EXCEPT ![s] = @ + count]
      /\ table' = anchored.table
      /\ UNCHANGED <<metadata, subscribed, changes, sinkVars>>

\* on_local_signal_data_published of an explicit signal.
PublishExplicit(s, value, count) ==
  LET anchored == Anchored(valueIndex[s], value)
  IN  /\ s \in subscribed \cap Explicit
      /\ valueIndex[s] + count <= MaxSamples
      /\ toSink' = toSink \o anchored.sent \o <<DataMsg(s, count, value)>>
      /\ valueIndex' = [valueIndex EXCEPT ![s] = @ + count]
      /\ table' = DriveTo(anchored.table, valueIndex'[s])
      /\ UNCHANGED <<metadata, subscribed, changes, sinkVars>>

\* on_local_signal_data_published of any other signal on the table.
PublishDriven(s, value) ==
  LET anchored == Anchored(table.driven, value)
  IN  /\ s \in subscribed \cap Driven
      /\ toSink' = toSink \o anchored.sent \o <<DataMsg(s, 1, value)>>
      /\ table' = anchored.table
      /\ UNCHANGED <<metadata, subscribed, valueIndex, changes, sinkVars>>

Source ==
  /\ Len(toSink) < MaxQueue
  /\ \/ \E s \in Values \cup {Domain} : Subscribe(s) \/ Unsubscribe(s)
     \/ \E rule \in Rules, index \in MetadataIndexes : ChangeDomainMetadata(rule, index)
     \/ \E s \in Explicit, index \in MetadataIndexes : ChangeMetadata(s, index)
     \/ \E s \in Explicit, value \in DomainValues, count \in Counts : PublishExplicit(s, value, count)
     \/ \E s \in Driven, value \in DomainValues : PublishDriven(s, value)
-----------------------------------------------------------------------------
(* The sink. *)

Receive(kind) ==
  /\ toSink # <<>> /\ Head(toSink).kind = kind
  /\ toSink' = Tail(toSink)
  /\ UNCHANGED sourceVars

\* remote_signal_impl::handle_signal of the domain signal.
HandleDomainSignal ==
  /\ Receive("domainSignal")
  /\ sinkTable' = UpdateFromMetadata(sinkTable, Head(toSink).rule, Head(toSink).index)
  /\ UNCHANGED <<sinkIndex, delivered>>

\* remote_signal_impl::handle_signal of an explicit signal.
HandleSignal ==
  LET m == Head(toSink)
  IN  /\ Receive("signal")
      /\ sinkIndex' = IF m.index = NoIndex THEN sinkIndex
                      ELSE [sinkIndex EXCEPT ![m.id] = m.index]
      /\ UNCHANGED <<sinkTable, delivered>>

\* remote_signal_impl::handle_data of the domain signal.
HandleDomainData ==
  /\ Receive("domainData")
  /\ sinkTable' = Set(sinkTable, Head(toSink).index, Head(toSink).value)
  /\ UNCHANGED <<sinkIndex, delivered>>

\* remote_signal_impl::handle_data of a value signal.
HandleData ==
  LET m == Head(toSink)
  IN  /\ Receive("data")
      /\ IF m.id \in Explicit
           THEN /\ delivered' = [published |-> m.value,
                                 received |-> ValueAt(sinkTable, sinkIndex[m.id])]
                /\ sinkIndex' = [sinkIndex EXCEPT ![m.id] = @ + m.count]
                /\ sinkTable' = DriveTo(sinkTable, sinkIndex'[m.id])
           ELSE /\ delivered' = [published |-> m.value,
                                 received |-> ValueAt(sinkTable, sinkTable.driven)]
                /\ UNCHANGED <<sinkIndex, sinkTable>>

Sink == HandleDomainSignal \/ HandleSignal \/ HandleDomainData \/ HandleData

Next == Source \/ Sink

Spec == Init /\ [][Next]_vars
-----------------------------------------------------------------------------
(* Properties. *)

\* Every sample is delivered with the domain value publish_data was given,
\* whatever else was published, subscribed or described in between.
DomainValuesIntact == delivered.published = delivered.received

\* When nothing is in flight, both ends predict the same for whatever the
\* source may publish next.
TablesAgree ==
  (toSink = <<>> /\ subscribed # {}) =>
    /\ sinkTable = table
    /\ \A s \in subscribed \cap Explicit : sinkIndex[s] = valueIndex[s]

\* The domain bookkeeping of the two ends is right for every sample delivered and
\* ready for the next one.
DomainInv == DomainValuesIntact /\ TablesAgree
=============================================================================
