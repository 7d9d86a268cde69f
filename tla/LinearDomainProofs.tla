------------------------- MODULE LinearDomainProofs -------------------------
(***************************************************************************)
(* Every sample is delivered with the domain value it was published with,  *)
(* for every set of signals, rules, values and counts and any number of    *)
(* messages in flight, provided that the domain metadata carries the       *)
(* valueIndex the metadata builder writes, which is 0.                     *)
(***************************************************************************)
EXTENDS LinearDomain, SequenceTheorems, TLAPS

Tables == [index : Int, value : Int, delta : Int, driven : Int]

Message ==
  [kind : {"domainSignal"}, rule : Rules, index : Int]
    \cup [kind : {"signal"}, id : Explicit, index : Int]
    \cup [kind : {"domainData"}, index : Int, value : Int]
    \cup [kind : {"data"}, id : Values, count : Nat, value : Int]

\* Every variable has its type.
TypeOK ==
  /\ metadata \in [rule : Rules, index : MetadataIndexes]
  /\ subscribed \subseteq Values \cup {Domain}
  /\ table \in Tables /\ valueIndex \in [Explicit -> Nat]
  /\ toSink \in Seq(Message)
  /\ sinkTable \in Tables /\ sinkIndex \in [Explicit -> Int]
-----------------------------------------------------------------------------
(* What a sink makes of the messages in flight. *)

\* The state of a sink from which it predicts the next domain value.
Predictor == [table : Tables, index : [Explicit -> Int]]

\* The sink's handlers as functions of that state.
After(p, m) ==
  CASE m.kind = "domainSignal" ->
         [table |-> UpdateFromMetadata(p.table, m.rule, m.index), index |-> p.index]
    [] m.kind = "signal" ->
         [table |-> p.table,
          index |-> IF m.index = NoIndex THEN p.index ELSE [p.index EXCEPT ![m.id] = m.index]]
    [] m.kind = "domainData" ->
         [table |-> Set(p.table, m.index, m.value), index |-> p.index]
    [] m.kind = "data" ->
         IF m.id \in Explicit
           THEN [table |-> DriveTo(p.table, p.index[m.id] + m.count),
                 index |-> [p.index EXCEPT ![m.id] = p.index[m.id] + m.count]]
           ELSE p

\* A sample is delivered with the value it was published with.
Right(p, m) ==
  m.kind = "data" =>
    m.value = IF m.id \in Explicit THEN ValueAt(p.table, p.index[m.id])
              ELSE ValueAt(p.table, p.table.driven)

\* P is the sequence of states of a sink that receives q, and every sample of q
\* is delivered right.
Replays(P, q) ==
  /\ P \in [1 .. Len(q) + 1 -> Predictor]
  /\ \A i \in 1 .. Len(q) : Right(P[i], q[i]) /\ P[i + 1] = After(P[i], q[i])

\* A sink in state from receives q, delivers it right and ends in state to.
Run(q, from, to) ==
  \E P \in [1 .. Len(q) + 1 -> Predictor] : Replays(P, q) /\ P[1] = from /\ P[Len(q) + 1] = to

\* After what is in flight the sink will predict what the source predicts.
Agrees(p) ==
  /\ subscribed # {} => p.table = table
  /\ \A s \in subscribed \cap Explicit : p.index[s] = valueIndex[s]

Here == [table |-> sinkTable, index |-> sinkIndex]

\* The inductive invariant: what is in flight is delivered right from where the
\* sink stands, and leads it to where the source stands.
IInv == TypeOK /\ DomainValuesIntact /\ \E p \in Predictor : Run(toSink, Here, p) /\ Agrees(p)
-----------------------------------------------------------------------------
(* linear_table. *)

LEMMA UpdateFromMetadataTyped ==
  ASSUME NEW t \in Tables, NEW rule \in Rules, NEW index \in Int
  PROVE  /\ UpdateFromMetadata(t, rule, index) \in Tables
         /\ index # NoIndex => \A u : UpdateFromMetadata(u, rule, index) = UpdateFromMetadata(t, rule, index)
BY LinearAssumption DEF UpdateFromMetadata, Tables

\* A new anchor is a point of the line.
LEMMA AnchorOnLine ==
  ASSUME NEW t \in Tables, NEW index \in Int, NEW value \in Int
  PROVE  /\ Set(t, index, value) \in Tables /\ Set(t, index, value).driven = index
         /\ ValueAt(Set(t, index, value), index) = value
<1>1. /\ Set(t, index, value).index = index /\ Set(t, index, value).value = value
      /\ Set(t, index, value).delta = t.delta /\ Set(t, index, value).driven = index
  BY DEF Set, Tables
<1>2. t.delta \in Int /\ t.delta * (index - index) = 0
  BY DEF Tables
<1>3. ValueAt(Set(t, index, value), index) = value + t.delta * (index - index)
  BY <1>1 DEF ValueAt
<1>4. Set(t, index, value) \in Tables
  BY DEF Set, Tables
<1>5. value + 0 = value
  OBVIOUS
<1> QED BY <1>1, <1>2, <1>3, <1>4, <1>5

LEMMA DriveToTyped ==
  ASSUME NEW t \in Tables, NEW index \in Int
  PROVE  DriveTo(t, index) \in Tables
BY DEF DriveTo, Tables

\* The sink's handlers keep the types.
LEMMA AfterTyped ==
  ASSUME NEW p \in Predictor, NEW m \in Message
  PROVE  After(p, m) \in Predictor
<1>0. p.table \in Tables /\ p.index \in [Explicit -> Int]
  BY DEF Predictor
<1>1. CASE m \in [kind : {"domainSignal"}, rule : Rules, index : Int]
  <2>1. UpdateFromMetadata(p.table, m.rule, m.index) \in Tables
    BY <1>0, <1>1, UpdateFromMetadataTyped
  <2>2. After(p, m) = [table |-> UpdateFromMetadata(p.table, m.rule, m.index), index |-> p.index]
    BY <1>1 DEF After
  <2> QED BY <1>0, <2>1, <2>2 DEF Predictor
<1>2. CASE m \in [kind : {"signal"}, id : Explicit, index : Int]
  <2>1. (IF m.index = NoIndex THEN p.index ELSE [p.index EXCEPT ![m.id] = m.index]) \in [Explicit -> Int]
    BY <1>0, <1>2
  <2>2. After(p, m) = [table |-> p.table,
                       index |-> IF m.index = NoIndex THEN p.index ELSE [p.index EXCEPT ![m.id] = m.index]]
    BY <1>2 DEF After
  <2> QED BY <1>0, <2>1, <2>2 DEF Predictor
<1>3. CASE m \in [kind : {"domainData"}, index : Int, value : Int]
  <2>1. Set(p.table, m.index, m.value) \in Tables
    BY <1>0, <1>3, AnchorOnLine
  <2>2. After(p, m) = [table |-> Set(p.table, m.index, m.value), index |-> p.index]
    BY <1>3 DEF After
  <2> QED BY <1>0, <2>1, <2>2 DEF Predictor
<1>4. CASE m \in [kind : {"data"}, id : Values, count : Nat, value : Int]
  <2>1. CASE m.id \in Explicit
    <3>1. p.index[m.id] + m.count \in Int
      BY <1>0, <1>4, <2>1
    <3>2. DriveTo(p.table, p.index[m.id] + m.count) \in Tables
      BY <1>0, <3>1, DriveToTyped
    <3>3. After(p, m) = [table |-> DriveTo(p.table, p.index[m.id] + m.count),
                         index |-> [p.index EXCEPT ![m.id] = p.index[m.id] + m.count]]
      BY <1>4, <2>1 DEF After
    <3>4. [p.index EXCEPT ![m.id] = p.index[m.id] + m.count] \in [Explicit -> Int]
      BY <1>0, <2>1, <3>1
    <3> QED BY <3>2, <3>3, <3>4 DEF Predictor
  <2>2. CASE m.id \notin Explicit
    BY <1>4, <2>2 DEF After
  <2> QED BY <2>1, <2>2
<1> QED BY <1>1, <1>2, <1>3, <1>4 DEF Message
-----------------------------------------------------------------------------
(* Replays. *)

LEMMA RunEmpty ==
  ASSUME NEW p \in Predictor
  PROVE  Run(<<>>, p, p)
<1> DEFINE P == [i \in 1 .. 1 |-> p]
<1>1. Len(<<>>) = 0
  OBVIOUS
<1>2. P \in [1 .. Len(<<>>) + 1 -> Predictor] /\ P[1] = p /\ P[Len(<<>>) + 1] = p
  BY <1>1
<1>3. Replays(P, <<>>)
  BY <1>1, <1>2 DEF Replays
<1> QED BY <1>2, <1>3 DEF Run

\* The end of a replay of no message is its beginning.
LEMMA RunNothing ==
  ASSUME NEW p, NEW r, Run(<<>>, p, r)
  PROVE  p = r
<1>1. Len(<<>>) = 0 /\ 0 + 1 = 1
  OBVIOUS
<1> QED BY <1>1 DEF Run

\* A message that is delivered right at the end prolongs the replay.
LEMMA RunAppend ==
  ASSUME NEW q \in Seq(Message), NEW from \in Predictor, NEW to \in Predictor, Run(q, from, to),
         NEW m \in Message, Right(to, m)
  PROVE  Run(Append(q, m), from, After(to, m))
<1> DEFINE n == Len(q)
<1>1. PICK P \in [1 .. n + 1 -> Predictor] : Replays(P, q) /\ P[1] = from /\ P[n + 1] = to
  BY DEF Run
<1>2. /\ n \in Nat /\ Len(Append(q, m)) = n + 1 /\ Append(q, m)[n + 1] = m
      /\ \A i \in 1 .. n : Append(q, m)[i] = q[i]
  BY AppendProperties
<1> DEFINE R == [i \in 1 .. n + 2 |-> IF i <= n + 1 THEN P[i] ELSE After(to, m)]
<1>3. R \in [1 .. (n + 1) + 1 -> Predictor]
  BY <1>2, AfterTyped
<1>4. R[1] = from /\ R[(n + 1) + 1] = After(to, m)
  BY <1>1, <1>2
<1>5. ASSUME NEW i \in 1 .. n + 1
      PROVE  Right(R[i], Append(q, m)[i]) /\ R[i + 1] = After(R[i], Append(q, m)[i])
  <2>1. CASE i \in 1 .. n
    <3>1. R[i] = P[i] /\ R[i + 1] = P[i + 1] /\ Append(q, m)[i] = q[i]
      BY <1>2, <2>1
    <3>2. Right(P[i], q[i]) /\ P[i + 1] = After(P[i], q[i])
      BY <1>1, <2>1 DEF Replays
    <3> QED BY <3>1, <3>2
  <2>2. CASE i = n + 1
    <3>1. R[i] = to /\ R[i + 1] = After(to, m) /\ Append(q, m)[i] = m
      BY <1>1, <1>2, <2>2
    <3> QED BY <3>1
  <2> QED BY <1>2, <2>1, <2>2
<1> HIDE DEF R
<1>6. Replays(R, Append(q, m))
  BY <1>2, <1>3, <1>5 DEF Replays
<1> QED BY <1>2, <1>3, <1>4, <1>6 DEF Run

\* A message that was received shortens it.
LEMMA RunTail ==
  ASSUME NEW q \in Seq(Message), q # <<>>, NEW from, NEW to, Run(q, from, to)
  PROVE  /\ Right(from, Head(q))
         /\ Run(Tail(q), After(from, Head(q)), to)
<1> DEFINE n == Len(q)
<1>1. PICK P \in [1 .. n + 1 -> Predictor] : Replays(P, q) /\ P[1] = from /\ P[n + 1] = to
  BY DEF Run
<1>2. /\ n \in Nat \ {0} /\ Len(Tail(q)) = n - 1 /\ Head(q) = q[1]
      /\ \A i \in 1 .. n - 1 : Tail(q)[i] = q[i + 1]
  BY HeadTailProperties
<1> DEFINE R == [i \in 1 .. n |-> P[i + 1]]
<1>3. 1 \in 1 .. n /\ (n - 1) + 1 = n
  BY <1>2
<1>4. Right(from, Head(q)) /\ P[2] = After(from, Head(q))
  <2>1. Right(P[1], q[1]) /\ P[1 + 1] = After(P[1], q[1])
    BY <1>1, <1>3 DEF Replays
  <2> QED BY <1>1, <1>2, <2>1
<1>5. R \in [1 .. n -> Predictor]
  BY <1>2
<1>6. R[1] = After(from, Head(q)) /\ R[n] = to
  BY <1>1, <1>2, <1>3, <1>4
<1>7. ASSUME NEW i \in 1 .. n - 1
      PROVE  Right(R[i], Tail(q)[i]) /\ R[i + 1] = After(R[i], Tail(q)[i])
  <2>1. i + 1 \in 1 .. n /\ R[i] = P[i + 1] /\ R[i + 1] = P[(i + 1) + 1] /\ Tail(q)[i] = q[i + 1]
    BY <1>2
  <2>2. Right(P[i + 1], q[i + 1]) /\ P[(i + 1) + 1] = After(P[i + 1], q[i + 1])
    BY <1>1, <2>1 DEF Replays
  <2> QED BY <2>1, <2>2
<1> HIDE DEF R
<1>8. Replays(R, Tail(q))
  BY <1>2, <1>3, <1>5, <1>7 DEF Replays
<1> QED BY <1>2, <1>3, <1>4, <1>5, <1>6, <1>8 DEF Run
-----------------------------------------------------------------------------
(* The steps of the source. *)

LEMMA HereTyped == TypeOK => Here \in Predictor
BY DEF TypeOK, Here, Predictor

LEMMA DomainSignalMsgTyped ==
  ASSUME NEW rule \in Rules, NEW index \in Int
  PROVE  /\ DomainSignalMsg(rule, index) \in Message
         /\ \A p : /\ Right(p, DomainSignalMsg(rule, index))
                   /\ After(p, DomainSignalMsg(rule, index))
                        = [table |-> UpdateFromMetadata(p.table, rule, index), index |-> p.index]
BY DEF DomainSignalMsg, Message, Right, After

LEMMA SignalMsgTyped ==
  ASSUME NEW s \in Explicit, NEW index \in Int, index # NoIndex
  PROVE  /\ SignalMsg(s, index) \in Message
         /\ \A p : /\ Right(p, SignalMsg(s, index))
                   /\ After(p, SignalMsg(s, index))
                        = [table |-> p.table, index |-> [p.index EXCEPT ![s] = index]]
BY DEF SignalMsg, Message, Right, After

LEMMA DomainDataMsgTyped ==
  ASSUME NEW index \in Int, NEW value \in Int
  PROVE  /\ DomainDataMsg(index, value) \in Message
         /\ \A p : /\ Right(p, DomainDataMsg(index, value))
                   /\ After(p, DomainDataMsg(index, value))
                        = [table |-> Set(p.table, index, value), index |-> p.index]
BY DEF DomainDataMsg, Message, Right, After

LEMMA DataMsgTyped ==
  ASSUME NEW s \in Values, NEW count \in Nat, NEW value \in Int
  PROVE  /\ DataMsg(s, count, value) \in Message
         /\ \A p : /\ s \in Explicit /\ value = ValueAt(p.table, p.index[s]) =>
                        Right(p, DataMsg(s, count, value))
                   /\ s \notin Explicit /\ value = ValueAt(p.table, p.table.driven) =>
                        Right(p, DataMsg(s, count, value))
                   /\ s \in Explicit => After(p, DataMsg(s, count, value))
                        = [table |-> DriveTo(p.table, p.index[s] + count),
                           index |-> [p.index EXCEPT ![s] = p.index[s] + count]]
                   /\ s \notin Explicit => After(p, DataMsg(s, count, value)) = p
BY DEF DataMsg, Message, Right, After

\* One message is appended.
LEMMA AppendOne ==
  ASSUME NEW q \in Seq(Message), NEW m \in Message
  PROVE  q \o <<m>> = Append(q, m) /\ Append(q, m) \in Seq(Message) /\ q \o <<>> = q
BY AppendProperties, AppendIsConcat, ConcatEmptySeq

\* subscribe() leaves the sink with the signal's own count.
LEMMA OwnMetadataSent ==
  ASSUME TypeOK, NEW q \in Seq(Message), NEW p \in Predictor, Run(q, Here, p),
         NEW s \in Values \cup {Domain}
  PROVE  /\ q \o OwnMetadata(s) \in Seq(Message)
         /\ \E r \in Predictor :
              /\ Run(q \o OwnMetadata(s), Here, r)
              /\ r.table = p.table
              /\ \A u \in Explicit : r.index[u] = IF u = s THEN valueIndex[u] ELSE p.index[u]
<1>1. CASE s \in Explicit
  <2> DEFINE m == SignalMsg(s, valueIndex[s])
  <2>1. valueIndex[s] \in Int /\ valueIndex[s] # NoIndex
    BY <1>1 DEF TypeOK, NoIndex
  <2>2. m \in Message /\ Right(p, m)
        /\ After(p, m) = [table |-> p.table, index |-> [p.index EXCEPT ![s] = valueIndex[s]]]
    BY <1>1, <2>1, SignalMsgTyped
  <2> HIDE DEF m
  <2>3. After(p, m) \in Predictor
    BY <2>2, AfterTyped
  <2>4. Run(Append(q, m), Here, After(p, m))
    BY <2>2, HereTyped, RunAppend
  <2>5. q \o OwnMetadata(s) = Append(q, m) /\ Append(q, m) \in Seq(Message)
    BY <1>1, <2>2, AppendOne DEF OwnMetadata, m
  <2>6. \A u \in Explicit : After(p, m).index[u] = IF u = s THEN valueIndex[u] ELSE p.index[u]
    BY <2>2 DEF Predictor
  <2>7. After(p, m).table = p.table
    BY <2>2
  <2> QED BY <2>3, <2>4, <2>5, <2>6, <2>7
<1>2. CASE s \notin Explicit
  <2>1. q \o OwnMetadata(s) = q
    BY <1>2, ConcatEmptySeq DEF OwnMetadata
  <2> QED BY <1>2, <2>1
<1> QED BY <1>1, <1>2

\* The anchor that precedes a sample, if one is needed, leaves both ends with a
\* table that predicts the sample.
LEMMA AnchorSent ==
  ASSUME TypeOK, NEW p \in Predictor, Run(toSink, Here, p), p.table = table,
         NEW index \in Int, NEW value \in Int
  PROVE  /\ toSink \o Anchored(index, value).sent \in Seq(Message)
         /\ Anchored(index, value).table \in Tables
         /\ ValueAt(Anchored(index, value).table, index) = value
         /\ index = table.driven => Anchored(index, value).table.driven = index
         /\ Run(toSink \o Anchored(index, value).sent, Here,
                [table |-> Anchored(index, value).table, index |-> p.index])
<1> DEFINE m == DomainDataMsg(index, value)
<1>0. toSink \in Seq(Message) /\ table \in Tables /\ p.index \in [Explicit -> Int]
  BY DEF TypeOK, Predictor
<1>1. CASE value = ValueAt(table, index)
  <2>1. Anchored(index, value).table = table /\ Anchored(index, value).sent = <<>>
    BY <1>1 DEF Anchored
  <2>2. p = [table |-> table, index |-> p.index]
    BY DEF Predictor
  <2>3. toSink \o <<>> = toSink
    BY <1>0, ConcatEmptySeq
  <2> QED BY <1>0, <1>1, <2>1, <2>2, <2>3
<1>2. CASE value # ValueAt(table, index)
  <2>1. Anchored(index, value).table = Set(table, index, value) /\ Anchored(index, value).sent = <<m>>
    BY <1>2 DEF Anchored
  <2>2. /\ m \in Message /\ Right(p, m)
        /\ After(p, m) = [table |-> Set(p.table, index, value), index |-> p.index]
    BY DomainDataMsgTyped
  <2>3. /\ Set(table, index, value) \in Tables /\ Set(table, index, value).driven = index
        /\ ValueAt(Set(table, index, value), index) = value
    BY <1>0, AnchorOnLine
  <2>4. toSink \o <<m>> = Append(toSink, m) /\ Append(toSink, m) \in Seq(Message)
    BY <1>0, <2>2, AppendOne
  <2>5. Run(Append(toSink, m), Here, After(p, m))
    BY <1>0, <2>2, HereTyped, RunAppend
  <2> HIDE DEF m
  <2> QED BY <2>1, <2>2, <2>3, <2>4, <2>5
<1> QED BY <1>1, <1>2

\* The data message follows.
LEMMA DataSent ==
  ASSUME TypeOK, NEW q \in Seq(Message), NEW p \in Predictor, Run(q, Here, p),
         NEW m \in Message, Right(p, m)
  PROVE  /\ q \o <<m>> \in Seq(Message) /\ After(p, m) \in Predictor
         /\ Run(q \o <<m>>, Here, After(p, m))
<1>1. q \o <<m>> = Append(q, m) /\ Append(q, m) \in Seq(Message)
  BY AppendOne
<1>2. Run(Append(q, m), Here, After(p, m))
  BY HereTyped, RunAppend
<1> QED BY <1>1, <1>2, AfterTyped

\* What is left to show of a step of the source.
LEMMA SourceStep ==
  ASSUME IInv, UNCHANGED sinkVars, TypeOK', NEW p \in Predictor, Run(toSink', Here, p),
         subscribed' # {} => p.table = table',
         \A s \in subscribed' \cap Explicit : p.index[s] = valueIndex'[s]
  PROVE  IInv'
<1>1. DomainValuesIntact'
  BY DEF IInv, DomainValuesIntact, sinkVars
<1>2. Here' = Here
  BY DEF sinkVars, Here
<1>3. Run(toSink', Here', p)
  BY <1>2
<1>4. (subscribed' # {} => p.table = table') /\ \A s \in subscribed' \cap Explicit : p.index[s] = valueIndex'[s]
  OBVIOUS
<1>5. (\E r \in Predictor : Run(toSink, Here, r) /\ Agrees(r))'
  BY <1>3, <1>4 DEF Agrees
<1> QED BY <1>1, <1>5 DEF IInv

\* The valueIndex of the metadata is the one the metadata builder writes.
BuiltIndexes == MetadataIndexes \subseteq {0}

LEMMA SubscribeIInv ==
  ASSUME BuiltIndexes, IInv, NEW s \in Values \cup {Domain}, Subscribe(s)
  PROVE  IInv'
<1>0. TypeOK /\ toSink \in Seq(Message) /\ table \in Tables
  BY DEF IInv, TypeOK
<1>1. PICK p \in Predictor : Run(toSink, Here, p) /\ Agrees(p)
  BY DEF IInv
<1>2. /\ subscribed' = subscribed \cup {s}
      /\ UNCHANGED <<metadata, valueIndex, changes>> /\ UNCHANGED sinkVars
  BY DEF Subscribe
<1>3. CASE subscribed = {}
  <2> DEFINE m == DomainSignalMsg(metadata.rule, 0)
  <2>1. metadata.rule \in Rules /\ metadata.index = 0
    BY <1>0 DEF TypeOK, BuiltIndexes
  <2>2. /\ table' = UpdateFromMetadata(table, metadata.rule, 0)
        /\ toSink' = (toSink \o <<m>>) \o OwnMetadata(s)
    BY <1>3, <2>1 DEF Subscribe
  <2>3. /\ m \in Message /\ Right(p, m)
        /\ After(p, m) = [table |-> UpdateFromMetadata(p.table, metadata.rule, 0), index |-> p.index]
    BY <2>1, DomainSignalMsgTyped
  <2> HIDE DEF m
  <2>4. /\ toSink \o <<m>> \in Seq(Message) /\ After(p, m) \in Predictor
        /\ Run(toSink \o <<m>>, Here, After(p, m))
    BY <1>0, <1>1, <2>3, DataSent
  <2>5. /\ toSink' \in Seq(Message)
        /\ \E r \in Predictor :
             /\ Run(toSink', Here, r)
             /\ r.table = After(p, m).table
             /\ \A u \in Explicit : r.index[u] = IF u = s THEN valueIndex[u] ELSE After(p, m).index[u]
    <3> DEFINE q == toSink \o <<m>>
               a == After(p, m)
    <3>1. q \in Seq(Message) /\ a \in Predictor /\ Run(q, Here, a) /\ toSink' = q \o OwnMetadata(s)
      BY <2>2, <2>4
    <3> HIDE DEF q, a
    <3>2. /\ toSink' \in Seq(Message)
          /\ \E r \in Predictor :
               /\ Run(toSink', Here, r)
               /\ r.table = a.table
               /\ \A u \in Explicit : r.index[u] = IF u = s THEN valueIndex[u] ELSE a.index[u]
      BY <1>0, <3>1, OwnMetadataSent
    <3> QED BY <3>2 DEF a
  <2>6. PICK r \in Predictor :
             /\ Run(toSink', Here, r)
             /\ r.table = After(p, m).table
             /\ \A u \in Explicit : r.index[u] = IF u = s THEN valueIndex[u] ELSE After(p, m).index[u]
    BY <2>5
  <2>7. table' = After(p, m).table /\ table' \in Tables
    <3>1. 0 # NoIndex /\ 0 \in Int
      BY DEF NoIndex
    <3>2. /\ UpdateFromMetadata(table, metadata.rule, 0) \in Tables
          /\ UpdateFromMetadata(p.table, metadata.rule, 0) = UpdateFromMetadata(table, metadata.rule, 0)
      BY <1>0, <2>1, <3>1, UpdateFromMetadataTyped
    <3> QED BY <2>2, <2>3, <3>2
  <2>8. TypeOK'
    BY <1>0, <1>2, <2>5, <2>7 DEF TypeOK, sinkVars
  <2>9. \A u \in subscribed' \cap Explicit : r.index[u] = valueIndex'[u]
    BY <1>2, <1>3, <2>6
  <2> QED BY <1>2, <2>6, <2>7, <2>8, <2>9, SourceStep
<1>4. CASE subscribed # {}
  <2>1. toSink' = toSink \o OwnMetadata(s) /\ table' = table
    BY <1>4 DEF Subscribe
  <2>2. toSink' \in Seq(Message)
    BY <1>0, <1>1, <2>1, OwnMetadataSent
  <2>3. PICK r \in Predictor :
             /\ Run(toSink', Here, r)
             /\ r.table = p.table
             /\ \A u \in Explicit : r.index[u] = IF u = s THEN valueIndex[u] ELSE p.index[u]
    BY <1>0, <1>1, <2>1, OwnMetadataSent
  <2>4. TypeOK'
    BY <1>0, <1>2, <2>1, <2>2 DEF TypeOK, sinkVars
  <2>5. r.table = table' /\ \A u \in subscribed' \cap Explicit : r.index[u] = valueIndex'[u]
    BY <1>1, <1>2, <1>4, <2>1, <2>3 DEF Agrees
  <2> QED BY <1>2, <2>3, <2>4, <2>5, SourceStep
<1> QED BY <1>3, <1>4

LEMMA UnsubscribeIInv ==
  ASSUME IInv, NEW s \in Values \cup {Domain}, Unsubscribe(s)
  PROVE  IInv'
<1> USE DEF Unsubscribe
<1>1. PICK p \in Predictor : Run(toSink, Here, p) /\ Agrees(p)
  BY DEF IInv
<1>2. TypeOK'
  BY DEF IInv, TypeOK, sinkVars
<1>3. Run(toSink', Here, p)
  BY <1>1
<1>4. /\ subscribed' # {} => p.table = table'
      /\ \A u \in subscribed' \cap Explicit : p.index[u] = valueIndex'[u]
  BY <1>1 DEF Agrees
<1>5. UNCHANGED sinkVars
  OBVIOUS
<1> HIDE DEF Unsubscribe
<1> QED BY <1>2, <1>3, <1>4, <1>5, SourceStep

\* A change of the domain metadata moves both tables, or, while nobody is
\* subscribed, neither.
LEMMA ChangeDomainMetadataIInv ==
  ASSUME BuiltIndexes, IInv, NEW rule \in Rules, NEW index \in MetadataIndexes,
         ChangeDomainMetadata(rule, index)
  PROVE  IInv'
<1>0. TypeOK /\ toSink \in Seq(Message) /\ table \in Tables /\ index = 0 /\ index \in Int
  BY DEF IInv, TypeOK, BuiltIndexes
<1>1. PICK p \in Predictor : Run(toSink, Here, p) /\ Agrees(p)
  BY DEF IInv
<1>2. /\ metadata' = [rule |-> rule, index |-> index]
      /\ UNCHANGED <<subscribed, valueIndex>> /\ UNCHANGED sinkVars
  BY DEF ChangeDomainMetadata
<1>3. metadata' \in [rule : Rules, index : MetadataIndexes]
  BY <1>2
<1>4. CASE subscribed = {}
  <2>1. UNCHANGED <<table, toSink>>
    BY <1>4 DEF ChangeDomainMetadata
  <2>2. TypeOK'
    BY <1>0, <1>2, <1>3, <2>1 DEF TypeOK, sinkVars
  <2>3. Run(toSink', Here, p)
    BY <1>1, <2>1
  <2> QED BY <1>2, <1>4, <2>2, <2>3, SourceStep
<1>5. CASE subscribed # {}
  <2> DEFINE m == DomainSignalMsg(rule, index)
  <2>1. table' = UpdateFromMetadata(table, rule, index) /\ toSink' = Append(toSink, m)
    BY <1>5 DEF ChangeDomainMetadata
  <2>2. /\ m \in Message /\ Right(p, m)
        /\ After(p, m) = [table |-> UpdateFromMetadata(p.table, rule, index), index |-> p.index]
    BY <1>0, DomainSignalMsgTyped
  <2> HIDE DEF m
  <2>3. After(p, m) \in Predictor /\ Run(toSink', Here, After(p, m)) /\ toSink' \in Seq(Message)
    BY <1>0, <1>1, <2>1, <2>2, HereTyped, AfterTyped, RunAppend, AppendOne
  <2>4. After(p, m).table = table' /\ After(p, m).index = p.index
    BY <1>1, <1>5, <2>1, <2>2 DEF Agrees
  <2>5. table' \in Tables
    BY <1>0, <2>1, UpdateFromMetadataTyped
  <2>6. TypeOK'
    BY <1>0, <1>2, <1>3, <2>3, <2>5 DEF TypeOK, sinkVars
  <2>7. \A u \in subscribed' \cap Explicit : After(p, m).index[u] = valueIndex'[u]
    BY <1>1, <1>2, <2>4 DEF Agrees
  <2> QED BY <1>2, <2>3, <2>4, <2>6, <2>7, SourceStep
<1> QED BY <1>4, <1>5

\* A change of a signal's own metadata starts its count again at both ends.
LEMMA ChangeMetadataIInv ==
  ASSUME BuiltIndexes, IInv, NEW s \in Explicit, NEW index \in MetadataIndexes,
         ChangeMetadata(s, index)
  PROVE  IInv'
<1>0. TypeOK /\ toSink \in Seq(Message) /\ index = 0 /\ index \in Int /\ index # NoIndex
  BY DEF IInv, TypeOK, BuiltIndexes, NoIndex
<1>1. PICK p \in Predictor : Run(toSink, Here, p) /\ Agrees(p)
  BY DEF IInv
<1> DEFINE m == SignalMsg(s, index)
<1>2. /\ s \in subscribed /\ valueIndex' = [valueIndex EXCEPT ![s] = 0]
      /\ toSink' = Append(toSink, m)
      /\ UNCHANGED <<metadata, subscribed, table>> /\ UNCHANGED sinkVars
  BY DEF ChangeMetadata
<1>3. /\ m \in Message /\ Right(p, m)
      /\ After(p, m) = [table |-> p.table, index |-> [p.index EXCEPT ![s] = index]]
  BY <1>0, SignalMsgTyped
<1> HIDE DEF m
<1>4. After(p, m) \in Predictor /\ Run(toSink', Here, After(p, m)) /\ toSink' \in Seq(Message)
  BY <1>0, <1>1, <1>2, <1>3, HereTyped, AfterTyped, RunAppend, AppendOne
<1>5. TypeOK'
  BY <1>0, <1>2, <1>4 DEF TypeOK, sinkVars
<1>6. After(p, m).table = table'
  BY <1>1, <1>2, <1>3 DEF Agrees
<1>7. ASSUME NEW u \in subscribed' \cap Explicit PROVE After(p, m).index[u] = valueIndex'[u]
  <2>1. p.index \in [Explicit -> Int] /\ valueIndex \in [Explicit -> Nat]
    BY <1>0 DEF Predictor, TypeOK
  <2>2. After(p, m).index[u] = (IF u = s THEN 0 ELSE p.index[u])
    BY <1>0, <1>3, <2>1
  <2>3. valueIndex'[u] = (IF u = s THEN 0 ELSE valueIndex[u])
    BY <1>2, <2>1
  <2> QED BY <1>1, <1>2, <2>2, <2>3 DEF Agrees
<1> QED BY <1>2, <1>4, <1>5, <1>6, <1>7, SourceStep

LEMMA PublishExplicitIInv ==
  ASSUME IInv, NEW s \in Explicit, NEW value \in DomainValues, NEW count \in Counts,
         PublishExplicit(s, value, count)
  PROVE  IInv'
<1> DEFINE i == valueIndex[s]
           a == Anchored(i, value)
           m == DataMsg(s, count, value)
<1>0. /\ TypeOK /\ toSink \in Seq(Message) /\ i \in Nat /\ i \in Int /\ value \in Int /\ count \in Nat
      /\ s \in Values /\ valueIndex \in [Explicit -> Nat] /\ i + count \in Nat
  BY LinearAssumption DEF IInv, TypeOK, Values
<1>1. PICK p \in Predictor : Run(toSink, Here, p) /\ Agrees(p)
  BY DEF IInv
<1>2. /\ s \in subscribed
      /\ toSink' = (toSink \o a.sent) \o <<m>>
      /\ valueIndex' = [valueIndex EXCEPT ![s] = i + count]
      /\ table' = DriveTo(a.table, valueIndex'[s])
      /\ UNCHANGED <<metadata, subscribed, changes>> /\ UNCHANGED sinkVars
  BY DEF PublishExplicit
<1>3. p.table = table /\ p.index[s] = i /\ p.index \in [Explicit -> Int]
  BY <1>1, <1>2 DEF Agrees, Predictor
<1> DEFINE r == [table |-> a.table, index |-> p.index]
<1>4. /\ toSink \o a.sent \in Seq(Message) /\ a.table \in Tables
      /\ ValueAt(a.table, i) = value /\ Run(toSink \o a.sent, Here, r)
  BY <1>0, <1>1, <1>3, AnchorSent
<1> HIDE DEF i, a
<1>5. r \in Predictor /\ r.table = a.table /\ r.index = p.index
  BY <1>3, <1>4 DEF Predictor
<1> HIDE DEF r
<1>6. /\ m \in Message /\ Right(r, m)
      /\ After(r, m) = [table |-> DriveTo(r.table, r.index[s] + count),
                        index |-> [r.index EXCEPT ![s] = r.index[s] + count]]
  <2>1. value = ValueAt(r.table, r.index[s])
    BY <1>3, <1>4, <1>5
  <2> QED BY <1>0, <2>1, DataMsgTyped
<1> HIDE DEF m
<1>7. toSink' \in Seq(Message) /\ After(r, m) \in Predictor /\ Run(toSink', Here, After(r, m))
  BY <1>0, <1>2, <1>4, <1>5, <1>6, DataSent
<1>8. valueIndex'[s] = i + count /\ valueIndex' \in [Explicit -> Nat]
  BY <1>0, <1>2
<1>9. After(r, m).table = table' /\ table' \in Tables
  <2>1. After(r, m).table = DriveTo(a.table, i + count)
    BY <1>3, <1>5, <1>6
  <2>2. DriveTo(a.table, i + count) \in Tables
    BY <1>0, <1>4, DriveToTyped
  <2> QED BY <1>2, <1>8, <2>1, <2>2
<1>10. TypeOK'
  BY <1>0, <1>2, <1>7, <1>8, <1>9 DEF TypeOK, sinkVars
<1>11. ASSUME NEW u \in subscribed' \cap Explicit PROVE After(r, m).index[u] = valueIndex'[u]
  <2>1. After(r, m).index[u] = (IF u = s THEN i + count ELSE p.index[u])
    BY <1>3, <1>5, <1>6
  <2>2. valueIndex'[u] = (IF u = s THEN i + count ELSE valueIndex[u])
    BY <1>0, <1>2
  <2> QED BY <1>1, <1>2, <2>1, <2>2 DEF Agrees
<1> QED BY <1>2, <1>7, <1>9, <1>10, <1>11, SourceStep

LEMMA PublishDrivenIInv ==
  ASSUME IInv, NEW s \in Driven, NEW value \in DomainValues, PublishDriven(s, value)
  PROVE  IInv'
<1> DEFINE i == table.driven
           a == Anchored(i, value)
           m == DataMsg(s, 1, value)
<1>0. /\ TypeOK /\ toSink \in Seq(Message) /\ i \in Int /\ value \in Int
      /\ s \in Values /\ s \notin Explicit
  BY LinearAssumption DEF IInv, TypeOK, Tables, Values
<1>1. PICK p \in Predictor : Run(toSink, Here, p) /\ Agrees(p)
  BY DEF IInv
<1>2. /\ s \in subscribed
      /\ toSink' = (toSink \o a.sent) \o <<m>>
      /\ table' = a.table
      /\ UNCHANGED <<metadata, subscribed, valueIndex, changes>> /\ UNCHANGED sinkVars
  BY DEF PublishDriven
<1>3. p.table = table /\ p.index \in [Explicit -> Int]
  BY <1>1, <1>2 DEF Agrees, Predictor
<1> DEFINE r == [table |-> a.table, index |-> p.index]
<1>4. /\ toSink \o a.sent \in Seq(Message) /\ a.table \in Tables
      /\ ValueAt(a.table, i) = value /\ a.table.driven = i /\ Run(toSink \o a.sent, Here, r)
  BY <1>0, <1>1, <1>3, AnchorSent
<1> HIDE DEF i, a
<1>5. r \in Predictor /\ r.table = a.table /\ r.index = p.index
  BY <1>3, <1>4 DEF Predictor
<1> HIDE DEF r
<1>6. m \in Message /\ Right(r, m) /\ After(r, m) = r
  <2>1. value = ValueAt(r.table, r.table.driven) /\ 1 \in Nat
    BY <1>4, <1>5
  <2> QED BY <1>0, <2>1, DataMsgTyped
<1> HIDE DEF m
<1>7. toSink' \in Seq(Message) /\ Run(toSink', Here, r)
  BY <1>0, <1>2, <1>4, <1>5, <1>6, DataSent
<1>8. TypeOK'
  BY <1>0, <1>2, <1>4, <1>7 DEF TypeOK, sinkVars
<1>9. r.table = table' /\ \A u \in subscribed' \cap Explicit : r.index[u] = valueIndex'[u]
  BY <1>1, <1>2, <1>5 DEF Agrees
<1> QED BY <1>2, <1>5, <1>7, <1>8, <1>9, SourceStep
-----------------------------------------------------------------------------
(* The steps of the sink. *)

\* A handler of the sink that does what After says shortens the replay.
LEMMA SinkStep ==
  ASSUME IInv, toSink # <<>>, toSink' = Tail(toSink), UNCHANGED sourceVars,
         sinkTable' = After(Here, Head(toSink)).table, sinkIndex' = After(Here, Head(toSink)).index,
         Right(Here, Head(toSink)) => DomainValuesIntact'
  PROVE  IInv'
<1>0. TypeOK /\ toSink \in Seq(Message)
  BY DEF IInv, TypeOK
<1>1. PICK p \in Predictor : Run(toSink, Here, p) /\ Agrees(p)
  BY DEF IInv
<1>2. Right(Here, Head(toSink)) /\ Run(Tail(toSink), After(Here, Head(toSink)), p)
  BY <1>0, <1>1, RunTail
<1>3. Head(toSink) \in Message /\ Tail(toSink) \in Seq(Message)
  BY <1>0, HeadTailProperties
<1>4. After(Here, Head(toSink)) \in Predictor
  BY <1>0, <1>3, HereTyped, AfterTyped
<1>5. /\ Here' = After(Here, Head(toSink))
      /\ sinkTable' \in Tables /\ sinkIndex' \in [Explicit -> Int]
  BY <1>4 DEF Here, Predictor
<1>6. TypeOK'
  BY <1>0, <1>3, <1>5 DEF TypeOK, sourceVars
<1>7. Run(toSink', Here', p)
  BY <1>2, <1>5
<1>8. (\E r \in Predictor : Run(toSink, Here, r) /\ Agrees(r))'
  BY <1>1, <1>7 DEF Agrees, sourceVars
<1> QED BY <1>2, <1>6, <1>8 DEF IInv

LEMMA SinkIInv ==
  ASSUME IInv, Sink
  PROVE  IInv'
<1> DEFINE m == Head(toSink)
<1>0. /\ TypeOK /\ toSink # <<>> /\ toSink' = Tail(toSink) /\ UNCHANGED sourceVars
      /\ toSink \in Seq(Message)
  BY DEF IInv, TypeOK, Sink, HandleDomainSignal, HandleSignal, HandleDomainData, HandleData, Receive
<1>1. m \in Message
  BY <1>0, HeadTailProperties
<1>2. Here.table = sinkTable /\ Here.index = sinkIndex
  BY DEF Here
<1>3. CASE HandleDomainSignal
  <2>1. m.kind = "domainSignal" /\ delivered' = delivered
        /\ sinkTable' = UpdateFromMetadata(sinkTable, m.rule, m.index) /\ sinkIndex' = sinkIndex
    BY <1>3 DEF HandleDomainSignal, Receive
  <2>2. After(Here, m) = [table |-> UpdateFromMetadata(sinkTable, m.rule, m.index), index |-> sinkIndex]
    BY <1>2, <2>1 DEF After
  <2>3. DomainValuesIntact'
    BY <2>1 DEF IInv, DomainValuesIntact
  <2> QED BY <1>0, <2>1, <2>2, <2>3, SinkStep
<1>4. CASE HandleSignal
  <2>1. /\ m.kind = "signal" /\ delivered' = delivered /\ sinkTable' = sinkTable
        /\ sinkIndex' = IF m.index = NoIndex THEN sinkIndex ELSE [sinkIndex EXCEPT ![m.id] = m.index]
    BY <1>4 DEF HandleSignal, Receive
  <2>2. After(Here, m) = [table |-> sinkTable, index |-> sinkIndex']
    BY <1>2, <2>1 DEF After
  <2>3. DomainValuesIntact'
    BY <2>1 DEF IInv, DomainValuesIntact
  <2> QED BY <1>0, <2>1, <2>2, <2>3, SinkStep
<1>5. CASE HandleDomainData
  <2>1. m.kind = "domainData" /\ delivered' = delivered
        /\ sinkTable' = Set(sinkTable, m.index, m.value) /\ sinkIndex' = sinkIndex
    BY <1>5 DEF HandleDomainData, Receive
  <2>2. After(Here, m) = [table |-> Set(sinkTable, m.index, m.value), index |-> sinkIndex]
    BY <1>2, <2>1 DEF After
  <2>3. DomainValuesIntact'
    BY <2>1 DEF IInv, DomainValuesIntact
  <2> QED BY <1>0, <2>1, <2>2, <2>3, SinkStep
<1>6. CASE HandleData
  <2>0. m.kind = "data"
    BY <1>6 DEF HandleData, Receive
  <2>1. CASE m.id \in Explicit
    <3>1. /\ delivered' = [published |-> m.value, received |-> ValueAt(sinkTable, sinkIndex[m.id])]
          /\ sinkIndex' = [sinkIndex EXCEPT ![m.id] = sinkIndex[m.id] + m.count]
          /\ sinkTable' = DriveTo(sinkTable, sinkIndex'[m.id])
      BY <1>6, <2>1 DEF HandleData
    <3>2. sinkIndex'[m.id] = sinkIndex[m.id] + m.count
      BY <1>0, <2>1, <3>1 DEF TypeOK
    <3>3. After(Here, m) = [table |-> sinkTable', index |-> sinkIndex']
      BY <1>2, <2>0, <2>1, <3>1, <3>2 DEF After
    <3>4. Right(Here, m) => DomainValuesIntact'
      BY <1>2, <2>0, <2>1, <3>1 DEF Right, DomainValuesIntact
    <3> QED BY <1>0, <3>3, <3>4, SinkStep
  <2>2. CASE m.id \notin Explicit
    <3>1. /\ delivered' = [published |-> m.value, received |-> ValueAt(sinkTable, sinkTable.driven)]
          /\ UNCHANGED <<sinkIndex, sinkTable>>
      BY <1>6, <2>2 DEF HandleData
    <3>2. After(Here, m) = Here
      BY <2>0, <2>2 DEF After
    <3>3. Right(Here, m) => DomainValuesIntact'
      BY <1>2, <2>0, <2>2, <3>1 DEF Right, DomainValuesIntact
    <3> QED BY <1>0, <1>2, <3>1, <3>2, <3>3, SinkStep
  <2> QED BY <2>1, <2>2
<1> QED BY <1>3, <1>4, <1>5, <1>6 DEF Sink
-----------------------------------------------------------------------------
LEMMA InitIInv == Init => IInv
<1> SUFFICES ASSUME Init PROVE IInv
  OBVIOUS
<1> USE DEF Init
<1>1. EmptyTable \in Tables
  BY DEF EmptyTable, Tables
<1>2. metadata.rule \in Rules /\ metadata.index \in Int
  <2>1. metadata.rule \in Rules /\ metadata.index \in MetadataIndexes
    OBVIOUS
  <2>2. Nat \cup {NoIndex} \subseteq Int
    BY DEF NoIndex
  <2> QED BY <2>1, <2>2, LinearAssumption
<1>3. TypeOK
  <2>1. table \in Tables
    BY <1>1, <1>2, UpdateFromMetadataTyped
  <2>2. <<>> \in Seq(Message)
    OBVIOUS
  <2> QED BY <1>1, <2>1, <2>2 DEF TypeOK
<1>4. DomainValuesIntact
  BY DEF DomainValuesIntact
<1>5. Here \in Predictor /\ Run(toSink, Here, Here)
  BY <1>3, HereTyped, RunEmpty
<1>6. Agrees(Here)
  BY DEF Agrees
<1> QED BY <1>3, <1>4, <1>5, <1>6 DEF IInv

LEMMA StutterIInv ==
  ASSUME IInv, UNCHANGED vars
  PROVE  IInv'
<1>1. PICK p \in Predictor : Run(toSink, Here, p) /\ Agrees(p)
  BY DEF IInv
<1>2. TypeOK' /\ UNCHANGED sinkVars
  BY DEF IInv, TypeOK, vars, sourceVars, sinkVars
<1>3. Run(toSink', Here, p)
  BY <1>1 DEF vars
<1>4. /\ subscribed' # {} => p.table = table'
      /\ \A u \in subscribed' \cap Explicit : p.index[u] = valueIndex'[u]
  BY <1>1 DEF vars, sourceVars, Agrees
<1> QED BY <1>2, <1>3, <1>4, SourceStep

LEMMA NextIInv ==
  ASSUME BuiltIndexes, IInv, [Next]_vars
  PROVE  IInv'
<1>1. CASE Source
  BY <1>1, SubscribeIInv, UnsubscribeIInv, ChangeDomainMetadataIInv, ChangeMetadataIInv,
     PublishExplicitIInv, PublishDrivenIInv DEF Source
<1>2. CASE Sink
  BY <1>2, SinkIInv
<1>3. CASE UNCHANGED vars
  BY <1>3, StutterIInv
<1> QED BY <1>1, <1>2, <1>3 DEF Next

\* Every sample is delivered with the domain value publish_data was given, and a
\* sink that has caught up predicts what the source predicts: for any number of
\* signals, however subscriptions, metadata changes and samples interleave, as
\* long as the domain metadata has the valueIndex the metadata builder writes.
THEOREM DomainTheorem ==
  ASSUME MetadataIndexes \subseteq {0}
  PROVE  Spec => []DomainInv
<1>0. BuiltIndexes
  BY DEF BuiltIndexes
<1>1. IInv => DomainInv
  <2> SUFFICES ASSUME IInv PROVE DomainInv
    OBVIOUS
  <2>1. DomainValuesIntact
    BY DEF IInv
  <2>2. TablesAgree
    <3> SUFFICES ASSUME toSink = <<>>, subscribed # {}
                 PROVE  sinkTable = table /\ \A s \in subscribed \cap Explicit : sinkIndex[s] = valueIndex[s]
      BY DEF TablesAgree
    <3>1. PICK p \in Predictor : Run(<<>>, Here, p) /\ Agrees(p)
      BY DEF IInv
    <3>2. Here = p
      BY <3>1, RunNothing
    <3> QED BY <3>1, <3>2 DEF Here, Agrees
  <2> QED BY <2>1, <2>2 DEF DomainInv
<1>2. IInv /\ [Next]_vars => IInv'
  BY <1>0, NextIInv
<1> QED BY <1>1, <1>2, InitIInv, PTL DEF Spec
=============================================================================
