---------------------------- MODULE SignalProofs ----------------------------
(***************************************************************************)
(* The connection, for every set of signals and any number of messages in  *)
(* flight: the lemmas about a sink and any source that keeps the rules of  *)
(* the protocol, then the sink against a foreign source, then both ends of *)
(* this library.                                                           *)
(*                                                                         *)
(* A view is what a sink knows, without its pointers.  Messages in flight  *)
(* are understood by replaying them on the view of the sink: each must be  *)
(* legal in the view that those before it produce, and the last view is    *)
(* the one the source believes in.                                         *)
(***************************************************************************)
EXTENDS SignalLink, ForeignSource, SequenceTheorems, FiniteSetTheorems, TLAPS

-----------------------------------------------------------------------------
(* The sink and the messages in flight. *)

Message ==
  [kind : {"init", "response"}]
    \cup [kind : {"available"}, ids : SUBSET Signals]
    \cup [kind : {"unavailable"}, id : Signals]
    \cup [kind : {"subscribe", "signal"}, signo : Nat, id : Signals]
    \cup [kind : {"unsubscribe", "data"}, signo : Nat]

\* The signals shown to the application, the ones subscribed, the ones whose
\* metadata has arrived, the number each was last subscribed under, and all the
\* numbers that another one ever replaced.
View ==
  [shown : SUBSET Signals, on : SUBSET Signals, described : SUBSET Signals, number : [Signals -> Nat],
   replaced : SUBSET Nat]

\* The number a signal has while it is subscribed is replaced by another.
ReplacedBy(p, n, s) == p.replaced \cup ({p.number[u] : u \in p.on \cap {s}} \ {n})

\* The sink's handlers as functions of the view.
After(p, m) ==
  CASE m.kind = "available" ->
         [shown |-> p.shown \cup m.ids, on |-> p.on, described |-> p.described, number |-> p.number,
          replaced |-> p.replaced]
    [] m.kind = "unavailable" ->
         [shown |-> p.shown \ {m.id}, on |-> p.on \ {m.id}, described |-> p.described \ {m.id},
          number |-> [p.number EXCEPT ![m.id] = 0], replaced |-> p.replaced]
    [] m.kind = "subscribe" ->
         [shown |-> p.shown, on |-> p.on \cup {m.id}, described |-> p.described,
          number |-> [p.number EXCEPT ![m.id] = m.signo], replaced |-> ReplacedBy(p, m.signo, m.id)]
    [] m.kind = "unsubscribe" ->
         [shown |-> p.shown, on |-> {s \in p.on : p.number[s] # m.signo},
          described |-> p.described, number |-> p.number, replaced |-> p.replaced]
    [] m.kind = "signal" ->
         [shown |-> p.shown, on |-> p.on, described |-> p.described \cup {m.id}, number |-> p.number,
          replaced |-> p.replaced]
    [] m.kind \in {"init", "data", "response"} -> p

\* The rules of the protocol: a signal is advertised once; a signal number is
\* not given to two signals; a replaced one is not used, unless it is given
\* again; metadata goes under the number of its signal.  Two more promises are not made by every source: data
\* comes under a number in use ("data"), and nothing is withdrawn, and metadata
\* of a domain signal comes before that of its users ("domain").
Legal(promises, p, m) ==
  /\ m.kind = "available" => m.ids \cap p.shown = {}
  /\ m.kind = "subscribe" =>
       /\ m.signo # 0
       /\ \A s \in Signals : p.number[s] = m.signo => s = m.id
  /\ m.kind = "unsubscribe" =>
       (m.signo \in p.replaced => \E s \in p.on : p.number[s] = m.signo)
  /\ m.kind = "signal" => m.id \in p.on /\ p.number[m.id] = m.signo
  /\ "data" \in promises =>
       (m.kind = "data" => \E s \in p.on : p.number[s] = m.signo)
  /\ "domain" \in promises =>
       /\ m.kind # "unavailable"
       /\ m.kind = "signal" /\ HasDomain(m.id) => TableOf[m.id] \in p.described

\* P is the sequence of views of a sink that receives q, which is legal.
Replays(promises, P, q) ==
  \A i \in 1 .. Len(q) : Legal(promises, P[i], q[i]) /\ P[i + 1] = After(P[i], q[i])

\* From one view the messages q legally lead to another, which knows of every
\* number replaced on the way.
Leads(promises, q, from, to) ==
  \E P \in [1 .. Len(q) + 1 -> View] :
    /\ Replays(promises, P, q) /\ P[1] = from /\ P[Len(q) + 1] = to
    /\ \A i \in 1 .. Len(q) + 1 : P[i].replaced \subseteq to.replaced
-----------------------------------------------------------------------------
(* The sink. *)

KnownEntry ==
  [object : Nat \ {0}, hidden : BOOLEAN, signo : Nat, subscribed : BOOLEAN, described : BOOLEAN,
   domain : Nat, uses : 0 .. MaxUses]

\* Entries have their types, and objects of their own.
EntriesTyped ==
  /\ announced \in [Signals -> Nat]
  /\ known \in [Signals -> KnownEntry \cup {Unknown}]
  /\ nextObject \in Nat \ {0}
  /\ \A s \in Signals : IsKnown(s) => known[s].object < nextObject
  /\ \A s, u \in Signals : IsKnown(s) /\ IsKnown(u) /\ known[s].object = known[u].object => s = u

\* The pointers of the sink say what the view says.
MatchesAt(p, s) ==
  /\ s \in p.shown <=> IsKnown(s) /\ ~known[s].hidden
  /\ s \in p.on <=> IsKnown(s) /\ known[s].subscribed
  /\ s \in p.described <=> IsKnown(s) /\ known[s].described
  /\ IsKnown(s) => p.number[s] = known[s].signo
  /\ ~IsKnown(s) => p.number[s] = 0
  /\ s \in p.on => /\ p.number[s] # 0 /\ p.number[s] \in DOMAIN bySigno
                   /\ bySigno[p.number[s]] = known[s].object

Matches(p) ==
  /\ \A s \in Signals : MatchesAt(p, s)
  /\ \A s, u \in Signals : p.number[s] = p.number[u] /\ p.number[s] # 0 => s = u
  /\ \A n \in DOMAIN bySigno : n \in p.replaced \/ \E s \in p.on : p.number[s] = n

SinkSound(p) == EntriesTyped /\ AnnouncedExactly /\ Matches(p)

\* A closed sink knows nothing.
Cleared == bySigno = <<>> /\ \A s \in Signals : ~IsKnown(s)
-----------------------------------------------------------------------------
(* Replaying messages. *)

LEMMA AfterTyped ==
  ASSUME NEW p \in View, NEW m \in Message
  PROVE  After(p, m) \in View
<1>0. /\ p.shown \subseteq Signals /\ p.on \subseteq Signals /\ p.described \subseteq Signals
      /\ p.number \in [Signals -> Nat] /\ p.replaced \subseteq Nat
  BY DEF View
<1>1. CASE m \in [kind : {"init", "response"}]
  BY <1>1 DEF After
<1>2. CASE m \in [kind : {"available"}, ids : SUBSET Signals]
  BY <1>0, <1>2 DEF After, View
<1>3. CASE m \in [kind : {"unavailable"}, id : Signals]
  BY <1>0, <1>3 DEF After, View
<1>4. CASE m \in [kind : {"subscribe", "signal"}, signo : Nat, id : Signals]
  <2>1. m.id \in Signals /\ m.signo \in Nat /\ m.kind \in {"subscribe", "signal"}
    BY <1>4
  <2>2. PICK X : X = ReplacedBy(p, m.signo, m.id)
    OBVIOUS
  <2>3. X \subseteq Nat
    BY <1>0, <2>2 DEF ReplacedBy
  <2> QED BY <1>0, <2>1, <2>2, <2>3 DEF After, View
<1>5. CASE m \in [kind : {"unsubscribe", "data"}, signo : Nat]
  BY <1>0, <1>5 DEF After, View
<1> QED BY <1>1, <1>2, <1>3, <1>4, <1>5 DEF Message

\* What is replaced stays so.
LEMMA ReplacedGrows ==
  ASSUME NEW p \in View, NEW m \in Message
  PROVE  p.replaced \subseteq After(p, m).replaced
<1>1. CASE m.kind = "subscribe"
  BY <1>1 DEF After, ReplacedBy
<1>2. CASE m.kind # "subscribe"
  BY <1>2 DEF After, Message
<1> QED BY <1>1, <1>2

\* Nothing in flight leads nowhere.
LEMMA LeadsEmpty ==
  ASSUME NEW promises, NEW p \in View
  PROVE  Leads(promises, <<>>, p, p)
<1> DEFINE P == [i \in 1 .. 1 |-> p]
<1>1. Len(<<>>) = 0
  OBVIOUS
<1>2. P \in [1 .. Len(<<>>) + 1 -> View] /\ P[1] = p /\ P[Len(<<>>) + 1] = p
  BY <1>1
<1>3. Replays(promises, P, <<>>)
  BY <1>1 DEF Replays
<1> QED BY <1>2, <1>3 DEF Leads

LEMMA LeadsNowhere ==
  ASSUME NEW promises, NEW p, NEW r, Leads(promises, <<>>, p, r)
  PROVE  p = r
<1>1. Len(<<>>) = 0 /\ 0 + 1 = 1
  OBVIOUS
<1> QED BY <1>1 DEF Leads

\* A legal message at the end leads one view further.
LEMMA LeadsAppend ==
  ASSUME NEW promises, NEW q \in Seq(Message), NEW from \in View, NEW to \in View,
         Leads(promises, q, from, to), NEW m \in Message, Legal(promises, to, m)
  PROVE  /\ Leads(promises, Append(q, m), from, After(to, m))
         /\ Append(q, m) \in Seq(Message) /\ After(to, m) \in View
<1> DEFINE n == Len(q)
<1>1. PICK P \in [1 .. n + 1 -> View] :
        /\ Replays(promises, P, q) /\ P[1] = from /\ P[n + 1] = to
        /\ \A i \in 1 .. n + 1 : P[i].replaced \subseteq to.replaced
  BY DEF Leads
<1>2. /\ n \in Nat /\ Len(Append(q, m)) = n + 1 /\ Append(q, m)[n + 1] = m
      /\ Append(q, m) \in Seq(Message)
      /\ \A i \in 1 .. n : Append(q, m)[i] = q[i]
  BY AppendProperties
<1> DEFINE R == [i \in 1 .. n + 2 |-> IF i <= n + 1 THEN P[i] ELSE After(to, m)]
<1>3. R \in [1 .. (n + 1) + 1 -> View] /\ After(to, m) \in View
  BY <1>2, AfterTyped
<1>4. R[1] = from /\ R[(n + 1) + 1] = After(to, m)
  BY <1>1, <1>2
<1>5. ASSUME NEW i \in 1 .. n + 1
      PROVE  Legal(promises, R[i], Append(q, m)[i]) /\ R[i + 1] = After(R[i], Append(q, m)[i])
  <2>1. CASE i \in 1 .. n
    <3>1. R[i] = P[i] /\ R[i + 1] = P[i + 1] /\ Append(q, m)[i] = q[i]
      BY <1>2, <2>1
    <3>2. Legal(promises, P[i], q[i]) /\ P[i + 1] = After(P[i], q[i])
      BY <1>1, <2>1 DEF Replays
    <3> QED BY <3>1, <3>2
  <2>2. CASE i = n + 1
    <3>1. R[i] = to /\ R[i + 1] = After(to, m) /\ Append(q, m)[i] = m
      BY <1>1, <1>2, <2>2
    <3> QED BY <3>1
  <2> QED BY <1>2, <2>1, <2>2
<1>7. \A i \in 1 .. (n + 1) + 1 : R[i].replaced \subseteq After(to, m).replaced
  <2>1. to.replaced \subseteq After(to, m).replaced
    BY ReplacedGrows
  <2> SUFFICES ASSUME NEW i \in 1 .. (n + 1) + 1 PROVE R[i].replaced \subseteq After(to, m).replaced
    OBVIOUS
  <2>2. CASE i \in 1 .. n + 1
    <3>1. R[i] = P[i] /\ P[i].replaced \subseteq to.replaced
      BY <1>1, <1>2, <2>2
    <3> QED BY <2>1, <3>1
  <2>3. CASE i = (n + 1) + 1
    BY <1>4, <2>3
  <2> QED BY <1>2, <2>2, <2>3
<1> HIDE DEF R
<1>6. Replays(promises, R, Append(q, m))
  BY <1>2, <1>5 DEF Replays
<1> QED BY <1>2, <1>3, <1>4, <1>6, <1>7 DEF Leads

\* The message at the head was legal, and the others lead on from where it led.
LEMMA LeadsTail ==
  ASSUME NEW promises, NEW q \in Seq(Message), q # <<>>, NEW from, NEW to,
         Leads(promises, q, from, to)
  PROVE  /\ Legal(promises, from, Head(q)) /\ Head(q) \in Message /\ Tail(q) \in Seq(Message)
         /\ Leads(promises, Tail(q), After(from, Head(q)), to)
<1> DEFINE n == Len(q)
<1>1. PICK P \in [1 .. n + 1 -> View] :
        /\ Replays(promises, P, q) /\ P[1] = from /\ P[n + 1] = to
        /\ \A i \in 1 .. n + 1 : P[i].replaced \subseteq to.replaced
  BY DEF Leads
<1>2. /\ n \in Nat \ {0} /\ Len(Tail(q)) = n - 1 /\ Head(q) = q[1]
      /\ Head(q) \in Message /\ Tail(q) \in Seq(Message)
      /\ \A i \in 1 .. n - 1 : Tail(q)[i] = q[i + 1]
  BY HeadTailProperties
<1> DEFINE R == [i \in 1 .. n |-> P[i + 1]]
<1>3. 1 \in 1 .. n /\ (n - 1) + 1 = n
  BY <1>2
<1>4. Legal(promises, from, Head(q)) /\ P[2] = After(from, Head(q))
  <2>1. Legal(promises, P[1], q[1]) /\ P[1 + 1] = After(P[1], q[1])
    BY <1>1, <1>3 DEF Replays
  <2> QED BY <1>1, <1>2, <2>1
<1>5. R \in [1 .. n -> View]
  BY <1>2
<1>6. R[1] = After(from, Head(q)) /\ R[n] = to
  BY <1>1, <1>2, <1>3, <1>4
<1>7. ASSUME NEW i \in 1 .. n - 1
      PROVE  Legal(promises, R[i], Tail(q)[i]) /\ R[i + 1] = After(R[i], Tail(q)[i])
  <2>1. i + 1 \in 1 .. n /\ R[i] = P[i + 1] /\ R[i + 1] = P[(i + 1) + 1] /\ Tail(q)[i] = q[i + 1]
    BY <1>2
  <2>2. Legal(promises, P[i + 1], q[i + 1]) /\ P[(i + 1) + 1] = After(P[i + 1], q[i + 1])
    BY <1>1, <2>1 DEF Replays
  <2> QED BY <2>1, <2>2
<1>9. \A i \in 1 .. n : R[i].replaced \subseteq to.replaced
  BY <1>1, <1>2
<1> HIDE DEF R
<1>8. Replays(promises, R, Tail(q))
  BY <1>2, <1>7 DEF Replays
<1> QED BY <1>2, <1>3, <1>4, <1>5, <1>6, <1>8, <1>9 DEF Leads
-----------------------------------------------------------------------------
(* The handlers of the sink do to its pointers what After does to the view. *)

LEMMA EntryFacts ==
  ASSUME EntriesTyped, NEW s \in Signals
  PROVE  /\ IsKnown(s) => known[s] \in KnownEntry
         /\ IsKnown(s) <=> known[s].object # 0
         /\ ~IsKnown(s) => known[s] = Unknown
BY DEF EntriesTyped, IsKnown, KnownEntry, Unknown

\* A message that says nothing about signals.
LEMMA IndifferentSound ==
  ASSUME NEW p \in View, SinkSound(p), UNCHANGED <<known, bySigno, nextObject, announced>>
  PROVE  SinkSound(p)'
BY DEF SinkSound, EntriesTyped, AnnouncedExactly, Matches, MatchesAt, IsKnown

LEMMA HandleUnavailableSound ==
  ASSUME NEW promises, NEW p \in View, NEW m \in Message, m = Head(toSink),
         SinkSound(p), Legal(promises, p, m), HandleUnavailable
  PROVE  SinkSound(After(p, m))'
<1>0. m.kind = "unavailable" /\ m.id \in Signals
  BY DEF HandleUnavailable, Receive, Message
<1> DEFINE s == m.id
<1> DEFINE r == After(p, m)
<1>1. /\ r.shown = p.shown \ {s} /\ r.on = p.on \ {s} /\ r.described = p.described \ {s}
      /\ r.number = [p.number EXCEPT ![s] = 0] /\ p.number \in [Signals -> Nat]
      /\ r.replaced = p.replaced
  BY <1>0 DEF After, View
<1> HIDE DEF r
<1>2. EntriesTyped /\ AnnouncedExactly /\ Matches(p)
  BY DEF SinkSound
<1>3. \A u \in Signals : u # s => r.number[u] = p.number[u]
  BY <1>1
<1>4. r.number[s] = 0
  BY <1>0, <1>1
<1>5. CASE IsKnown(s)
  <2>1. /\ known' = [known EXCEPT ![s] = Unknown]
        /\ bySigno' = Without(bySigno, known[s].signo)
        /\ announced' = IF known[s].hidden THEN announced ELSE [announced EXCEPT ![s] = @ - 1]
        /\ nextObject' = nextObject
    BY <1>5 DEF HandleUnavailable, ForgetSigno
  <2>2. known[s] \in KnownEntry /\ known \in [Signals -> KnownEntry \cup {Unknown}]
    BY <1>0, <1>2, <1>5, EntryFacts DEF EntriesTyped
  <2>3. ~IsKnown(s)' /\ \A u \in Signals : u # s => known'[u] = known[u] /\ (IsKnown(u)' <=> IsKnown(u))
    BY <1>0, <2>1, <2>2 DEF IsKnown
  <2>4. announced \in [Signals -> Nat] /\ announced[s] = IF known[s].hidden THEN 0 ELSE 1
    BY <1>0, <1>2, <1>5 DEF EntriesTyped, AnnouncedExactly
  <2>5. /\ announced' \in [Signals -> Nat] /\ announced'[s] = 0
        /\ \A u \in Signals : u # s => announced'[u] = announced[u]
    <3>1. CASE known[s].hidden
      BY <2>1, <2>4, <3>1
    <3>2. CASE ~known[s].hidden
      BY <1>0, <2>1, <2>4, <3>2
    <3> QED BY <3>1, <3>2
  <2>6. EntriesTyped'
    BY <1>0, <1>2, <2>1, <2>2, <2>3, <2>5 DEF EntriesTyped
  <2>7. AnnouncedExactly'
    BY <1>2, <2>3, <2>5 DEF AnnouncedExactly
  <2>8. p.number[s] = known[s].signo
    BY <1>0, <1>2, <1>5 DEF Matches, MatchesAt
  <2>9. /\ DOMAIN bySigno' = DOMAIN bySigno \ {p.number[s]}
        /\ \A n \in DOMAIN bySigno' : bySigno'[n] = bySigno[n]
    BY <2>1, <2>8 DEF Without
  <2>10. Matches(r)'
    <3>1. ASSUME NEW u \in Signals, u # s
          PROVE  MatchesAt(r, u)'
      <4>1. u \in p.on => p.number[u] # p.number[s]
        BY <1>0, <1>2, <3>1 DEF Matches, MatchesAt
      <4> QED BY <1>1, <1>2, <1>3, <2>3, <2>9, <3>1, <4>1 DEF Matches, MatchesAt
    <3>2. \A u, w \in Signals : r.number[u] = r.number[w] /\ r.number[u] # 0 => u = w
      BY <1>2, <1>3, <1>4 DEF Matches, MatchesAt
    <3>3. ASSUME NEW n \in DOMAIN bySigno', n \notin r.replaced
          PROVE  \E u \in r.on : r.number[u] = n
      <4>1. PICK u \in p.on : p.number[u] = n
        BY <1>1, <1>2, <2>9, <3>3 DEF Matches, MatchesAt
      <4>2. u # s /\ u \in Signals
        BY <2>9, <4>1 DEF View
      <4> QED BY <1>1, <1>3, <4>1, <4>2
    <3> QED BY <1>1, <1>4, <2>3, <3>1, <3>2, <3>3 DEF Matches, MatchesAt
  <2> QED BY <2>6, <2>7, <2>10 DEF SinkSound, r
<1>6. CASE ~IsKnown(s)
  <2>1. UNCHANGED <<known, bySigno, nextObject, announced>>
    BY <1>6 DEF HandleUnavailable
  <2>2. s \notin p.shown /\ s \notin p.on /\ s \notin p.described /\ p.number[s] = 0
    BY <1>0, <1>2, <1>6 DEF Matches, MatchesAt
  <2>3. r = p
    <3>1. /\ r.shown = p.shown /\ r.on = p.on /\ r.described = p.described /\ r.number = p.number
          /\ r.replaced = p.replaced
      BY <1>0, <1>1, <2>2
    <3>2. r \in View
      BY AfterTyped DEF r
    <3> QED BY <3>1, <3>2 DEF View
  <2> QED BY <2>1, <2>3, IndifferentSound DEF r
<1> QED BY <1>5, <1>6

LEMMA HandleSubscribeSound ==
  ASSUME NEW promises, NEW p \in View, NEW m \in Message, m = Head(toSink),
         SinkSound(p), Legal(promises, p, m), HandleSubscribe
  PROVE  SinkSound(After(p, m))'
<1>0. m.kind = "subscribe" /\ m.id \in Signals /\ m.signo \in Nat
  BY DEF HandleSubscribe, Receive, Message
<1> DEFINE s == m.id
           n == m.signo
           r == After(p, m)
           e == IF IsKnown(s) THEN known[s] ELSE NewEntry(TRUE)
<1>1. /\ r.shown = p.shown /\ r.on = p.on \cup {s} /\ r.described = p.described
      /\ r.number = [p.number EXCEPT ![s] = n] /\ p.number \in [Signals -> Nat]
      /\ p.on \subseteq Signals /\ r.replaced = ReplacedBy(p, n, s)
  BY <1>0 DEF After, View
<1> HIDE DEF r
<1>2. EntriesTyped /\ AnnouncedExactly /\ Matches(p)
  BY DEF SinkSound
<1>3. n # 0 /\ \A u \in Signals : p.number[u] = n => u = s
  BY <1>0 DEF Legal
<1>4. r.number[s] = n /\ \A u \in Signals : u # s => r.number[u] = p.number[u]
  BY <1>0, <1>1
<1>5. /\ known' = [known EXCEPT ![s] = [e EXCEPT !.signo = n, !.subscribed = TRUE]]
      /\ bySigno' = With(bySigno, n, e.object)
      /\ nextObject' = IF IsKnown(s) THEN nextObject ELSE nextObject + 1
      /\ announced' = announced
  BY DEF HandleSubscribe
<1>6. /\ known \in [Signals -> KnownEntry \cup {Unknown}] /\ nextObject \in Nat \ {0}
      /\ e \in KnownEntry
      /\ IsKnown(s) => e = known[s]
      /\ ~IsKnown(s) => e.object = nextObject /\ e.hidden /\ ~e.described
  BY <1>0, <1>2, EntryFacts, RemoteAssumption DEF EntriesTyped, NewEntry, KnownEntry
<1> HIDE DEF e
<1>7. /\ known'[s] \in KnownEntry /\ known'[s].object = e.object /\ known'[s].hidden = e.hidden
      /\ known'[s].signo = n /\ known'[s].subscribed /\ known'[s].described = e.described
  BY <1>0, <1>5, <1>6 DEF KnownEntry
<1>8. \A u \in Signals : u # s => known'[u] = known[u] /\ (IsKnown(u)' <=> IsKnown(u))
  BY <1>0, <1>5, <1>6 DEF IsKnown
<1>9. known' \in [Signals -> KnownEntry \cup {Unknown}]
  BY <1>0, <1>5, <1>6, <1>7
<1>10. IsKnown(s)'
  <2>1. known'[s].object # 0 /\ Unknown.object = 0
    BY <1>7 DEF KnownEntry, Unknown
  <2> QED BY <2>1 DEF IsKnown
<1>11. EntriesTyped'
  <2>1. nextObject' \in Nat \ {0} /\ nextObject <= nextObject'
    BY <1>5, <1>6
  <2>2. e.object < nextObject' /\ \A u \in Signals : u # s /\ IsKnown(u) => known[u].object # e.object
    <3>1. CASE IsKnown(s)
      BY <1>0, <1>2, <1>5, <1>6, <3>1 DEF EntriesTyped
    <3>2. CASE ~IsKnown(s)
      BY <1>2, <1>5, <1>6, <3>2 DEF EntriesTyped
    <3> QED BY <3>1, <3>2
  <2>3. \A u \in Signals : IsKnown(u) => known[u] \in KnownEntry
    BY <1>2, EntryFacts
  <2>4. ASSUME NEW u \in Signals, IsKnown(u)'
        PROVE  known'[u].object < nextObject'
    BY <1>2, <1>6, <1>7, <1>8, <2>1, <2>2, <2>3, <2>4 DEF EntriesTyped, KnownEntry
  <2>5. \A u, w \in Signals :
          IsKnown(u)' /\ IsKnown(w)' /\ known'[u].object = known'[w].object => u = w
    BY <1>2, <1>7, <1>8, <2>2 DEF EntriesTyped
  <2> QED BY <1>2, <1>5, <1>9, <2>1, <2>4, <2>5 DEF EntriesTyped
<1>12. AnnouncedExactly'
  BY <1>0, <1>2, <1>5, <1>6, <1>7, <1>8, <1>10 DEF AnnouncedExactly
<1>13. /\ DOMAIN bySigno' = DOMAIN bySigno \cup {n} /\ bySigno'[n] = e.object
       /\ \A k \in DOMAIN bySigno : k # n => bySigno'[k] = bySigno[k]
  BY <1>5 DEF With
<1>14. Matches(r)'
  <2>1. ASSUME NEW u \in Signals, u # s
        PROVE  MatchesAt(r, u)'
    BY <1>1, <1>2, <1>3, <1>4, <1>8, <1>13, <2>1 DEF Matches, MatchesAt
  <2>2. /\ s \in r.shown <=> ~known'[s].hidden
        /\ s \in r.on /\ known'[s].subscribed
        /\ s \in r.described <=> known'[s].described
    BY <1>0, <1>1, <1>2, <1>6, <1>7 DEF Matches, MatchesAt
  <2>6. /\ r.number[s] = known'[s].signo /\ r.number[s] # 0 /\ r.number[s] \in DOMAIN bySigno'
        /\ bySigno'[r.number[s]] = known'[s].object
    BY <1>3, <1>4, <1>7, <1>13
  <2>3. \A u, w \in Signals : r.number[u] = r.number[w] /\ r.number[u] # 0 => u = w
    BY <1>2, <1>3, <1>4 DEF Matches, MatchesAt
  <2>4. ASSUME NEW k \in DOMAIN bySigno', k \notin r.replaced
        PROVE  \E u \in r.on : r.number[u] = k
    <3>1. CASE k = n
      BY <1>1, <1>4, <3>1
    <3>2. CASE k # n
      <4>0. k \notin p.replaced /\ (s \in p.on => p.number[s] # k)
        BY <1>1, <2>4, <3>2 DEF ReplacedBy
      <4>1. PICK u \in p.on : p.number[u] = k
        BY <1>2, <1>13, <3>2, <4>0 DEF Matches, MatchesAt
      <4>2. u # s /\ u \in Signals
        BY <1>1, <4>0, <4>1
      <4> QED BY <1>1, <1>4, <4>1, <4>2
    <3> QED BY <3>1, <3>2
  <2>5. ASSUME NEW u \in Signals
        PROVE  MatchesAt(r, u)'
    <3>1. CASE u = s
      BY <1>10, <2>2, <2>6, <3>1 DEF MatchesAt
    <3>2. CASE u # s
      BY <2>1, <3>2
    <3> QED BY <3>1, <3>2
  <2> QED BY <2>3, <2>4, <2>5 DEF Matches, MatchesAt
<1> QED BY <1>11, <1>12, <1>14 DEF SinkSound, r

\* What a signal number leads to, if it is not a replaced one.
LEMMA TargetIs ==
  ASSUME NEW p \in View, SinkSound(p), NEW n,
         n \in p.replaced => \E s \in p.on : p.number[s] = n
  PROVE  Target(n) = {s \in p.on : p.number[s] = n}
<1>0. EntriesTyped /\ Matches(p) /\ p.on \subseteq Signals
  BY DEF SinkSound, View
<1>1. CASE n \in DOMAIN bySigno
  <2>1. PICK u \in p.on : p.number[u] = n
    BY <1>0, <1>1 DEF Matches, MatchesAt
  <2>2. u \in Signals /\ IsKnown(u) /\ bySigno[n] = known[u].object /\ n # 0
    BY <1>0, <2>1 DEF Matches, MatchesAt
  <2>3. \A s \in Signals : IsKnown(s) /\ known[s].object = bySigno[n] => s = u
    BY <1>0, <2>2 DEF EntriesTyped
  <2>4. \A s \in p.on : p.number[s] = n => s = u
    BY <1>0, <2>1, <2>2 DEF Matches, MatchesAt
  <2> QED BY <1>0, <1>1, <2>1, <2>2, <2>3, <2>4 DEF Target
<1>2. CASE n \notin DOMAIN bySigno
  BY <1>0, <1>2 DEF Target, Matches, MatchesAt
<1> QED BY <1>1, <1>2

LEMMA HandleUnsubscribeSound ==
  ASSUME NEW promises, NEW p \in View, NEW m \in Message, m = Head(toSink),
         SinkSound(p), Legal(promises, p, m), HandleUnsubscribe
  PROVE  SinkSound(After(p, m))'
<1>0. m.kind = "unsubscribe" /\ m.signo \in Nat
  BY DEF HandleUnsubscribe, Receive, Message
<1> DEFINE n == m.signo
           r == After(p, m)
           T == {s \in p.on : p.number[s] = n}
<1>1. /\ r.shown = p.shown /\ r.on = {s \in p.on : p.number[s] # n} /\ r.described = p.described
      /\ r.number = p.number /\ p.on \subseteq Signals /\ r.replaced = p.replaced
  BY <1>0 DEF After, View
<1> HIDE DEF r
<1>2. EntriesTyped /\ AnnouncedExactly /\ Matches(p)
  BY DEF SinkSound
<1>3. /\ known' = [s \in Signals |-> IF s \in T THEN [known[s] EXCEPT !.subscribed = FALSE] ELSE known[s]]
      /\ bySigno' = Without(bySigno, n) /\ UNCHANGED <<nextObject, announced>>
  <2>1. Target(n) = T
    BY <1>0, TargetIs DEF Legal
  <2> QED BY <2>1 DEF HandleUnsubscribe
<1>30. nextObject' = nextObject /\ announced' = announced
  BY <1>3
<1>4. \A s \in T : IsKnown(s) /\ known[s] \in KnownEntry /\ s \in Signals
  BY <1>1, <1>2, EntryFacts DEF Matches, MatchesAt
<1>5. known \in [Signals -> KnownEntry \cup {Unknown}]
  BY <1>2 DEF EntriesTyped
<1>6. ASSUME NEW s \in Signals
      PROVE  /\ known'[s].object = known[s].object /\ known'[s] \in KnownEntry \cup {Unknown}
             /\ IsKnown(s)' <=> IsKnown(s)
             /\ IsKnown(s) => /\ known'[s].hidden = known[s].hidden /\ known'[s].signo = known[s].signo
                              /\ known'[s].described = known[s].described
                              /\ known'[s].subscribed <=> s \notin T /\ known[s].subscribed
  <2>1. CASE s \in T
    <3>1. /\ known'[s] = [known[s] EXCEPT !.subscribed = FALSE]
          /\ known[s] \in KnownEntry /\ IsKnown(s)
      BY <1>3, <1>4, <2>1
    <3>2. /\ known'[s] \in KnownEntry /\ known'[s].object = known[s].object
          /\ known'[s].hidden = known[s].hidden /\ known'[s].signo = known[s].signo
          /\ known'[s].described = known[s].described /\ ~known'[s].subscribed
      BY <3>1 DEF KnownEntry
    <3>3. known'[s].object # 0 /\ Unknown.object = 0
      BY <3>1, <3>2 DEF KnownEntry, Unknown
    <3> QED BY <2>1, <3>1, <3>2, <3>3 DEF IsKnown
  <2>2. CASE s \notin T
    BY <1>3, <1>5, <2>2 DEF IsKnown
  <2> QED BY <2>1, <2>2
<1>7. EntriesTyped'
  <2>1. known' \in [Signals -> KnownEntry \cup {Unknown}]
    BY <1>3, <1>6
  <2> QED BY <1>2, <1>30, <1>6, <2>1 DEF EntriesTyped
<1>8. AnnouncedExactly'
  BY <1>2, <1>30, <1>6 DEF AnnouncedExactly
<1>9. /\ DOMAIN bySigno' = DOMAIN bySigno \ {n}
      /\ \A k \in DOMAIN bySigno' : bySigno'[k] = bySigno[k]
  BY <1>3 DEF Without
<1>10. Matches(r)'
  <2>1. ASSUME NEW u \in Signals
        PROVE  MatchesAt(r, u)'
    BY <1>1, <1>2, <1>6, <1>9 DEF Matches, MatchesAt
  <2>2. ASSUME NEW k \in DOMAIN bySigno', k \notin r.replaced
        PROVE  \E u \in r.on : r.number[u] = k
    BY <1>1, <1>2, <1>9, <2>2 DEF Matches, MatchesAt
  <2>3. \A u, w \in Signals : r.number[u] = r.number[w] /\ r.number[u] # 0 => u = w
    BY <1>1, <1>2 DEF Matches, MatchesAt
  <2> QED BY <2>1, <2>2, <2>3 DEF Matches, MatchesAt
<1> QED BY <1>7, <1>8, <1>10 DEF SinkSound, r

LEMMA FindTableTyped ==
  ASSUME EntriesTyped, NEW s \in Signals, NEW d \in FindTable(s)
  PROVE  d \in Nat
<1>1. CASE d = 0
  BY <1>1
<1>2. CASE d # 0
  <2>1. PICK u \in TablesNamed(s) : IsKnown(u) /\ d = known[u].object
    BY <1>2 DEF FindTable
  <2>2. u \in Signals
    BY TableAssumption DEF TablesNamed
  <2> QED BY <2>1, <2>2, EntryFacts DEF KnownEntry
<1> QED BY <1>1, <1>2

LEMMA HandleSignalSound ==
  ASSUME NEW promises, NEW p \in View, NEW m \in Message, m = Head(toSink),
         SinkSound(p), Legal(promises, p, m), HandleSignal
  PROVE  SinkSound(After(p, m))'
<1>0. m.kind = "signal" /\ m.signo \in Nat /\ m.id \in Signals
  BY DEF HandleSignal, Receive, Message
<1> DEFINE s == m.id
           r == After(p, m)
<1>1. /\ r.shown = p.shown /\ r.on = p.on /\ r.described = p.described \cup {s}
      /\ r.number = p.number /\ p.on \subseteq Signals /\ r.replaced = p.replaced
  BY <1>0 DEF After, View
<1> HIDE DEF r
<1>2. EntriesTyped /\ AnnouncedExactly /\ Matches(p)
  BY DEF SinkSound
<1>3. s \in p.on /\ p.number[s] = m.signo
  BY <1>0 DEF Legal
<1>4. Target(m.signo) = {s}
  <2>1. Target(m.signo) = {u \in p.on : p.number[u] = m.signo}
    BY <1>3, TargetIs
  <2>2. \A u \in p.on : p.number[u] = m.signo => u = s
    BY <1>1, <1>2, <1>3 DEF Matches, MatchesAt
  <2> QED BY <1>3, <2>1, <2>2
<1>20. PICK d \in FindTable(s) :
         known' = [u \in Signals |->
           IF u \in Target(m.signo)
             THEN [known[u] EXCEPT !.described = TRUE, !.domain = d] ELSE known[u]]
  BY Zenon DEF HandleSignal
<1>5. /\ known' = [u \in Signals |->
           IF u \in {s} THEN [known[u] EXCEPT !.described = TRUE, !.domain = d] ELSE known[u]]
      /\ UNCHANGED <<bySigno, nextObject, announced>>
  BY <1>4, <1>20 DEF HandleSignal
<1>6. IsKnown(s) /\ known[s] \in KnownEntry /\ d \in Nat
  BY <1>0, <1>2, <1>3, EntryFacts, FindTableTyped DEF Matches, MatchesAt
<1>7. known'[s] = [known[s] EXCEPT !.described = TRUE, !.domain = d]
  BY <1>0, <1>5
<1>8. /\ known'[s] \in KnownEntry /\ known'[s].object = known[s].object
      /\ known'[s].hidden = known[s].hidden /\ known'[s].signo = known[s].signo
      /\ known'[s].subscribed = known[s].subscribed /\ known'[s].described
  BY <1>6, <1>7 DEF KnownEntry
<1>9. known'[s].object # 0 /\ Unknown.object = 0
  BY <1>6, <1>8 DEF KnownEntry, Unknown
<1>10. IsKnown(s)'
  BY <1>9 DEF IsKnown
<1>11. \A u \in Signals : u # s => known'[u] = known[u] /\ (IsKnown(u)' <=> IsKnown(u))
  BY <1>5 DEF IsKnown
<1>12. known' \in [Signals -> KnownEntry \cup {Unknown}]
  <2>1. \A u \in Signals : known'[u] \in KnownEntry \cup {Unknown}
    BY <1>2, <1>8, <1>11 DEF EntriesTyped
  <2> QED BY <1>5, <2>1
<1>13. UNCHANGED <<bySigno, nextObject, announced>>
  BY <1>5
<1>14. \A u \in Signals : known'[u].object = known[u].object /\ (IsKnown(u)' <=> IsKnown(u))
  BY <1>6, <1>8, <1>10, <1>11
<1>15. EntriesTyped'
  BY <1>2, <1>12, <1>13, <1>14 DEF EntriesTyped
<1>16. AnnouncedExactly'
  BY <1>2, <1>6, <1>8, <1>10, <1>11, <1>13 DEF AnnouncedExactly
<1>17. ASSUME NEW u \in Signals
       PROVE  MatchesAt(r, u)'
  <2>1. MatchesAt(p, u)
    BY <1>2 DEF Matches
  <2>2. CASE u = s
    BY <1>1, <1>6, <1>8, <1>10, <1>13, <2>1, <2>2 DEF MatchesAt
  <2>3. CASE u # s
    BY <1>1, <1>11, <1>13, <2>1, <2>3 DEF MatchesAt
  <2> QED BY <2>2, <2>3
<1>18. Matches(r)'
  BY <1>1, <1>2, <1>13, <1>17 DEF Matches
<1> QED BY <1>15, <1>16, <1>18 DEF SinkSound, r

LEMMA HandleAvailableSound ==
  ASSUME NEW promises, NEW p \in View, NEW m \in Message, m = Head(toSink),
         SinkSound(p), Legal(promises, p, m), HandleAvailable
  PROVE  SinkSound(After(p, m))'
<1> DEFINE ids == Head(toSink).ids
<1>0. m.kind = "available" /\ ids \subseteq Signals /\ m.ids = ids
  BY DEF HandleAvailable, Receive, Message
<1> DEFINE new == {s \in ids : ~IsKnown(s)}
           shown == new \cup {s \in ids : IsKnown(s) /\ known[s].hidden}
           r == After(p, m)
<1>1. /\ r.shown = p.shown \cup ids /\ r.on = p.on /\ r.described = p.described
      /\ r.number = p.number /\ p.on \subseteq Signals /\ r.replaced = p.replaced
  BY <1>0 DEF After, View
<1> HIDE DEF r
<1>2. EntriesTyped /\ AnnouncedExactly /\ Matches(p)
  BY DEF SinkSound
<1>3. \A s \in ids : s \in Signals /\ (IsKnown(s) => known[s].hidden)
  BY <1>0, <1>2 DEF Legal, Matches, MatchesAt
<1>4. shown = ids
  BY <1>3
<1>5. Cardinality(new) \in Nat
  BY <1>0, TableAssumption, FS_Subset, FS_CardinalityType
<1> DEFINE k == Cardinality(new)
<1>6. PICK order \in {f \in [new -> 0..(k - 1)] : \A x, y \in new : x # y => f[x] # f[y]} :
        known' = [s \in Signals |->
             CASE s \in new       -> [NewEntry(FALSE) EXCEPT !.object = @ + order[s]]
               [] s \in shown \ new -> [known[s] EXCEPT !.hidden = FALSE]
               [] s \notin shown     -> known[s]]
  BY DEF HandleAvailable
<1>7. /\ nextObject' = nextObject + k
      /\ announced' = [s \in Signals |-> IF s \in shown THEN announced[s] + 1 ELSE announced[s]]
      /\ bySigno' = bySigno
  BY DEF HandleAvailable
<1> HIDE DEF k, shown, ids
<1>8. k \in Nat /\ nextObject \in Nat \ {0} /\ known \in [Signals -> KnownEntry \cup {Unknown}]
  BY <1>2, <1>5 DEF EntriesTyped, k
<1>9. \A s \in new : order[s] \in 0 .. k - 1 /\ \A u \in new : s # u => order[s] # order[u]
  BY <1>6
<1>10. ASSUME NEW s \in new
       PROVE  /\ known'[s] \in KnownEntry /\ known'[s].object = nextObject + order[s]
              /\ ~known'[s].hidden /\ ~known'[s].subscribed /\ ~known'[s].described
              /\ known'[s].signo = 0 /\ s \in Signals /\ s \in ids /\ ~IsKnown(s)
  <2>1. s \in Signals /\ s \in ids /\ ~IsKnown(s)
    BY <1>0
  <2>2. known'[s] = [NewEntry(FALSE) EXCEPT !.object = @ + order[s]]
    BY <1>4, <1>6, <2>1
  <2>3. nextObject + order[s] \in Nat \ {0}
    BY <1>8, <1>9
  <2>4. known'[s] = [object |-> nextObject + order[s], hidden |-> FALSE, signo |-> 0,
                     subscribed |-> FALSE, described |-> FALSE, domain |-> 0, uses |-> 0]
    BY <2>2 DEF NewEntry
  <2>5. 0 \in 0 .. MaxUses
    BY RemoteAssumption
  <2> QED BY <2>1, <2>3, <2>4, <2>5 DEF KnownEntry
<1>11. ASSUME NEW s \in ids, IsKnown(s)
       PROVE  /\ known'[s] \in KnownEntry /\ known'[s].object = known[s].object
              /\ ~known'[s].hidden /\ (known'[s].subscribed <=> known[s].subscribed)
              /\ (known'[s].described <=> known[s].described)
              /\ known'[s].signo = known[s].signo /\ s \in Signals /\ known[s].hidden
  <2>1. s \in Signals /\ s \in ids \ new /\ known[s].hidden /\ known[s] \in KnownEntry
    BY <1>2, <1>3, <1>11, EntryFacts
  <2>2. known'[s] = [known[s] EXCEPT !.hidden = FALSE]
    BY <1>4, <1>6, <2>1
  <2> QED BY <2>1, <2>2 DEF KnownEntry
<1>12. \A s \in Signals : s \notin ids => known'[s] = known[s]
  BY <1>4, <1>6, <1>10
<1>13. \A s \in Signals : known'[s] \in KnownEntry \cup {Unknown}
  BY <1>8, <1>10, <1>11, <1>12
<1>14. known' \in [Signals -> KnownEntry \cup {Unknown}]
  BY <1>6, <1>13
<1>15. \A s \in ids : IsKnown(s)'
  <2>1. \A s \in ids : known'[s].object # 0
    BY <1>10, <1>11 DEF KnownEntry
  <2> QED BY <2>1 DEF IsKnown, Unknown
<1>16. \A s \in Signals : s \notin ids => (IsKnown(s)' <=> IsKnown(s))
  BY <1>12 DEF IsKnown
<1> HIDE DEF new
<1>17. \A s \in ids : s \in new <=> ~IsKnown(s)
  BY DEF new
<1>18. announced' \in [Signals -> Nat]
       /\ \A s \in Signals : announced'[s] = IF s \in ids THEN 1 ELSE announced[s]
  <2>1. announced \in [Signals -> Nat] /\ \A s \in ids : announced[s] = 0
    BY <1>2, <1>3 DEF EntriesTyped, AnnouncedExactly
  <2>2. \A s \in Signals : announced'[s] = IF s \in ids THEN announced[s] + 1 ELSE announced[s]
    BY <1>4, <1>7
  <2>3. announced' \in [Signals -> Nat]
    BY <1>7, <2>1
  <2> QED BY <2>1, <2>2, <2>3
<1>19. EntriesTyped'
  <2>1. nextObject' \in Nat \ {0} /\ nextObject <= nextObject'
    BY <1>7, <1>8
  <2>2. \A s \in Signals : IsKnown(s) => known[s].object \in Nat /\ known[s].object < nextObject
    BY <1>2, EntryFacts DEF EntriesTyped, KnownEntry
  <2>3. \A s \in Signals \ new : IsKnown(s)' => IsKnown(s) /\ known'[s].object = known[s].object
    BY <1>11, <1>12, <1>16, <1>17
  <2>4. \A s \in new : nextObject <= known'[s].object /\ known'[s].object < nextObject'
    BY <1>7, <1>8, <1>9, <1>10
  <2>5. ASSUME NEW s \in Signals, IsKnown(s)' PROVE known'[s].object < nextObject'
    BY <1>8, <2>1, <2>2, <2>3, <2>4, <2>5
  <2>6. ASSUME NEW s \in Signals, NEW u \in Signals, IsKnown(s)', IsKnown(u)',
               known'[s].object = known'[u].object
        PROVE  s = u
    <3>1. CASE s \in new /\ u \in new
      BY <1>8, <1>9, <1>10, <2>6, <3>1
    <3>2. CASE s \in new /\ u \notin new
      BY <1>8, <2>2, <2>3, <2>4, <2>6, <3>2
    <3>3. CASE s \notin new /\ u \in new
      BY <1>8, <2>2, <2>3, <2>4, <2>6, <3>3
    <3>4. CASE s \notin new /\ u \notin new
      BY <1>2, <2>3, <2>6, <3>4 DEF EntriesTyped
    <3> QED BY <3>1, <3>2, <3>3, <3>4
  <2> QED BY <1>14, <1>18, <2>1, <2>5, <2>6 DEF EntriesTyped
<1>20. AnnouncedExactly'
  <2> SUFFICES ASSUME NEW s \in Signals
               PROVE  announced'[s] = IF IsKnown(s)' /\ ~known'[s].hidden THEN 1 ELSE 0
    BY DEF AnnouncedExactly
  <2>1. CASE s \in ids
    BY <1>10, <1>11, <1>15, <1>17, <1>18, <2>1
  <2>2. CASE s \notin ids
    BY <1>2, <1>12, <1>16, <1>18, <2>2 DEF AnnouncedExactly
  <2> QED BY <2>1, <2>2
<1>21. ASSUME NEW s \in Signals
       PROVE  MatchesAt(r, s)'
  <2>1. MatchesAt(p, s)
    BY <1>2 DEF Matches
  <2>2. CASE s \in ids /\ ~IsKnown(s)
    BY <1>1, <1>7, <1>10, <1>15, <1>17, <2>1, <2>2 DEF MatchesAt
  <2>3. CASE s \in ids /\ IsKnown(s)
    BY <1>1, <1>7, <1>11, <1>15, <2>1, <2>3 DEF MatchesAt
  <2>4. CASE s \notin ids
    BY <1>1, <1>7, <1>12, <1>16, <2>1, <2>4 DEF MatchesAt
  <2> QED BY <2>2, <2>3, <2>4
<1>22. Matches(r)'
  BY <1>1, <1>2, <1>7, <1>21 DEF Matches
<1> QED BY <1>19, <1>20, <1>22 DEF SinkSound, r
-----------------------------------------------------------------------------
(* The sink and the messages in flight together. *)

\* The sink is sound and the messages q, all legal, lead its view to r.
Reaches(promises, q, r) == \E p \in View : SinkSound(p) /\ Leads(promises, q, p, r)

LEMMA ReachesTyped ==
  ASSUME NEW promises, NEW q \in Seq(Message), NEW r, Reaches(promises, q, r)
  PROVE  r \in View
BY DEF Reaches, Leads

\* The source sends a legal message.
LEMMA ReachesAppend ==
  ASSUME NEW promises, NEW q \in Seq(Message), NEW r \in View, Reaches(promises, q, r),
         NEW m \in Message, Legal(promises, r, m)
  PROVE  /\ Reaches(promises, Append(q, m), After(r, m))
         /\ Append(q, m) \in Seq(Message) /\ After(r, m) \in View
BY LeadsAppend DEF Reaches

LEMMA ConcatOne ==
  ASSUME NEW q \in Seq(Message), NEW m \in Message
  PROVE  q \o <<m>> = Append(q, m) /\ Append(q, m) \in Seq(Message)
BY AppendProperties, AppendIsConcat

LEMMA ConcatTwo ==
  ASSUME NEW q \in Seq(Message), NEW a \in Message, NEW b \in Message
  PROVE  q \o <<a, b>> = Append(Append(q, a), b) /\ Append(Append(q, a), b) \in Seq(Message)
OBVIOUS

\* A step that leaves the sink alone.
LEMMA SinkUnmoved ==
  ASSUME NEW promises, NEW r, Reaches(promises, toSink', r),
         UNCHANGED <<known, bySigno, nextObject, announced>>
  PROVE  Reaches(promises, toSink, r)'
<1>1. PICK p \in View : SinkSound(p) /\ Leads(promises, toSink', p, r)
  BY DEF Reaches
<1>2. SinkSound(p)'
  BY <1>1, IndifferentSound
<1> QED BY <1>1, <1>2 DEF Reaches

\* The sink handles the next message, whichever it is.
SinkHandles ==
  \/ HandleInit \/ HandleAvailable \/ HandleUnavailable \/ HandleSubscribe \/ HandleUnsubscribe
  \/ HandleSignal \/ HandleData \/ HandleResponse

LEMMA ReceiveShortens ==
  SinkHandles => /\ sinkOpen /\ sinkOpen' = sinkOpen /\ toSink # <<>> /\ toSink' = Tail(toSink)
                 /\ toSource' = toSource
BY DEF SinkHandles, HandleInit, HandleAvailable, HandleUnavailable, HandleSubscribe,
   HandleUnsubscribe, HandleSignal, HandleData, HandleResponse, Receive, remoteVars

\* The sink stays sound and the rest of the messages lead to the same view.
LEMMA SinkHandlesSound ==
  ASSUME NEW promises, NEW r, toSink \in Seq(Message), Reaches(promises, toSink, r), SinkHandles
  PROVE  Reaches(promises, toSink, r)' /\ toSink' \in Seq(Message)
<1>1. PICK p \in View : SinkSound(p) /\ Leads(promises, toSink, p, r)
  BY DEF Reaches
<1>2. toSink # <<>> /\ toSink' = Tail(toSink)
  BY ReceiveShortens
<1>3. PICK m \in Message : m = Head(toSink)
  BY <1>1, <1>2, LeadsTail
<1>4. Legal(promises, p, m) /\ toSink' \in Seq(Message) /\ Leads(promises, toSink', After(p, m), r)
  BY <1>1, <1>2, <1>3, LeadsTail
<1>5. After(p, m) \in View
  BY AfterTyped
<1>6. SinkSound(After(p, m))'
  <2>1. CASE HandleInit \/ HandleData \/ HandleResponse
    <3>1. m.kind \in {"init", "data", "response"} /\ UNCHANGED <<known, bySigno, nextObject, announced>>
      BY <1>3, <2>1 DEF HandleInit, HandleData, HandleResponse, Receive, remoteVars
    <3>2. After(p, m) = p
      BY <3>1 DEF After
    <3> QED BY <1>1, <3>1, <3>2, IndifferentSound
  <2>2. CASE HandleAvailable
    BY <1>1, <1>3, <1>4, <2>2, HandleAvailableSound
  <2>3. CASE HandleUnavailable
    BY <1>1, <1>3, <1>4, <2>3, HandleUnavailableSound
  <2>4. CASE HandleSubscribe
    BY <1>1, <1>3, <1>4, <2>4, HandleSubscribeSound
  <2>5. CASE HandleUnsubscribe
    BY <1>1, <1>3, <1>4, <2>5, HandleUnsubscribeSound
  <2>6. CASE HandleSignal
    BY <1>1, <1>3, <1>4, <2>6, HandleSignalSound
  <2> QED BY <2>1, <2>2, <2>3, <2>4, <2>5, <2>6 DEF SinkHandles
<1> QED BY <1>4, <1>5, <1>6 DEF Reaches

\* The application's calls change nothing but the number of its uses.
LEMMA AppCallSound ==
  ASSUME NEW promises, NEW r, Reaches(promises, toSink, r), NEW s \in Signals,
         AppSubscribe(s) \/ AppUnsubscribe(s)
  PROVE  Reaches(promises, toSink, r)'
<1>1. PICK p \in View : SinkSound(p) /\ Leads(promises, toSink, p, r)
  BY DEF Reaches
<1>2. UNCHANGED <<toSink, bySigno, nextObject, announced>> /\ IsKnown(s)
  BY DEF AppSubscribe, AppUnsubscribe
<1>3. EntriesTyped /\ AnnouncedExactly /\ Matches(p) /\ known[s] \in KnownEntry
  BY <1>1, <1>2, EntryFacts DEF SinkSound
<1>4. PICK k \in 0 .. MaxUses : known' = [known EXCEPT ![s].uses = k]
  <2>0. known[s].uses \in 0 .. MaxUses
    BY <1>3 DEF KnownEntry
  <2>1. CASE AppSubscribe(s)
    <3>1. known[s].uses + 1 \in 0 .. MaxUses /\ known' = [known EXCEPT ![s].uses = known[s].uses + 1]
      BY <2>0, <2>1, RemoteAssumption DEF AppSubscribe
    <3> QED BY <3>1
  <2>2. CASE AppUnsubscribe(s)
    <3>1. known[s].uses - 1 \in 0 .. MaxUses /\ known' = [known EXCEPT ![s].uses = known[s].uses - 1]
      BY <2>0, <2>2, RemoteAssumption DEF AppUnsubscribe
    <3> QED BY <3>1
  <2> QED BY <2>1, <2>2
<1>5. /\ known'[s] \in KnownEntry /\ known'[s].object = known[s].object
      /\ known'[s].hidden = known[s].hidden /\ known'[s].signo = known[s].signo
      /\ known'[s].subscribed = known[s].subscribed /\ known'[s].described = known[s].described
  BY <1>3, <1>4 DEF KnownEntry, EntriesTyped
<1>6. known'[s].object # 0 /\ Unknown.object = 0
  BY <1>3, <1>5 DEF KnownEntry, Unknown
<1>7. IsKnown(s)'
  BY <1>6 DEF IsKnown
<1>8. \A u \in Signals : u # s => known'[u] = known[u] /\ (IsKnown(u)' <=> IsKnown(u))
  BY <1>3, <1>4 DEF IsKnown, EntriesTyped
<1>9. EntriesTyped'
  <2>1. known' \in [Signals -> KnownEntry \cup {Unknown}]
    <3>1. \A u \in Signals : known'[u] \in KnownEntry \cup {Unknown}
      BY <1>3, <1>5, <1>8 DEF EntriesTyped
    <3> QED BY <1>3, <1>4, <3>1 DEF EntriesTyped
  <2>2. \A u \in Signals : known'[u].object = known[u].object /\ (IsKnown(u)' <=> IsKnown(u))
    BY <1>2, <1>5, <1>7, <1>8
  <2> QED BY <1>2, <1>3, <2>1, <2>2 DEF EntriesTyped
<1>10. AnnouncedExactly'
  BY <1>2, <1>3, <1>5, <1>7, <1>8 DEF AnnouncedExactly
<1>11. ASSUME NEW u \in Signals
       PROVE  MatchesAt(p, u)'
  <2>1. MatchesAt(p, u)
    BY <1>3 DEF Matches
  <2>2. CASE u = s
    BY <1>2, <1>5, <1>7, <2>1, <2>2 DEF MatchesAt
  <2>3. CASE u # s
    BY <1>2, <1>8, <2>1, <2>3 DEF MatchesAt
  <2> QED BY <2>2, <2>3
<1>12. Matches(p)'
  BY <1>2, <1>3, <1>11 DEF Matches
<1> QED BY <1>1, <1>2, <1>9, <1>10, <1>12 DEF SinkSound, Reaches

\* on_peer_closed withdraws what was announced and forgets the rest.
LEMMA SinkClosedSound ==
  ASSUME EntriesTyped, AnnouncedExactly, SinkClosed
  PROVE  EntriesTyped' /\ AnnouncedExactly' /\ Cleared'
<1>1. /\ known' = [s \in Signals |-> Unknown] /\ bySigno' = <<>> /\ nextObject' = nextObject
      /\ announced' = [s \in Signals |->
           IF IsKnown(s) /\ ~known[s].hidden THEN announced[s] - 1 ELSE announced[s]]
  BY DEF SinkClosed
<1>2. \A s \in Signals : ~IsKnown(s)'
  BY <1>1 DEF IsKnown
<1>3. \A s \in Signals : announced'[s] = 0
  BY <1>1 DEF AnnouncedExactly
<1>4. announced' \in [Signals -> Nat]
  BY <1>1, <1>3
<1>5. EntriesTyped'
  BY <1>1, <1>2, <1>4 DEF EntriesTyped
<1> QED BY <1>1, <1>2, <1>3, <1>5 DEF AnnouncedExactly, Cleared

LEMMA SinkInitSound ==
  ASSUME RemoteInit
  PROVE  \E p \in View : /\ SinkSound(p) /\ p.shown = {} /\ p.on = {} /\ p.described = {}
                        /\ p.number = [s \in Signals |-> 0] /\ p.replaced = {}
<1> DEFINE p == [shown |-> {}, on |-> {}, described |-> {}, number |-> [s \in Signals |-> 0], replaced |-> {}]
<1>1. p \in View
  BY DEF View
<1>2. \A s \in Signals : ~IsKnown(s)
  BY DEF RemoteInit, IsKnown
<1>3. EntriesTyped /\ AnnouncedExactly
  BY <1>2 DEF RemoteInit, EntriesTyped, AnnouncedExactly
<1>4. Matches(p)
  BY <1>2 DEF RemoteInit, Matches, MatchesAt
<1> QED BY <1>1, <1>3, <1>4 DEF SinkSound
-----------------------------------------------------------------------------
(* What soundness means for the application. *)

LEMMA SoundResolves ==
  ASSUME NEW promises, NEW r, toSink \in Seq(Message), Reaches(promises, toSink, r)
  PROVE  /\ \A n \in DOMAIN bySigno : Target(n) # {} \/ n \in r.replaced
         /\ \A s \in Signals : IsKnown(s) /\ known[s].subscribed => Target(known[s].signo) = {s}
<1>1. PICK p \in View : SinkSound(p) /\ Leads(promises, toSink, p, r)
  BY DEF Reaches
<1>2. p.replaced \subseteq r.replaced
  <2>1. 1 \in 1 .. Len(toSink) + 1
    BY LenProperties
  <2> QED BY <1>1, <2>1 DEF Leads
<1>3. Matches(p) /\ p.on \subseteq Signals
  BY <1>1 DEF SinkSound, View
<1>4. ASSUME NEW n \in DOMAIN bySigno, n \notin r.replaced PROVE Target(n) # {}
  <2>1. PICK s \in p.on : p.number[s] = n
    BY <1>2, <1>3, <1>4 DEF Matches
  <2>2. Target(n) = {u \in p.on : p.number[u] = n}
    BY <1>1, <2>1, TargetIs
  <2> QED BY <2>1, <2>2
<1>5. ASSUME NEW s \in Signals, IsKnown(s), known[s].subscribed PROVE Target(known[s].signo) = {s}
  <2>1. s \in p.on /\ p.number[s] = known[s].signo /\ p.number[s] # 0
    BY <1>3, <1>5 DEF Matches, MatchesAt
  <2>2. Target(p.number[s]) = {u \in p.on : p.number[u] = p.number[s]}
    BY <1>1, <2>1, TargetIs
  <2>3. \A u \in p.on : p.number[u] = p.number[s] => u = s
    BY <1>3, <2>1 DEF Matches
  <2> QED BY <2>1, <2>2, <2>3
<1> QED BY <1>4, <1>5

\* With the promise about data, every message of a signal finds it subscribed.
LEMMA SoundAttributes ==
  ASSUME NEW promises, NEW r, toSink \in Seq(Message), Reaches(promises, toSink, r), "data" \in promises
  PROVE  MessagesAttributable
<1> SUFFICES ASSUME toSink # <<>>, Head(toSink).kind \in {"data", "signal"}
             PROVE  \E s \in Target(Head(toSink).signo) : known[s].subscribed
  BY DEF MessagesAttributable
<1>1. PICK p \in View : SinkSound(p) /\ Leads(promises, toSink, p, r)
  BY DEF Reaches
<1>2. Legal(promises, p, Head(toSink))
  BY <1>1, LeadsTail
<1>3. PICK s \in p.on : p.number[s] = Head(toSink).signo
  BY <1>2 DEF Legal
<1>4. s \in Target(Head(toSink).signo)
  BY <1>1, <1>3, TargetIs
<1>5. s \in Signals /\ known[s].subscribed
  BY <1>1, <1>3 DEF SinkSound, Matches, MatchesAt, View
<1> QED BY <1>4, <1>5
-----------------------------------------------------------------------------
(* What each message needs and does. *)

LEMMA MessagesTyped ==
  /\ InitMsg \in Message /\ ResponseMsg \in Message
  /\ \A ids \in SUBSET Signals : AvailableMsg(ids) \in Message
  /\ \A s \in Signals : UnavailableMsg(s) \in Message
  /\ \A n \in Nat, s \in Signals : SubscribeMsg(n, s) \in Message /\ SignalMsg(n, s) \in Message
  /\ \A n \in Nat : UnsubscribeMsg(n) \in Message /\ DataMsg(n) \in Message
BY DEF InitMsg, ResponseMsg, AvailableMsg, UnavailableMsg, SubscribeMsg, SignalMsg, UnsubscribeMsg,
   DataMsg, Message

LEMMA AfterPlain ==
  ASSUME NEW r, NEW n
  PROVE  After(r, InitMsg) = r /\ After(r, ResponseMsg) = r /\ After(r, DataMsg(n)) = r
BY DEF InitMsg, ResponseMsg, DataMsg, After

LEMMA LegalPlain ==
  ASSUME NEW promises, NEW r
  PROVE  Legal(promises, r, InitMsg) /\ Legal(promises, r, ResponseMsg)
BY DEF InitMsg, ResponseMsg, Legal

LEMMA AfterAvailable ==
  ASSUME NEW r \in View, NEW ids, NEW t, t = After(r, AvailableMsg(ids))
  PROVE  /\ t.shown = r.shown \cup ids /\ t.on = r.on /\ t.described = r.described
         /\ t.number = r.number /\ t.replaced = r.replaced
BY DEF AvailableMsg, After

LEMMA LegalAvailable ==
  ASSUME NEW promises, NEW r \in View, NEW ids, ids \cap r.shown = {}
  PROVE  Legal(promises, r, AvailableMsg(ids))
BY DEF AvailableMsg, Legal

LEMMA AfterUnavailable ==
  ASSUME NEW r \in View, NEW s \in Signals, NEW t, t = After(r, UnavailableMsg(s))
  PROVE  /\ t.shown = r.shown \ {s} /\ t.on = r.on \ {s} /\ t.described = r.described \ {s}
         /\ t.number = [r.number EXCEPT ![s] = 0] /\ t.replaced = r.replaced
BY DEF UnavailableMsg, After

LEMMA LegalUnavailable ==
  ASSUME NEW promises, "domain" \notin promises, NEW r, NEW s
  PROVE  Legal(promises, r, UnavailableMsg(s))
BY DEF UnavailableMsg, Legal

LEMMA LegalSubscribe ==
  ASSUME NEW promises, NEW r \in View, NEW n \in Nat \ {0}, NEW s \in Signals,
         \A u \in Signals : r.number[u] = n => u = s
  PROVE  Legal(promises, r, SubscribeMsg(n, s))
BY DEF SubscribeMsg, Legal

LEMMA AfterUnsubscribe ==
  ASSUME NEW r \in View, NEW n, NEW t, t = After(r, UnsubscribeMsg(n))
  PROVE  /\ t.shown = r.shown /\ t.on = {s \in r.on : r.number[s] # n} /\ t.described = r.described
         /\ t.number = r.number /\ t.replaced = r.replaced
BY DEF UnsubscribeMsg, After

LEMMA LegalUnsubscribe ==
  ASSUME NEW promises, NEW r, NEW n, n \in r.replaced => \E s \in r.on : r.number[s] = n
  PROVE  Legal(promises, r, UnsubscribeMsg(n))
BY DEF UnsubscribeMsg, Legal

LEMMA AfterSignal ==
  ASSUME NEW r \in View, NEW n, NEW s, NEW t, t = After(r, SignalMsg(n, s))
  PROVE  /\ t.shown = r.shown /\ t.on = r.on /\ t.described = r.described \cup {s}
         /\ t.number = r.number /\ t.replaced = r.replaced
BY DEF SignalMsg, After

LEMMA LegalSignal ==
  ASSUME NEW promises, NEW r \in View, NEW n, NEW s \in Signals, s \in r.on, r.number[s] = n,
         "domain" \in promises /\ HasDomain(s) => TableOf[s] \in r.described
  PROVE  Legal(promises, r, SignalMsg(n, s))
BY DEF SignalMsg, Legal

LEMMA LegalData ==
  ASSUME NEW promises, NEW r \in View, NEW n,
         "data" \in promises => \E s \in r.on : r.number[s] = n
  PROVE  Legal(promises, r, DataMsg(n))
BY DEF DataMsg, Legal

\* subscribe() and its metadata, sent one after the other.
CanSubscribe(promises, r, n, s) ==
  /\ n \in Nat \ {0} /\ s \in Signals
  /\ \A u \in Signals : r.number[u] = n => u = s
  /\ "domain" \in promises /\ HasDomain(s) => TableOf[s] \in r.described

Subscribing(r, n, s) == After(After(r, SubscribeMsg(n, s)), SignalMsg(n, s))

LEMMA AfterSubscribing ==
  ASSUME NEW r \in View, NEW n \in Nat, NEW s \in Signals, NEW t, t = Subscribing(r, n, s)
  PROVE  /\ t.shown = r.shown /\ t.on = r.on \cup {s} /\ t.described = r.described \cup {s}
         /\ t.number = [r.number EXCEPT ![s] = n] /\ t.replaced = ReplacedBy(r, n, s)
<1> DEFINE u == After(r, SubscribeMsg(n, s))
<1>1. u.shown = r.shown /\ u.on = r.on \cup {s} /\ u.described = r.described
      /\ u.number = [r.number EXCEPT ![s] = n] /\ u.replaced = ReplacedBy(r, n, s)
  BY DEF SubscribeMsg, After
<1>2. u \in View
  BY MessagesTyped, AfterTyped
<1> HIDE DEF u
<1>3. /\ t.shown = u.shown /\ t.on = u.on /\ t.described = u.described \cup {s}
      /\ t.number = u.number /\ t.replaced = u.replaced
  BY <1>2, AfterSignal DEF Subscribing, u
<1> QED BY <1>1, <1>3

LEMMA SubscribeSent ==
  ASSUME NEW promises, NEW q \in Seq(Message), NEW r \in View, Reaches(promises, q, r),
         NEW n, NEW s, CanSubscribe(promises, r, n, s)
  PROVE  /\ q \o <<SubscribeMsg(n, s), SignalMsg(n, s)>> \in Seq(Message)
         /\ Reaches(promises, q \o <<SubscribeMsg(n, s), SignalMsg(n, s)>>, Subscribing(r, n, s))
         /\ Subscribing(r, n, s) \in View
<1> DEFINE a == SubscribeMsg(n, s)
           b == SignalMsg(n, s)
           u == After(r, a)
           t == After(u, b)
<1>9. n \in Nat \ {0} /\ n \in Nat /\ s \in Signals
  BY DEF CanSubscribe
<1>0. a \in Message /\ b \in Message
  BY <1>9, MessagesTyped
<1>1. Legal(promises, r, a)
  BY <1>9, LegalSubscribe DEF CanSubscribe
<1>2. /\ u.shown = r.shown /\ u.on = r.on \cup {s} /\ u.described = r.described
      /\ u.number = [r.number EXCEPT ![s] = n]
  BY DEF SubscribeMsg, After
<1>3. Reaches(promises, Append(q, a), u) /\ Append(q, a) \in Seq(Message) /\ u \in View
  BY <1>0, <1>1, ReachesAppend
<1> HIDE DEF a, u
<1>4. s \in u.on /\ u.number[s] = n
  <2>1. r.number \in [Signals -> Nat]
    BY DEF View
  <2> QED BY <1>9, <1>2, <2>1
<1>5. Legal(promises, u, b)
  <2>1. "domain" \in promises /\ HasDomain(s) => TableOf[s] \in u.described
    BY <1>2 DEF CanSubscribe
  <2> QED BY <1>9, <1>3, <1>4, <2>1, LegalSignal
<1> HIDE DEF b
<1>6. Reaches(promises, Append(Append(q, a), b), t) /\ t \in View
  BY <1>0, <1>3, <1>5, ReachesAppend
<1> HIDE DEF t
<1>7. q \o <<a, b>> = Append(Append(q, a), b) /\ Append(Append(q, a), b) \in Seq(Message)
  BY <1>0, ConcatTwo
<1>8. t = Subscribing(r, n, s)
  BY DEF Subscribing, t, u, a, b
<1> QED BY <1>6, <1>7, <1>8 DEF a, b
-----------------------------------------------------------------------------
(* A source that withdraws nothing: the sink only gains signals. *)

\* A described signal is bound to the live entry of its domain signal, if that
\* is the one with the table, and to nothing if no signal has it.
BoundAt(s) ==
  /\ TablesNamed(s) = {TableOf[s]} => IsKnown(TableOf[s]) /\ known[s].domain = known[TableOf[s]].object
  /\ TablesNamed(s) = {} => known[s].domain = 0

DomainSound == \A s \in Signals : IsKnown(s) /\ known[s].described /\ HasDomain(s) => BoundAt(s)

\* What is known stays known, with its identity and its uses.
Kept ==
  \A s \in Signals :
    /\ IsKnown(s) => IsKnown(s)' /\ known'[s].object = known[s].object /\ known'[s].uses = known[s].uses
    /\ ~IsKnown(s) /\ IsKnown(s)' => known'[s].uses = 0

\* No signal is described, or bound to another domain signal, but those in S.
DescribedWithin(S) ==
  \A s \in Signals \ S : IsKnown(s)' /\ known'[s].described =>
    IsKnown(s) /\ known[s].described /\ known'[s].domain = known[s].domain

\* Only what the message m advertises is announced.
Announces(m) ==
  \A s \in Signals :
    announced'[s] = announced[s] \/ (announced'[s] > 0 /\ m.kind = "available" /\ s \in m.ids)

LEMMA DomainStays ==
  ASSUME DomainSound, Kept, DescribedWithin({})
  PROVE  DomainSound'
<1> SUFFICES ASSUME NEW s \in Signals, IsKnown(s)', known'[s].described, HasDomain(s)
             PROVE  BoundAt(s)'
  BY DEF DomainSound
<1>1. IsKnown(s) /\ known[s].described /\ known'[s].domain = known[s].domain
  BY DEF DescribedWithin
<1>2. TableOf[s] \in Signals
  BY TableAssumption DEF HasDomain
<1> QED BY <1>1, <1>2 DEF DomainSound, BoundAt, Kept

LEMMA SubscribeGains ==
  ASSUME EntriesTyped, NEW m \in Message, m = Head(toSink), HandleSubscribe
  PROVE  Kept /\ DescribedWithin({}) /\ Announces(m)
<1>0. m.kind = "subscribe" /\ m.id \in Signals /\ m.signo \in Nat
  BY DEF HandleSubscribe, Receive, Message
<1>1. PICK k \in Signals : k = m.id
  BY <1>0
<1>2. PICK e : e = IF IsKnown(k) THEN known[k] ELSE NewEntry(TRUE)
  OBVIOUS
<1>3. known' = [known EXCEPT ![k] = [e EXCEPT !.signo = m.signo, !.subscribed = TRUE]] /\ announced' = announced
  BY <1>1, <1>2 DEF HandleSubscribe
<1>4. e \in KnownEntry
  <2>1. CASE IsKnown(k)
    BY <1>2, <2>1, EntryFacts
  <2>2. CASE ~IsKnown(k)
    <3>1. nextObject \in Nat \ {0} /\ 0 \in 0 .. MaxUses
      BY RemoteAssumption DEF EntriesTyped
    <3> QED BY <1>2, <2>2, <3>1 DEF NewEntry, KnownEntry
  <2> QED BY <2>1, <2>2
<1>5. known \in [Signals -> KnownEntry \cup {Unknown}]
  BY DEF EntriesTyped
<1>6. /\ known'[k].object = e.object /\ known'[k].uses = e.uses /\ known'[k].described = e.described
      /\ known'[k].domain = e.domain /\ e.object # 0
  BY <1>3, <1>4, <1>5 DEF KnownEntry
<1>7. IsKnown(k)'
  BY <1>6 DEF IsKnown, Unknown
<1>8. \A s \in Signals : s # k => known'[s] = known[s] /\ (IsKnown(s)' <=> IsKnown(s))
  BY <1>3, <1>5 DEF IsKnown
<1>9. ~IsKnown(k) => e.uses = 0 /\ ~e.described
  BY <1>2 DEF NewEntry
<1>10. Kept
  BY <1>2, <1>6, <1>7, <1>8, <1>9 DEF Kept
<1>11. DescribedWithin({})
  BY <1>2, <1>6, <1>7, <1>8, <1>9 DEF DescribedWithin
<1> QED BY <1>3, <1>10, <1>11 DEF Announces

LEMMA UnsubscribeGains ==
  ASSUME EntriesTyped, NEW m, HandleUnsubscribe
  PROVE  Kept /\ DescribedWithin({}) /\ Announces(m)
<1>1. PICK S : S = Target(Head(toSink).signo)
  OBVIOUS
<1>2. /\ known' = [s \in Signals |-> IF s \in S THEN [known[s] EXCEPT !.subscribed = FALSE] ELSE known[s]]
      /\ announced' = announced
  BY <1>1 DEF HandleUnsubscribe
<1>3. \A s \in S : s \in Signals /\ IsKnown(s)
  BY <1>1 DEF Target
<1>4. ASSUME NEW s \in S
      PROVE  /\ IsKnown(s)' /\ known'[s].object = known[s].object /\ known'[s].uses = known[s].uses
             /\ known'[s].described = known[s].described /\ known'[s].domain = known[s].domain
  <2>1. known[s] \in KnownEntry /\ known'[s] = [known[s] EXCEPT !.subscribed = FALSE]
    BY <1>2, <1>3, EntryFacts
  <2>2. /\ known'[s].object = known[s].object /\ known'[s].uses = known[s].uses
        /\ known'[s].described = known[s].described /\ known'[s].domain = known[s].domain
        /\ known'[s].object # 0
    BY <2>1 DEF KnownEntry
  <2> QED BY <2>2 DEF IsKnown, Unknown
<1>5. \A s \in Signals : s \notin S => known'[s] = known[s] /\ (IsKnown(s)' <=> IsKnown(s))
  BY <1>2 DEF IsKnown
<1>6. Kept
  BY <1>3, <1>4, <1>5 DEF Kept
<1>7. DescribedWithin({})
  BY <1>3, <1>4, <1>5 DEF DescribedWithin
<1> QED BY <1>2, <1>6, <1>7 DEF Announces

LEMMA AvailableGains ==
  ASSUME EntriesTyped, NEW m \in Message, m = Head(toSink), HandleAvailable
  PROVE  Kept /\ DescribedWithin({}) /\ Announces(m)
<1> DEFINE ids == Head(toSink).ids
           new == {s \in ids : ~IsKnown(s)}
           shown == new \cup {s \in ids : IsKnown(s) /\ known[s].hidden}
           k == Cardinality(new)
<1>0. m.kind = "available" /\ ids \subseteq Signals
  BY DEF HandleAvailable, Receive, Message
<1>1. ids = m.ids
  OBVIOUS
<1>2. new = {s \in ids : ~IsKnown(s)}
  OBVIOUS
<1>3. shown = new \cup {s \in ids : IsKnown(s) /\ known[s].hidden}
  OBVIOUS
<1>4. PICK order \in {f \in [new -> 0..(k - 1)] : \A x, y \in new : x # y => f[x] # f[y]} :
        known' = [s \in Signals |->
             CASE s \in new       -> [NewEntry(FALSE) EXCEPT !.object = @ + order[s]]
               [] s \in shown \ new -> [known[s] EXCEPT !.hidden = FALSE]
               [] s \notin shown     -> known[s]]
  BY DEF HandleAvailable
<1>5. announced' = [s \in Signals |-> IF s \in shown THEN announced[s] + 1 ELSE announced[s]]
  BY DEF HandleAvailable
<1> HIDE DEF k, shown, new, ids
<1>6. \A s \in new : s \in Signals /\ ~IsKnown(s) /\ known'[s].uses = 0 /\ ~known'[s].described
  <2> SUFFICES ASSUME NEW s \in new
               PROVE  s \in Signals /\ ~IsKnown(s) /\ known'[s].uses = 0 /\ ~known'[s].described
    OBVIOUS
  <2>1. s \in Signals /\ ~IsKnown(s)
    BY <1>0, <1>2
  <2>2. known'[s] = [NewEntry(FALSE) EXCEPT !.object = @ + order[s]]
    BY <1>3, <1>4, <2>1
  <2> QED BY <2>1, <2>2 DEF NewEntry
<1>7. ASSUME NEW s \in shown \ new
      PROVE  /\ s \in Signals /\ IsKnown(s) /\ IsKnown(s)' /\ known'[s].object = known[s].object
             /\ known'[s].uses = known[s].uses
             /\ known'[s].described = known[s].described /\ known'[s].domain = known[s].domain
  <2>1. s \in Signals /\ IsKnown(s) /\ known[s] \in KnownEntry
    BY <1>0, <1>3, EntryFacts
  <2>2. known'[s] = [known[s] EXCEPT !.hidden = FALSE]
    BY <1>4, <2>1
  <2>3. /\ known'[s].object = known[s].object /\ known'[s].uses = known[s].uses
        /\ known'[s].described = known[s].described /\ known'[s].domain = known[s].domain
        /\ known'[s].object # 0
    BY <2>1, <2>2 DEF KnownEntry
  <2> QED BY <2>1, <2>3 DEF IsKnown, Unknown
<1>8. \A s \in Signals : s \notin shown => known'[s] = known[s] /\ (IsKnown(s)' <=> IsKnown(s))
  <2>1. \A s \in Signals : s \notin shown => known'[s] = known[s]
    BY <1>3, <1>4
  <2> QED BY <2>1 DEF IsKnown
<1>9. Kept
  BY <1>3, <1>6, <1>7, <1>8 DEF Kept
<1>10. DescribedWithin({})
  BY <1>3, <1>6, <1>7, <1>8 DEF DescribedWithin
<1>11. Announces(m)
  <2>1. shown \subseteq m.ids /\ announced \in [Signals -> Nat]
    BY <1>1, <1>2, <1>3 DEF EntriesTyped
  <2> QED BY <1>0, <1>5, <2>1 DEF Announces
<1> QED BY <1>9, <1>10, <1>11

LEMMA SignalGains ==
  ASSUME NEW p \in View, SinkSound(p), NEW m \in Message, m = Head(toSink), HandleSignal,
         NEW promises, Legal(promises, p, m), "domain" \in promises
  PROVE  Kept /\ Announces(m) /\ (DomainSound => DomainSound')
<1>0. m.kind = "signal" /\ m.id \in Signals /\ m.signo \in Nat
  BY DEF HandleSignal, Receive, Message
<1>1. PICK k \in Signals : k = m.id
  BY <1>0
<1>2. k \in p.on /\ p.number[k] = m.signo /\ (HasDomain(k) => TableOf[k] \in p.described)
  BY <1>0, <1>1 DEF Legal
<1>3. EntriesTyped /\ Matches(p) /\ p.on \subseteq Signals
  BY DEF SinkSound, View
<1>4. IsKnown(k) /\ known[k] \in KnownEntry /\ m.signo # 0
  BY <1>2, <1>3, EntryFacts DEF Matches, MatchesAt
<1>5. Target(m.signo) = {k}
  <2>1. Target(m.signo) = {s \in p.on : p.number[s] = m.signo}
    BY <1>2, TargetIs
  <2>2. \A s \in p.on : p.number[s] = m.signo => s = k
    BY <1>2, <1>3, <1>4 DEF Matches
  <2> QED BY <1>2, <2>1, <2>2
<1>6. PICK d \in FindTable(k) :
        known' = [s \in Signals |->
          IF s \in Target(m.signo)
            THEN [known[s] EXCEPT !.described = TRUE, !.domain = d] ELSE known[s]]
  BY <1>1, Zenon DEF HandleSignal
<1>7. /\ known' = [s \in Signals |-> IF s \in {k} THEN [known[s] EXCEPT !.described = TRUE, !.domain = d] ELSE known[s]]
      /\ announced' = announced
  BY <1>5, <1>6 DEF HandleSignal
<1>8. /\ known'[k].object = known[k].object /\ known'[k].uses = known[k].uses /\ known'[k].domain = d
      /\ known'[k].object # 0
  <2>1. known'[k] = [known[k] EXCEPT !.described = TRUE, !.domain = d]
    BY <1>7
  <2> QED BY <1>4, <2>1 DEF KnownEntry
<1>9. IsKnown(k)'
  BY <1>8 DEF IsKnown, Unknown
<1>10. \A s \in Signals : s # k => known'[s] = known[s] /\ (IsKnown(s)' <=> IsKnown(s))
  BY <1>7 DEF IsKnown
<1>11. Kept
  BY <1>4, <1>8, <1>9, <1>10 DEF Kept
<1>12. ASSUME DomainSound PROVE DomainSound'
  <2> SUFFICES ASSUME NEW s \in Signals, IsKnown(s)', known'[s].described, HasDomain(s)
               PROVE  BoundAt(s)'
    BY DEF DomainSound
  <2>1. TableOf[s] \in Signals
    BY TableAssumption DEF HasDomain
  <2>2. CASE s = k
    <3>1. IsKnown(TableOf[s]) /\ known[TableOf[s]].described
      BY <1>2, <1>3, <2>1, <2>2 DEF Matches, MatchesAt
    <3>2. TablesNamed(s) = {TableOf[s]} => d = known[TableOf[s]].object
      <4> SUFFICES ASSUME TablesNamed(s) = {TableOf[s]} PROVE d = known[TableOf[s]].object
        OBVIOUS
      <4>1. {u \in TablesNamed(s) : u = s \/ (IsKnown(u) /\ known[u].described)} = {TableOf[s]} /\ TableOf[s] # s
        BY <3>1 DEF HasDomain
      <4>2. FindTable(s) = {known[TableOf[s]].object}
        BY <4>1 DEF FindTable
      <4> QED BY <1>6, <2>2, <4>2
    <3>3. TablesNamed(s) = {} => d = 0
      BY <1>6, <2>2 DEF FindTable
    <3> QED BY <1>8, <1>11, <2>1, <2>2, <3>1, <3>2, <3>3 DEF Kept, BoundAt
  <2>3. CASE s # k
    BY <1>10, <1>11, <1>12, <2>1, <2>3 DEF Kept, DomainSound, BoundAt
  <2> QED BY <2>2, <2>3
<1> QED BY <1>7, <1>11, <1>12 DEF Announces

\* Whichever message it is.
LEMMA SinkGains ==
  ASSUME NEW promises, "domain" \in promises, NEW r, toSink \in Seq(Message), Reaches(promises, toSink, r),
         SinkHandles
  PROVE  /\ Kept /\ Announces(Head(toSink)) /\ (DomainSound => DomainSound')
         /\ (Head(toSink).kind = "init" => hasClient') /\ (Head(toSink).kind # "init" => hasClient' = hasClient)
<1>1. PICK p \in View : SinkSound(p) /\ Leads(promises, toSink, p, r)
  BY DEF Reaches
<1>2. toSink # <<>>
  BY ReceiveShortens
<1>3. PICK m \in Message : m = Head(toSink)
  BY <1>1, <1>2, LeadsTail
<1>4. Legal(promises, p, m)
  BY <1>1, <1>2, <1>3, LeadsTail
<1>5. EntriesTyped
  BY <1>1 DEF SinkSound
<1>6. ~HandleUnavailable
  BY <1>3, <1>4 DEF HandleUnavailable, Receive, Legal
<1>7. Kept /\ Announces(m) /\ (DomainSound => DomainSound')
  <2>1. CASE HandleInit \/ HandleData \/ HandleResponse
    <3>1. known' = known /\ announced' = announced
      BY <2>1 DEF HandleInit, HandleData, HandleResponse, remoteVars
    <3> QED BY <3>1 DEF Kept, Announces, DomainSound, BoundAt, IsKnown
  <2>2. CASE HandleAvailable
    BY <1>3, <1>5, <2>2, AvailableGains, DomainStays
  <2>3. CASE HandleSubscribe
    BY <1>3, <1>5, <2>3, SubscribeGains, DomainStays
  <2>4. CASE HandleUnsubscribe
    BY <1>5, <2>4, UnsubscribeGains, DomainStays
  <2>5. CASE HandleSignal
    BY <1>1, <1>3, <1>4, <2>5, SignalGains
  <2> QED BY <1>6, <2>1, <2>2, <2>3, <2>4, <2>5 DEF SinkHandles
<1>8. (Head(toSink).kind = "init" => hasClient') /\ (Head(toSink).kind # "init" => hasClient' = hasClient)
  BY DEF SinkHandles, HandleInit, HandleAvailable, HandleUnavailable, HandleSubscribe,
         HandleUnsubscribe, HandleSignal, HandleData, HandleResponse, Receive, remoteVars
<1> QED BY <1>3, <1>7, <1>8

-----------------------------------------------------------------------------
(* A foreign source. *)

\* The view a sink will have once it has caught up.
ForeignAgrees(r) ==
  r.shown = advertised /\ r.on = streaming /\ r.number = number /\ r.replaced = replaced

Numbered ==
  /\ advertised \subseteq Signals /\ streaming \subseteq Signals
  /\ number \in [Signals -> Nat] /\ replaced \subseteq Nat
  /\ \A s \in streaming : number[s] # 0
  /\ \A s, u \in Signals : number[s] = number[u] /\ number[s] # 0 => s = u

SinkKept == toSink \in Seq(Message) /\ EntriesTyped /\ AnnouncedExactly

\* Of the two further promises it makes only the one about data.
Promised == {"data"}

\* The inductive invariant.
ForeignIInv ==
  /\ SinkKept /\ Numbered
  /\ sinkOpen => \E r \in View : Reaches(Promised, toSink, r) /\ ForeignAgrees(r)
  /\ ~sinkOpen => Cleared

\* A step of the source keeps the invariant if it sends what leads to its view.
LEMMA ForeignSends ==
  ASSUME ForeignIInv, UNCHANGED remoteVars, Numbered', toSink' \in Seq(Message),
         ASSUME NEW r \in View, Reaches(Promised, toSink, r), ForeignAgrees(r)
         PROVE  \E t \in View : Reaches(Promised, toSink', t) /\ ForeignAgrees(t)'
  PROVE  ForeignIInv'
<1>1. UNCHANGED <<known, bySigno, nextObject, announced>> /\ sinkOpen' = sinkOpen
  BY DEF remoteVars
<1>2. SinkKept' /\ (Cleared => Cleared')
  BY <1>1 DEF ForeignIInv, SinkKept, EntriesTyped, AnnouncedExactly, IsKnown, Cleared
<1>3. ASSUME sinkOpen
      PROVE  (\E r \in View : Reaches(Promised, toSink, r) /\ ForeignAgrees(r))'
  <2>1. PICK t \in View : Reaches(Promised, toSink', t) /\ ForeignAgrees(t)'
    BY <1>3 DEF ForeignIInv
  <2>2. Reaches(Promised, toSink, t)'
    BY <1>1, <2>1, SinkUnmoved
  <2> QED BY <2>1, <2>2
<1> QED BY <1>1, <1>2, <1>3 DEF ForeignIInv

LEMMA AdvertiseIInv ==
  ASSUME ForeignIInv, NEW ids \in SUBSET Signals, Advertise(ids), UNCHANGED remoteVars
  PROVE  ForeignIInv'
<1> DEFINE m == AvailableMsg(ids)
<1>0. toSink \in Seq(Message) /\ Numbered
  BY DEF ForeignIInv, SinkKept
<1>1. /\ ids \cap advertised = {} /\ advertised' = advertised \cup ids
      /\ toSink' = Append(toSink, m) /\ UNCHANGED <<streaming, number, replaced>>
  BY DEF Advertise
<1>2. Numbered'
  BY <1>0, <1>1 DEF Numbered
<1>3. m \in Message
  BY DEF AvailableMsg, Message
<1>4. ASSUME NEW r \in View, Reaches(Promised, toSink, r), ForeignAgrees(r)
      PROVE  \E t \in View : Reaches(Promised, toSink', t) /\ ForeignAgrees(t)'
  <2>1. ids \cap r.shown = {}
    BY <1>1, <1>4 DEF ForeignAgrees
  <2>2. /\ Legal(Promised, r, m)
        /\ After(r, m).shown = r.shown \cup ids /\ After(r, m).on = r.on /\ After(r, m).number = r.number
        /\ After(r, m).replaced = r.replaced
    BY <2>1, LegalAvailable, AfterAvailable
  <2> HIDE DEF m
  <2>3. Reaches(Promised, toSink', After(r, m)) /\ After(r, m) \in View
    BY <1>0, <1>1, <1>3, <1>4, <2>2, ReachesAppend
  <2>4. ForeignAgrees(After(r, m))'
    BY <1>1, <1>4, <2>2 DEF ForeignAgrees
  <2> QED BY <2>3, <2>4
<1>5. toSink' \in Seq(Message)
  BY <1>0, <1>1, <1>3, AppendProperties
<1> QED BY <1>2, <1>4, <1>5, ForeignSends

LEMMA WithdrawIInv ==
  ASSUME ForeignIInv, NEW s \in Signals, Withdraw(s), UNCHANGED remoteVars
  PROVE  ForeignIInv'
<1> DEFINE m == UnavailableMsg(s)
<1>0. toSink \in Seq(Message) /\ Numbered
  BY DEF ForeignIInv, SinkKept
<1>1. /\ advertised' = advertised \ {s} /\ streaming' = streaming \ {s}
      /\ number' = [number EXCEPT ![s] = 0] /\ replaced' = replaced
      /\ toSink' = Append(toSink, m)
  BY DEF Withdraw
<1>2. /\ number' \in [Signals -> Nat] /\ number'[s] = 0
      /\ \A u \in Signals : u # s => number'[u] = number[u]
  BY <1>0, <1>1 DEF Numbered
<1>3. Numbered'
  BY <1>0, <1>1, <1>2 DEF Numbered
<1>4. m \in Message
  BY DEF UnavailableMsg, Message
<1>5. ASSUME NEW r \in View, Reaches(Promised, toSink, r), ForeignAgrees(r)
      PROVE  \E t \in View : Reaches(Promised, toSink', t) /\ ForeignAgrees(t)'
  <2> DEFINE t == After(r, m)
  <2>1. Legal(Promised, r, m)
    BY LegalUnavailable DEF Promised
  <2>2. /\ t.shown = r.shown \ {s} /\ t.on = r.on \ {s} /\ t.number = [r.number EXCEPT ![s] = 0]
        /\ t.replaced = r.replaced
    BY DEF UnavailableMsg, After
  <2> HIDE DEF m
  <2>3. Reaches(Promised, toSink', t) /\ t \in View
    BY <1>0, <1>1, <1>4, <1>5, <2>1, ReachesAppend
  <2> HIDE DEF t
  <2>4. ForeignAgrees(t)'
    BY <1>1, <1>5, <2>2 DEF ForeignAgrees
  <2> QED BY <2>3, <2>4
<1>6. toSink' \in Seq(Message)
  BY <1>0, <1>1, <1>4, AppendProperties
<1> QED BY <1>3, <1>5, <1>6, ForeignSends

LEMMA StartStreamingIInv ==
  ASSUME ForeignIInv, NEW s \in Signals, NEW n \in 1 .. MaxNumber, StartStreaming(s, n), UNCHANGED remoteVars
  PROVE  ForeignIInv'
<1>0. toSink \in Seq(Message) /\ Numbered /\ n \in Nat \ {0}
  BY ForeignAssumption DEF ForeignIInv, SinkKept
<1>1. /\ \A u \in Signals \ {s} : number[u] # n
      /\ streaming' = streaming \cup {s} /\ number' = [number EXCEPT ![s] = n]
      /\ replaced' = replaced \cup ({number[u] : u \in streaming \cap {s}} \ {n})
      /\ toSink' = toSink \o <<SubscribeMsg(n, s), SignalMsg(n, s)>>
      /\ advertised' = advertised
  BY DEF StartStreaming
<1>2. /\ number' \in [Signals -> Nat] /\ number'[s] = n
      /\ \A u \in Signals : u # s => number'[u] = number[u]
  BY <1>0, <1>1 DEF Numbered
<1>3. Numbered'
  <2>1. replaced' \subseteq Nat
    BY <1>0, <1>1 DEF Numbered
  <2>2. \A u, w \in Signals : number'[u] = number'[w] /\ number'[u] # 0 => u = w
    BY <1>0, <1>1, <1>2 DEF Numbered
  <2> QED BY <1>0, <1>1, <1>2, <2>1, <2>2 DEF Numbered
<1>4. SubscribeMsg(n, s) \in Message /\ SignalMsg(n, s) \in Message
  BY <1>0 DEF SubscribeMsg, SignalMsg, Message
<1>5. toSink' \in Seq(Message)
  BY <1>0, <1>1, <1>4, ConcatTwo
<1>6. ASSUME NEW r \in View, Reaches(Promised, toSink, r), ForeignAgrees(r)
      PROVE  \E t \in View : Reaches(Promised, toSink', t) /\ ForeignAgrees(t)'
  <2>1. \A u \in Signals : r.number[u] = n => u = s
    BY <1>1, <1>6 DEF ForeignAgrees
  <2>7. PICK t : t = Subscribing(r, n, s)
    OBVIOUS
  <2>2. CanSubscribe(Promised, r, n, s)
    BY <1>0, <2>1 DEF CanSubscribe, Promised
  <2>3. Reaches(Promised, toSink', t) /\ t \in View
    BY <1>0, <1>1, <1>6, <2>2, <2>7, SubscribeSent
  <2>4. /\ t.shown = r.shown /\ t.on = r.on \cup {s} /\ t.number = [r.number EXCEPT ![s] = n]
        /\ t.replaced = ReplacedBy(r, n, s)
    <3>1. n \in Nat
      BY <1>0
    <3>2. PICK numbers, gone : numbers = [r.number EXCEPT ![s] = n] /\ gone = ReplacedBy(r, n, s)
      OBVIOUS
    <3>3. t.shown = r.shown /\ t.on = r.on \cup {s} /\ t.number = numbers /\ t.replaced = gone
      BY <2>7, <3>1, <3>2, AfterSubscribing
    <3> QED BY <3>2, <3>3
  <2>5. t.replaced = replaced'
    BY <1>1, <1>6, <2>4 DEF ForeignAgrees, ReplacedBy
  <2>6. ForeignAgrees(t)'
    BY <1>1, <1>6, <2>4, <2>5 DEF ForeignAgrees
  <2> QED BY <2>3, <2>6
<1> QED BY <1>3, <1>5, <1>6, ForeignSends

LEMMA StopStreamingIInv ==
  ASSUME ForeignIInv, NEW n \in 1 .. MaxNumber, StopStreaming(n), UNCHANGED remoteVars
  PROVE  ForeignIInv'
<1> DEFINE m == UnsubscribeMsg(n)
<1>0. toSink \in Seq(Message) /\ Numbered /\ n \in Nat
  BY ForeignAssumption DEF ForeignIInv, SinkKept
<1>1. /\ n \in replaced => \E s \in streaming : number[s] = n
      /\ streaming' = {s \in streaming : number[s] # n}
      /\ toSink' = Append(toSink, m) /\ UNCHANGED <<advertised, number, replaced>>
  BY DEF StopStreaming
<1>2. Numbered'
  BY <1>0, <1>1 DEF Numbered
<1>3. m \in Message
  BY <1>0 DEF UnsubscribeMsg, Message
<1>4. ASSUME NEW r \in View, Reaches(Promised, toSink, r), ForeignAgrees(r)
      PROVE  \E t \in View : Reaches(Promised, toSink', t) /\ ForeignAgrees(t)'
  <2> DEFINE t == After(r, m)
  <2>1. Legal(Promised, r, m)
    <3>1. n \in r.replaced => \E s \in r.on : r.number[s] = n
      BY <1>1, <1>4 DEF ForeignAgrees
    <3> QED BY <3>1, LegalUnsubscribe
  <2>2. /\ t.shown = r.shown /\ t.on = {u \in r.on : r.number[u] # n} /\ t.number = r.number
        /\ t.replaced = r.replaced
    BY AfterUnsubscribe
  <2> HIDE DEF m
  <2>3. Reaches(Promised, toSink', t) /\ t \in View
    BY <1>0, <1>1, <1>3, <1>4, <2>1, ReachesAppend
  <2> HIDE DEF t
  <2>4. ForeignAgrees(t)'
    BY <1>1, <1>4, <2>2 DEF ForeignAgrees
  <2> QED BY <2>3, <2>4
<1>5. toSink' \in Seq(Message)
  BY <1>0, <1>1, <1>3, AppendProperties
<1> QED BY <1>2, <1>4, <1>5, ForeignSends

LEMMA StreamIInv ==
  ASSUME ForeignIInv, NEW s \in Signals, Stream(s), UNCHANGED remoteVars
  PROVE  ForeignIInv'
<1> DEFINE m == DataMsg(number[s])
<1>0. toSink \in Seq(Message) /\ Numbered /\ number[s] \in Nat
  BY DEF ForeignIInv, SinkKept, Numbered
<1>1. s \in streaming /\ toSink' = Append(toSink, m) /\ UNCHANGED <<advertised, streaming, number, replaced>>
  BY DEF Stream, foreignVars
<1>2. Numbered'
  BY <1>0, <1>1 DEF Numbered
<1>3. m \in Message
  BY <1>0 DEF DataMsg, Message
<1>4. ASSUME NEW r \in View, Reaches(Promised, toSink, r), ForeignAgrees(r)
      PROVE  \E t \in View : Reaches(Promised, toSink', t) /\ ForeignAgrees(t)'
  <2>1. s \in r.on /\ r.number[s] = number[s]
    BY <1>1, <1>4 DEF ForeignAgrees
  <2>2. Legal(Promised, r, m) /\ After(r, m) = r
    BY <2>1, LegalData, AfterPlain
  <2> HIDE DEF m
  <2>3. Reaches(Promised, toSink', r)
    BY <1>0, <1>1, <1>3, <1>4, <2>2, ReachesAppend
  <2> QED BY <1>1, <1>4, <2>3 DEF ForeignAgrees
<1>5. toSink' \in Seq(Message)
  BY <1>0, <1>1, <1>3, AppendProperties
<1> QED BY <1>2, <1>4, <1>5, ForeignSends

LEMMA AnswerIInv ==
  ASSUME ForeignIInv, Answer
  PROVE  ForeignIInv'
<1>0. toSink \in Seq(Message) /\ Numbered
  BY DEF ForeignIInv, SinkKept
<1>1. /\ toSink' = Append(toSink, ResponseMsg) /\ UNCHANGED <<advertised, streaming, number, replaced>>
      /\ UNCHANGED remoteVars
  BY DEF Answer, foreignVars
<1>2. Numbered'
  BY <1>0, <1>1 DEF Numbered
<1>3. ResponseMsg \in Message /\ \A r : Legal(Promised, r, ResponseMsg) /\ After(r, ResponseMsg) = r
  BY MessagesTyped, LegalPlain, AfterPlain
<1>4. ASSUME NEW r \in View, Reaches(Promised, toSink, r), ForeignAgrees(r)
      PROVE  \E t \in View : Reaches(Promised, toSink', t) /\ ForeignAgrees(t)'
  <2>1. Reaches(Promised, toSink', r)
    BY <1>0, <1>1, <1>3, <1>4, ReachesAppend
  <2> QED BY <1>1, <1>4, <2>1 DEF ForeignAgrees
<1>5. toSink' \in Seq(Message)
  BY <1>0, <1>1, <1>3, AppendProperties
<1> QED BY <1>1, <1>2, <1>4, <1>5, ForeignSends

LEMMA ForeignStepIInv ==
  ASSUME ForeignIInv, Foreign
  PROVE  ForeignIInv'
<1>1. UNCHANGED remoteVars
  BY DEF Foreign
<1>2. CASE \E ids \in SUBSET Signals : Advertise(ids)
  BY <1>1, <1>2, AdvertiseIInv
<1>3. CASE \E s \in Signals : Withdraw(s) \/ Stream(s)
  BY <1>1, <1>3, WithdrawIInv, StreamIInv
<1>4. CASE \E s \in Signals, n \in 1 .. MaxNumber : StartStreaming(s, n)
  BY <1>1, <1>4, StartStreamingIInv
<1>5. CASE \E n \in 1 .. MaxNumber : StopStreaming(n)
  BY <1>1, <1>5, StopStreamingIInv
<1> QED BY <1>2, <1>3, <1>4, <1>5 DEF Foreign

\* The steps of the receiving end leave the source's view to come as it is.
LEMMA ReceiverAppIInv ==
  ASSUME ForeignIInv, ReceiverApp
  PROVE  ForeignIInv'
<1>1. PICK s \in Signals : AppSubscribe(s) \/ AppUnsubscribe(s)
  BY DEF ReceiverApp
<1>2. sinkOpen /\ sinkOpen' = sinkOpen /\ toSink' = toSink /\ UNCHANGED <<advertised, streaming, number, replaced>>
  BY <1>1 DEF ReceiverApp, AppSubscribe, AppUnsubscribe, foreignVars
<1>3. PICK r \in View : Reaches(Promised, toSink, r) /\ ForeignAgrees(r)
  BY <1>2 DEF ForeignIInv
<1>4. Reaches(Promised, toSink, r)'
  BY <1>1, <1>3, AppCallSound
<1>5. ForeignAgrees(r)' /\ Numbered' /\ toSink' \in Seq(Message)
  BY <1>2, <1>3 DEF ForeignIInv, SinkKept, Numbered, ForeignAgrees
<1>6. EntriesTyped' /\ AnnouncedExactly'
  BY <1>4 DEF Reaches, SinkSound
<1> QED BY <1>2, <1>4, <1>5, <1>6 DEF ForeignIInv, SinkKept

LEMMA ReceiverIInv ==
  ASSUME ForeignIInv, Receiver
  PROVE  ForeignIInv'
<1>1. UNCHANGED <<advertised, streaming, number, replaced>> /\ Numbered' /\ SinkKept
  BY DEF Receiver, foreignVars, ForeignIInv, Numbered
<1>2. CASE SinkHandles
  <2>1. sinkOpen /\ sinkOpen' = sinkOpen
    BY <1>2, ReceiveShortens
  <2>2. PICK r \in View : Reaches(Promised, toSink, r) /\ ForeignAgrees(r)
    BY <2>1 DEF ForeignIInv
  <2>3. Reaches(Promised, toSink, r)' /\ toSink' \in Seq(Message)
    BY <1>1, <1>2, <2>2, SinkHandlesSound DEF SinkKept
  <2>4. ForeignAgrees(r)'
    BY <1>1, <2>2 DEF ForeignAgrees
  <2>5. EntriesTyped' /\ AnnouncedExactly'
    BY <2>3 DEF Reaches, SinkSound
  <2> QED BY <1>1, <2>1, <2>3, <2>4, <2>5 DEF ForeignIInv, SinkKept
<1>3. CASE SinkClosed
  <2>1. EntriesTyped' /\ AnnouncedExactly' /\ Cleared'
    BY <1>1, <1>3, SinkClosedSound DEF SinkKept
  <2>2. ~sinkOpen' /\ toSink' = toSink
    BY <1>3 DEF SinkClosed
  <2> QED BY <1>1, <2>1, <2>2 DEF ForeignIInv, SinkKept
<1> QED BY <1>2, <1>3 DEF Receiver, SinkHandles

LEMMA ForeignInitIInv == ForeignInit => ForeignIInv
<1> SUFFICES ASSUME ForeignInit PROVE ForeignIInv
  OBVIOUS
<1>1. /\ RemoteInit /\ toSink = <<InitMsg>> /\ sinkOpen
      /\ advertised = {} /\ streaming = {} /\ number = [s \in Signals |-> 0] /\ replaced = {}
  BY DEF ForeignInit, RemoteInit
<1>2. PICK p \in View : /\ SinkSound(p) /\ p.shown = {} /\ p.on = {}
                       /\ p.number = [s \in Signals |-> 0] /\ p.replaced = {}
  BY <1>1, SinkInitSound
<1>3. Reaches(Promised, <<>>, p) /\ <<>> \in Seq(Message)
  BY <1>2, LeadsEmpty DEF Reaches
<1>4. /\ InitMsg \in Message /\ Legal(Promised, p, InitMsg) /\ After(p, InitMsg) = p
      /\ Append(<<>>, InitMsg) = toSink
  BY <1>1, MessagesTyped, LegalPlain, AfterPlain
<1>5. Reaches(Promised, toSink, p) /\ toSink \in Seq(Message)
  BY <1>3, <1>4, ReachesAppend
<1>6. Numbered
  BY <1>1 DEF Numbered
<1>7. ForeignAgrees(p)
  BY <1>1, <1>2 DEF ForeignAgrees
<1>8. EntriesTyped /\ AnnouncedExactly
  BY <1>2 DEF SinkSound
<1> QED BY <1>1, <1>5, <1>6, <1>7, <1>8 DEF ForeignIInv, SinkKept

LEMMA ForeignNextIInv ==
  ASSUME ForeignIInv, [ForeignNext]_linkVars
  PROVE  ForeignIInv'
<1>1. CASE UNCHANGED linkVars
  <2>1. UNCHANGED remoteVars /\ toSink' = toSink /\ UNCHANGED <<advertised, streaming, number, replaced>>
    BY <1>1 DEF linkVars, foreignVars
  <2>2. Numbered' /\ toSink' \in Seq(Message)
    BY <2>1 DEF ForeignIInv, SinkKept, Numbered
  <2>3. ASSUME NEW r \in View, Reaches(Promised, toSink, r), ForeignAgrees(r)
        PROVE  \E t \in View : Reaches(Promised, toSink', t) /\ ForeignAgrees(t)'
    BY <2>1, <2>3 DEF ForeignAgrees
  <2> QED BY <2>1, <2>2, <2>3, ForeignSends
<1> QED BY <1>1, ForeignStepIInv, AnswerIInv, ReceiverAppIInv, ReceiverIInv DEF ForeignNext

LEMMA ForeignInvariant == ForeignSpec => []ForeignIInv
<1>1. ForeignIInv /\ [ForeignNext]_linkVars => ForeignIInv'
  BY ForeignNextIInv
<1> QED BY <1>1, ForeignInitIInv, PTL DEF ForeignSpec

\* Whatever a source advertises, withdraws, streams, moves to another number and
\* ends, once or again: the only pointers of _signals_by_signo that outlive their
\* signal are those of replaced numbers, every subscribed signal is the one its
\* number leads to, and the number of every message leads to a subscribed signal.
THEOREM NumbersResolveTheorem == ForeignSpec => []NumbersResolve
<1>1. ForeignIInv => NumbersResolve
  <2> SUFFICES ASSUME ForeignIInv
               PROVE  DanglingOnlyReplaced /\ FoundUnderOwnNumber /\ MessagesAttributable
    BY DEF NumbersResolve
  <2>1. CASE sinkOpen
    <3>1. PICK r \in View : Reaches(Promised, toSink, r) /\ r.replaced = replaced
      BY <2>1 DEF ForeignIInv, ForeignAgrees
    <3>2. toSink \in Seq(Message) /\ "data" \in Promised
      BY DEF ForeignIInv, SinkKept, Promised
    <3>3. MessagesAttributable
      BY <3>1, <3>2, SoundAttributes
    <3>4. DanglingOnlyReplaced /\ FoundUnderOwnNumber
      BY <3>1, <3>2, SoundResolves DEF DanglingOnlyReplaced, FoundUnderOwnNumber
    <3> QED BY <3>3, <3>4
  <2>2. CASE ~sinkOpen
    BY <2>2 DEF ForeignIInv, Cleared, DanglingOnlyReplaced, FoundUnderOwnNumber, MessagesAttributable
  <2> QED BY <2>1, <2>2
<1> QED BY <1>1, ForeignInvariant, PTL

\* The application is told of every signal once and of its withdrawal once, also
\* when the source streamed the signal before it advertised it, and what it sees
\* is what is advertised once nothing is in flight.
THEOREM ShownAsAdvertisedTheorem == ForeignSpec => []ShownAsAdvertised
<1>1. ForeignIInv => ShownAsAdvertised
  <2> SUFFICES ASSUME ForeignIInv PROVE AnnouncedExactly /\ AdvertisedShown
    BY DEF ShownAsAdvertised
  <2>1. AnnouncedExactly
    BY DEF ForeignIInv, SinkKept
  <2>2. ASSUME sinkOpen, toSink = <<>>
        PROVE  {s \in Signals : announced[s] > 0} = advertised
    <3>1. PICK r \in View : Reaches(Promised, <<>>, r) /\ ForeignAgrees(r)
      BY <2>2 DEF ForeignIInv
    <3>2. Matches(r)
      BY <3>1, LeadsNowhere DEF Reaches, SinkSound
    <3>3. \A s \in Signals : announced[s] > 0 <=> s \in r.shown
      BY <2>1, <3>2 DEF AnnouncedExactly, Matches, MatchesAt
    <3> QED BY <3>1, <3>3 DEF ForeignAgrees, View
  <2> QED BY <2>1, <2>2 DEF AdvertisedShown
<1> QED BY <1>1, ForeignInvariant, PTL

\* Once nothing is in flight, exactly the streamed signals are subscribed.
THEOREM StreamedSubscribedTheorem == ForeignSpec => []StreamedSubscribed
<1>1. ForeignIInv => StreamedSubscribed
  <2> SUFFICES ASSUME ForeignIInv, sinkOpen, toSink = <<>>
               PROVE  streaming = {s \in Signals : IsKnown(s) /\ known[s].subscribed}
    BY DEF StreamedSubscribed
  <2>1. PICK r \in View : Reaches(Promised, <<>>, r) /\ ForeignAgrees(r)
    BY DEF ForeignIInv
  <2>2. Matches(r)
    BY <2>1, LeadsNowhere DEF Reaches, SinkSound
  <2> QED BY <2>1, <2>2 DEF ForeignAgrees, Matches, MatchesAt, View
<1> QED BY <1>1, ForeignInvariant, PTL
-----------------------------------------------------------------------------
(* A source of this library. *)

\* Registrations have their types and numbers of their own, below n.
Registrations(R, n) ==
  /\ R \in [Signals -> Entry \cup {Unregistered}]
  /\ \A s \in Signals : R[s] # Unregistered => R[s].signo # 0 /\ R[s].signo < n
  /\ \A s, u \in Signals : R[s] # Unregistered /\ R[u] # Unregistered /\ R[s].signo = R[u].signo => s = u

\* What a sink that has caught up sees of registrations.
AgreesWith(R, hello, r) ==
  /\ r.shown = IF hello THEN {s \in Signals : R[s] # Unregistered} ELSE {}
  /\ r.on = {s \in Signals : R[s] # Unregistered /\ R[s].hooked}
  /\ r.on \subseteq r.described
  /\ \A s \in Signals : r.number[s] # 0 => R[s] # Unregistered /\ r.number[s] = R[s].signo
  /\ \A s \in r.on : r.number[s] = R[s].signo
  /\ r.replaced = {}

\* What is in flight leads the sink there.
Led(promises, q, R, hello) == \E r \in View : Reaches(promises, q, r) /\ AgreesWith(R, hello, r)

\* No answer is among the messages, and nothing is advertised either.
Quiet(q) == \A i \in 1 .. Len(q) : q[i].kind # "response"
Plain(q) == \A i \in 1 .. Len(q) : q[i].kind \notin {"response", "available"}

LEMMA EntryOf ==
  ASSUME NEW R, NEW n, Registrations(R, n), NEW s \in Signals
  PROVE  /\ R[s] # Unregistered => R[s] \in Entry
         /\ R[s] # Unregistered <=> R[s].signo # 0
         /\ R[s].signo \in Nat
BY DEF Registrations, Entry, Unregistered

\* An entry replaced under its own number.
LEMMA Replaced ==
  ASSUME NEW R, NEW n, Registrations(R, n), NEW s \in Signals, R[s] # Unregistered,
         NEW e \in Entry, e.signo = R[s].signo
  PROVE  /\ Registrations([R EXCEPT ![s] = e], n)
         /\ [R EXCEPT ![s] = e][s] = e
         /\ \A u \in Signals : u # s => [R EXCEPT ![s] = e][u] = R[u]
         /\ e # Unregistered
         /\ \A u \in Signals : [R EXCEPT ![s] = e][u] # Unregistered <=> R[u] # Unregistered
         /\ \A u \in Signals : [R EXCEPT ![s] = e][u].signo = R[u].signo
<1> DEFINE T == [R EXCEPT ![s] = e]
<1>0. R \in [Signals -> Entry \cup {Unregistered}]
  BY DEF Registrations
<1>1. T[s] = e /\ \A u \in Signals : u # s => T[u] = R[u]
  BY <1>0
<1>2. T \in [Signals -> Entry \cup {Unregistered}]
  BY <1>0
<1> HIDE DEF T
<1>3. e.signo # 0 /\ Unregistered.signo = 0
  BY DEF Registrations, Unregistered
<1>4. e # Unregistered
  BY <1>3
<1>5. Registrations(T, n)
  BY <1>1, <1>2, <1>4 DEF Registrations
<1> QED BY <1>1, <1>4, <1>5 DEF T

\* A call changes the entry of s only, and sends what leads the sink to see it.
Call(P, h, n, q, R, s, o) ==
  /\ Registrations(o.reg, n) /\ o.sent \in Seq(Message) /\ Plain(o.sent)
  /\ \A u \in Signals : u # s => o.reg[u] = R[u]
  /\ Led(P, q, R, h) => Led(P, q \o o.sent, o.reg, h)

\* Changing the counts of an entry is not seen by the sink.
LEMMA CountCall ==
  ASSUME NEW P, NEW h, NEW n, NEW R, Registrations(R, n), NEW s \in Signals, R[s] # Unregistered,
         NEW e \in Entry, e.signo = R[s].signo, e.hooked = R[s].hooked,
         NEW q, Led(P, q, R, h)
  PROVE  Registrations([R EXCEPT ![s] = e], n) /\ Led(P, q, [R EXCEPT ![s] = e], h)
<1> DEFINE T == [R EXCEPT ![s] = e]
<1>1. PICK r \in View : Reaches(P, q, r) /\ AgreesWith(R, h, r)
  BY DEF Led
<1>2. /\ \A u \in Signals : T[u] # Unregistered <=> R[u] # Unregistered
      /\ \A u \in Signals : T[u].signo = R[u].signo
      /\ T[s] = e /\ (\A u \in Signals : u # s => T[u] = R[u]) /\ Registrations(T, n)
  BY Replaced
<1> HIDE DEF T
<1>3. \A u \in Signals : T[u].hooked = R[u].hooked
  BY <1>2
<1>4. r.on \subseteq Signals
  BY DEF View
<1>5. r.on = {u \in Signals : T[u] # Unregistered /\ T[u].hooked}
  BY <1>1, <1>2, <1>3 DEF AgreesWith
<1>6. {u \in Signals : T[u] # Unregistered} = {u \in Signals : R[u] # Unregistered}
  BY <1>2
<1>7. AgreesWith(T, h, r)
  BY <1>1, <1>2, <1>4, <1>5, <1>6 DEF AgreesWith
<1> QED BY <1>1, <1>2, <1>7 DEF Led, T

\* To a source that promises it, the domain signal of s is being transmitted.
DomainReady(P, R, s) ==
  "domain" \in P /\ HasDomain(s) => R[TableOf[s]] # Unregistered /\ R[TableOf[s]].hooked

\* The tail of subscribe().
LEMMA HookCall ==
  ASSUME NEW P, NEW h, NEW n, NEW R, Registrations(R, n), NEW s \in Signals, R[s] # Unregistered,
         NEW e \in Entry, e.signo = R[s].signo,
         DomainReady(P, R, s), NEW q \in Seq(Message), NEW o, o = Hook(R, s, e)
  PROVE  /\ Call(P, h, n, q, R, s, o)
         /\ o.reg[s] \in Entry /\ o.reg[s] # Unregistered /\ o.reg[s].signo = R[s].signo /\ o.reg[s].hooked
         /\ o.reg[s].explicit = e.explicit /\ o.reg[s].implicit = e.implicit
<1> DEFINE f == [e EXCEPT !.hooked = TRUE, !.domain = DomainSigno(R, s)]
           T == [R EXCEPT ![s] = f]
<1>9. HasDomain(s) => TableOf[s] \in Signals
  BY TableAssumption DEF HasDomain
<1>0. DomainSigno(R, s) \in Nat
  BY <1>9, EntryOf DEF DomainSigno
<1>1. /\ f \in Entry /\ f.signo = R[s].signo /\ f.hooked /\ f.explicit = e.explicit /\ f.implicit = e.implicit
  BY <1>0 DEF Entry
<1>2. o.reg = T /\ o.sent = <<SubscribeMsg(e.signo, s), SignalMsg(e.signo, s)>>
  BY DEF Hook
<1> HIDE DEF f
<1>3. /\ Registrations(T, n) /\ T[s] = f /\ (\A u \in Signals : u # s => T[u] = R[u])
      /\ f # Unregistered
      /\ (\A u \in Signals : T[u] # Unregistered <=> R[u] # Unregistered)
      /\ (\A u \in Signals : T[u].signo = R[u].signo)
  BY <1>1, Replaced
<1> HIDE DEF T
<1>4. e.signo \in Nat \ {0} /\ e.signo \in Nat
  BY DEF Entry, Registrations
<1>5. SubscribeMsg(e.signo, s) \in Message /\ SignalMsg(e.signo, s) \in Message
  BY <1>4, MessagesTyped
<1>6. o.sent \in Seq(Message)
  BY <1>2, <1>5
<1>7. Plain(o.sent)
  BY <1>2 DEF Plain, SubscribeMsg, SignalMsg
<1>8. ASSUME Led(P, q, R, h) PROVE Led(P, q \o o.sent, T, h)
  <2>1. PICK r \in View : Reaches(P, q, r) /\ AgreesWith(R, h, r)
    BY <1>8 DEF Led
  <2>0. PICK k : k = e.signo
    OBVIOUS
  <2> DEFINE t == Subscribing(r, k, s)
  <2>2. r.on \subseteq Signals /\ r.number \in [Signals -> Nat]
    BY DEF View
  <2>3. CanSubscribe(P, r, k, s)
    <3>2. ASSUME NEW u \in Signals, r.number[u] = k PROVE u = s
      BY <1>4, <2>0, <2>1, <3>2 DEF AgreesWith, Registrations
    <3>3. "domain" \in P /\ HasDomain(s) => TableOf[s] \in r.described
      BY <1>9, <2>1 DEF AgreesWith, DomainReady
    <3> QED BY <1>4, <2>0, <3>2, <3>3 DEF CanSubscribe
  <2>4. Reaches(P, q \o o.sent, t) /\ t \in View
    BY <1>2, <2>0, <2>1, <2>3, SubscribeSent
  <2>5. /\ t.shown = r.shown /\ t.on = r.on \cup {s} /\ t.described = r.described \cup {s}
        /\ t.number = [r.number EXCEPT ![s] = k] /\ t.replaced = ReplacedBy(r, k, s)
    <3>1. k \in Nat /\ t = Subscribing(r, k, s)
      BY <1>4, <2>0
    <3> HIDE DEF t
    <3> QED BY <3>1, AfterSubscribing
  <2> HIDE DEF t
  <2>6. t.number[s] = k /\ \A u \in Signals : u # s => t.number[u] = r.number[u]
    BY <2>2, <2>5
  <2>7. t.on = {u \in Signals : T[u] # Unregistered /\ T[u].hooked}
    BY <1>1, <1>3, <2>1, <2>5 DEF AgreesWith
  <2>8. {u \in Signals : T[u] # Unregistered} = {u \in Signals : R[u] # Unregistered}
    BY <1>3
  <2>9. t.shown = IF h THEN {u \in Signals : T[u] # Unregistered} ELSE {}
    BY <2>1, <2>5, <2>8 DEF AgreesWith
  <2>10. t.on \subseteq t.described
    BY <2>1, <2>5 DEF AgreesWith
  <2>11. \A u \in Signals : t.number[u] # 0 => T[u] # Unregistered /\ t.number[u] = T[u].signo
    BY <1>3, <2>0, <2>1, <2>6 DEF AgreesWith
  <2>12. \A u \in t.on : t.number[u] = T[u].signo
    BY <1>3, <2>0, <2>1, <2>2, <2>5, <2>6 DEF AgreesWith
  <2>14. t.replaced = {}
    <3>1. r.replaced = {} /\ (s \in r.on => r.number[s] = k)
      BY <2>0, <2>1 DEF AgreesWith
    <3> QED BY <2>5, <3>1 DEF ReplacedBy
  <2>13. AgreesWith(T, h, t)
    BY <2>7, <2>9, <2>10, <2>11, <2>12, <2>14 DEF AgreesWith
  <2> QED BY <2>4, <2>13 DEF Led
<1> QED BY <1>1, <1>2, <1>3, <1>6, <1>7, <1>8 DEF Call

\* The tail of unsubscribe().
LEMMA UnhookCall ==
  ASSUME NEW P, NEW h, NEW n, NEW R, Registrations(R, n), NEW s \in Signals, R[s] # Unregistered,
         NEW e \in Entry, e.signo = R[s].signo, NEW q \in Seq(Message), NEW o, o = Unhook(R, s, e)
  PROVE  /\ Call(P, h, n, q, R, s, o)
         /\ o.reg[s] \in Entry /\ o.reg[s] # Unregistered /\ o.reg[s].signo = R[s].signo /\ ~o.reg[s].hooked
         /\ o.reg[s].explicit = e.explicit /\ o.reg[s].implicit = e.implicit
<1> DEFINE f == [e EXCEPT !.hooked = FALSE]
           T == [R EXCEPT ![s] = f]
<1>1. /\ f \in Entry /\ f.signo = R[s].signo /\ ~f.hooked /\ f.explicit = e.explicit /\ f.implicit = e.implicit
  BY DEF Entry
<1>2. o.reg = T /\ o.sent = <<UnsubscribeMsg(e.signo)>>
  BY DEF Unhook
<1> HIDE DEF f
<1>3. /\ Registrations(T, n) /\ T[s] = f /\ (\A u \in Signals : u # s => T[u] = R[u])
      /\ f # Unregistered
      /\ (\A u \in Signals : T[u] # Unregistered <=> R[u] # Unregistered)
      /\ (\A u \in Signals : T[u].signo = R[u].signo)
  BY <1>1, Replaced
<1> HIDE DEF T
<1>4. e.signo \in Nat
  BY DEF Entry
<1>5. UnsubscribeMsg(e.signo) \in Message
  BY <1>4, MessagesTyped
<1>6. o.sent \in Seq(Message)
  BY <1>2, <1>5
<1>7. Plain(o.sent)
  BY <1>2 DEF Plain, UnsubscribeMsg
<1>8. ASSUME Led(P, q, R, h) PROVE Led(P, q \o o.sent, T, h)
  <2>1. PICK r \in View : Reaches(P, q, r) /\ AgreesWith(R, h, r)
    BY <1>8 DEF Led
  <2>0. PICK k : k = e.signo
    OBVIOUS
  <2> DEFINE m == UnsubscribeMsg(k)
             t == After(r, m)
  <2>2. r.on \subseteq Signals
    BY DEF View
  <2>3. Legal(P, r, m) /\ m \in Message
    <3>1. r.replaced = {}
      BY <2>1 DEF AgreesWith
    <3> QED BY <1>5, <2>0, <3>1, LegalUnsubscribe
  <2>4. Reaches(P, Append(q, m), t) /\ t \in View /\ q \o o.sent = Append(q, m)
    BY <1>2, <2>0, <2>1, <2>3, ReachesAppend, ConcatOne
  <2>5. t.shown = r.shown /\ t.on = {u \in r.on : r.number[u] # k} /\ t.described = r.described
        /\ t.number = r.number /\ t.replaced = r.replaced
    <3>1. t = After(r, UnsubscribeMsg(k))
      OBVIOUS
    <3> HIDE DEF t
    <3> QED BY <3>1, AfterUnsubscribe
  <2> HIDE DEF t, m
  <2>6. \A u \in r.on : r.number[u] # k <=> u # s
    BY <2>0, <2>1, <2>2 DEF AgreesWith, Registrations
  <2>7. t.on = {u \in Signals : T[u] # Unregistered /\ T[u].hooked}
    BY <1>1, <1>3, <2>1, <2>5, <2>6 DEF AgreesWith
  <2>8. {u \in Signals : T[u] # Unregistered} = {u \in Signals : R[u] # Unregistered}
    BY <1>3
  <2>9. t.shown = IF h THEN {u \in Signals : T[u] # Unregistered} ELSE {}
    BY <2>1, <2>5, <2>8 DEF AgreesWith
  <2>10. t.on \subseteq t.described
    BY <2>1, <2>5 DEF AgreesWith
  <2>11. \A u \in Signals : t.number[u] # 0 => T[u] # Unregistered /\ t.number[u] = T[u].signo
    BY <1>3, <2>1, <2>5 DEF AgreesWith
  <2>12. \A u \in t.on : t.number[u] = T[u].signo
    BY <1>3, <2>1, <2>2, <2>5 DEF AgreesWith
  <2>14. t.replaced = {}
    BY <2>1, <2>5 DEF AgreesWith
  <2>13. AgreesWith(T, h, t)
    BY <2>7, <2>9, <2>10, <2>11, <2>12, <2>14 DEF AgreesWith
  <2> QED BY <2>4, <2>13 DEF Led
<1> QED BY <1>1, <1>2, <1>3, <1>6, <1>7, <1>8 DEF Call

\* A call that sends nothing.
LEMMA NothingCall ==
  ASSUME NEW P, NEW h, NEW n, NEW R, Registrations(R, n), NEW q \in Seq(Message), NEW o, o = Nothing(R)
  PROVE  o.reg = R /\ \A s \in Signals : Call(P, h, n, q, R, s, o)
<1>1. o.reg = R /\ o.sent = <<>>
  BY DEF Nothing
<1>2. q \o <<>> = q /\ <<>> \in Seq(Message) /\ Plain(<<>>)
  BY ConcatEmptySeq DEF Plain
<1> QED BY <1>1, <1>2 DEF Call

\* A call that changes the counts only.
LEMMA NothingButCount ==
  ASSUME NEW P, NEW h, NEW n, NEW R, Registrations(R, n), NEW s \in Signals, R[s] # Unregistered,
         NEW e \in Entry, e.signo = R[s].signo, e.hooked = R[s].hooked,
         NEW q \in Seq(Message), NEW o, o = Nothing([R EXCEPT ![s] = e])
  PROVE  /\ Call(P, h, n, q, R, s, o)
         /\ o.reg[s] = e /\ e # Unregistered
<1>1. o.reg = [R EXCEPT ![s] = e] /\ o.sent = <<>>
  BY DEF Nothing
<1>2. q \o <<>> = q /\ <<>> \in Seq(Message) /\ Plain(<<>>)
  BY ConcatEmptySeq DEF Plain
<1>3. /\ Registrations(o.reg, n) /\ o.reg[s] = e /\ e # Unregistered
      /\ \A u \in Signals : u # s => o.reg[u] = R[u]
  <2> DEFINE T == [R EXCEPT ![s] = e]
  <2>1. /\ Registrations(T, n) /\ T[s] = e /\ e # Unregistered
        /\ \A u \in Signals : u # s => T[u] = R[u]
    BY Replaced
  <2> QED BY <1>1, <2>1
<1>4. Led(P, q, R, h) => Led(P, q, o.reg, h)
  <2>1. Led(P, q, R, h) =>
          Registrations([R EXCEPT ![s] = e], n) /\ Led(P, q, [R EXCEPT ![s] = e], h)
    BY CountCall
  <2> QED BY <1>1, <2>1
<1> QED BY <1>1, <1>2, <1>3, <1>4 DEF Call

\* subscribe(s, false) and unsubscribe(s, false), of a domain signal.
LEMMA SubscribeImplicitCall ==
  ASSUME NEW P, NEW h, NEW n, NEW R, Registrations(R, n), NEW s \in Signals, ~HasDomain(s),
         NEW q \in Seq(Message), NEW o, o = SubscribeImplicit(R, s)
  PROVE  /\ Call(P, h, n, q, R, s, o)
         /\ R[s] = Unregistered => o.reg = R
         /\ R[s] # Unregistered =>
              /\ o.reg[s] \in Entry /\ o.reg[s] # Unregistered /\ o.reg[s].signo = R[s].signo
              /\ o.reg[s].explicit = R[s].explicit
              /\ o.reg[s].implicit = (R[s].implicit + 1) % CountModulus
              /\ o.reg[s].hooked <=> (Subscribed(R[s]) => R[s].hooked)
<1> DEFINE e == [R[s] EXCEPT !.implicit = (@ + 1) % CountModulus]
<1>1. CASE R[s] = Unregistered
  <2>1. o = Nothing(R)
    BY <1>1 DEF SubscribeImplicit
  <2> QED BY <1>1, <2>1, NothingCall
<1>2. CASE R[s] # Unregistered
  <2>1. R[s] \in Entry
    BY <1>2, EntryOf
  <2>2. (R[s].implicit + 1) % CountModulus \in 0 .. CountModulus - 1
    <3>1. R[s].implicit + 1 \in Int /\ CountModulus \in Nat /\ CountModulus > 0
      <4>1. Cardinality(Signals) \in Nat
        BY TableAssumption, FS_CardinalityType
      <4> QED BY <2>1, <4>1, LocalAssumption DEF Entry
    <3> QED BY <3>1
  <2>3. /\ e \in Entry /\ e.signo = R[s].signo /\ e.hooked = R[s].hooked /\ e.explicit = R[s].explicit
        /\ e.implicit = (R[s].implicit + 1) % CountModulus
    BY <2>1, <2>2 DEF Entry
  <2> HIDE DEF e
  <2>4. CASE Subscribed(R[s])
    <3>1. o = Nothing([R EXCEPT ![s] = e])
      BY <1>2, <2>4 DEF SubscribeImplicit, e
    <3>2. /\ Call(P, h, n, q, R, s, o)
          /\ o.reg[s] = e /\ e # Unregistered
      BY <1>2, <2>3, <3>1, NothingButCount
    <3> QED BY <1>2, <2>3, <2>4, <3>2
  <2>5. CASE ~Subscribed(R[s])
    <3>1. o = Hook(R, s, e)
      BY <1>2, <2>5 DEF SubscribeImplicit, e
    <3>2. /\ Call(P, h, n, q, R, s, o)
          /\ o.reg[s] \in Entry /\ o.reg[s] # Unregistered /\ o.reg[s].signo = R[s].signo /\ o.reg[s].hooked
          /\ o.reg[s].explicit = e.explicit /\ o.reg[s].implicit = e.implicit
      <4>1. DomainReady(P, R, s)
        BY DEF DomainReady
      <4>2. e \in Entry /\ e.signo = R[s].signo
        BY <2>3
      <4> QED BY ONLY <1>2, <4>2, <3>1, <4>1, HookCall, Registrations(R, n), s \in Signals, q \in Seq(Message)
    <3> QED BY <1>2, <2>3, <2>5, <3>2
  <2> QED BY <2>4, <2>5
<1> QED BY <1>1, <1>2

LEMMA UnsubscribeImplicitCall ==
  ASSUME NEW P, NEW h, NEW n, NEW R, Registrations(R, n), NEW s \in Signals,
         NEW q \in Seq(Message), NEW o, o = UnsubscribeImplicit(R, s)
  PROVE  /\ Call(P, h, n, q, R, s, o)
         /\ R[s] = Unregistered => o.reg = R
         /\ R[s] # Unregistered =>
              /\ o.reg[s] \in Entry /\ o.reg[s] # Unregistered /\ o.reg[s].signo = R[s].signo
              /\ o.reg[s].explicit = R[s].explicit
              /\ o.reg[s].implicit = (R[s].implicit - 1) % CountModulus
              /\ o.reg[s].hooked <=> (Subscribed(o.reg[s]) /\ R[s].hooked)
<1> DEFINE e == [R[s] EXCEPT !.implicit = (@ - 1) % CountModulus]
<1>1. CASE R[s] = Unregistered
  <2>1. o = Nothing(R)
    BY <1>1 DEF UnsubscribeImplicit
  <2> QED BY <1>1, <2>1, NothingCall
<1>2. CASE R[s] # Unregistered
  <2>1. R[s] \in Entry
    BY <1>2, EntryOf
  <2>2. (R[s].implicit - 1) % CountModulus \in 0 .. CountModulus - 1
    <3>1. R[s].implicit - 1 \in Int /\ CountModulus \in Nat /\ CountModulus > 0
      <4>1. Cardinality(Signals) \in Nat
        BY TableAssumption, FS_CardinalityType
      <4> QED BY <2>1, <4>1, LocalAssumption DEF Entry
    <3> QED BY <3>1
  <2>3. /\ e \in Entry /\ e.signo = R[s].signo /\ e.hooked = R[s].hooked /\ e.explicit = R[s].explicit
        /\ e.implicit = (R[s].implicit - 1) % CountModulus
    BY <2>1, <2>2 DEF Entry
  <2> HIDE DEF e
  <2>4. CASE Subscribed(e)
    <3>1. o = Nothing([R EXCEPT ![s] = e])
      BY <1>2, <2>4 DEF UnsubscribeImplicit, e
    <3>2. /\ Call(P, h, n, q, R, s, o)
          /\ o.reg[s] = e /\ e # Unregistered
      BY <1>2, <2>3, <3>1, NothingButCount
    <3> QED BY <1>2, <2>3, <2>4, <3>2
  <2>5. CASE ~Subscribed(e)
    <3>1. o = Unhook(R, s, e)
      BY <1>2, <2>5 DEF UnsubscribeImplicit, e
    <3>2. /\ Call(P, h, n, q, R, s, o)
          /\ o.reg[s] \in Entry /\ o.reg[s] # Unregistered /\ o.reg[s].signo = R[s].signo /\ ~o.reg[s].hooked
          /\ o.reg[s].explicit = e.explicit /\ o.reg[s].implicit = e.implicit
      BY <1>2, <2>3, <3>1, UnhookCall
    <3>3. ~Subscribed(o.reg[s])
      BY <2>5, <3>2 DEF Subscribed
    <3> QED BY <1>2, <2>3, <2>5, <3>2, <3>3
  <2> QED BY <2>4, <2>5
<1> QED BY <1>1, <1>2

\* What a request changes and sends.
Outcome(P, h, n, q, R, o) ==
  /\ Registrations(o.reg, n) /\ o.sent \in Seq(Message) /\ Plain(o.sent)
  /\ Led(P, q, R, h) => Led(P, q \o o.sent, o.reg, h)

\* One call after another.
LEMMA CallsCompose ==
  ASSUME NEW P, NEW h, NEW n, NEW q \in Seq(Message), NEW R, NEW s, NEW t, NEW a, NEW b,
         Call(P, h, n, q, R, s, a), Call(P, h, n, q \o a.sent, a.reg, t, b),
         NEW o, o.reg = b.reg, o.sent = a.sent \o b.sent
  PROVE  Outcome(P, h, n, q, R, o)
<1>1. /\ a.sent \in Seq(Message) /\ Plain(a.sent) /\ b.sent \in Seq(Message) /\ Plain(b.sent)
      /\ Registrations(b.reg, n)
      /\ Led(P, q, R, h) => Led(P, (q \o a.sent) \o b.sent, b.reg, h)
  BY DEF Call
<1>2. (q \o a.sent) \o b.sent = q \o o.sent /\ o.sent \in Seq(Message)
  <2>1. PICK u \in Seq(Message) : u = a.sent
    BY <1>1
  <2>2. PICK v \in Seq(Message) : v = b.sent
    BY <1>1
  <2>3. (q \o u) \o v = q \o (u \o v)
    BY ConcatAssociative
  <2>4. u \o v \in Seq(Message)
    BY ConcatProperties
  <2> QED BY <2>1, <2>2, <2>3, <2>4
<1>3. Plain(o.sent)
  <2> DEFINE u == a.sent
             v == b.sent
  <2>1. /\ Len(u \o v) = Len(u) + Len(v) /\ Len(u) \in Nat /\ Len(v) \in Nat
        /\ \A i \in 1 .. Len(u) + Len(v) : (u \o v)[i] = IF i <= Len(u) THEN u[i] ELSE v[i - Len(u)]
    BY <1>1, ConcatProperties, LenProperties
  <2> HIDE DEF u, v
  <2>2. ASSUME NEW i \in 1 .. Len(u) + Len(v) PROVE (u \o v)[i].kind \notin {"response", "available"}
    <3>1. CASE i <= Len(u)
      <4>1. i \in 1 .. Len(u)
        BY <2>1, <3>1
      <4> QED BY <1>1, <2>1, <3>1, <4>1 DEF Plain, u
    <3>2. CASE ~(i <= Len(u))
      <4>1. i - Len(u) \in 1 .. Len(v)
        BY <2>1, <3>2
      <4> QED BY <1>1, <2>1, <3>2, <4>1 DEF Plain, v
    <3> QED BY <3>1, <3>2
  <2> QED BY <2>1, <2>2 DEF Plain, u, v
<1> QED BY <1>1, <1>2, <1>3 DEF Outcome

\* What subscribe(s, true) leaves behind.
SubscribeEffect(R, s, o) ==
  LET t == TableOf[s]
  IN  /\ R[s] = Unregistered => o.reg = R
      /\ R[s] # Unregistered =>
           /\ o.reg[s] \in Entry /\ o.reg[s] # Unregistered
           /\ o.reg[s].explicit /\ o.reg[s].implicit = R[s].implicit
           /\ o.reg[s].hooked <=> (Subscribed(R[s]) => R[s].hooked)
           /\ \A u \in Signals : (u # s /\ (u # t \/ Subscribed(R[s]) \/ R[u] = Unregistered)) => o.reg[u] = R[u]
           /\ (HasDomain(s) /\ ~Subscribed(R[s]) /\ R[t] # Unregistered) =>
                /\ o.reg[t] \in Entry /\ o.reg[t] # Unregistered /\ o.reg[t].explicit = R[t].explicit
                /\ o.reg[t].implicit = (R[t].implicit + 1) % CountModulus
                /\ o.reg[t].hooked <=> (Subscribed(R[t]) => R[t].hooked)

\* The domain signal of s, if s has one.
LEMMA DomainOf ==
  ASSUME NEW s \in Signals
  PROVE  /\ HasDomain(s) => TableOf[s] \in Signals /\ TableOf[s] # s /\ ~HasDomain(TableOf[s])
         /\ ~HasDomain(s) => TableOf[s] = s \/ TableOf[s] \notin Signals
BY TableAssumption DEF HasDomain

LEMMA SubscribeExplicitCall ==
  ASSUME NEW P, NEW h, NEW n, NEW R, Registrations(R, n), NEW s \in Signals,
         ("domain" \in P /\ HasDomain(s) /\ R[s] # Unregistered) =>
            R[TableOf[s]] # Unregistered /\ (Subscribed(R[TableOf[s]]) => R[TableOf[s]].hooked),
         NEW q \in Seq(Message), NEW o, o = SubscribeExplicit(R, s)
  PROVE  Outcome(P, h, n, q, R, o) /\ SubscribeEffect(R, s, o)
<1> DEFINE e == [R[s] EXCEPT !.explicit = TRUE]
           t == TableOf[s]
           a == IF HasDomain(s) THEN SubscribeImplicit(R, t) ELSE Nothing(R)
           b == Hook(a.reg, s, e)
<1>1. CASE R[s] = Unregistered
  <2>1. o = Nothing(R)
    BY <1>1 DEF SubscribeExplicit
  <2>2. o.reg = R /\ Call(P, h, n, q, R, s, o)
    BY <2>1, NothingCall
  <2> QED BY <1>1, <2>2 DEF Call, Outcome, SubscribeEffect
<1>2. CASE R[s] # Unregistered
  <2>1. R[s] \in Entry
    BY <1>2, EntryOf
  <2>2. e \in Entry /\ e.signo = R[s].signo /\ e.hooked = R[s].hooked /\ e.explicit /\ e.implicit = R[s].implicit
    BY <2>1 DEF Entry
  <2> HIDE DEF e
  <2>3. CASE Subscribed(R[s])
    <3>1. o = Nothing([R EXCEPT ![s] = e])
      BY <1>2, <2>3 DEF SubscribeExplicit, e
    <3>2. Call(P, h, n, q, R, s, o) /\ o.reg[s] = e /\ e # Unregistered
      BY <1>2, <2>2, <3>1, NothingButCount
    <3>3. Outcome(P, h, n, q, R, o) /\ \A u \in Signals : u # s => o.reg[u] = R[u]
      BY <3>2 DEF Call, Outcome
    <3> QED BY <1>2, <2>2, <2>3, <3>2, <3>3 DEF SubscribeEffect
  <2>4. CASE ~Subscribed(R[s])
    <3>1. o.reg = b.reg /\ o.sent = a.sent \o b.sent
      BY <1>2, <2>4 DEF SubscribeExplicit, e
    <3>2. /\ Call(P, h, n, q, R, t, a)
          /\ \A u \in Signals : (u # t \/ R[u] = Unregistered) => a.reg[u] = R[u]
          /\ (HasDomain(s) /\ R[t] # Unregistered) =>
               /\ a.reg[t] \in Entry /\ a.reg[t] # Unregistered /\ a.reg[t].explicit = R[t].explicit
               /\ a.reg[t].implicit = (R[t].implicit + 1) % CountModulus
               /\ a.reg[t].hooked <=> (Subscribed(R[t]) => R[t].hooked)
      <4>1. CASE HasDomain(s)
        <5>1. t \in Signals /\ ~HasDomain(t) /\ a = SubscribeImplicit(R, t)
          BY <4>1, DomainOf
        <5> HIDE DEF a, t
        <5>2. /\ Call(P, h, n, q, R, t, a) /\ (R[t] = Unregistered => a.reg = R)
              /\ R[t] # Unregistered =>
                   /\ a.reg[t] \in Entry /\ a.reg[t] # Unregistered /\ a.reg[t].explicit = R[t].explicit
                   /\ a.reg[t].implicit = (R[t].implicit + 1) % CountModulus
                   /\ a.reg[t].hooked <=> (Subscribed(R[t]) => R[t].hooked)
          BY <5>1, SubscribeImplicitCall
        <5>3. \A u \in Signals : u # t => a.reg[u] = R[u]
          BY <5>2 DEF Call
        <5> QED BY <5>2, <5>3
      <4>2. CASE ~HasDomain(s)
        <5>1. a = Nothing(R)
          BY <4>2
        <5>2. a.reg = R /\ Call(P, h, n, q, R, s, a)
          BY <5>1, NothingCall
        <5> QED BY <4>2, <5>2 DEF Call
      <4> QED BY <4>1, <4>2
    <3>3. s # t \/ ~HasDomain(s)
      BY DomainOf
    <3>4. a.reg[s] = R[s]
      <4>1. CASE HasDomain(s)
        BY <3>2, <3>3, <4>1
      <4>2. CASE ~HasDomain(s)
        <5>1. a.reg = R
          BY <4>2 DEF Nothing
        <5> QED BY <5>1
      <4> QED BY <4>1, <4>2
    <3>5. "domain" \in P /\ HasDomain(s) => a.reg[t] # Unregistered /\ a.reg[t].hooked
      BY <1>2, <3>2
    <3> HIDE DEF a
    <3>6. Registrations(a.reg, n) /\ q \o a.sent \in Seq(Message)
      BY <3>2, ConcatProperties DEF Call
    <3>7. /\ Call(P, h, n, q \o a.sent, a.reg, s, b)
          /\ b.reg[s] \in Entry /\ b.reg[s] # Unregistered /\ b.reg[s].signo = a.reg[s].signo /\ b.reg[s].hooked
          /\ b.reg[s].explicit = e.explicit /\ b.reg[s].implicit = e.implicit
      <4>1. a.reg[s] # Unregistered /\ e.signo = a.reg[s].signo /\ e \in Entry
        BY <1>2, <2>2, <3>4
      <4>2. "domain" \in P /\ HasDomain(s) => a.reg[TableOf[s]] # Unregistered /\ a.reg[TableOf[s]].hooked
        BY <3>5
      <4>3. PICK R1 : R1 = a.reg
        OBVIOUS
      <4>4. PICK q1 \in Seq(Message) : q1 = q \o a.sent
        BY <3>6
      <4>5. PICK e1 \in Entry : e1 = e
        BY <4>1
      <4>6. /\ Call(P, h, n, q1, R1, s, b)
            /\ b.reg[s] \in Entry /\ b.reg[s] # Unregistered /\ b.reg[s].signo = R1[s].signo /\ b.reg[s].hooked
            /\ b.reg[s].explicit = e1.explicit /\ b.reg[s].implicit = e1.implicit
        <5>1. Registrations(R1, n) /\ R1[s] # Unregistered /\ e1.signo = R1[s].signo
          BY <3>6, <4>1, <4>3, <4>5
        <5>2. DomainReady(P, R1, s)
          BY <4>2, <4>3 DEF DomainReady
        <5>3. b = Hook(R1, s, e1)
          BY <4>3, <4>5
        <5> HIDE DEF b, t
        <5> QED BY ONLY <5>1, <5>2, <5>3, HookCall, q1 \in Seq(Message), s \in Signals, e1 \in Entry
      <4> QED BY <4>3, <4>4, <4>5, <4>6
    <3> HIDE DEF b
    <3>8. Outcome(P, h, n, q, R, o)
      BY <3>1, <3>2, <3>7, CallsCompose
    <3>9. \A u \in Signals : u # s => b.reg[u] = a.reg[u]
      BY <3>7 DEF Call
    <3>10. HasDomain(s) => t \in Signals /\ t # s
      BY DomainOf
    <3>11. SubscribeEffect(R, s, o)
      BY <1>2, <2>2, <2>4, <3>1, <3>2, <3>7, <3>9, <3>10 DEF SubscribeEffect
    <3> QED BY <3>8, <3>11
  <2> QED BY <2>3, <2>4
<1> QED BY <1>1, <1>2

\* What unsubscribe(s, true) leaves behind.
UnsubscribeEffect(R, s, o) ==
  LET t == TableOf[s]
  IN  /\ R[s] = Unregistered => o.reg = R
      /\ R[s] # Unregistered =>
           /\ o.reg[s] \in Entry /\ o.reg[s] # Unregistered
           /\ ~o.reg[s].explicit /\ o.reg[s].implicit = R[s].implicit
           /\ o.reg[s].hooked <=> (R[s].implicit > 0 /\ R[s].hooked)
           /\ \A u \in Signals : (u # s /\ (u # t \/ R[s].implicit > 0 \/ R[u] = Unregistered)) => o.reg[u] = R[u]
           /\ (HasDomain(s) /\ ~(R[s].implicit > 0) /\ R[t] # Unregistered) =>
                /\ o.reg[t] \in Entry /\ o.reg[t] # Unregistered /\ o.reg[t].explicit = R[t].explicit
                /\ o.reg[t].implicit = (R[t].implicit - 1) % CountModulus
                /\ o.reg[t].hooked <=> (Subscribed(o.reg[t]) /\ R[t].hooked)

LEMMA UnsubscribeExplicitCall ==
  ASSUME NEW P, NEW h, NEW n, NEW R, Registrations(R, n), NEW s \in Signals,
         NEW q \in Seq(Message), NEW o, o = UnsubscribeExplicit(R, s)
  PROVE  Outcome(P, h, n, q, R, o) /\ UnsubscribeEffect(R, s, o)
<1> DEFINE e == [R[s] EXCEPT !.explicit = FALSE]
           t == TableOf[s]
           a == Unhook(R, s, e)
           b == IF HasDomain(s) THEN UnsubscribeImplicit(a.reg, t) ELSE Nothing(a.reg)
<1>1. CASE R[s] = Unregistered
  <2>1. o = Nothing(R)
    BY <1>1 DEF UnsubscribeExplicit
  <2>2. o.reg = R /\ Call(P, h, n, q, R, s, o)
    BY <2>1, NothingCall
  <2> QED BY <1>1, <2>2 DEF Call, Outcome, UnsubscribeEffect
<1>2. CASE R[s] # Unregistered
  <2>1. R[s] \in Entry
    BY <1>2, EntryOf
  <2>2. e \in Entry /\ e.signo = R[s].signo /\ e.hooked = R[s].hooked /\ ~e.explicit /\ e.implicit = R[s].implicit
    BY <2>1 DEF Entry
  <2>3. Subscribed(e) <=> R[s].implicit > 0
    BY <2>2 DEF Subscribed
  <2> HIDE DEF e
  <2>4. CASE Subscribed(e)
    <3>1. o = Nothing([R EXCEPT ![s] = e])
      BY <1>2, <2>4 DEF UnsubscribeExplicit, e
    <3>2. Call(P, h, n, q, R, s, o) /\ o.reg[s] = e /\ e # Unregistered
      BY <1>2, <2>2, <3>1, NothingButCount
    <3>3. Outcome(P, h, n, q, R, o) /\ \A u \in Signals : u # s => o.reg[u] = R[u]
      BY <3>2 DEF Call, Outcome
    <3> QED BY <1>2, <2>2, <2>3, <2>4, <3>2, <3>3 DEF UnsubscribeEffect
  <2>5. CASE ~Subscribed(e)
    <3>1. o.reg = b.reg /\ o.sent = a.sent \o b.sent
      BY <1>2, <2>5 DEF UnsubscribeExplicit, e
    <3>2. /\ Call(P, h, n, q, R, s, a)
          /\ a.reg[s] \in Entry /\ a.reg[s] # Unregistered /\ a.reg[s].signo = R[s].signo /\ ~a.reg[s].hooked
          /\ a.reg[s].explicit = e.explicit /\ a.reg[s].implicit = e.implicit
      <4>1. e \in Entry /\ e.signo = R[s].signo
        BY <2>2
      <4>2. PICK c : c = a
        OBVIOUS
      <4>3. c = Unhook(R, s, e)
        BY <4>2
      <4>4. /\ Call(P, h, n, q, R, s, c)
            /\ c.reg[s] \in Entry /\ c.reg[s] # Unregistered /\ c.reg[s].signo = R[s].signo /\ ~c.reg[s].hooked
            /\ c.reg[s].explicit = e.explicit /\ c.reg[s].implicit = e.implicit
        BY ONLY <1>2, <4>1, <4>3, UnhookCall, Registrations(R, n), s \in Signals, q \in Seq(Message)
      <4> QED BY <4>2, <4>4
    <3>3. \A u \in Signals : u # s => a.reg[u] = R[u]
      BY <3>2 DEF Call
    <3> HIDE DEF a
    <3>4. Registrations(a.reg, n) /\ a.sent \in Seq(Message)
      BY <3>2 DEF Call
    <3>5. q \o a.sent \in Seq(Message)
      BY <3>4, ConcatProperties
    <3>6. /\ Call(P, h, n, q \o a.sent, a.reg, t, b)
          /\ (~HasDomain(s) \/ a.reg[t] = Unregistered) => b.reg = a.reg
          /\ (HasDomain(s) /\ a.reg[t] # Unregistered) =>
               /\ b.reg[t] \in Entry /\ b.reg[t] # Unregistered /\ b.reg[t].explicit = a.reg[t].explicit
               /\ b.reg[t].implicit = (a.reg[t].implicit - 1) % CountModulus
               /\ b.reg[t].hooked <=> (Subscribed(b.reg[t]) /\ a.reg[t].hooked)
      <4>1. PICK R1 : R1 = a.reg
        OBVIOUS
      <4>2. PICK q1 \in Seq(Message) : q1 = q \o a.sent
        BY <3>5
      <4>3. Registrations(R1, n)
        BY <3>4, <4>1
      <4>4. CASE HasDomain(s)
        <5>1. t \in Signals /\ b = UnsubscribeImplicit(R1, t)
          BY <4>1, <4>4, DomainOf
        <5> HIDE DEF b, t
        <5>2. /\ Call(P, h, n, q1, R1, t, b)
              /\ R1[t] = Unregistered => b.reg = R1
              /\ R1[t] # Unregistered =>
                   /\ b.reg[t] \in Entry /\ b.reg[t] # Unregistered /\ b.reg[t].signo = R1[t].signo
                   /\ b.reg[t].explicit = R1[t].explicit
                   /\ b.reg[t].implicit = (R1[t].implicit - 1) % CountModulus
                   /\ b.reg[t].hooked <=> (Subscribed(b.reg[t]) /\ R1[t].hooked)
          BY ONLY <4>3, <5>1, UnsubscribeImplicitCall, q1 \in Seq(Message)
        <5> QED BY <4>1, <4>2, <4>4, <5>2
      <4>5. CASE ~HasDomain(s)
        <5>1. b = Nothing(R1)
          BY <4>1, <4>5
        <5> HIDE DEF b
        <5>2. b.reg = R1 /\ Call(P, h, n, q1, R1, s, b)
          BY ONLY <4>3, <5>1, NothingCall, q1 \in Seq(Message), s \in Signals
        <5>3. Call(P, h, n, q1, R1, t, b)
          BY <5>2 DEF Call
        <5> QED BY <4>1, <4>2, <4>5, <5>2, <5>3
      <4> QED BY <4>4, <4>5
    <3> HIDE DEF b
    <3>7. Outcome(P, h, n, q, R, o)
      BY <3>1, <3>2, <3>6, CallsCompose
    <3>8. \A u \in Signals : u # t => b.reg[u] = a.reg[u]
      BY <3>6 DEF Call
    <3>9. HasDomain(s) => t \in Signals /\ t # s
      BY DomainOf
    <3>10. b.reg[s] = a.reg[s]
      BY <3>6, <3>8, <3>9
    <3>11. HasDomain(s) => a.reg[t] = R[t]
      BY <3>3, <3>9
    <3>12. UnsubscribeEffect(R, s, o)
      <4>1. /\ o.reg[s] \in Entry /\ o.reg[s] # Unregistered
            /\ ~o.reg[s].explicit /\ o.reg[s].implicit = R[s].implicit
            /\ ~o.reg[s].hooked /\ ~(R[s].implicit > 0)
        BY <2>2, <2>3, <2>5, <3>1, <3>2, <3>10
      <4>2. ASSUME NEW u \in Signals, u # s, u # t \/ R[u] = Unregistered PROVE o.reg[u] = R[u]
        BY <3>1, <3>3, <3>6, <3>8, <3>9, <4>2
      <4>3. (HasDomain(s) /\ R[t] # Unregistered) =>
              /\ o.reg[t] \in Entry /\ o.reg[t] # Unregistered /\ o.reg[t].explicit = R[t].explicit
              /\ o.reg[t].implicit = (R[t].implicit - 1) % CountModulus
              /\ o.reg[t].hooked <=> (Subscribed(o.reg[t]) /\ R[t].hooked)
        BY <3>1, <3>6, <3>11
      <4> QED BY <1>2, <4>1, <4>2, <4>3 DEF UnsubscribeEffect
    <3> QED BY <3>7, <3>12
  <2> QED BY <2>4, <2>5
<1> QED BY <1>1, <1>2
-----------------------------------------------------------------------------
(* The other things a source of this library does and sends. *)

\* add_local_signal, before and after the hello.
LEMMA Added ==
  ASSUME NEW P, NEW n \in Nat \ {0}, NEW R, Registrations(R, n), NEW s \in Signals, R[s] = Unregistered,
         NEW e \in Entry, e.signo = n, ~e.hooked, NEW q \in Seq(Message),
         NEW T, T = [R EXCEPT ![s] = e]
  PROVE  /\ Registrations(T, n + 1)
         /\ Led(P, q, R, FALSE) => Led(P, q, T, FALSE)
         /\ Led(P, q, R, TRUE) => Led(P, Append(q, AvailableMsg({s})), T, TRUE)
<1>0. R \in [Signals -> Entry \cup {Unregistered}]
  BY DEF Registrations
<1>1. T[s] = e /\ (\A u \in Signals : u # s => T[u] = R[u]) /\ T \in [Signals -> Entry \cup {Unregistered}]
  BY <1>0
<1>2. e.signo # 0 /\ Unregistered.signo = 0
  BY DEF Unregistered
<1>3. e # Unregistered
  BY <1>2
<1>4. \A u \in Signals : R[u].signo \in Nat
  BY EntryOf
<1>5. Registrations(T, n + 1)
  BY <1>1, <1>3, <1>4 DEF Registrations
<1>6. {u \in Signals : T[u] # Unregistered} = {u \in Signals : R[u] # Unregistered} \cup {s}
  BY <1>1, <1>3
<1>7. {u \in Signals : T[u] # Unregistered /\ T[u].hooked} = {u \in Signals : R[u] # Unregistered /\ R[u].hooked}
  BY <1>1
<1>8. ASSUME NEW r \in View, NEW t \in View, NEW h, AgreesWith(R, h, r),
             t.on = r.on, t.described = r.described, t.number = r.number, t.replaced = r.replaced,
             t.shown = IF h THEN {u \in Signals : T[u] # Unregistered} ELSE {}
      PROVE  AgreesWith(T, h, t)
  <2>1. t.on \subseteq Signals
    BY DEF View
  <2>2. s \notin t.on /\ t.number[s] = 0
    BY <1>8 DEF AgreesWith, View
  <2>3. t.on = {u \in Signals : T[u] # Unregistered /\ T[u].hooked}
    BY <1>7, <1>8 DEF AgreesWith
  <2> QED BY <1>1, <1>8, <2>1, <2>2, <2>3 DEF AgreesWith
<1>9. ASSUME Led(P, q, R, FALSE) PROVE Led(P, q, T, FALSE)
  <2>1. PICK r \in View : Reaches(P, q, r) /\ AgreesWith(R, FALSE, r)
    BY <1>9 DEF Led
  <2>2. r.shown = {}
    BY <2>1 DEF AgreesWith
  <2>3. AgreesWith(T, FALSE, r)
    BY <1>8, <2>1, <2>2
  <2> QED BY <2>1, <2>3 DEF Led
<1>10. ASSUME Led(P, q, R, TRUE) PROVE Led(P, Append(q, AvailableMsg({s})), T, TRUE)
  <2>1. PICK r \in View : Reaches(P, q, r) /\ AgreesWith(R, TRUE, r)
    BY <1>10 DEF Led
  <2>2. r.shown = {u \in Signals : R[u] # Unregistered}
    BY <2>1 DEF AgreesWith
  <2>3. {s} \cap r.shown = {} /\ AvailableMsg({s}) \in Message
    BY <2>2, MessagesTyped
  <2> DEFINE m == AvailableMsg({s})
             t == After(r, m)
  <2>4. Legal(P, r, m)
    BY <2>3, LegalAvailable
  <2>5. Reaches(P, Append(q, m), t) /\ t \in View
    BY <2>1, <2>3, <2>4, ReachesAppend
  <2>6. /\ t.shown = r.shown \cup {s} /\ t.on = r.on /\ t.described = r.described
        /\ t.number = r.number /\ t.replaced = r.replaced
    <3>1. t = After(r, AvailableMsg({s}))
      OBVIOUS
    <3> HIDE DEF t
    <3> QED BY <3>1, AfterAvailable
  <2> HIDE DEF t, m
  <2>7. t.shown = {u \in Signals : T[u] # Unregistered}
    BY <1>6, <2>2, <2>6
  <2>8. AgreesWith(T, TRUE, t)
    BY <1>8, <2>1, <2>5, <2>6, <2>7
  <2> QED BY <2>5, <2>8 DEF Led, m
<1> QED BY <1>5, <1>9, <1>10

\* remove_local_signal, which a source that makes the second promise never does.
LEMMA Removed ==
  ASSUME NEW P, "domain" \notin P, NEW h, NEW n, NEW R, Registrations(R, n), NEW s \in Signals,
         NEW q \in Seq(Message), NEW T, T = [R EXCEPT ![s] = Unregistered]
  PROVE  /\ Registrations(T, n)
         /\ Led(P, q, R, h) => Led(P, Append(q, UnavailableMsg(s)), T, h)
<1>0. R \in [Signals -> Entry \cup {Unregistered}]
  BY DEF Registrations
<1>1. T[s] = Unregistered /\ (\A u \in Signals : u # s => T[u] = R[u]) /\ T \in [Signals -> Entry \cup {Unregistered}]
  BY <1>0
<1>2. Registrations(T, n)
  BY <1>1 DEF Registrations
<1>3. ASSUME Led(P, q, R, h) PROVE Led(P, Append(q, UnavailableMsg(s)), T, h)
  <2>1. PICK r \in View : Reaches(P, q, r) /\ AgreesWith(R, h, r)
    BY <1>3 DEF Led
  <2> DEFINE m == UnavailableMsg(s)
             t == After(r, m)
  <2>2. Legal(P, r, m) /\ m \in Message
    BY LegalUnavailable, MessagesTyped
  <2>3. Reaches(P, Append(q, m), t) /\ t \in View
    BY <2>1, <2>2, ReachesAppend
  <2>4. /\ t.shown = r.shown \ {s} /\ t.on = r.on \ {s} /\ t.described = r.described \ {s}
        /\ t.number = [r.number EXCEPT ![s] = 0] /\ t.replaced = r.replaced
    <3>1. t = After(r, UnavailableMsg(s))
      OBVIOUS
    <3> HIDE DEF t
    <3> QED BY <3>1, AfterUnavailable
  <2> HIDE DEF t, m
  <2>5. r.number \in [Signals -> Nat] /\ r.on \subseteq Signals
    BY DEF View
  <2>6. t.number[s] = 0 /\ \A u \in Signals : u # s => t.number[u] = r.number[u]
    BY <2>4, <2>5
  <2>7. t.shown = IF h THEN {u \in Signals : T[u] # Unregistered} ELSE {}
    BY <1>1, <2>1, <2>4 DEF AgreesWith
  <2>8. t.on = {u \in Signals : T[u] # Unregistered /\ T[u].hooked}
    BY <1>1, <2>1, <2>4 DEF AgreesWith
  <2>9. t.on \subseteq t.described /\ s \notin t.on
    BY <2>1, <2>4 DEF AgreesWith
  <2>10. AgreesWith(T, h, t)
    BY <1>1, <2>1, <2>4, <2>5, <2>6, <2>7, <2>8, <2>9 DEF AgreesWith
  <2> QED BY <2>3, <2>10 DEF Led, m
<1> QED BY <1>2, <1>3

\* Answers, and data under the number of a signal that is transmitted.
LEMMA Answered ==
  ASSUME NEW P, NEW h, NEW R, NEW q \in Seq(Message), Led(P, q, R, h)
  PROVE  Led(P, Append(q, ResponseMsg), R, h)
<1>1. PICK r \in View : Reaches(P, q, r) /\ AgreesWith(R, h, r)
  BY DEF Led
<1>2. ResponseMsg \in Message /\ Legal(P, r, ResponseMsg) /\ After(r, ResponseMsg) = r
  BY MessagesTyped, LegalPlain, AfterPlain
<1>3. Reaches(P, Append(q, ResponseMsg), r)
  BY <1>1, <1>2, ReachesAppend
<1> QED BY <1>1, <1>3 DEF Led

LEMMA Published ==
  ASSUME NEW P, NEW h, NEW R, NEW q \in Seq(Message), NEW k \in Nat,
         "data" \in P => \E s \in Signals : R[s] # Unregistered /\ R[s].hooked /\ R[s].signo = k
  PROVE  /\ Append(q, DataMsg(k)) \in Seq(Message)
         /\ Led(P, q, R, h) => Led(P, Append(q, DataMsg(k)), R, h)
<1>0. DataMsg(k) \in Message
  BY MessagesTyped
<1>1. ASSUME Led(P, q, R, h) PROVE Led(P, Append(q, DataMsg(k)), R, h)
  <2>1. PICK r \in View : Reaches(P, q, r) /\ AgreesWith(R, h, r)
    BY <1>1 DEF Led
  <2>2. "data" \in P => \E s \in r.on : r.number[s] = k
    BY <2>1 DEF AgreesWith
  <2>3. Legal(P, r, DataMsg(k)) /\ After(r, DataMsg(k)) = r
    BY <2>2, LegalData, AfterPlain
  <2>4. Reaches(P, Append(q, DataMsg(k)), r)
    BY <1>0, <2>1, <2>3, ReachesAppend
  <2> QED BY <2>1, <2>4 DEF Led
<1> QED BY <1>0, <1>1, AppendProperties

\* do_hello.
LEMMA Helloed ==
  ASSUME NEW P, NEW R, NEW q \in Seq(Message), NEW ids, ids = {s \in Signals : R[s] # Unregistered}
  PROVE  /\ Append(q, InitMsg) \in Seq(Message)
         /\ Append(Append(q, InitMsg), AvailableMsg(ids)) \in Seq(Message)
         /\ Led(P, q, R, FALSE) /\ ids = {} => Led(P, Append(q, InitMsg), R, TRUE)
         /\ Led(P, q, R, FALSE) => Led(P, Append(Append(q, InitMsg), AvailableMsg(ids)), R, TRUE)
<1> DEFINE m == AvailableMsg(ids)
           a == Append(q, InitMsg)
<1>0. InitMsg \in Message /\ m \in Message
  BY MessagesTyped
<1> HIDE DEF m
<1>1. a \in Seq(Message) /\ Append(a, m) \in Seq(Message)
  BY <1>0, AppendProperties
<1>2. ASSUME Led(P, q, R, FALSE)
      PROVE  Led(P, Append(a, m), R, TRUE) /\ (ids = {} => Led(P, a, R, TRUE))
  <2>1. PICK r \in View : Reaches(P, q, r) /\ AgreesWith(R, FALSE, r)
    BY <1>2 DEF Led
  <2>2. Legal(P, r, InitMsg) /\ After(r, InitMsg) = r
    BY LegalPlain, AfterPlain
  <2>3. Reaches(P, a, r)
    BY <1>0, <2>1, <2>2, ReachesAppend
  <2> HIDE DEF a
  <2>4. r.shown = {}
    BY <2>1 DEF AgreesWith
  <2> DEFINE t == After(r, m)
  <2>5. Legal(P, r, m)
    BY <2>4, LegalAvailable DEF m
  <2>6. Reaches(P, Append(a, m), t) /\ t \in View
    BY <1>0, <1>1, <2>3, <2>5, ReachesAppend
  <2>7. /\ t.shown = r.shown \cup ids /\ t.on = r.on /\ t.described = r.described
        /\ t.number = r.number /\ t.replaced = r.replaced
    <3>1. t = After(r, AvailableMsg(ids))
      BY DEF m
    <3> HIDE DEF t
    <3> QED BY <3>1, AfterAvailable
  <2> HIDE DEF t
  <2>8. AgreesWith(R, TRUE, t)
    BY <2>1, <2>4, <2>7 DEF AgreesWith
  <2>9. ids = {} => AgreesWith(R, TRUE, r)
    BY <2>1, <2>4 DEF AgreesWith
  <2> QED BY <2>3, <2>6, <2>8, <2>9 DEF Led
<1> QED BY <1>1, <1>2 DEF m
-----------------------------------------------------------------------------
(* The link: the sink follows the source. *)

Requests == [method : {"subscribe", "unsubscribe"}, id : Signals]

SourceKept ==
  /\ Registrations(registered, nextSigno) /\ nextSigno \in 1 .. MaxSigno + 1
  /\ helloSent \in BOOLEAN /\ toSource \in Seq(Requests)

\* With the promises P, what is in flight leads an open sink to what the
\* registrations of an open source say.
Following(P) ==
  /\ SinkKept /\ SourceKept
  /\ sinkOpen => \E r \in View : Reaches(P, toSink, r) /\ r.replaced = {}
  /\ sinkOpen /\ sourceOpen => Led(P, toSink, registered, helloSent)
  /\ ~sinkOpen => Cleared

\* At the source: what is subscribed is hooked, and domain signals are there, and
\* hooked, for their users.
DomainsHeld ==
  \A s \in Signals : IsRegistered(s) =>
    /\ registered[s].hooked <=> Subscribed(registered[s])
    /\ HasDomain(s) => IsRegistered(TableOf[s])
    /\ HasDomain(s) /\ registered[s].hooked => registered[TableOf[s]].hooked

\* What the promises need.
Permits(P) == "data" \in P \/ "domain" \in P => MaxRemovals = 0 /\ removals \in Nat /\ DomainsHeld

\* A step of the source that sends what leads the sink where it goes itself.
LEMMA SourceMoves ==
  ASSUME NEW P, Following(P), UNCHANGED remoteVars, SourceKept', toSink' \in Seq(Message),
         sourceOpen' => sourceOpen, ~sourceOpen' => toSink' = toSink,
         sourceOpen' /\ Led(P, toSink, registered, helloSent) => Led(P, toSink', registered', helloSent')
  PROVE  Following(P)'
<1>1. UNCHANGED <<known, bySigno, nextObject, announced>> /\ sinkOpen' = sinkOpen
  BY DEF remoteVars
<1>2. SinkKept' /\ (Cleared => Cleared')
  BY <1>1 DEF Following, SinkKept, EntriesTyped, AnnouncedExactly, IsKnown, Cleared
<1>3. ASSUME sinkOpen, sourceOpen' PROVE Led(P, toSink, registered, helloSent)'
  <2>1. Led(P, toSink', registered', helloSent')
    BY <1>3 DEF Following
  <2>2. PICK r \in View : Reaches(P, toSink', r) /\ AgreesWith(registered', helloSent', r)
    BY <2>1 DEF Led
  <2>3. Reaches(P, toSink, r)'
    BY <1>1, <2>2, SinkUnmoved
  <2>4. AgreesWith(registered, helloSent, r)'
    BY <2>2 DEF AgreesWith
  <2> QED BY <2>3, <2>4 DEF Led
<1>4. ASSUME sinkOpen PROVE (\E r \in View : Reaches(P, toSink, r) /\ r.replaced = {})'
  <2>1. CASE sourceOpen'
    BY <1>3, <1>4, <2>1 DEF Led, AgreesWith
  <2>2. CASE ~sourceOpen'
    <3>1. PICK r \in View : Reaches(P, toSink', r) /\ r.replaced = {}
      BY <1>4, <2>2 DEF Following
    <3>2. Reaches(P, toSink, r)'
      BY <1>1, <3>1, SinkUnmoved
    <3> QED BY <3>1, <3>2
  <2> QED BY <2>1, <2>2
<1> QED BY <1>1, <1>2, <1>3, <1>4 DEF Following

LEMMA AddFollowing ==
  ASSUME NEW P, Following(P), NEW s \in Signals, AddLocalSignal(s), UNCHANGED remoteVars
  PROVE  Following(P)'
<1>1. PICK n \in Nat \ {0} : n = nextSigno
  BY LocalAssumption DEF Following, SourceKept
<1>2. PICK R : R = registered
  OBVIOUS
<1>3. PICK q \in Seq(Message) : q = toSink
  BY DEF Following, SinkKept
<1>4. PICK e : e = Registration(s)
  OBVIOUS
<1>5. Registrations(R, n) /\ R[s] = Unregistered /\ n <= MaxSigno /\ nextSigno' = n + 1
  BY <1>1, <1>2 DEF Following, SourceKept, AddLocalSignal, IsRegistered
<1>6. DomainSigno(registered, s) \in Nat
  <2>1. HasDomain(s) => registered[TableOf[s]].signo \in Nat
    BY <1>2, <1>5, DomainOf, EntryOf
  <2> QED BY <2>1 DEF DomainSigno
<1>7. e \in Entry /\ e.signo = n /\ ~e.hooked
  <2>1. 0 \in 0 .. CountModulus - 1
    <3>1. Cardinality(Signals) \in Nat
      BY TableAssumption, FS_CardinalityType
    <3> QED BY <3>1, LocalAssumption
  <2> QED BY <1>1, <1>4, <1>6, <2>1 DEF Registration, Entry
<1>8. PICK T : T = [R EXCEPT ![s] = e]
  OBVIOUS
<1>9. registered' = T
  BY <1>2, <1>4, <1>8 DEF AddLocalSignal
<1>10. /\ Registrations(T, n + 1)
       /\ Led(P, q, R, FALSE) => Led(P, q, T, FALSE)
       /\ Led(P, q, R, TRUE) => Led(P, Append(q, AvailableMsg({s})), T, TRUE)
  BY <1>5, <1>7, <1>8, Added
<1>11. helloSent \in BOOLEAN /\ UNCHANGED <<helloSent, sourceOpen, toSource>> /\ toSource \in Seq(Requests)
  BY DEF Following, SourceKept, AddLocalSignal
<1>12. SourceKept'
  BY <1>1, <1>5, <1>9, <1>10, <1>11, LocalAssumption DEF SourceKept
<1>13. q \o <<AvailableMsg({s})>> = Append(q, AvailableMsg({s})) /\ Append(q, AvailableMsg({s})) \in Seq(Message)
  BY MessagesTyped, ConcatOne
<1>14. toSink' = IF helloSent /\ sourceOpen THEN Append(q, AvailableMsg({s})) ELSE q
  BY <1>3, <1>13 DEF AddLocalSignal, Send
<1>15. toSink' \in Seq(Message) /\ (~sourceOpen' => toSink' = toSink)
  BY <1>3, <1>11, <1>13, <1>14
<1>16. sourceOpen' /\ Led(P, toSink, registered, helloSent) => Led(P, toSink', registered', helloSent')
  <2>1. CASE helloSent
    BY <1>2, <1>3, <1>9, <1>10, <1>11, <1>14, <2>1
  <2>2. CASE ~helloSent
    BY <1>2, <1>3, <1>9, <1>10, <1>11, <1>14, <2>2
  <2> QED BY <2>1, <2>2
<1> QED BY <1>11, <1>12, <1>15, <1>16, SourceMoves

LEMMA RemoveFollowing ==
  ASSUME NEW P, Following(P), "domain" \notin P, NEW s \in Signals, RemoveLocalSignal(s), UNCHANGED remoteVars
  PROVE  Following(P)'
<1>1. PICK R : R = registered
  OBVIOUS
<1>2. PICK n : n = nextSigno
  OBVIOUS
<1>3. PICK q \in Seq(Message) : q = toSink
  BY DEF Following, SinkKept
<1>4. PICK T : T = [R EXCEPT ![s] = Unregistered]
  OBVIOUS
<1>5. PICK h : h = helloSent
  OBVIOUS
<1>6. Registrations(R, n)
  BY <1>1, <1>2 DEF Following, SourceKept
<1>7. /\ Registrations(T, n)
      /\ Led(P, q, R, h) => Led(P, Append(q, UnavailableMsg(s)), T, h)
  BY <1>4, <1>6, Removed
<1>8. registered' = T /\ UNCHANGED <<nextSigno, helloSent, sourceOpen, toSource>>
  BY <1>1, <1>4 DEF RemoveLocalSignal
<1>9. SourceKept'
  BY <1>2, <1>7, <1>8 DEF Following, SourceKept
<1>10. q \o <<UnavailableMsg(s)>> = Append(q, UnavailableMsg(s)) /\ Append(q, UnavailableMsg(s)) \in Seq(Message)
  BY MessagesTyped, ConcatOne
<1>11. toSink' = IF sourceOpen THEN Append(q, UnavailableMsg(s)) ELSE q
  BY <1>3, <1>10 DEF RemoveLocalSignal, Send
<1>12. toSink' \in Seq(Message) /\ (~sourceOpen' => toSink' = toSink)
  BY <1>3, <1>8, <1>10, <1>11
<1>13. sourceOpen' /\ Led(P, toSink, registered, helloSent) => Led(P, toSink', registered', helloSent')
  BY <1>1, <1>3, <1>5, <1>7, <1>8, <1>11
<1> QED BY <1>8, <1>9, <1>12, <1>13, SourceMoves

LEMMA PublishFollowing ==
  ASSUME NEW P, Following(P), Permits(P), NEW s \in Signals, NEW jump, Publish(s, jump), UNCHANGED remoteVars
  PROVE  Following(P)'
<1>1. PICK R : R = registered
  OBVIOUS
<1>2. PICK n : n = nextSigno
  OBVIOUS
<1>3. PICK q \in Seq(Message) : q = toSink
  BY DEF Following, SinkKept
<1>4. PICK h : h = helloSent
  OBVIOUS
<1>5. PICK d : d = R[s].domain
  OBVIOUS
<1>6. PICK k : k = R[s].signo
  OBVIOUS
<1>7. /\ Registrations(R, n) /\ R[s] # Unregistered /\ R[s].hooked /\ sourceOpen
      /\ UNCHANGED <<registered, nextSigno, helloSent, sourceOpen, toSource>>
      /\ jump => HasDomain(s) /\ R[TableOf[s]] # Unregistered /\ R[TableOf[s]].signo = d
      /\ toSink' = q \o (IF jump THEN <<DataMsg(d)>> ELSE <<>>) \o <<DataMsg(k)>>
  BY <1>1, <1>2, <1>3, <1>5, <1>6 DEF Following, SourceKept, Publish, IsRegistered, localVars
<1>8. k \in Nat /\ \E u \in Signals : R[u] # Unregistered /\ R[u].hooked /\ R[u].signo = k
  BY <1>6, <1>7, EntryOf
<1>9. ASSUME jump
      PROVE  d \in Nat /\ ("data" \in P => \E u \in Signals : R[u] # Unregistered /\ R[u].hooked /\ R[u].signo = d)
  <2>1. TableOf[s] \in Signals
    BY <1>7, <1>9, DomainOf
  <2>2. "data" \in P => R[TableOf[s]].hooked
    BY <1>1, <1>7, <1>9 DEF Permits, DomainsHeld, IsRegistered
  <2> QED BY <1>7, <1>9, <2>1, <2>2, EntryOf
<1>10. \A q1 \in Seq(Message) :
         /\ q1 \o <<DataMsg(k)>> = Append(q1, DataMsg(k))
         /\ Append(q1, DataMsg(k)) \in Seq(Message)
         /\ Led(P, q1, R, h) => Led(P, Append(q1, DataMsg(k)), R, h)
  BY <1>8, Published, MessagesTyped, ConcatOne
<1>11. toSink' \in Seq(Message) /\ (Led(P, q, R, h) => Led(P, toSink', R, h))
  <2>1. CASE ~jump
    <3>1. q \o <<>> = q
      BY ConcatEmptySeq
    <3>2. toSink' = q \o <<DataMsg(k)>>
      BY <1>7, <2>1, <3>1
    <3> QED BY <1>10, <3>2
  <2>2. CASE jump
    <3>1. PICK q1 : q1 = Append(q, DataMsg(d))
      OBVIOUS
    <3>2. q1 \in Seq(Message) /\ (Led(P, q, R, h) => Led(P, q1, R, h))
      BY <1>9, <2>2, <3>1, Published
    <3>3. q \o <<DataMsg(d)>> = q1
      BY <1>9, <2>2, <3>1, MessagesTyped, ConcatOne
    <3>4. toSink' = q1 \o <<DataMsg(k)>>
      BY <1>7, <2>2, <3>3
    <3> QED BY <1>10, <3>2, <3>4
  <2> QED BY <2>1, <2>2
<1>12. SourceKept'
  BY <1>7 DEF Following, SourceKept
<1> QED BY <1>1, <1>3, <1>4, <1>7, <1>11, <1>12, SourceMoves

LEMMA HelloFollowing ==
  ASSUME NEW P, Following(P), Hello, UNCHANGED remoteVars
  PROVE  Following(P)'
<1>1. PICK R : R = registered
  OBVIOUS
<1>2. PICK q \in Seq(Message) : q = toSink
  BY DEF Following, SinkKept
<1>3. PICK ids : ids = {s \in Signals : R[s] # Unregistered}
  OBVIOUS
<1>4. /\ sourceOpen /\ ~helloSent /\ helloSent' = TRUE /\ UNCHANGED <<registered, nextSigno, sourceOpen, toSource>>
      /\ toSink' = q \o <<InitMsg>> \o (IF ids = {} THEN <<>> ELSE <<AvailableMsg(ids)>>)
  BY <1>1, <1>2, <1>3 DEF Hello, IsRegistered
<1>5. helloSent = FALSE
  BY <1>4 DEF Following, SourceKept
<1>6. PICK a : a = Append(q, InitMsg)
  OBVIOUS
<1>7. /\ a \in Seq(Message) /\ Append(a, AvailableMsg(ids)) \in Seq(Message)
      /\ Led(P, q, R, FALSE) /\ ids = {} => Led(P, a, R, TRUE)
      /\ Led(P, q, R, FALSE) => Led(P, Append(a, AvailableMsg(ids)), R, TRUE)
  BY <1>3, <1>6, Helloed
<1>8. toSink' = IF ids = {} THEN a ELSE Append(a, AvailableMsg(ids))
  <2>1. q \o <<InitMsg>> = a
    BY <1>6, MessagesTyped, ConcatOne
  <2>2. a \o <<>> = a
    BY <1>7, ConcatEmptySeq
  <2>3. a \o <<AvailableMsg(ids)>> = Append(a, AvailableMsg(ids))
    BY <1>3, <1>7, MessagesTyped, ConcatOne
  <2> QED BY <1>4, <2>1, <2>2, <2>3
<1>9. toSink' \in Seq(Message) /\ (Led(P, q, R, FALSE) => Led(P, toSink', R, TRUE))
  BY <1>7, <1>8
<1>10. SourceKept'
  BY <1>4 DEF Following, SourceKept
<1> QED BY <1>1, <1>2, <1>4, <1>5, <1>9, <1>10, SourceMoves

LEMMA SourceClosedFollowing ==
  ASSUME NEW P, Following(P), SourceClosed, UNCHANGED remoteVars
  PROVE  Following(P)'
<1>1. /\ ~sourceOpen' /\ toSink' = toSink /\ toSource' = <<>> /\ UNCHANGED <<nextSigno, helloSent>>
      /\ registered' = [s \in Signals |-> Unregistered] /\ sourceOpen
  BY DEF SourceClosed, ClearLocalSignals
<1>2. SourceKept'
  BY <1>1 DEF Following, SourceKept, Registrations
<1>3. toSink' \in Seq(Message)
  BY <1>1 DEF Following, SinkKept
<1> QED BY <1>1, <1>2, <1>3, SourceMoves

\* The request at the head of the queue, and what handling it comes to.
RequestResult(R, request) ==
  IF request.method = "subscribe" THEN SubscribeExplicit(R, request.id) ELSE UnsubscribeExplicit(R, request.id)

Handled(P, q, R, request, o) ==
  /\ q = toSink /\ R = registered /\ request = Head(toSource)
  /\ q \in Seq(Message) /\ request \in Requests
  /\ Registrations(o.reg, nextSigno) /\ o.sent \in Seq(Message) /\ Plain(o.sent)
  /\ Led(P, q, R, helloSent) => Led(P, q \o o.sent, o.reg, helloSent)
  /\ request.method = "subscribe" => SubscribeEffect(R, request.id, o)
  /\ request.method # "subscribe" => UnsubscribeEffect(R, request.id, o)
  /\ sourceOpen /\ toSource # <<>> /\ toSource' = Tail(toSource) /\ registered' = o.reg
  /\ q \o o.sent \in Seq(Message) /\ toSink' = Append(q \o o.sent, ResponseMsg)
  /\ UNCHANGED <<nextSigno, helloSent, sourceOpen>>

LEMMA RequestOutcome ==
  ASSUME NEW P, Following(P), Permits(P), HandleRequest
  PROVE  \E q, R, request, o : Handled(P, q, R, request, o)
<1>1. PICK R : R = registered
  OBVIOUS
<1>2. PICK n : n = nextSigno
  OBVIOUS
<1>3. PICK q \in Seq(Message) : q = toSink
  BY DEF Following, SinkKept
<1>4. PICK h : h = helloSent
  OBVIOUS
<1>5. toSource # <<>> /\ toSource \in Seq(Requests) /\ Registrations(R, n)
  BY <1>1, <1>2 DEF HandleRequest, Following, SourceKept
<1>6. PICK request \in Requests : request = Head(toSource)
  BY <1>5, HeadTailProperties
<1>7. PICK s \in Signals : s = request.id
  BY DEF Requests
<1>8. PICK o : o = RequestResult(R, request)
  OBVIOUS
<1>9. /\ sourceOpen /\ toSource' = Tail(toSource) /\ registered' = o.reg
      /\ toSink' = q \o o.sent \o <<ResponseMsg>> /\ UNCHANGED <<nextSigno, helloSent, sourceOpen>>
  BY <1>1, <1>3, <1>6, <1>8 DEF HandleRequest, RequestResult
<1>10. CASE request.method = "subscribe"
  <2>1. o = SubscribeExplicit(R, s)
    BY <1>7, <1>8, <1>10 DEF RequestResult
  <2>2. ("domain" \in P /\ HasDomain(s) /\ R[s] # Unregistered) =>
            R[TableOf[s]] # Unregistered /\ (Subscribed(R[TableOf[s]]) => R[TableOf[s]].hooked)
    BY <1>1, DomainOf DEF Permits, DomainsHeld, IsRegistered
  <2>3. Outcome(P, h, n, q, R, o) /\ SubscribeEffect(R, s, o)
    BY <1>5, <2>1, <2>2, SubscribeExplicitCall
  <2>4. /\ Registrations(o.reg, n) /\ o.sent \in Seq(Message) /\ Plain(o.sent)
        /\ Led(P, q, R, h) => Led(P, q \o o.sent, o.reg, h)
    BY <2>3 DEF Outcome
  <2>5. q \o o.sent \in Seq(Message)
    BY <2>4, ConcatProperties
  <2>6. (q \o o.sent) \o <<ResponseMsg>> = Append(q \o o.sent, ResponseMsg)
    BY <2>5, MessagesTyped, ConcatOne
  <2>7. Handled(P, q, R, request, o)
    BY <1>1, <1>2, <1>3, <1>4, <1>5, <1>6, <1>7, <1>9, <1>10, <2>3, <2>4, <2>5, <2>6 DEF Handled
  <2> QED BY <2>7
<1>11. CASE request.method # "subscribe"
  <2>1. o = UnsubscribeExplicit(R, s)
    BY <1>7, <1>8, <1>11 DEF RequestResult
  <2>3. Outcome(P, h, n, q, R, o) /\ UnsubscribeEffect(R, s, o)
    BY <1>5, <2>1, UnsubscribeExplicitCall
  <2>4. /\ Registrations(o.reg, n) /\ o.sent \in Seq(Message) /\ Plain(o.sent)
        /\ Led(P, q, R, h) => Led(P, q \o o.sent, o.reg, h)
    BY <2>3 DEF Outcome
  <2>5. q \o o.sent \in Seq(Message)
    BY <2>4, ConcatProperties
  <2>6. (q \o o.sent) \o <<ResponseMsg>> = Append(q \o o.sent, ResponseMsg)
    BY <2>5, MessagesTyped, ConcatOne
  <2>7. Handled(P, q, R, request, o)
    BY <1>1, <1>2, <1>3, <1>4, <1>5, <1>6, <1>7, <1>9, <1>11, <2>3, <2>4, <2>5, <2>6 DEF Handled
  <2> QED BY <2>7
<1> QED BY <1>10, <1>11

LEMMA RequestFollowing ==
  ASSUME NEW P, Following(P), Permits(P), HandleRequest, UNCHANGED remoteVars
  PROVE  Following(P)'
<1>0. PICK q, R, request, o : Handled(P, q, R, request, o)
  BY RequestOutcome
<1>1. /\ q = toSink /\ R = registered
      /\ Registrations(o.reg, nextSigno)
      /\ Led(P, q, R, helloSent) => Led(P, q \o o.sent, o.reg, helloSent)
      /\ sourceOpen /\ toSource # <<>> /\ toSource' = Tail(toSource) /\ registered' = o.reg
      /\ q \o o.sent \in Seq(Message) /\ toSink' = Append(q \o o.sent, ResponseMsg)
      /\ UNCHANGED <<nextSigno, helloSent, sourceOpen>>
  BY <1>0 DEF Handled
<1>2. PICK q1 \in Seq(Message) : q1 = q \o o.sent
  BY <1>1
<1>3. PICK h : h = helloSent
  OBVIOUS
<1>4. PICK T : T = o.reg
  OBVIOUS
<1>5. Led(P, q1, T, h) => Led(P, Append(q1, ResponseMsg), T, h)
  BY Answered
<1>6. toSink' \in Seq(Message)
  BY <1>1, <1>2, MessagesTyped, AppendProperties
<1>7. toSource' \in Seq(Requests)
  BY <1>1, HeadTailProperties DEF Following, SourceKept
<1>8. SourceKept'
  BY <1>1, <1>7 DEF Following, SourceKept
<1>9. Led(P, toSink, registered, helloSent) => Led(P, toSink', registered', helloSent')
  BY <1>1, <1>2, <1>3, <1>4, <1>5
<1> QED BY <1>1, <1>6, <1>8, <1>9, SourceMoves

\* The steps of the sink.
LEMMA SinkHandlesFollowing ==
  ASSUME NEW P, Following(P), SinkHandles, UNCHANGED localVars
  PROVE  Following(P)'
<1>1. sinkOpen /\ sinkOpen' = sinkOpen /\ toSource' = toSource
  BY ReceiveShortens
<1>2. UNCHANGED <<registered, nextSigno, helloSent, sourceOpen>> /\ toSink \in Seq(Message)
  BY DEF localVars, Following, SinkKept
<1>3. ASSUME NEW r \in View, Reaches(P, toSink, r)
      PROVE  Reaches(P, toSink, r)' /\ toSink' \in Seq(Message)
  BY <1>2, <1>3, SinkHandlesSound
<1>4. PICK r \in View : Reaches(P, toSink, r)' /\ r.replaced = {}
  BY <1>1, <1>3 DEF Following
<1>5. toSink' \in Seq(Message)
  BY <1>1, <1>3 DEF Following
<1>6. EntriesTyped' /\ AnnouncedExactly'
  BY <1>4 DEF Reaches, SinkSound
<1>7. ASSUME sourceOpen PROVE Led(P, toSink, registered, helloSent)'
  <2>1. PICK t \in View : Reaches(P, toSink, t) /\ AgreesWith(registered, helloSent, t)
    BY <1>1, <1>7 DEF Following, Led
  <2>2. Reaches(P, toSink, t)'
    BY <1>3, <2>1
  <2>3. AgreesWith(registered, helloSent, t)'
    BY <1>2, <2>1 DEF AgreesWith
  <2> QED BY <2>2, <2>3 DEF Led
<1>8. SourceKept'
  BY <1>1, <1>2 DEF Following, SourceKept
<1> QED BY <1>1, <1>2, <1>4, <1>5, <1>6, <1>7, <1>8 DEF Following, SinkKept

LEMMA SinkAppFollowing ==
  ASSUME NEW P, Following(P), NEW s \in Signals, AppSubscribe(s) \/ AppUnsubscribe(s), UNCHANGED localVars
  PROVE  Following(P)'
<1>1. sinkOpen /\ sinkOpen' = sinkOpen /\ toSink' = toSink
  BY DEF AppSubscribe, AppUnsubscribe
<1>2. UNCHANGED <<registered, nextSigno, helloSent, sourceOpen>> /\ toSink' \in Seq(Message)
  BY <1>1 DEF localVars, Following, SinkKept
<1>3. ASSUME NEW r \in View, Reaches(P, toSink, r) PROVE Reaches(P, toSink, r)'
  BY <1>3, AppCallSound
<1>4. PICK r \in View : Reaches(P, toSink, r)' /\ r.replaced = {}
  BY <1>1, <1>3 DEF Following
<1>5. EntriesTyped' /\ AnnouncedExactly'
  BY <1>4 DEF Reaches, SinkSound
<1>6. ASSUME sourceOpen PROVE Led(P, toSink, registered, helloSent)'
  <2>1. PICK t \in View : Reaches(P, toSink, t) /\ AgreesWith(registered, helloSent, t)
    BY <1>1, <1>6 DEF Following, Led
  <2>2. Reaches(P, toSink, t)'
    BY <1>3, <2>1
  <2>3. AgreesWith(registered, helloSent, t)'
    BY <1>2, <2>1 DEF AgreesWith
  <2> QED BY <2>2, <2>3 DEF Led
<1>7. toSource' \in Seq(Requests)
  <2>1. toSource \in Seq(Requests)
    BY DEF Following, SourceKept
  <2>2. Request("subscribe", s) \in Requests /\ Request("unsubscribe", s) \in Requests
    BY DEF Request, Requests
  <2>3. \/ toSource' = toSource
        \/ toSource' = Append(toSource, Request("subscribe", s))
        \/ toSource' = Append(toSource, Request("unsubscribe", s))
    BY DEF AppSubscribe, AppUnsubscribe, Ask
  <2> QED BY <2>1, <2>2, <2>3, AppendProperties
<1>8. SourceKept'
  BY <1>2, <1>7 DEF Following, SourceKept
<1> QED BY <1>1, <1>2, <1>4, <1>5, <1>6, <1>8 DEF Following, SinkKept

LEMMA SinkClosedFollowing ==
  ASSUME NEW P, Following(P), SinkClosed, UNCHANGED localVars
  PROVE  Following(P)'
<1>1. EntriesTyped' /\ AnnouncedExactly' /\ Cleared'
  BY SinkClosedSound DEF Following, SinkKept
<1>2. ~sinkOpen' /\ toSink' = toSink /\ toSource' = toSource
  BY DEF SinkClosed
<1>3. SourceKept'
  BY <1>2 DEF Following, SourceKept, localVars
<1> QED BY <1>1, <1>2, <1>3 DEF Following, SinkKept

LEMMA InitFollowing ==
  ASSUME NEW P, Init
  PROVE  Following(P)
<1>1. /\ RemoteInit /\ toSink = <<>> /\ toSource = <<>> /\ sinkOpen
      /\ registered = [s \in Signals |-> Unregistered] /\ nextSigno = 1 /\ helloSent = FALSE
  BY DEF Init, RemoteInit, LocalInit
<1>2. PICK p \in View : /\ SinkSound(p) /\ p.shown = {} /\ p.on = {}
                       /\ p.number = [s \in Signals |-> 0] /\ p.replaced = {}
  BY <1>1, SinkInitSound
<1>3. Reaches(P, toSink, p) /\ toSink \in Seq(Message)
  BY <1>1, <1>2, LeadsEmpty DEF Reaches
<1>4. AgreesWith(registered, helloSent, p)
  BY <1>1, <1>2 DEF AgreesWith
<1>5. SourceKept
  <2>1. Registrations(registered, nextSigno)
    BY <1>1 DEF Registrations
  <2>2. nextSigno \in 1 .. MaxSigno + 1
    BY <1>1, LocalAssumption
  <2>3. toSource \in Seq(Requests)
    BY <1>1
  <2> QED BY <1>1, <2>1, <2>2, <2>3 DEF SourceKept
<1>6. EntriesTyped /\ AnnouncedExactly
  BY <1>2 DEF SinkSound
<1>7. /\ \E r \in View : Reaches(P, toSink, r) /\ r.replaced = {}
      /\ Led(P, toSink, registered, helloSent)
  BY <1>2, <1>3, <1>4 DEF Led
<1> QED BY <1>1, <1>3, <1>5, <1>6, <1>7 DEF Following, SinkKept

\* Every step of the link.
LEMMA NextFollowing ==
  ASSUME NEW P, Following(P), Permits(P), [Next]_vars
  PROVE  Following(P)'
<1>1. CASE SourceApp
  <2>0. UNCHANGED remoteVars
    BY <1>1 DEF SourceApp
  <2>1. CASE \E s \in Signals : AddLocalSignal(s)
    BY <2>0, <2>1, AddFollowing
  <2>2. CASE \E s \in Signals : RemoveLocalSignal(s) /\ removals < MaxRemovals
    <3>1. "domain" \notin P
      BY <2>2 DEF Permits
    <3> QED BY <2>0, <2>2, <3>1, RemoveFollowing
  <2>3. CASE \E s \in Signals, jump \in BOOLEAN : Publish(s, jump)
    BY <2>0, <2>3, PublishFollowing
  <2>4. CASE Hello
    BY <2>0, <2>4, HelloFollowing
  <2> QED BY <1>1, <2>1, <2>2, <2>3, <2>4 DEF SourceApp
<1>2. CASE Source
  BY <1>2, RequestFollowing DEF Source
<1>3. CASE SinkApp
  BY <1>3, SinkAppFollowing DEF SinkApp
<1>4. CASE Sink
  BY <1>4, SinkHandlesFollowing DEF Sink, SinkHandles
<1>5. CASE Disconnect
  BY <1>5, SourceClosedFollowing, SinkClosedFollowing DEF Disconnect
<1>6. CASE UNCHANGED vars
  <2>1. /\ UNCHANGED remoteVars /\ UNCHANGED <<registered, nextSigno, helloSent, sourceOpen>>
        /\ toSink' = toSink /\ toSource' = toSource
    BY <1>6 DEF vars, localVars
  <2>2. SourceKept' /\ toSink' \in Seq(Message)
    BY <2>1 DEF Following, SinkKept, SourceKept
  <2>3. Led(P, toSink, registered, helloSent) => Led(P, toSink', registered', helloSent')
    BY <2>1
  <2> QED BY <2>1, <2>2, <2>3, SourceMoves
<1> QED BY <1>1, <1>2, <1>3, <1>4, <1>5, <1>6 DEF Next
-----------------------------------------------------------------------------
(* Requests and their answers. *)

Responses(q) == {i \in DOMAIN q : q[i].kind = "response"}

LEMMA ResponsesCounted ==
  ASSUME NEW q \in Seq(Message)
  PROVE  /\ IsFiniteSet(Responses(q)) /\ Cardinality(Responses(q)) \in Nat
         /\ \A i \in Responses(q) : i \in 1 .. Len(q)
<1>1. DOMAIN q = 1 .. Len(q) /\ Len(q) \in Nat
  BY LenProperties
<1>2. IsFiniteSet(1 .. Len(q))
  BY <1>1, FS_Interval
<1>3. Responses(q) \subseteq 1 .. Len(q)
  BY <1>1 DEF Responses
<1> QED BY <1>2, <1>3, FS_Subset, FS_CardinalityType

\* An answer at the end.
LEMMA ResponseAppended ==
  ASSUME NEW q \in Seq(Message)
  PROVE  Cardinality(Responses(Append(q, ResponseMsg))) = Cardinality(Responses(q)) + 1
<1> DEFINE n == Len(q)
           a == Append(q, ResponseMsg)
<1>1. /\ n \in Nat /\ DOMAIN q = 1 .. n /\ Len(a) = n + 1 /\ a[n + 1] = ResponseMsg
      /\ \A i \in 1 .. n : a[i] = q[i]
      /\ a \in Seq(Message)
  BY LenProperties, MessagesTyped, AppendProperties
<1>2. DOMAIN a = 1 .. n + 1
  BY <1>1, LenProperties
<1> HIDE DEF a
<1>3. ResponseMsg.kind = "response"
  BY DEF ResponseMsg
<1>4. Responses(a) = Responses(q) \cup {n + 1} /\ n + 1 \notin Responses(q)
  BY <1>1, <1>2, <1>3 DEF Responses
<1> QED BY <1>4, ResponsesCounted, FS_AddElement DEF a

\* Other messages at the end.
LEMMA QuietAppended ==
  ASSUME NEW q \in Seq(Message), NEW u \in Seq(Message), Quiet(u)
  PROVE  Responses(q \o u) = Responses(q)
<1>1. /\ Len(q \o u) = Len(q) + Len(u) /\ Len(q) \in Nat /\ Len(u) \in Nat /\ q \o u \in Seq(Message)
      /\ \A i \in 1 .. Len(q) + Len(u) : (q \o u)[i] = IF i <= Len(q) THEN q[i] ELSE u[i - Len(q)]
  BY ConcatProperties, LenProperties
<1>2. DOMAIN (q \o u) = 1 .. Len(q) + Len(u) /\ DOMAIN q = 1 .. Len(q)
  BY <1>1, LenProperties
<1>3. ASSUME NEW i \in 1 .. Len(q) + Len(u), ~(i <= Len(q))
      PROVE  (q \o u)[i].kind # "response"
  <2>1. i - Len(q) \in 1 .. Len(u)
    BY <1>1, <1>3
  <2> QED BY <1>1, <1>3, <2>1 DEF Quiet
<1>4. \A i \in 1 .. Len(q) : (q \o u)[i] = q[i]
  BY <1>1
<1>5. \A i : i \in Responses(q \o u) <=> i \in Responses(q)
  BY <1>1, <1>2, <1>3, <1>4 DEF Responses
<1> QED BY <1>5

\* The sink takes the first message.
LEMMA ResponsesTail ==
  ASSUME NEW q \in Seq(Message), q # <<>>
  PROVE  Cardinality(Responses(Tail(q))) =
           IF Head(q).kind = "response" THEN Cardinality(Responses(q)) - 1 ELSE Cardinality(Responses(q))
<1> DEFINE n == Len(q)
           R == Responses(q)
           T == Responses(Tail(q))
<1>1. /\ n \in Nat \ {0} /\ Len(Tail(q)) = n - 1 /\ Head(q) = q[1] /\ Tail(q) \in Seq(Message)
      /\ \A i \in 1 .. n - 1 : Tail(q)[i] = q[i + 1]
  BY HeadTailProperties
<1>2. DOMAIN q = 1 .. n /\ DOMAIN Tail(q) = 1 .. n - 1
  BY <1>1, LenProperties
<1>3. IsFiniteSet(R) /\ Cardinality(R) \in Nat /\ IsFiniteSet(T)
  BY <1>1, ResponsesCounted
<1>4. 1 \in R <=> Head(q).kind = "response"
  BY <1>1, <1>2 DEF Responses
<1>5. \A i \in R \ {1} : i - 1 \in T /\ i \in Int
  BY <1>1, <1>2 DEF Responses
<1>6. \A j \in T : j \in Int /\ j + 1 \in R \ {1}
  BY <1>1, <1>2 DEF Responses
<1> HIDE DEF R, T
<1>7. IsFiniteSet(R \ {1})
  BY <1>3, FS_Subset
<1>8. Cardinality(R \ {1}) = Cardinality(T)
  <2> DEFINE f == [i \in R \ {1} |-> i - 1]
  <2>1. f \in [R \ {1} -> T]
    BY <1>5
  <2>2. \A i, j \in R \ {1} : f[i] = f[j] => i = j
    BY <1>5
  <2>3. ASSUME NEW j \in T PROVE \E i \in R \ {1} : f[i] = j
    <3>1. j + 1 \in R \ {1} /\ f[j + 1] = j
      BY <1>6
    <3> QED BY <3>1
  <2> HIDE DEF f
  <2>4. f \in Bijection(R \ {1}, T)
    BY <2>1, <2>2, <2>3 DEF Bijection, Injection, Surjection, IsInjective
  <2> QED BY <1>7, <2>4, FS_Bijection DEF ExistsBijection
<1>9. Cardinality(R \ {1}) = IF 1 \in R THEN Cardinality(R) - 1 ELSE Cardinality(R)
  BY <1>3, FS_RemoveElement
<1> QED BY <1>4, <1>8, <1>9 DEF R, T

\* What is pending at the sink has its request or its answer in flight.
Answering ==
  /\ pending \in Nat
  /\ sinkOpen => Cardinality(Responses(toSink)) <= pending
  /\ sinkOpen /\ sourceOpen => pending = Len(toSource) + Cardinality(Responses(toSink))

\* Messages that are not answers, one or two of them.
LEMMA QuietMessages ==
  ASSUME NEW a \in Message, NEW b \in Message, a.kind # "response", b.kind # "response"
  PROVE  /\ <<a>> \in Seq(Message) /\ Quiet(<<a>>) /\ <<a, b>> \in Seq(Message) /\ Quiet(<<a, b>>)
         /\ <<>> \in Seq(Message) /\ Quiet(<<>>)
BY DEF Quiet

\* publish_data sends one or two packets of data.
LEMMA PublishSends ==
  ASSUME toSink \in Seq(Message), Registrations(registered, nextSigno),
         NEW s \in Signals, NEW jump \in BOOLEAN, Publish(s, jump)
  PROVE  /\ \E u \in Seq(Message) : Plain(u) /\ toSink' = toSink \o u
         /\ UNCHANGED <<localVars, toSource>>
<1> DEFINE Sent(u) == u \in Seq(Message) /\ Plain(u) /\ toSink' = toSink \o u
<1>1. PICK k \in Nat : k = registered[s].signo
  BY EntryOf
<1>2. PICK b \in Message : b = DataMsg(k)
  BY MessagesTyped
<1>3. b.kind = "data" /\ <<b>> \in Seq(Message) /\ Plain(<<b>>) /\ UNCHANGED <<localVars, toSource>>
  BY <1>2 DEF DataMsg, Plain, Publish
<1>4. CASE ~jump
  <2>1. toSink' = (toSink \o <<>>) \o <<b>> /\ toSink \o <<>> = toSink
    BY <1>1, <1>2, <1>4, ConcatEmptySeq DEF Publish
  <2>2. Sent(<<b>>)
    BY <1>3, <2>1
  <2> QED BY <1>3, <2>2
<1>5. CASE jump
  <2>1. HasDomain(s) /\ registered[TableOf[s]].signo = registered[s].domain
    BY <1>5 DEF Publish
  <2>2. PICK d \in Nat : d = registered[s].domain
    BY <2>1, DomainOf, EntryOf
  <2>3. PICK a \in Message : a = DataMsg(d)
    BY MessagesTyped
  <2>4. <<a, b>> \in Seq(Message) /\ Plain(<<a, b>>)
    BY <1>3, <2>3 DEF DataMsg, Plain
  <2>5. toSink' = (toSink \o <<a>>) \o <<b>>
    BY <1>1, <1>2, <1>5, <2>2, <2>3 DEF Publish
  <2>6. toSink \o <<a>> = Append(toSink, a) /\ Append(toSink, a) \in Seq(Message)
    BY ConcatOne
  <2>7. Append(toSink, a) \o <<b>> = Append(Append(toSink, a), b)
    BY <2>6, ConcatOne
  <2>8. toSink \o <<a, b>> = Append(Append(toSink, a), b)
    BY ConcatTwo
  <2>9. Sent(<<a, b>>)
    BY <2>4, <2>5, <2>6, <2>7, <2>8
  <2> QED BY <1>3, <2>9
<1> QED BY <1>4, <1>5

\* The application of the source sends no answers.
LEMMA SourceAppQuiet ==
  ASSUME SourceApp, SinkKept, SourceKept
  PROVE  /\ \E u \in Seq(Message) : Quiet(u) /\ toSink' = toSink \o u
         /\ UNCHANGED <<toSource, sourceOpen, remoteVars>>
<1> DEFINE Sent(u) == u \in Seq(Message) /\ Quiet(u) /\ toSink' = toSink \o u
<1>0. toSink \in Seq(Message) /\ Registrations(registered, nextSigno) /\ UNCHANGED remoteVars
  BY DEF SinkKept, SourceKept, SourceApp
<1>1. toSink \o <<>> = toSink /\ <<>> \in Seq(Message) /\ Quiet(<<>>)
  BY <1>0, ConcatEmptySeq DEF Quiet
<1>2. ASSUME NEW s \in Signals, AddLocalSignal(s)
      PROVE  (\E u : Sent(u)) /\ UNCHANGED <<toSource, sourceOpen>>
  <2>1. AvailableMsg({s}) \in Message /\ AvailableMsg({s}).kind # "response"
    BY MessagesTyped DEF AvailableMsg
  <2>2. <<AvailableMsg({s})>> \in Seq(Message) /\ Quiet(<<AvailableMsg({s})>>)
    BY <2>1, QuietMessages
  <2>3. toSink' = toSink \/ toSink' = toSink \o <<AvailableMsg({s})>>
    BY <1>2 DEF AddLocalSignal, Send
  <2>4. Sent(<<>>) \/ Sent(<<AvailableMsg({s})>>)
    BY <1>1, <2>2, <2>3
  <2> QED BY <1>2, <2>4 DEF AddLocalSignal
<1>3. ASSUME NEW s \in Signals, RemoveLocalSignal(s)
      PROVE  (\E u : Sent(u)) /\ UNCHANGED <<toSource, sourceOpen>>
  <2>1. UnavailableMsg(s) \in Message /\ UnavailableMsg(s).kind # "response"
    BY MessagesTyped DEF UnavailableMsg
  <2>2. <<UnavailableMsg(s)>> \in Seq(Message) /\ Quiet(<<UnavailableMsg(s)>>)
    BY <2>1, QuietMessages
  <2>3. toSink' = toSink \/ toSink' = toSink \o <<UnavailableMsg(s)>>
    BY <1>3 DEF RemoveLocalSignal, Send
  <2>4. Sent(<<>>) \/ Sent(<<UnavailableMsg(s)>>)
    BY <1>1, <2>2, <2>3
  <2> QED BY <1>3, <2>4 DEF RemoveLocalSignal
<1>4. ASSUME NEW s \in Signals, NEW jump \in BOOLEAN, Publish(s, jump)
      PROVE  (\E u : Sent(u)) /\ UNCHANGED <<toSource, sourceOpen>>
  <2>1. PICK u \in Seq(Message) : Plain(u) /\ toSink' = toSink \o u
    BY <1>0, <1>4, PublishSends
  <2>2. Sent(u)
    BY <2>1 DEF Plain, Quiet
  <2> QED BY <1>4, <2>2 DEF Publish, localVars
<1>5. ASSUME Hello
      PROVE  (\E u : Sent(u)) /\ UNCHANGED <<toSource, sourceOpen>>
  <2>0. PICK ids \in SUBSET Signals : ids = {s \in Signals : IsRegistered(s)}
    OBVIOUS
  <2>1. PICK a \in Message : a = InitMsg
    BY MessagesTyped
  <2>2. PICK b \in Message : b = AvailableMsg(ids)
    BY MessagesTyped
  <2>3. a.kind # "response" /\ b.kind # "response"
    BY <2>1, <2>2 DEF InitMsg, AvailableMsg
  <2>4. /\ <<a>> \in Seq(Message) /\ Quiet(<<a>>) /\ <<a, b>> \in Seq(Message) /\ Quiet(<<a, b>>)
    BY <2>3, QuietMessages
  <2>5. toSink' = (toSink \o <<a>>) \o (IF ids = {} THEN <<>> ELSE <<b>>)
    BY <1>5, <2>0, <2>1, <2>2 DEF Hello
  <2>6. toSink \o <<a>> = Append(toSink, a) /\ Append(toSink, a) \in Seq(Message)
    BY <1>0, ConcatOne
  <2>7. Append(toSink, a) \o <<b>> = Append(Append(toSink, a), b) /\ Append(toSink, a) \o <<>> = Append(toSink, a)
    BY <2>6, ConcatOne, ConcatEmptySeq
  <2>8. toSink \o <<a, b>> = Append(Append(toSink, a), b)
    BY <1>0, ConcatTwo
  <2>9. Sent(<<a>>) \/ Sent(<<a, b>>)
    BY <2>4, <2>5, <2>6, <2>7, <2>8
  <2> QED BY <1>5, <2>9 DEF Hello
<1> QED BY <1>0, <1>2, <1>3, <1>4, <1>5 DEF SourceApp

LEMMA NextAnswering ==
  ASSUME Following({}), Answering, [Next]_vars
  PROVE  Answering'
<1>0. SinkKept /\ SourceKept /\ toSink \in Seq(Message) /\ toSource \in Seq(Requests) /\ Permits({})
  BY DEF Following, SinkKept, SourceKept, Permits
<1>1. Cardinality(Responses(toSink)) \in Nat /\ Len(toSource) \in Nat
  BY <1>0, ResponsesCounted, LenProperties
<1>2. CASE SourceApp
  <2>1. PICK u \in Seq(Message) : Quiet(u) /\ toSink' = toSink \o u
    BY <1>0, <1>2, SourceAppQuiet
  <2>2. UNCHANGED <<toSource, sourceOpen, pending, sinkOpen>>
    BY <1>0, <1>2, SourceAppQuiet DEF remoteVars
  <2>3. Responses(toSink)' = Responses(toSink)
    BY <1>0, <2>1, QuietAppended DEF Responses
  <2> QED BY <2>2, <2>3 DEF Answering
<1>3. CASE Source
  <2>0. HandleRequest /\ UNCHANGED <<pending, sinkOpen>>
    BY <1>3 DEF Source, remoteVars
  <2>1. PICK q, R, request, o : Handled({}, q, R, request, o)
    BY <1>0, <2>0, RequestOutcome
  <2>2. PICK q1 \in Seq(Message) : q1 = q \o o.sent
    BY <2>1 DEF Handled
  <2>3. toSink' = Append(q1, ResponseMsg) /\ toSource' = Tail(toSource) /\ toSource # <<>> /\ sourceOpen
    BY <2>1, <2>2 DEF Handled
  <2>4. Responses(q1) = Responses(toSink)
    BY <2>1, <2>2, QuietAppended DEF Handled, Plain, Quiet
  <2>5. Cardinality(Responses(Append(q1, ResponseMsg))) = Cardinality(Responses(toSink)) + 1
    BY <2>4, ResponseAppended
  <2>6. Cardinality(Responses(toSink))' = Cardinality(Responses(toSink)) + 1
    BY <2>3, <2>5 DEF Responses
  <2>7. Len(toSource') = Len(toSource) - 1 /\ Len(toSource) \in Nat \ {0}
    BY <1>0, <2>3, HeadTailProperties
  <2> QED BY <1>1, <2>0, <2>3, <2>6, <2>7 DEF Answering
<1>4. CASE SinkApp
  <2>0. PICK s \in Signals : AppSubscribe(s) \/ AppUnsubscribe(s)
    BY <1>4 DEF SinkApp
  <2>1. sinkOpen /\ UNCHANGED <<toSink, sinkOpen, sourceOpen>>
    BY <1>4, <2>0 DEF SinkApp, AppSubscribe, AppUnsubscribe, localVars
  <2>2. \/ toSource' = toSource /\ pending' = pending
        \/ pending' = pending + 1 /\ \E m \in {"subscribe", "unsubscribe"} : toSource' = Append(toSource, Request(m, s))
    BY <2>0 DEF AppSubscribe, AppUnsubscribe, Ask
  <2>3. \A m \in {"subscribe", "unsubscribe"} : Request(m, s) \in Requests
    BY DEF Request, Requests
  <2>4. \/ Len(toSource') = Len(toSource) /\ pending' = pending
        \/ Len(toSource') = Len(toSource) + 1 /\ pending' = pending + 1
    BY <1>0, <2>2, <2>3, AppendProperties
  <2>5. Cardinality(Responses(toSink))' = Cardinality(Responses(toSink))
    BY <2>1 DEF Responses
  <2> QED BY <1>1, <2>1, <2>4, <2>5 DEF Answering
<1>5. CASE Sink
  <2>1. SinkHandles /\ sourceOpen' = sourceOpen
    BY <1>5 DEF Sink, SinkHandles, localVars
  <2>2. sinkOpen /\ sinkOpen' = sinkOpen /\ toSink # <<>> /\ toSink' = Tail(toSink) /\ toSource' = toSource
    BY <2>1, ReceiveShortens
  <2>3. pending' = IF Head(toSink).kind = "response" THEN pending - 1 ELSE pending
    BY <2>1 DEF SinkHandles, HandleInit, HandleAvailable, HandleUnavailable, HandleSubscribe,
                HandleUnsubscribe, HandleSignal, HandleData, HandleResponse, Receive, remoteVars
  <2>4. Cardinality(Responses(Tail(toSink))) =
          IF Head(toSink).kind = "response" THEN Cardinality(Responses(toSink)) - 1
                                            ELSE Cardinality(Responses(toSink))
    BY <1>0, <2>2, ResponsesTail
  <2>5. Cardinality(Responses(toSink))' =
          IF Head(toSink).kind = "response" THEN Cardinality(Responses(toSink)) - 1
                                            ELSE Cardinality(Responses(toSink))
    BY <2>2, <2>4 DEF Responses
  <2>6. Cardinality(Responses(toSink))' \in Nat
    <3>1. Tail(toSink) \in Seq(Message)
      BY <1>0, <2>2, HeadTailProperties
    <3>2. Cardinality(Responses(Tail(toSink))) \in Nat
      BY <3>1, ResponsesCounted
    <3> QED BY <2>2, <3>2 DEF Responses
  <2> QED BY <1>1, <2>1, <2>2, <2>3, <2>5, <2>6 DEF Answering
<1>6. CASE Disconnect
  <2>1. CASE SourceClosed
    <3>1. ~sourceOpen' /\ toSink' = toSink /\ UNCHANGED <<pending, sinkOpen>>
      BY <1>6, <2>1 DEF Disconnect, SourceClosed, SinkClosed, localVars, remoteVars
    <3> QED BY <3>1 DEF Answering, Responses
  <2>2. CASE SinkClosed
    BY <2>2 DEF SinkClosed, Answering
  <2> QED BY <1>6, <2>1, <2>2 DEF Disconnect
<1>7. CASE UNCHANGED vars
  BY <1>7 DEF vars, localVars, remoteVars, Answering, Responses
<1> QED BY <1>2, <1>3, <1>4, <1>5, <1>6, <1>7 DEF Next

\* The inductive invariant of every link.
LinkIInv == Following({}) /\ Answering

LEMMA LinkInvariant == Spec => []LinkIInv
<1>1. Init => LinkIInv
  <2> SUFFICES ASSUME Init PROVE LinkIInv
    OBVIOUS
  <2>1. Following({})
    BY InitFollowing
  <2>2. pending = 0 /\ toSink = <<>> /\ toSource = <<>>
    BY DEF Init, RemoteInit
  <2>3. Responses(toSink) = {} /\ Len(toSource) = 0
    BY <2>2 DEF Responses
  <2>4. Answering
    BY <2>2, <2>3, FS_EmptySet DEF Answering
  <2> QED BY <2>1, <2>4 DEF LinkIInv
<1>2. LinkIInv /\ [Next]_vars => LinkIInv'
  <2> SUFFICES ASSUME LinkIInv, [Next]_vars PROVE LinkIInv'
    OBVIOUS
  <2>1. Following({}) /\ Answering /\ Permits({})
    BY DEF LinkIInv, Permits
  <2>2. Following({})'
    BY <2>1, NextFollowing
  <2>3. Answering'
    BY <2>1, NextAnswering
  <2> QED BY <2>2, <2>3 DEF LinkIInv
<1> QED BY <1>1, <1>2, PTL DEF Spec

\* Through every order of adding and removing signals, before and after the hello,
\* the containers of both ends keep their types, no signal number leads the sink to
\* a signal that is gone, and once nothing is in flight the sink shows exactly the
\* registered signals.
THEOREM LinkTheorem == Spec => []LinkInv
<1>1. LinkIInv => LinkInv
  <2> SUFFICES ASSUME LinkIInv PROVE TypeOK /\ NoDanglingSigno /\ AvailabilityAgrees
    BY DEF LinkInv
  <2>1. EntriesTyped /\ Registrations(registered, nextSigno) /\ nextSigno \in 1 .. MaxSigno + 1 /\ pending \in Nat
    BY DEF LinkIInv, Following, SinkKept, SourceKept, Answering
  <2>2. TypeOK
    <3>1. ASSUME NEW s \in Signals, IsKnown(s)
          PROVE  known[s].object \in 1 .. nextObject - 1 /\ known[s].uses \in 0 .. MaxUses
      <4>1. known[s] \in KnownEntry /\ known[s].object < nextObject /\ nextObject \in Nat
        BY <2>1, <3>1, EntryFacts DEF EntriesTyped
      <4> QED BY <4>1 DEF KnownEntry
    <3> QED BY <2>1, <3>1 DEF TypeOK, EntriesTyped, Registrations
  <2>3. NoDanglingSigno
    <3>1. CASE sinkOpen
      <4>1. PICK r \in View : Reaches({}, toSink, r) /\ r.replaced = {}
        BY <3>1 DEF LinkIInv, Following
      <4>2. toSink \in Seq(Message)
        BY DEF LinkIInv, Following, SinkKept
      <4> QED BY <4>1, <4>2, SoundResolves DEF NoDanglingSigno
    <3>2. CASE ~sinkOpen
      BY <3>2 DEF LinkIInv, Following, Cleared, NoDanglingSigno
    <3> QED BY <3>1, <3>2
  <2>4. ASSUME sourceOpen, sinkOpen, helloSent, toSink = <<>>
        PROVE  {s \in Signals : IsKnown(s) /\ ~known[s].hidden} = {s \in Signals : IsRegistered(s)}
    <3>1. PICK r \in View : Reaches({}, <<>>, r) /\ AgreesWith(registered, helloSent, r)
      BY <2>4 DEF LinkIInv, Following, Led
    <3>2. Matches(r)
      BY <3>1, LeadsNowhere DEF Reaches, SinkSound
    <3>3. r.shown = {s \in Signals : IsRegistered(s)}
      BY <2>4, <3>1 DEF AgreesWith, IsRegistered
    <3> QED BY <3>2, <3>3 DEF Matches, MatchesAt
  <2> QED BY <2>2, <2>3, <2>4 DEF AvailabilityAgrees
<1> QED BY <1>1, LinkInvariant, PTL

\* Once nothing is in flight, the sink holds for subscribed exactly the registered
\* signals that the source transmits.
THEOREM SubscriptionTheorem == Spec => []SubscriptionAgrees
<1>1. LinkIInv => SubscriptionAgrees
  <2> SUFFICES ASSUME LinkIInv, sourceOpen, sinkOpen, helloSent, toSink = <<>>,
                      NEW s \in Signals, IsRegistered(s)
               PROVE  known[s].subscribed <=> registered[s].hooked
    BY DEF SubscriptionAgrees
  <2>1. PICK r \in View : Reaches({}, <<>>, r) /\ AgreesWith(registered, helloSent, r)
    BY DEF LinkIInv, Following, Led
  <2>2. Matches(r)
    BY <2>1, LeadsNowhere DEF Reaches, SinkSound
  <2>3. s \in r.shown /\ (s \in r.on <=> registered[s].hooked)
    BY <2>1 DEF AgreesWith, IsRegistered
  <2> QED BY <2>2, <2>3 DEF Matches, MatchesAt
<1> QED BY <1>1, LinkInvariant, PTL

\* While both ends are open every request the sink waits for is on its way to the
\* source, or its only answer on its way back: none is lost or answered twice,
\* whatever happened to the signal it names.
THEOREM RequestsTheorem == Spec => []RequestsAnswered
<1>1. LinkIInv => RequestsAnswered
  BY DEF LinkIInv, Answering, RequestsAnswered, Responses
<1> QED BY <1>1, LinkInvariant, PTL
-----------------------------------------------------------------------------
(* An application that adds domain signals before their users and removes  *)
(* nothing: the counts of implicit subscriptions.                          *)

Steady == MaxRemovals = 0 /\ DomainFirst

\* The transmitted signals whose domain signal is t.
Users(R, t) == {s \in Signals : HasDomain(s) /\ TableOf[s] = t /\ R[s] # Unregistered /\ R[s].hooked}

Held(R) ==
  \A s \in Signals : R[s] # Unregistered =>
    /\ R[s].hooked <=> Subscribed(R[s])
    /\ HasDomain(s) => R[TableOf[s]] # Unregistered
    /\ R[s].implicit = Cardinality(Users(R, s))

Explicit(R) == {s \in Signals : R[s] # Unregistered /\ R[s].explicit}

Reg(R) == {s \in Signals : R[s] # Unregistered}

LEMMA UsersCounted ==
  ASSUME NEW R, NEW t
  PROVE  /\ IsFiniteSet(Users(R, t)) /\ Cardinality(Users(R, t)) \in Nat
         /\ Cardinality(Users(R, t)) < CountModulus /\ CountModulus \in Nat
         /\ Users(R, t) = {} <=> Cardinality(Users(R, t)) = 0
<1>1. Users(R, t) \subseteq Signals /\ IsFiniteSet(Signals)
  BY TableAssumption DEF Users
<1>2. IsFiniteSet(Users(R, t)) /\ Cardinality(Users(R, t)) <= Cardinality(Signals)
  BY <1>1, FS_Subset
<1>3. Cardinality(Users(R, t)) \in Nat /\ Cardinality(Signals) \in Nat
  BY <1>1, <1>2, FS_CardinalityType
<1> QED BY <1>2, <1>3, LocalAssumption, FS_EmptySet

\* A signal with a domain of its own has no users; a user keeps its domain hooked.
LEMMA HeldMeans ==
  ASSUME NEW R, Held(R), NEW s \in Signals, R[s] # Unregistered
  PROVE  /\ HasDomain(s) => R[s].implicit = 0
         /\ HasDomain(s) /\ R[s].hooked => R[TableOf[s]].hooked /\ R[TableOf[s]].implicit > 0
<1>1. ASSUME HasDomain(s) PROVE R[s].implicit = 0
  <2>1. Users(R, s) = {}
    BY <1>1, DomainOf DEF Users
  <2> QED BY <2>1, UsersCounted DEF Held
<1>2. ASSUME HasDomain(s), R[s].hooked PROVE R[TableOf[s]].hooked /\ R[TableOf[s]].implicit > 0
  <2>1. TableOf[s] \in Signals /\ s \in Users(R, TableOf[s])
    BY <1>2, DomainOf DEF Users
  <2>2. Cardinality(Users(R, TableOf[s])) \in Nat /\ Cardinality(Users(R, TableOf[s])) # 0
    BY <2>1, UsersCounted
  <2>3. R[TableOf[s]].implicit > 0
    BY <1>2, <2>1, <2>2 DEF Held
  <2> QED BY <1>2, <2>1, <2>3 DEF Held, Subscribed
<1> QED BY <1>1, <1>2

LEMMA HeldDomains ==
  Held(registered) => DomainsHeld
<1> SUFFICES ASSUME Held(registered) PROVE DomainsHeld
  OBVIOUS
<1>1. PICK R : R = registered
  OBVIOUS
<1>2. ASSUME NEW s \in Signals, R[s] # Unregistered
      PROVE  /\ R[s].hooked <=> Subscribed(R[s])
             /\ HasDomain(s) => R[TableOf[s]] # Unregistered
             /\ HasDomain(s) /\ R[s].hooked => R[TableOf[s]].hooked
  BY <1>1, <1>2, HeldMeans DEF Held
<1> QED BY <1>1, <1>2 DEF DomainsHeld, IsRegistered

\* Adding a signal whose domain signal is there.
LEMMA HeldAdded ==
  ASSUME NEW R, NEW n, Registrations(R, n), Held(R), NEW s \in Signals, R[s] = Unregistered,
         HasDomain(s) => R[TableOf[s]] # Unregistered,
         NEW e \in Entry, ~e.explicit, e.implicit = 0, ~e.hooked, e # Unregistered,
         NEW T, T = [R EXCEPT ![s] = e]
  PROVE  Held(T) /\ Explicit(T) = Explicit(R) /\ Reg(R) \subseteq Reg(T) /\ s \in Reg(T)
<1>0. R \in [Signals -> Entry \cup {Unregistered}]
  BY DEF Registrations
<1>1. T[s] = e /\ \A u \in Signals : u # s => T[u] = R[u]
  BY <1>0
<1>2. \A t : Users(T, t) = Users(R, t)
  BY <1>1 DEF Users
<1>3. Users(R, s) = {}
  BY DEF Users, Held
<1>4. Cardinality(Users(T, s)) = 0
  BY <1>2, <1>3, FS_EmptySet
<1>5. ASSUME NEW u \in Signals, T[u] # Unregistered
      PROVE  /\ T[u].hooked <=> Subscribed(T[u])
             /\ HasDomain(u) => T[TableOf[u]] # Unregistered
             /\ T[u].implicit = Cardinality(Users(T, u))
  <2>1. HasDomain(u) => TableOf[u] \in Signals /\ TableOf[u] # u
    BY DomainOf
  <2>2. CASE u = s
    BY <1>1, <1>4, <2>1, <2>2 DEF Subscribed
  <2>3. CASE u # s
    BY <1>1, <1>2, <1>5, <2>1, <2>3 DEF Held
  <2> QED BY <2>2, <2>3
<1>6. Held(T)
  BY <1>5 DEF Held
<1> QED BY <1>1, <1>6 DEF Explicit, Reg

\* subscribe(s, true): one user more for its domain signal, if it was not hooked.
LEMMA HeldSubscribed ==
  ASSUME NEW R, NEW n, Registrations(R, n), Held(R), NEW s \in Signals, R[s] # Unregistered,
         NEW o, Registrations(o.reg, n), SubscribeEffect(R, s, o)
  PROVE  Held(o.reg) /\ Explicit(o.reg) = Explicit(R) \cup {s} /\ Reg(o.reg) = Reg(R)
<1> DEFINE t == TableOf[s]
<1>0. PICK T : T = o.reg
  OBVIOUS
<1>1. /\ T[s] \in Entry /\ T[s] # Unregistered /\ T[s].explicit /\ T[s].implicit = R[s].implicit
      /\ T[s].hooked <=> (Subscribed(R[s]) => R[s].hooked)
      /\ \A u \in Signals : (u # s /\ (u # t \/ Subscribed(R[s]) \/ R[u] = Unregistered)) => T[u] = R[u]
  BY <1>0 DEF SubscribeEffect
<1>2. (HasDomain(s) /\ ~Subscribed(R[s])) =>
        /\ T[t] \in Entry /\ T[t] # Unregistered /\ T[t].explicit = R[t].explicit
        /\ T[t].implicit = (R[t].implicit + 1) % CountModulus
        /\ T[t].hooked <=> (Subscribed(R[t]) => R[t].hooked)
  BY <1>0 DEF SubscribeEffect, Held
<1>3. T[s].hooked /\ Subscribed(T[s])
  BY <1>1 DEF Held, Subscribed
<1>4. HasDomain(s) => t \in Signals /\ t # s /\ ~HasDomain(t) /\ R[t] # Unregistered
  BY DomainOf DEF Held
<1>5. ~HasDomain(s) => \A u \in Signals : u # s => u # t
  BY DomainOf
<1> HIDE DEF t
<1>6. CASE ~HasDomain(s) \/ Subscribed(R[s])
  <2>1. \A u \in Signals : u # s => T[u] = R[u]
    BY <1>1, <1>5, <1>6
  <2>2. HasDomain(s) => R[s].hooked
    BY <1>6 DEF Held
  <2>3. \A x : Users(T, x) = Users(R, x)
    BY <1>1, <1>3, <2>1, <2>2 DEF Users
  <2>4. ASSUME NEW u \in Signals, T[u] # Unregistered
        PROVE  /\ T[u].hooked <=> Subscribed(T[u])
               /\ HasDomain(u) => T[TableOf[u]] # Unregistered
               /\ T[u].implicit = Cardinality(Users(T, u))
    <3>1. HasDomain(u) => TableOf[u] \in Signals /\ TableOf[u] # u
      BY DomainOf
    <3>2. CASE u = s
      BY <1>1, <1>3, <2>1, <2>3, <3>1, <3>2 DEF Held
    <3>3. CASE u # s
      BY <1>1, <2>1, <2>3, <2>4, <3>1, <3>3 DEF Held
    <3> QED BY <3>2, <3>3
  <2>5. Held(T)
    BY <2>4 DEF Held
  <2>6. Explicit(T) = Explicit(R) \cup {s} /\ Reg(T) = Reg(R)
    BY <1>1, <2>1 DEF Explicit, Reg
  <2> QED BY <1>0, <2>5, <2>6
<1>7. CASE HasDomain(s) /\ ~Subscribed(R[s])
  <2>1. \A u \in Signals : u # s /\ u # t => T[u] = R[u]
    BY <1>1
  <2>2. Users(T, t) = Users(R, t) \cup {s} /\ s \notin Users(R, t)
    <3>1. ~R[s].hooked
      BY <1>7 DEF Held
    <3>2. \A u \in Signals : HasDomain(u) /\ u # s => T[u] = R[u]
      BY <1>4, <1>7, <2>1
    <3>3. s \in Users(T, t)
      BY <1>1, <1>3, <1>7 DEF Users, t
    <3> QED BY <3>1, <3>2, <3>3 DEF Users
  <2>3. \A x : x # t => Users(T, x) = Users(R, x)
    <3>1. \A u \in Signals : HasDomain(u) /\ u # s => T[u] = R[u]
      BY <1>4, <1>7, <2>1
    <3> QED BY <3>1 DEF Users, t
  <2>4. Cardinality(Users(T, t)) = Cardinality(Users(R, t)) + 1
    BY <2>2, UsersCounted, FS_AddElement
  <2>5. R[t].implicit = Cardinality(Users(R, t)) /\ (R[t].hooked <=> Subscribed(R[t]))
    BY <1>4, <1>7 DEF Held
  <2>6. /\ Cardinality(Users(R, t)) \in Nat /\ Cardinality(Users(T, t)) < CountModulus
        /\ CountModulus \in Nat
    BY UsersCounted
  <2>7. T[t].implicit = Cardinality(Users(T, t)) /\ T[t].implicit > 0
    <3>1. T[t].implicit = (Cardinality(Users(R, t)) + 1) % CountModulus
      BY <1>2, <1>7, <2>5
    <3>2. (Cardinality(Users(R, t)) + 1) % CountModulus = Cardinality(Users(R, t)) + 1
      BY <2>4, <2>6
    <3> QED BY <2>4, <2>6, <3>1, <3>2
  <2>8. T[t].hooked /\ Subscribed(T[t])
    BY <1>2, <1>7, <2>5, <2>7 DEF Subscribed
  <2>9. ASSUME NEW u \in Signals, T[u] # Unregistered
        PROVE  /\ T[u].hooked <=> Subscribed(T[u])
               /\ HasDomain(u) => T[TableOf[u]] # Unregistered
               /\ T[u].implicit = Cardinality(Users(T, u))
    <3>1. HasDomain(u) => TableOf[u] \in Signals /\ TableOf[u] # u
      BY DomainOf
    <3>2. \A v \in Signals : T[v] # Unregistered <=> R[v] # Unregistered
      BY <1>1, <1>2, <1>4, <1>7, <2>1
    <3>3. HasDomain(u) => T[TableOf[u]] # Unregistered
      BY <2>9, <3>1, <3>2 DEF Held
    <3>4. CASE u = s
      BY <1>1, <1>3, <1>4, <1>7, <2>3, <3>3, <3>4 DEF Held
    <3>5. CASE u = t
      BY <2>7, <2>8, <3>3, <3>5
    <3>6. CASE u # s /\ u # t
      BY <2>1, <2>3, <2>9, <3>3, <3>6 DEF Held
    <3> QED BY <3>4, <3>5, <3>6
  <2>10. Held(T)
    BY <2>9 DEF Held
  <2>11. Explicit(T) = Explicit(R) \cup {s} /\ Reg(T) = Reg(R)
    BY <1>1, <1>2, <1>4, <1>7, <2>1 DEF Explicit, Reg
  <2> QED BY <1>0, <2>10, <2>11
<1> QED BY <1>6, <1>7

\* unsubscribe(s, true) of a signal that was subscribed: one user less.
LEMMA HeldUnsubscribed ==
  ASSUME NEW R, NEW n, Registrations(R, n), Held(R), NEW s \in Signals, s \in Explicit(R),
         NEW o, Registrations(o.reg, n), UnsubscribeEffect(R, s, o)
  PROVE  Held(o.reg) /\ Explicit(o.reg) = Explicit(R) \ {s} /\ Reg(o.reg) = Reg(R)
<1> DEFINE t == TableOf[s]
<1>0. PICK T : T = o.reg
  OBVIOUS
<1>9. R[s] # Unregistered /\ R[s].explicit /\ R[s].hooked /\ R[s] \in Entry
  BY EntryOf DEF Explicit, Held, Subscribed
<1>1. /\ T[s] \in Entry /\ T[s] # Unregistered /\ ~T[s].explicit /\ T[s].implicit = R[s].implicit
      /\ T[s].hooked <=> R[s].implicit > 0
      /\ \A u \in Signals : (u # s /\ (u # t \/ R[s].implicit > 0 \/ R[u] = Unregistered)) => T[u] = R[u]
  BY <1>0, <1>9 DEF UnsubscribeEffect
<1>2. (HasDomain(s) /\ ~(R[s].implicit > 0)) =>
        /\ T[t] \in Entry /\ T[t] # Unregistered /\ T[t].explicit = R[t].explicit
        /\ T[t].implicit = (R[t].implicit - 1) % CountModulus
        /\ T[t].hooked <=> (Subscribed(T[t]) /\ R[t].hooked)
  BY <1>0, <1>9 DEF UnsubscribeEffect, Held
<1>3. T[s].hooked <=> Subscribed(T[s])
  BY <1>1 DEF Subscribed
<1>4. HasDomain(s) => /\ t \in Signals /\ t # s /\ ~HasDomain(t) /\ R[t] # Unregistered
                      /\ ~(R[s].implicit > 0) /\ R[t].hooked
  BY <1>9, DomainOf, HeldMeans DEF Held
<1>5. ~HasDomain(s) => \A u \in Signals : u # s => u # t
  BY DomainOf
<1> HIDE DEF t
<1>6. CASE ~HasDomain(s)
  <2>1. \A u \in Signals : u # s => T[u] = R[u]
    BY <1>1, <1>5, <1>6
  <2>3. \A x : Users(T, x) = Users(R, x)
    BY <1>6, <2>1 DEF Users
  <2>4. ASSUME NEW u \in Signals, T[u] # Unregistered
        PROVE  /\ T[u].hooked <=> Subscribed(T[u])
               /\ HasDomain(u) => T[TableOf[u]] # Unregistered
               /\ T[u].implicit = Cardinality(Users(T, u))
    <3>1. HasDomain(u) => TableOf[u] \in Signals /\ TableOf[u] # u
      BY DomainOf
    <3>2. CASE u = s
      BY <1>1, <1>3, <1>6, <1>9, <2>1, <2>3, <3>1, <3>2 DEF Held
    <3>3. CASE u # s
      BY <1>1, <2>1, <2>3, <2>4, <3>1, <3>3 DEF Held
    <3> QED BY <3>2, <3>3
  <2>5. Held(T)
    BY <2>4 DEF Held
  <2>6. Explicit(T) = Explicit(R) \ {s} /\ Reg(T) = Reg(R)
    BY <1>1, <1>9, <2>1 DEF Explicit, Reg
  <2> QED BY <1>0, <2>5, <2>6
<1>7. CASE HasDomain(s)
  <2>1. \A u \in Signals : u # s /\ u # t => T[u] = R[u]
    BY <1>1
  <2>2. Users(T, t) = Users(R, t) \ {s} /\ s \in Users(R, t)
    <3>1. ~T[s].hooked
      BY <1>1, <1>4, <1>7
    <3>2. \A u \in Signals : HasDomain(u) /\ u # s => T[u] = R[u]
      BY <1>4, <1>7, <2>1
    <3>3. s \in Users(R, t)
      BY <1>7, <1>9 DEF Users, t
    <3> QED BY <3>1, <3>2, <3>3 DEF Users
  <2>3. \A x : x # t => Users(T, x) = Users(R, x)
    <3>1. \A u \in Signals : HasDomain(u) /\ u # s => T[u] = R[u]
      BY <1>4, <1>7, <2>1
    <3> QED BY <3>1 DEF Users, t
  <2>4. Cardinality(Users(T, t)) = Cardinality(Users(R, t)) - 1
    BY <2>2, UsersCounted, FS_RemoveElement
  <2>5. R[t].implicit = Cardinality(Users(R, t)) /\ (R[t].hooked <=> Subscribed(R[t]))
    BY <1>4, <1>7 DEF Held
  <2>6. /\ Cardinality(Users(R, t)) \in Nat /\ Cardinality(Users(T, t)) < CountModulus
        /\ CountModulus \in Nat /\ Cardinality(Users(T, t)) \in Nat
    BY UsersCounted
  <2>7. T[t].implicit = Cardinality(Users(T, t))
    <3>1. T[t].implicit = (Cardinality(Users(R, t)) - 1) % CountModulus
      BY <1>2, <1>4, <1>7, <2>5
    <3>2. (Cardinality(Users(R, t)) - 1) % CountModulus = Cardinality(Users(R, t)) - 1
      BY <2>4, <2>6
    <3> QED BY <2>4, <2>6, <3>1, <3>2
  <2>8. T[t].hooked <=> Subscribed(T[t])
    BY <1>2, <1>4, <1>7
  <2>9. ASSUME NEW u \in Signals, T[u] # Unregistered
        PROVE  /\ T[u].hooked <=> Subscribed(T[u])
               /\ HasDomain(u) => T[TableOf[u]] # Unregistered
               /\ T[u].implicit = Cardinality(Users(T, u))
    <3>1. HasDomain(u) => TableOf[u] \in Signals /\ TableOf[u] # u
      BY DomainOf
    <3>2. \A v \in Signals : T[v] # Unregistered <=> R[v] # Unregistered
      BY <1>1, <1>2, <1>4, <1>7, <1>9, <2>1
    <3>3. HasDomain(u) => T[TableOf[u]] # Unregistered
      BY <2>9, <3>1, <3>2 DEF Held
    <3>4. CASE u = s
      BY <1>1, <1>3, <1>4, <1>7, <1>9, <2>3, <3>3, <3>4 DEF Held
    <3>5. CASE u = t
      BY <2>7, <2>8, <3>3, <3>5
    <3>6. CASE u # s /\ u # t
      BY <2>1, <2>3, <2>9, <3>3, <3>6 DEF Held
    <3> QED BY <3>4, <3>5, <3>6
  <2>10. Held(T)
    BY <2>9 DEF Held
  <2>11. Explicit(T) = Explicit(R) \ {s} /\ Reg(T) = Reg(R)
    BY <1>1, <1>2, <1>4, <1>7, <1>9, <2>1 DEF Explicit, Reg
  <2> QED BY <1>0, <2>10, <2>11
<1> QED BY <1>6, <1>7
-----------------------------------------------------------------------------
(* Requests in flight, replayed on the set of explicit subscriptions. *)

AfterAsk(A, m) == IF m.method = "subscribe" THEN A \cup {m.id} ELSE A \ {m.id}

\* The requests q lead from the subscriptions A to D, and none of them takes back
\* what is not subscribed.
Asks(q, A, D) ==
  \E F \in [1 .. Len(q) + 1 -> SUBSET Signals] :
    /\ F[1] = A /\ F[Len(q) + 1] = D
    /\ \A i \in 1 .. Len(q) :
         /\ q[i].method # "subscribe" => q[i].id \in F[i]
         /\ F[i + 1] = AfterAsk(F[i], q[i])

LEMMA AfterAskTyped ==
  ASSUME NEW A \in SUBSET Signals, NEW m \in Requests
  PROVE  AfterAsk(A, m) \in SUBSET Signals
BY DEF AfterAsk, Requests

LEMMA AsksEmpty ==
  ASSUME NEW A \in SUBSET Signals
  PROVE  Asks(<<>>, A, A) /\ \A D : Asks(<<>>, A, D) => A = D
<1>1. Len(<<>>) = 0 /\ 0 + 1 = 1 /\ 1 .. 0 = {}
  OBVIOUS
<1> DEFINE F == [i \in 1 .. 1 |-> A]
<1>2. F \in [1 .. Len(<<>>) + 1 -> SUBSET Signals] /\ F[1] = A /\ F[Len(<<>>) + 1] = A
  BY <1>1
<1>3. Asks(<<>>, A, A)
  BY <1>1, <1>2 DEF Asks
<1> QED BY <1>1, <1>3 DEF Asks

LEMMA AsksAppend ==
  ASSUME NEW q \in Seq(Requests), NEW A, NEW D \in SUBSET Signals, Asks(q, A, D),
         NEW m \in Requests, m.method # "subscribe" => m.id \in D
  PROVE  Asks(Append(q, m), A, AfterAsk(D, m))
<1> DEFINE n == Len(q)
<1>1. PICK F \in [1 .. n + 1 -> SUBSET Signals] :
        /\ F[1] = A /\ F[n + 1] = D
        /\ \A i \in 1 .. n : (q[i].method # "subscribe" => q[i].id \in F[i]) /\ F[i + 1] = AfterAsk(F[i], q[i])
  BY DEF Asks
<1>2. /\ n \in Nat /\ Len(Append(q, m)) = n + 1 /\ Append(q, m)[n + 1] = m
      /\ \A i \in 1 .. n : Append(q, m)[i] = q[i]
  BY AppendProperties
<1> DEFINE G == [i \in 1 .. n + 2 |-> IF i <= n + 1 THEN F[i] ELSE AfterAsk(D, m)]
<1>3. G \in [1 .. (n + 1) + 1 -> SUBSET Signals]
  BY <1>2, AfterAskTyped
<1>4. G[1] = A /\ G[(n + 1) + 1] = AfterAsk(D, m)
  BY <1>1, <1>2
<1>5. ASSUME NEW i \in 1 .. n + 1
      PROVE  /\ Append(q, m)[i].method # "subscribe" => Append(q, m)[i].id \in G[i]
             /\ G[i + 1] = AfterAsk(G[i], Append(q, m)[i])
  <2>1. CASE i \in 1 .. n
    <3>1. G[i] = F[i] /\ G[i + 1] = F[i + 1] /\ Append(q, m)[i] = q[i]
      BY <1>2, <2>1
    <3> QED BY <1>1, <2>1, <3>1
  <2>2. CASE i = n + 1
    <3>1. G[i] = D /\ G[i + 1] = AfterAsk(D, m) /\ Append(q, m)[i] = m
      BY <1>1, <1>2, <2>2
    <3> QED BY <3>1
  <2> QED BY <1>2, <2>1, <2>2
<1> HIDE DEF G
<1> QED BY <1>2, <1>3, <1>4, <1>5 DEF Asks

LEMMA AsksTail ==
  ASSUME NEW q \in Seq(Requests), q # <<>>, NEW A, NEW D, Asks(q, A, D)
  PROVE  /\ Head(q).method # "subscribe" => Head(q).id \in A
         /\ Asks(Tail(q), AfterAsk(A, Head(q)), D)
<1> DEFINE n == Len(q)
<1>1. PICK F \in [1 .. n + 1 -> SUBSET Signals] :
        /\ F[1] = A /\ F[n + 1] = D
        /\ \A i \in 1 .. n : (q[i].method # "subscribe" => q[i].id \in F[i]) /\ F[i + 1] = AfterAsk(F[i], q[i])
  BY DEF Asks
<1>2. /\ n \in Nat \ {0} /\ Len(Tail(q)) = n - 1 /\ Head(q) = q[1]
      /\ \A i \in 1 .. n - 1 : Tail(q)[i] = q[i + 1]
  BY HeadTailProperties
<1> DEFINE G == [i \in 1 .. n |-> F[i + 1]]
<1>3. 1 \in 1 .. n /\ (n - 1) + 1 = n
  BY <1>2
<1>4. (Head(q).method # "subscribe" => Head(q).id \in A) /\ F[1 + 1] = AfterAsk(A, Head(q))
  BY <1>1, <1>2, <1>3
<1>5. G \in [1 .. n -> SUBSET Signals] /\ G[1] = AfterAsk(A, Head(q)) /\ G[n] = D
  BY <1>1, <1>2, <1>3, <1>4
<1>6. ASSUME NEW i \in 1 .. n - 1
      PROVE  /\ Tail(q)[i].method # "subscribe" => Tail(q)[i].id \in G[i]
             /\ G[i + 1] = AfterAsk(G[i], Tail(q)[i])
  <2>1. i + 1 \in 1 .. n /\ G[i] = F[i + 1] /\ G[i + 1] = F[(i + 1) + 1] /\ Tail(q)[i] = q[i + 1]
    BY <1>2
  <2> QED BY <1>1, <2>1
<1> HIDE DEF G
<1> QED BY <1>2, <1>3, <1>4, <1>5, <1>6 DEF Asks
-----------------------------------------------------------------------------
(* Advertisements in flight. *)

HasInit(q) == \E j \in 1 .. Len(q) : q[j].kind = "init"

\* Nothing is advertised to a sink without a command interface client (c) before
\* the init message.
Introduced(q, c) ==
  \A i \in 1 .. Len(q) : q[i].kind = "available" => c \/ \E j \in 1 .. i - 1 : q[j].kind = "init"

\* Only signals in S are advertised.
Offers(q, S) == \A i \in 1 .. Len(q) : q[i].kind = "available" => q[i].ids \subseteq S

LEMMA OffersWiden ==
  ASSUME NEW q, NEW S, NEW W, S \subseteq W, Offers(q, S)
  PROVE  Offers(q, W)
BY DEF Offers

LEMMA AdvertisedAppend ==
  ASSUME NEW q \in Seq(Message), NEW m \in Message, NEW c, NEW S
  PROVE  /\ HasInit(q) => HasInit(Append(q, m))
         /\ m.kind = "init" => HasInit(Append(q, m))
         /\ Introduced(q, c) /\ (m.kind = "available" => c \/ HasInit(q)) => Introduced(Append(q, m), c)
         /\ Offers(q, S) /\ (m.kind = "available" => m.ids \subseteq S) => Offers(Append(q, m), S)
<1> DEFINE n == Len(q)
           a == Append(q, m)
<1>1. n \in Nat /\ Len(a) = n + 1 /\ a[n + 1] = m /\ \A i \in 1 .. n : a[i] = q[i]
  BY AppendProperties
<1> HIDE DEF a
<1>2. \A i \in 1 .. n + 1 : i \in 1 .. n \/ i = n + 1
  BY <1>1
<1>3. HasInit(q) => HasInit(a)
  BY <1>1 DEF HasInit
<1>4. m.kind = "init" => HasInit(a)
  <2>1. n + 1 \in 1 .. Len(a)
    BY <1>1
  <2> QED BY <1>1, <2>1 DEF HasInit
<1>5. ASSUME Introduced(q, c), m.kind = "available" => c \/ HasInit(q) PROVE Introduced(a, c)
  <2> SUFFICES ASSUME NEW i \in 1 .. n + 1, a[i].kind = "available", ~c
               PROVE  \E j \in 1 .. i - 1 : a[j].kind = "init"
    BY <1>1 DEF Introduced
  <2>1. CASE i \in 1 .. n
    <3>1. PICK j \in 1 .. i - 1 : q[j].kind = "init"
      BY <1>1, <1>5, <2>1 DEF Introduced
    <3>2. j \in 1 .. n
      BY <1>1, <2>1
    <3> QED BY <1>1, <3>1, <3>2
  <2>2. CASE i = n + 1
    <3>1. PICK j \in 1 .. n : q[j].kind = "init"
      BY <1>1, <1>5, <2>2 DEF HasInit
    <3>2. j \in 1 .. i - 1
      BY <1>1, <2>2
    <3> QED BY <1>1, <3>1, <3>2
  <2> QED BY <1>2, <2>1, <2>2
<1>6. Offers(q, S) /\ (m.kind = "available" => m.ids \subseteq S) => Offers(a, S)
  BY <1>1, <1>2 DEF Offers
<1> QED BY <1>3, <1>4, <1>5, <1>6 DEF a

LEMMA AdvertisedPlain ==
  ASSUME NEW q \in Seq(Message), NEW u \in Seq(Message), Plain(u), NEW c, NEW S
  PROVE  /\ HasInit(q) => HasInit(q \o u)
         /\ Introduced(q, c) => Introduced(q \o u, c)
         /\ Offers(q, S) => Offers(q \o u, S)
<1> DEFINE n == Len(q)
           a == q \o u
<1>1. /\ Len(a) = n + Len(u) /\ n \in Nat /\ Len(u) \in Nat
      /\ \A i \in 1 .. n + Len(u) : a[i] = IF i <= n THEN q[i] ELSE u[i - n]
  BY ConcatProperties, LenProperties
<1> HIDE DEF a
<1>2. \A i \in 1 .. n : i \in 1 .. Len(a) /\ a[i] = q[i]
  BY <1>1
<1>3. ASSUME NEW i \in 1 .. Len(a), a[i].kind = "available" PROVE i \in 1 .. n
  <2>1. CASE i <= n
    BY <1>1, <2>1
  <2>2. CASE ~(i <= n)
    <3>1. i - n \in 1 .. Len(u) /\ a[i] = u[i - n]
      BY <1>1, <2>2
    <3> QED BY <1>3, <3>1 DEF Plain
  <2> QED BY <2>1, <2>2
<1>4. HasInit(q) => HasInit(a)
  BY <1>2 DEF HasInit
<1>5. ASSUME Introduced(q, c) PROVE Introduced(a, c)
  <2> SUFFICES ASSUME NEW i \in 1 .. Len(a), a[i].kind = "available", ~c
               PROVE  \E j \in 1 .. i - 1 : a[j].kind = "init"
    BY DEF Introduced
  <2>1. i \in 1 .. n
    BY <1>3
  <2>2. PICK j \in 1 .. i - 1 : q[j].kind = "init"
    BY <1>2, <1>5, <2>1 DEF Introduced
  <2>3. j \in 1 .. n
    BY <1>1, <2>1
  <2> QED BY <1>2, <2>2, <2>3
<1>6. Offers(q, S) => Offers(a, S)
  BY <1>2, <1>3 DEF Offers
<1> QED BY <1>4, <1>5, <1>6 DEF a

LEMMA AdvertisedTail ==
  ASSUME NEW q \in Seq(Message), q # <<>>, NEW c, NEW S
  PROVE  /\ HasInit(q) /\ Head(q).kind # "init" => HasInit(Tail(q))
         /\ Introduced(q, c) /\ Head(q).kind # "init" => Introduced(Tail(q), c)
         /\ Introduced(q, c) /\ Head(q).kind = "available" => c
         /\ Offers(q, S) => Offers(Tail(q), S)
         /\ Offers(q, S) /\ Head(q).kind = "available" => Head(q).ids \subseteq S
<1> DEFINE n == Len(q)
           a == Tail(q)
<1>1. n \in Nat \ {0} /\ Len(a) = n - 1 /\ Head(q) = q[1] /\ \A i \in 1 .. n - 1 : a[i] = q[i + 1]
  BY HeadTailProperties
<1> HIDE DEF a
<1>2. 1 \in 1 .. n /\ 1 .. 1 - 1 = {}
  BY <1>1
<1>3. \A i \in 1 .. Len(a) : i + 1 \in 1 .. n /\ a[i] = q[i + 1]
  BY <1>1
<1>4. ASSUME NEW j \in 1 .. n, q[j].kind = "init", Head(q).kind # "init"
      PROVE  j - 1 \in 1 .. Len(a) /\ a[j - 1] = q[j]
  <2>1. j # 1
    BY <1>1, <1>4
  <2>2. j - 1 \in 1 .. n - 1 /\ (j - 1) + 1 = j
    BY <1>1, <2>1
  <2> QED BY <1>1, <2>2
<1>5. HasInit(q) /\ Head(q).kind # "init" => HasInit(a)
  BY <1>4 DEF HasInit
<1>6. ASSUME Introduced(q, c), Head(q).kind # "init" PROVE Introduced(a, c)
  <2> SUFFICES ASSUME NEW i \in 1 .. Len(a), a[i].kind = "available", ~c
               PROVE  \E j \in 1 .. i - 1 : a[j].kind = "init"
    BY DEF Introduced
  <2>1. PICK j \in 1 .. (i + 1) - 1 : q[j].kind = "init"
    BY <1>3, <1>6 DEF Introduced
  <2>2. j \in 1 .. n
    BY <1>1, <1>3
  <2>3. j - 1 \in 1 .. Len(a) /\ a[j - 1] = q[j]
    BY <1>4, <1>6, <2>1, <2>2
  <2>4. j - 1 \in 1 .. i - 1
    BY <1>1, <2>3
  <2> QED BY <2>1, <2>3, <2>4
<1>7. Introduced(q, c) /\ Head(q).kind = "available" => c
  BY <1>1, <1>2 DEF Introduced
<1>8. Offers(q, S) => Offers(a, S)
  BY <1>3 DEF Offers
<1>9. Offers(q, S) /\ Head(q).kind = "available" => Head(q).ids \subseteq S
  BY <1>1, <1>2 DEF Offers
<1> QED BY <1>5, <1>6, <1>7, <1>8, <1>9 DEF a
-----------------------------------------------------------------------------
(* The link under a steady application. *)

\* What the application of the sink uses.
Demanded == {s \in Signals : IsKnown(s) /\ known[s].uses > 0}

\* The requests q name signals of R and turn its subscriptions into D.
Asked(q, R, D) == (\A i \in 1 .. Len(q) : q[i].id \in Reg(R)) /\ Asks(q, Explicit(R), D)

\* Handling the requests in flight brings the source to what the sink uses.
Asking ==
  sourceOpen => \E D \in SUBSET Signals : Asked(toSource, registered, D) /\ (sinkOpen => D = Demanded)

\* Init comes first, and is sent by the hello.
Introduction(q, c, hello) == Introduced(q, c) /\ (hello => c \/ HasInit(q))

\* Nothing is used before it is announced, announced before requests can be made,
\* or advertised before it is registered.
Advertising ==
  sinkOpen =>
    /\ Introduction(toSink, hasClient, helloSent)
    /\ \A s \in Signals : announced[s] > 0 => hasClient
    /\ \A s \in Demanded : announced[s] > 0
    /\ sourceOpen => /\ Offers(toSink, Reg(registered))
                     /\ \A s \in Signals : announced[s] > 0 => s \in Reg(registered)

Serving == Held(registered) /\ Asking /\ Advertising

LEMMA NextAsking ==
  ASSUME sourceOpen' => \E D \in SUBSET Signals : Asked(toSource', registered', D) /\ (sinkOpen' => D = Demanded')
  PROVE  Asking'
BY DEF Asking, Asked, Asks, Explicit, Reg

LEMMA NextHeld ==
  ASSUME Held(registered')
  PROVE  Held(registered)'
BY DEF Held, Users, Subscribed

LEMMA SourceAsks ==
  ASSUME Asking, UNCHANGED remoteVars, UNCHANGED toSource, NEW R, R = registered, NEW T, T = registered',
         sourceOpen' => sourceOpen /\ Reg(R) \subseteq Reg(T) /\ Explicit(T) = Explicit(R)
  PROVE  Asking'
<1> SUFFICES ASSUME sourceOpen'
             PROVE  \E D \in SUBSET Signals : Asked(toSource', registered', D) /\ (sinkOpen' => D = Demanded')
  BY NextAsking
<1>1. PICK D \in SUBSET Signals : Asked(toSource, R, D) /\ (sinkOpen => D = Demanded)
  BY DEF Asking
<1>2. sinkOpen' = sinkOpen /\ Demanded' = Demanded
  BY DEF remoteVars, Demanded, IsKnown
<1>3. PICK q : q = toSource
  OBVIOUS
<1>4. Asked(q, T, D)
  BY <1>1, <1>3 DEF Asked
<1>5. Asked(toSource', registered', D)
  BY <1>3, <1>4
<1> QED BY <1>1, <1>2, <1>5

LEMMA SourceAdvertises ==
  ASSUME Advertising, UNCHANGED remoteVars, NEW q, q = toSink, NEW u, u = toSink',
         NEW R, R = registered, NEW T, T = registered', NEW c, c = hasClient,
         sourceOpen' => sourceOpen /\ Reg(R) \subseteq Reg(T) /\ (Offers(q, Reg(R)) => Offers(u, Reg(T))),
         Introduction(q, c, helloSent) => Introduction(u, c, helloSent')
  PROVE  Advertising'
<1> SUFFICES ASSUME sinkOpen' PROVE Advertising'
  BY DEF Advertising
<1>1. UNCHANGED <<sinkOpen, hasClient, announced, known>> /\ Demanded' = Demanded
  BY DEF remoteVars, Demanded, IsKnown
<1>2. Introduction(u, c, helloSent')
  BY <1>1 DEF Advertising
<1>3. Introduction(toSink, hasClient, helloSent)'
  BY <1>1, <1>2 DEF Introduction, Introduced, HasInit
<1>4. ASSUME sourceOpen' PROVE Offers(u, Reg(T)) /\ \A s \in Signals : announced[s] > 0 => s \in Reg(T)
  BY <1>1, <1>4 DEF Advertising
<1>5. ASSUME sourceOpen'
      PROVE  Offers(toSink, Reg(registered))' /\ \A s \in Signals : announced'[s] > 0 => s \in Reg(registered)'
  <2>1. Reg(registered)' = Reg(T)
    BY DEF Reg
  <2> QED BY <1>1, <1>4, <1>5, <2>1 DEF Offers
<1> QED BY <1>1, <1>3, <1>5 DEF Advertising

LEMMA AddServing ==
  ASSUME SinkKept, SourceKept, Serving, NEW s \in Signals, AddLocalSignal(s), UNCHANGED remoteVars,
         HasDomain(s) => IsRegistered(TableOf[s])
  PROVE  Serving'
<1>1. PICK n \in Nat \ {0} : n = nextSigno
  BY LocalAssumption DEF SourceKept
<1>2. PICK R : R = registered
  OBVIOUS
<1>3. PICK q \in Seq(Message) : q = toSink
  BY DEF SinkKept
<1>4. PICK e : e = Registration(s)
  OBVIOUS
<1>5. PICK c : c = hasClient
  OBVIOUS
<1>6. /\ Registrations(R, n) /\ R[s] = Unregistered /\ Held(R) /\ Asking /\ Advertising
      /\ HasDomain(s) => R[TableOf[s]] # Unregistered
  BY <1>1, <1>2 DEF SourceKept, Serving, AddLocalSignal, IsRegistered
<1>7. DomainSigno(registered, s) \in Nat
  <2>1. HasDomain(s) => registered[TableOf[s]].signo \in Nat
    BY <1>2, <1>6, DomainOf, EntryOf
  <2> QED BY <2>1 DEF DomainSigno
<1>8. e \in Entry /\ ~e.explicit /\ e.implicit = 0 /\ ~e.hooked /\ e # Unregistered
  <2>1. 0 \in 0 .. CountModulus - 1
    <3>1. Cardinality(Signals) \in Nat
      BY TableAssumption, FS_CardinalityType
    <3> QED BY <3>1, LocalAssumption
  <2>2. e.signo # 0
    BY <1>1, <1>4 DEF Registration
  <2> QED BY <1>1, <1>4, <1>7, <2>1, <2>2 DEF Registration, Entry, Unregistered
<1>9. PICK T : T = [R EXCEPT ![s] = e]
  OBVIOUS
<1>10. registered' = T /\ UNCHANGED <<toSource, helloSent, sourceOpen>>
  BY <1>2, <1>4, <1>9 DEF AddLocalSignal
<1>11. Held(T) /\ Explicit(T) = Explicit(R) /\ Reg(R) \subseteq Reg(T) /\ s \in Reg(T)
  BY <1>6, <1>8, <1>9, HeldAdded
<1>12. Held(registered)'
  BY <1>10, <1>11, NextHeld
<1>13. Asking'
  BY <1>2, <1>6, <1>10, <1>11, SourceAsks
<1>14. PICK m \in Message : m = AvailableMsg({s})
  BY MessagesTyped
<1>15. m.kind = "available" /\ m.ids = {s}
  BY <1>14 DEF AvailableMsg
<1>16. toSink' = IF helloSent /\ sourceOpen THEN Append(q, m) ELSE q
  <2>1. q \o <<m>> = Append(q, m)
    BY ConcatOne
  <2> QED BY <1>3, <1>14, <2>1 DEF AddLocalSignal, Send
<1>17. Offers(q, Reg(R)) => Offers(q, Reg(T)) /\ Offers(Append(q, m), Reg(T))
  <2> SUFFICES ASSUME Offers(q, Reg(R)) PROVE Offers(q, Reg(T)) /\ Offers(Append(q, m), Reg(T))
    OBVIOUS
  <2>1. Offers(q, Reg(T))
    BY <1>11, OffersWiden
  <2>2. m.ids \subseteq Reg(T)
    BY <1>11, <1>15
  <2> QED BY <2>1, <2>2, AdvertisedAppend
<1>18. Introduction(q, c, TRUE) => Introduction(Append(q, m), c, TRUE)
  <2> SUFFICES ASSUME Introduction(q, c, TRUE) PROVE Introduction(Append(q, m), c, TRUE)
    OBVIOUS
  <2>1. Introduced(q, c) /\ (c \/ HasInit(q))
    BY DEF Introduction
  <2>2. Introduced(Append(q, m), c) /\ (HasInit(q) => HasInit(Append(q, m)))
    BY <2>1, AdvertisedAppend
  <2> QED BY <2>1, <2>2 DEF Introduction
<1>19. PICK u : u = toSink'
  OBVIOUS
<1>20. /\ Offers(q, Reg(R)) => Offers(u, Reg(T))
       /\ Introduction(q, c, helloSent) => Introduction(u, c, helloSent')
  <2>1. CASE helloSent /\ sourceOpen
    <3>1. helloSent = TRUE /\ u = Append(q, m) /\ helloSent' = TRUE
      BY <1>10, <1>16, <1>19, <2>1 DEF SourceKept
    <3> QED BY <1>17, <1>18, <3>1
  <2>2. CASE ~(helloSent /\ sourceOpen)
    <3>1. u = q /\ helloSent' = helloSent
      BY <1>10, <1>16, <1>19, <2>2
    <3> QED BY <1>17, <3>1
  <2> QED BY <2>1, <2>2
<1>21. Advertising'
  BY <1>2, <1>3, <1>5, <1>6, <1>10, <1>11, <1>19, <1>20, SourceAdvertises
<1> QED BY <1>12, <1>13, <1>21 DEF Serving

LEMMA PublishServing ==
  ASSUME SinkKept, SourceKept, Serving, NEW s \in Signals, NEW jump \in BOOLEAN, Publish(s, jump), UNCHANGED remoteVars
  PROVE  Serving'
<1>0. toSink \in Seq(Message) /\ Registrations(registered, nextSigno)
  BY DEF SinkKept, SourceKept
<1>1. PICK q \in Seq(Message) : q = toSink
  BY <1>0
<1>2. PICK v \in Seq(Message) : Plain(v) /\ toSink' = toSink \o v
  BY <1>0, PublishSends
<1>3. UNCHANGED <<toSource, registered, helloSent, sourceOpen>>
  BY DEF Publish, localVars
<1>4. PICK R : R = registered
  OBVIOUS
<1>5. PICK c : c = hasClient
  OBVIOUS
<1>6. PICK u : u = q \o v
  OBVIOUS
<1>7. Held(R) /\ Asking /\ Advertising
  BY <1>4 DEF Serving
<1>8. (Offers(q, Reg(R)) => Offers(u, Reg(R))) /\ (Introduced(q, c) => Introduced(u, c)) /\ (HasInit(q) => HasInit(u))
  BY <1>2, <1>6, AdvertisedPlain
<1>9. Introduction(q, c, helloSent) => Introduction(u, c, helloSent')
  BY <1>3, <1>8 DEF Introduction
<1>10. R = registered' /\ u = toSink'
  BY <1>1, <1>2, <1>3, <1>4, <1>6
<1>11. Held(registered)'
  BY <1>7, <1>10, NextHeld
<1>12. Asking'
  BY <1>3, <1>4, <1>7, <1>10, SourceAsks
<1>13. Advertising'
  BY <1>1, <1>3, <1>4, <1>5, <1>7, <1>8, <1>9, <1>10, SourceAdvertises
<1> QED BY <1>11, <1>12, <1>13 DEF Serving

LEMMA HelloServing ==
  ASSUME SinkKept, SourceKept, Serving, Hello, UNCHANGED remoteVars
  PROVE  Serving'
<1>1. PICK q \in Seq(Message) : q = toSink
  BY DEF SinkKept
<1>2. PICK R : R = registered
  OBVIOUS
<1>3. PICK c : c = hasClient
  OBVIOUS
<1>4. PICK a \in Message : a = InitMsg
  BY MessagesTyped
<1>5. PICK ids \in SUBSET Signals : ids = Reg(R)
  BY DEF Reg
<1>6. PICK b \in Message : b = AvailableMsg(ids)
  BY MessagesTyped
<1>7. /\ sourceOpen /\ helloSent' = TRUE /\ UNCHANGED <<registered, sourceOpen, toSource>>
      /\ toSink' = (q \o <<a>>) \o (IF ids = {} THEN <<>> ELSE <<b>>)
  BY <1>1, <1>2, <1>4, <1>5, <1>6 DEF Hello, IsRegistered, Reg
<1>8. PICK v \in Seq(Message) : v = Append(q, a) /\ v = q \o <<a>>
  BY ConcatOne
<1>9. v \o <<>> = v /\ v \o <<b>> = Append(v, b)
  BY ConcatOne, ConcatEmptySeq
<1>10. PICK u : u = toSink'
  OBVIOUS
<1>11. u = v \/ u = Append(v, b)
  BY <1>7, <1>8, <1>9, <1>10
<1>12. Held(R) /\ Asking /\ Advertising
  BY <1>2 DEF Serving
<1>13. a.kind = "init" /\ b.kind = "available" /\ b.ids = Reg(R)
  BY <1>4, <1>5, <1>6 DEF InitMsg, AvailableMsg
<1>14. (Offers(q, Reg(R)) => Offers(v, Reg(R))) /\ (Introduced(q, c) => Introduced(v, c)) /\ HasInit(v)
  BY <1>8, <1>13, AdvertisedAppend
<1>15. /\ Offers(v, Reg(R)) => Offers(Append(v, b), Reg(R))
       /\ Introduced(v, c) => Introduced(Append(v, b), c)
       /\ HasInit(Append(v, b))
  BY <1>13, <1>14, AdvertisedAppend
<1>16. /\ Offers(q, Reg(R)) => Offers(u, Reg(R))
       /\ Introduction(q, c, helloSent) => Introduction(u, c, helloSent')
  BY <1>7, <1>11, <1>14, <1>15 DEF Introduction
<1>17. R = registered'
  BY <1>2, <1>7
<1>18. Held(registered)'
  BY <1>12, <1>17, NextHeld
<1>19. Asking'
  BY <1>2, <1>7, <1>12, <1>17, SourceAsks
<1>20. Advertising'
  BY <1>1, <1>2, <1>3, <1>7, <1>10, <1>12, <1>16, <1>17, SourceAdvertises
<1> QED BY <1>18, <1>19, <1>20 DEF Serving

LEMMA RequestServing ==
  ASSUME NEW P, Following(P), Permits(P), Serving, HandleRequest, UNCHANGED remoteVars
  PROVE  Serving'
<1>0. PICK q, R, request, o : Handled(P, q, R, request, o)
  BY RequestOutcome
<1>1. PICK n : n = nextSigno
  OBVIOUS
<1>2. /\ q = toSink /\ R = registered /\ request = Head(toSource)
      /\ q \in Seq(Message) /\ request \in Requests
      /\ Registrations(o.reg, n) /\ o.sent \in Seq(Message) /\ Plain(o.sent)
      /\ sourceOpen /\ toSource # <<>> /\ toSource' = Tail(toSource) /\ registered' = o.reg
      /\ q \o o.sent \in Seq(Message) /\ toSink' = Append(q \o o.sent, ResponseMsg)
      /\ UNCHANGED <<nextSigno, helloSent, sourceOpen>>
  BY <1>0, <1>1 DEF Handled
<1>3. Registrations(R, n) /\ toSource \in Seq(Requests) /\ Held(R) /\ Asking /\ Advertising
  BY <1>1, <1>2 DEF Following, SourceKept, Serving
<1>4. PICK D \in SUBSET Signals : Asked(toSource, R, D) /\ (sinkOpen => D = Demanded)
  BY <1>2, <1>3 DEF Asking
<1>5. PICK x \in Seq(Requests) : x = toSource
  BY <1>3
<1>6. PICK s \in Signals : s = request.id
  BY <1>2 DEF Requests
<1>7. x # <<>> /\ Head(x) = request /\ Asks(x, Explicit(R), D) /\ \A i \in 1 .. Len(x) : x[i].id \in Reg(R)
  BY <1>2, <1>4, <1>5 DEF Asked
<1>8. (request.method # "subscribe" => s \in Explicit(R)) /\ Asks(Tail(x), AfterAsk(Explicit(R), request), D)
  BY <1>6, <1>7, AsksTail
<1>9. s \in Reg(R) /\ \A i \in 1 .. Len(Tail(x)) : Tail(x)[i].id \in Reg(R)
  <2>1. /\ Len(x) \in Nat \ {0} /\ Len(Tail(x)) = Len(x) - 1 /\ Head(x) = x[1]
        /\ \A i \in 1 .. Len(Tail(x)) : Tail(x)[i] = x[i + 1]
    BY <1>7, HeadTailProperties
  <2>2. 1 \in 1 .. Len(x) /\ \A i \in 1 .. Len(Tail(x)) : i + 1 \in 1 .. Len(x)
    BY <2>1
  <2> QED BY <1>6, <1>7, <2>1, <2>2
<1>10. R[s] # Unregistered
  BY <1>9 DEF Reg
<1>11. Held(o.reg) /\ Explicit(o.reg) = AfterAsk(Explicit(R), request) /\ Reg(o.reg) = Reg(R)
  <2>1. CASE request.method = "subscribe"
    <3>1. SubscribeEffect(R, s, o)
      BY <1>0, <1>6, <2>1 DEF Handled
    <3>2. Held(o.reg) /\ Explicit(o.reg) = Explicit(R) \cup {s} /\ Reg(o.reg) = Reg(R)
      BY <1>2, <1>3, <1>10, <3>1, HeldSubscribed
    <3> QED BY <1>6, <2>1, <3>2 DEF AfterAsk
  <2>2. CASE request.method # "subscribe"
    <3>1. UnsubscribeEffect(R, s, o) /\ s \in Explicit(R)
      BY <1>0, <1>6, <1>8, <2>2 DEF Handled
    <3>2. Held(o.reg) /\ Explicit(o.reg) = Explicit(R) \ {s} /\ Reg(o.reg) = Reg(R)
      BY <1>2, <1>3, <3>1, HeldUnsubscribed
    <3> QED BY <1>6, <2>2, <3>2 DEF AfterAsk
  <2> QED BY <2>1, <2>2
<1>12. Held(registered)'
  BY <1>2, <1>11, NextHeld
<1>13. Asking'
  <2>1. PICK T : T = o.reg
    OBVIOUS
  <2>2. Asked(Tail(x), T, D)
    BY <1>8, <1>9, <1>11, <2>1 DEF Asked
  <2>3. Asked(toSource', registered', D)
    BY <1>2, <1>5, <2>1, <2>2
  <2>4. sinkOpen' = sinkOpen /\ Demanded' = Demanded
    BY DEF remoteVars, Demanded, IsKnown
  <2> QED BY <1>4, <2>3, <2>4, NextAsking
<1>14. Advertising'
  <2>1. PICK c : c = hasClient
    OBVIOUS
  <2>2. PICK v \in Seq(Message) : v = q \o o.sent
    BY <1>2
  <2>3. PICK m \in Message : m = ResponseMsg
    BY MessagesTyped
  <2>4. m.kind = "response"
    BY <2>3 DEF ResponseMsg
  <2>5. (Offers(q, Reg(R)) => Offers(v, Reg(R))) /\ (Introduced(q, c) => Introduced(v, c)) /\ (HasInit(q) => HasInit(v))
    BY <1>2, <2>2, AdvertisedPlain
  <2>6. PICK u : u = Append(v, m)
    OBVIOUS
  <2>7. (Offers(v, Reg(R)) => Offers(u, Reg(R))) /\ (Introduced(v, c) => Introduced(u, c)) /\ (HasInit(v) => HasInit(u))
    BY <2>4, <2>6, AdvertisedAppend
  <2>8. Introduction(q, c, helloSent) => Introduction(u, c, helloSent')
    BY <1>2, <2>5, <2>7 DEF Introduction
  <2>9. u = toSink'
    BY <1>2, <2>2, <2>3, <2>6
  <2>10. PICK T : T = registered' /\ Reg(T) = Reg(R)
    BY <1>2, <1>11
  <2>11. Offers(q, Reg(R)) => Offers(u, Reg(T))
    BY <2>5, <2>7, <2>10
  <2> QED BY <1>2, <1>3, <2>1, <2>8, <2>9, <2>10, <2>11, SourceAdvertises
<1> QED BY <1>12, <1>13, <1>14 DEF Serving

LEMMA SourceClosedServing ==
  ASSUME Serving, SourceClosed, UNCHANGED remoteVars
  PROVE  Serving'
<1>1. /\ ~sourceOpen' /\ UNCHANGED <<helloSent, toSink>>
      /\ registered' = [s \in Signals |-> Unregistered]
  BY DEF SourceClosed, ClearLocalSignals
<1>2. Held(registered)'
  BY <1>1 DEF Held
<1>3. Asking'
  BY <1>1 DEF Asking
<1>4. Advertising'
  BY <1>1 DEF Serving, Advertising, remoteVars, Demanded, IsKnown, Introduction, Introduced, HasInit
<1> QED BY <1>2, <1>3, <1>4 DEF Serving

LEMMA SinkClosedServing ==
  ASSUME Serving, SinkClosed, UNCHANGED localVars
  PROVE  Serving'
<1>1. ~sinkOpen' /\ UNCHANGED <<toSource, registered, sourceOpen>>
  BY DEF SinkClosed, localVars
<1>2. Held(registered)'
  BY <1>1, NextHeld DEF Serving
<1>3. Asking'
  BY <1>1, NextAsking DEF Serving, Asking
<1>4. Advertising'
  BY <1>1 DEF Advertising
<1> QED BY <1>2, <1>3, <1>4 DEF Serving

\* subscribe() and unsubscribe() at the sink: the demand changes exactly when a
\* request goes out.
LEMMA SinkAppServing ==
  ASSUME SinkKept, SourceKept, Serving, NEW s \in Signals, AppSubscribe(s) \/ AppUnsubscribe(s), UNCHANGED localVars
  PROVE  Serving'
<1>1. /\ sinkOpen /\ IsKnown(s) /\ UNCHANGED <<registered, helloSent, sourceOpen, toSink, hasClient, announced, sinkOpen>>
  BY DEF AppSubscribe, AppUnsubscribe, localVars
<1>2. Held(registered) /\ Asking /\ Advertising /\ toSource \in Seq(Requests)
  BY DEF Serving, SourceKept
<1>3. known[s] \in KnownEntry /\ known[s].uses \in Nat /\ known \in [Signals -> KnownEntry \cup {Unknown}]
  <2>1. known[s] \in KnownEntry
    BY <1>1, EntryFacts DEF SinkKept
  <2> QED BY <2>1, RemoteAssumption DEF KnownEntry, SinkKept, EntriesTyped
<1>4. PICK v \in Int : known' = [known EXCEPT ![s].uses = v] /\
          \/ AppSubscribe(s) /\ v = known[s].uses + 1
          \/ AppUnsubscribe(s) /\ v = known[s].uses - 1
  <2>1. CASE AppSubscribe(s)
    <3>1. PICK v \in Int : v = known[s].uses + 1
      BY <1>3
    <3>2. known' = [known EXCEPT ![s].uses = v]
      BY <2>1, <3>1 DEF AppSubscribe
    <3> QED BY <2>1, <3>1, <3>2
  <2>2. CASE AppUnsubscribe(s)
    <3>1. PICK v \in Int : v = known[s].uses - 1
      BY <1>3
    <3>2. known' = [known EXCEPT ![s].uses = v]
      BY <2>2, <3>1 DEF AppUnsubscribe
    <3> QED BY <2>2, <3>1, <3>2
  <2> QED BY <2>1, <2>2
<1>5. /\ known'[s].uses = v /\ IsKnown(s)'
      /\ \A t \in Signals : t # s => known'[t] = known[t] /\ (IsKnown(t)' <=> IsKnown(t))
  <2>1. known'[s].uses = v /\ known'[s].object = known[s].object /\ known[s].object # 0
    BY <1>3, <1>4 DEF KnownEntry
  <2>2. \A t \in Signals : t # s => known'[t] = known[t]
    BY <1>3, <1>4
  <2> QED BY <2>1, <2>2 DEF IsKnown, Unknown
<1>6. Demanded' = (IF v > 0 THEN Demanded \cup {s} ELSE Demanded \ {s})
  BY <1>5 DEF Demanded
<1>7. s \in Demanded <=> known[s].uses > 0
  BY <1>1 DEF Demanded
<1>8. announced[s] > 0 /\ hasClient
  <2>1. announced[s] > 0
    BY <1>1, <1>2, <1>7 DEF AppSubscribe, AppUnsubscribe, Advertising
  <2> QED BY <1>1, <1>2, <2>1 DEF Advertising
<1>9. \/ toSource' = toSource /\ Demanded' = Demanded
      \/ /\ s \notin Demanded /\ Demanded' = Demanded \cup {s}
         /\ toSource' = Append(toSource, Request("subscribe", s))
      \/ /\ s \in Demanded /\ Demanded' = Demanded \ {s}
         /\ toSource' = Append(toSource, Request("unsubscribe", s))
  <2>1. CASE AppSubscribe(s) /\ v = known[s].uses + 1
    <3>1. CASE known[s].uses = 0
      BY <1>3, <1>6, <1>7, <1>8, <2>1, <3>1 DEF AppSubscribe, Ask
    <3>2. CASE known[s].uses # 0
      <4>1. v > 0 /\ s \in Demanded
        BY <1>3, <1>7, <2>1, <3>2
      <4> QED BY <1>6, <2>1, <3>2, <4>1 DEF AppSubscribe
    <3> QED BY <3>1, <3>2
  <2>2. CASE AppUnsubscribe(s) /\ v = known[s].uses - 1
    <3>0. known[s].uses > 0 /\ s \in Demanded
      BY <1>7, <2>2 DEF AppUnsubscribe
    <3>1. CASE known[s].uses = 1
      <4>1. ~(v > 0)
        BY <2>2, <3>1
      <4> QED BY <1>6, <1>8, <2>2, <3>0, <3>1, <4>1 DEF AppUnsubscribe, Ask
    <3>2. CASE known[s].uses # 1
      <4>1. v > 0
        BY <1>3, <2>2, <3>0, <3>2
      <4> QED BY <1>6, <2>2, <3>0, <3>2, <4>1 DEF AppUnsubscribe
    <3> QED BY <3>1, <3>2
  <2> QED BY <1>4, <2>1, <2>2
<1>10. Held(registered)'
  BY <1>1, <1>2, NextHeld
<1>11. Asking'
  <2> SUFFICES ASSUME sourceOpen'
               PROVE  \E D \in SUBSET Signals : Asked(toSource', registered', D) /\ (sinkOpen' => D = Demanded')
    BY NextAsking
  <2>1. PICK D \in SUBSET Signals : Asked(toSource, registered, D) /\ D = Demanded
    BY <1>1, <1>2 DEF Asking
  <2>2. PICK q \in Seq(Requests) : q = toSource
    BY <1>2
  <2>3. PICK R : R = registered
    OBVIOUS
  <2>4. Asked(q, R, D) /\ R = registered'
    BY <1>1, <2>1, <2>2, <2>3
  <2>5. CASE toSource' = toSource /\ Demanded' = Demanded
    <3>1. Asked(toSource', registered', D)
      BY <2>2, <2>4, <2>5
    <3> QED BY <2>1, <2>5, <3>1
  <2>6. ASSUME NEW m \in Requests, m.id = s, m.method # "subscribe" => s \in D,
               toSource' = Append(toSource, m), Demanded' = AfterAsk(D, m)
        PROVE  \E E \in SUBSET Signals : Asked(toSource', registered', E) /\ (sinkOpen' => E = Demanded')
    <3>1. s \in Reg(R)
      BY <1>1, <1>2, <1>8, <2>3 DEF Advertising
    <3>2. Asks(Append(q, m), Explicit(R), AfterAsk(D, m))
      BY <2>4, <2>6, AsksAppend DEF Asked
    <3>3. \A i \in 1 .. Len(Append(q, m)) : Append(q, m)[i].id \in Reg(R)
      <4>1. /\ Len(q) \in Nat /\ Len(Append(q, m)) = Len(q) + 1 /\ Append(q, m)[Len(q) + 1] = m
            /\ \A i \in 1 .. Len(q) : Append(q, m)[i] = q[i]
        BY AppendProperties
      <4>2. \A i \in 1 .. Len(q) + 1 : i \in 1 .. Len(q) \/ i = Len(q) + 1
        BY <4>1
      <4>3. \A i \in 1 .. Len(q) : q[i].id \in Reg(R)
        BY <2>4 DEF Asked
      <4> QED BY <2>6, <3>1, <4>1, <4>2, <4>3
    <3>4. PICK E \in SUBSET Signals : E = AfterAsk(D, m)
      BY AfterAskTyped
    <3>5. PICK x : x = Append(q, m)
      OBVIOUS
    <3>6. Asked(x, R, E)
      BY <3>2, <3>3, <3>4, <3>5 DEF Asked
    <3>7. Asked(toSource', registered', E)
      BY <2>2, <2>4, <2>6, <3>5, <3>6
    <3> QED BY <2>6, <3>4, <3>7
  <2>7. CASE s \notin Demanded /\ Demanded' = Demanded \cup {s} /\ toSource' = Append(toSource, Request("subscribe", s))
    <3>1. PICK m \in Requests : m = Request("subscribe", s)
      BY DEF Request, Requests
    <3>2. m.id = s /\ m.method = "subscribe"
      BY <3>1 DEF Request
    <3>3. Demanded' = AfterAsk(D, m)
      BY <2>1, <2>7, <3>2 DEF AfterAsk
    <3> QED BY <2>6, <2>7, <3>1, <3>2, <3>3
  <2>8. CASE s \in Demanded /\ Demanded' = Demanded \ {s} /\ toSource' = Append(toSource, Request("unsubscribe", s))
    <3>1. PICK m \in Requests : m = Request("unsubscribe", s)
      BY DEF Request, Requests
    <3>2. m.id = s /\ m.method = "unsubscribe"
      BY <3>1 DEF Request
    <3>3. Demanded' = AfterAsk(D, m)
      BY <2>1, <2>8, <3>2 DEF AfterAsk
    <3> QED BY <2>1, <2>6, <2>8, <3>1, <3>2, <3>3
  <2> QED BY <1>9, <2>5, <2>7, <2>8
<1>12. Advertising'
  <2>1. \A t \in Demanded' : announced[t] > 0
    BY <1>1, <1>2, <1>8, <1>9 DEF Advertising
  <2>2. Reg(registered)' = Reg(registered)
    BY <1>1 DEF Reg
  <2>3. Introduction(toSink, hasClient, helloSent)' <=> Introduction(toSink, hasClient, helloSent)
    BY <1>1 DEF Introduction, Introduced, HasInit
  <2>4. Offers(toSink, Reg(registered))' <=> Offers(toSink, Reg(registered))
    BY <1>1, <2>2 DEF Offers
  <2> QED BY <1>1, <1>2, <2>1, <2>2, <2>3, <2>4 DEF Advertising
<1> QED BY <1>10, <1>11, <1>12 DEF Serving

\* Whatever the sink receives: only advertised signals are announced, and nothing
\* is used that was not used before.
LEMMA SinkServing ==
  ASSUME NEW P, "domain" \in P, Following(P), Serving, SinkHandles, UNCHANGED localVars
  PROVE  Serving'
<1>1. /\ sinkOpen /\ sinkOpen' = sinkOpen /\ toSink # <<>> /\ toSink' = Tail(toSink) /\ toSource' = toSource
      /\ UNCHANGED <<registered, helloSent, sourceOpen>>
  BY ReceiveShortens DEF localVars
<1>2. Held(registered) /\ Asking /\ Advertising /\ toSink \in Seq(Message) /\ announced \in [Signals -> Nat]
  BY DEF Serving, Following, SinkKept, EntriesTyped
<1>3. PICK r \in View : Reaches(P, toSink, r)
  BY <1>1 DEF Following
<1>4. PICK q \in Seq(Message) : q = toSink
  BY <1>2
<1>5. PICK m \in Message : m = Head(q)
  BY <1>1, <1>4, HeadTailProperties
<1>6. /\ Kept /\ Announces(m) /\ (m.kind = "init" => hasClient') /\ (m.kind # "init" => hasClient' = hasClient)
  BY <1>2, <1>3, <1>4, <1>5, SinkGains
<1>7. Demanded' = Demanded
  BY <1>6 DEF Demanded, Kept
<1>8. Held(registered)'
  BY <1>1, <1>2, NextHeld
<1>9. Asking'
  BY <1>1, <1>2, <1>7, NextAsking DEF Asking
<1>10. PICK c : c = hasClient
  OBVIOUS
<1>11. PICK S : S = Reg(registered)
  OBVIOUS
<1>12. PICK u : u = Tail(q)
  OBVIOUS
<1>13. Introduced(q, c) /\ (helloSent => c \/ HasInit(q)) /\ (sourceOpen => Offers(q, S))
  BY <1>1, <1>2, <1>4, <1>10, <1>11 DEF Advertising, Introduction
<1>14. q # <<>>
  BY <1>1, <1>4
<1>15. /\ HasInit(q) /\ m.kind # "init" => HasInit(u)
       /\ m.kind # "init" => Introduced(u, c)
       /\ m.kind = "available" => c
       /\ sourceOpen => Offers(u, S)
       /\ sourceOpen /\ m.kind = "available" => m.ids \subseteq S
  BY <1>5, <1>12, <1>13, <1>14, AdvertisedTail
<1>16. PICK d : d = hasClient'
  OBVIOUS
<1>17. c => d
  BY <1>6, <1>10, <1>16
<1>18. Introduction(u, d, helloSent')
  <2>1. CASE m.kind = "init"
    BY <1>6, <1>16, <2>1 DEF Introduction, Introduced
  <2>2. CASE m.kind # "init"
    BY <1>1, <1>6, <1>10, <1>13, <1>15, <1>16, <2>2 DEF Introduction
  <2> QED BY <2>1, <2>2
<1>19. u = toSink' /\ S = Reg(registered)'
  BY <1>1, <1>4, <1>11, <1>12 DEF Reg
<1>20. Introduction(toSink, hasClient, helloSent)'
  BY <1>16, <1>18, <1>19 DEF Introduction, Introduced, HasInit
<1>21. sourceOpen' => Offers(toSink, Reg(registered))'
  BY <1>1, <1>15, <1>19 DEF Offers
<1>22. \A s \in Signals : announced'[s] > 0 => hasClient' /\ (sourceOpen' => s \in S)
  BY <1>1, <1>2, <1>6, <1>10, <1>11, <1>15, <1>16, <1>17 DEF Advertising, Announces
<1>23. \A s \in Demanded' : announced'[s] > 0
  BY <1>1, <1>2, <1>6, <1>7 DEF Advertising, Announces, Demanded
<1>24. Advertising'
  BY <1>19, <1>20, <1>21, <1>22, <1>23 DEF Advertising
<1> QED BY <1>8, <1>9, <1>24 DEF Serving

LEMMA NextServing ==
  ASSUME NEW P, "domain" \in P, Following(P), Permits(P), DomainFirst, removals \in Nat, MaxRemovals = 0,
         Serving, [Next]_vars
  PROVE  Serving' /\ removals' = removals
<1>0. SinkKept /\ SourceKept
  BY DEF Following
<1>1. CASE SourceApp
  <2>0. UNCHANGED remoteVars
    BY <1>1 DEF SourceApp
  <2>1. CASE \E s \in Signals : (HasDomain(s) => IsRegistered(TableOf[s])) /\ AddLocalSignal(s) /\ UNCHANGED removals
    BY <1>0, <2>0, <2>1, AddServing
  <2>2. CASE \E s \in Signals, jump \in BOOLEAN : Publish(s, jump) /\ UNCHANGED removals
    BY <1>0, <2>0, <2>2, PublishServing
  <2>3. CASE Hello /\ UNCHANGED removals
    BY <1>0, <2>0, <2>3, HelloServing
  <2>4. ~(removals < MaxRemovals)
    OBVIOUS
  <2> QED BY <1>1, <2>1, <2>2, <2>3, <2>4 DEF SourceApp
<1>2. CASE Source
  <2>1. HandleRequest /\ UNCHANGED remoteVars /\ removals' = removals
    BY <1>2 DEF Source
  <2> QED BY <2>1, RequestServing
<1>3. CASE SinkApp
  <2>1. UNCHANGED localVars /\ removals' = removals
    BY <1>3 DEF SinkApp
  <2> QED BY <1>0, <1>3, <2>1, SinkAppServing DEF SinkApp
<1>4. CASE Sink
  <2>1. SinkHandles /\ UNCHANGED localVars /\ removals' = removals
    BY <1>4 DEF Sink, SinkHandles
  <2> QED BY <2>1, SinkServing
<1>5. CASE Disconnect
  BY <1>5, SourceClosedServing, SinkClosedServing DEF Disconnect
<1>6. CASE UNCHANGED vars
  <2>1. UNCHANGED remoteVars /\ UNCHANGED <<toSink, toSource, registered, helloSent, sourceOpen, removals>>
    BY <1>6 DEF vars, localVars
  <2>2. Held(registered) /\ Asking /\ Advertising
    BY DEF Serving
  <2>3. Held(registered)'
    BY <2>1, <2>2, NextHeld
  <2>4. PICK R : R = registered
    OBVIOUS
  <2>5. PICK q : q = toSink
    OBVIOUS
  <2>6. PICK c : c = hasClient
    OBVIOUS
  <2>7. R = registered' /\ q = toSink' /\ (Introduction(q, c, helloSent) => Introduction(q, c, helloSent'))
    BY <2>1, <2>4, <2>5
  <2>8. Asking'
    BY <2>1, <2>2, <2>4, <2>7, SourceAsks
  <2>9. Advertising'
    BY <2>1, <2>2, <2>4, <2>5, <2>6, <2>7, SourceAdvertises
  <2> QED BY <2>1, <2>3, <2>8, <2>9 DEF Serving
<1> QED BY <1>1, <1>2, <1>3, <1>4, <1>5, <1>6 DEF Next

LEMMA NextDomainSound ==
  ASSUME NEW P, "domain" \in P, Following(P), DomainSound, [Next]_vars
  PROVE  DomainSound'
<1>1. CASE UNCHANGED known
  BY <1>1 DEF DomainSound, BoundAt, IsKnown
<1>2. CASE SinkHandles
  <2>1. PICK r \in View : Reaches(P, toSink, r)
    BY <1>2, ReceiveShortens DEF Following
  <2>2. toSink \in Seq(Message)
    BY DEF Following, SinkKept
  <2> QED BY <1>2, <2>1, <2>2, SinkGains
<1>3. ASSUME NEW s \in Signals, AppSubscribe(s) \/ AppUnsubscribe(s) PROVE DomainSound'
  <2>1. known[s] \in KnownEntry /\ known \in [Signals -> KnownEntry \cup {Unknown}]
    BY <1>3, EntryFacts DEF Following, SinkKept, EntriesTyped, AppSubscribe, AppUnsubscribe
  <2>2. IsKnown(s)
    BY <1>3 DEF AppSubscribe, AppUnsubscribe
  <2>3. PICK v : known' = [known EXCEPT ![s].uses = v]
    BY <1>3 DEF AppSubscribe, AppUnsubscribe
  <2>4. /\ known'[s].object = known[s].object /\ known'[s].described = known[s].described
        /\ known'[s].domain = known[s].domain /\ known[s].object # 0
    BY <2>1, <2>3 DEF KnownEntry
  <2>5. IsKnown(s)' /\ \A t \in Signals : t # s => known'[t] = known[t] /\ (IsKnown(t)' <=> IsKnown(t))
    BY <2>1, <2>3, <2>4 DEF IsKnown, Unknown
  <2>6. \A t \in Signals : HasDomain(t) => TableOf[t] \in Signals
    BY DomainOf
  <2> QED BY <2>2, <2>4, <2>5, <2>6 DEF DomainSound, BoundAt
<1>4. CASE SinkClosed
  BY <1>4 DEF SinkClosed, DomainSound, IsKnown
<1>5. \/ UNCHANGED known \/ SinkHandles \/ SinkClosed
      \/ \E s \in Signals : AppSubscribe(s) \/ AppUnsubscribe(s)
  BY DEF Next, SourceApp, Source, SinkApp, Sink, SinkHandles, Disconnect, vars, remoteVars
<1> QED BY <1>1, <1>2, <1>3, <1>4, <1>5

\* The inductive invariant of a link with a steady application.
Promises == {"data", "domain"}

SteadyIInv == Following(Promises) /\ Serving /\ DomainSound /\ removals \in Nat

LEMMA SteadyInvariant ==
  ASSUME Steady
  PROVE  Spec => []SteadyIInv
<1>0. MaxRemovals = 0 /\ DomainFirst /\ "domain" \in Promises
  BY DEF Steady, Promises
<1>1. Init => SteadyIInv
  <2> SUFFICES ASSUME Init PROVE SteadyIInv
    OBVIOUS
  <2>1. Following(Promises)
    BY InitFollowing
  <2>2. /\ toSink = <<>> /\ toSource = <<>> /\ removals = 0 /\ helloSent = FALSE
        /\ registered = [s \in Signals |-> Unregistered] /\ known = [s \in Signals |-> Unknown]
        /\ announced = [s \in Signals |-> 0]
    BY DEF Init, RemoteInit, LocalInit
  <2>3. Held(registered) /\ DomainSound
    BY <2>2 DEF Held, DomainSound, IsKnown
  <2>4. Explicit(registered) = {} /\ Demanded = {} /\ Len(toSource) = 0 /\ Len(toSink) = 0
    BY <2>2 DEF Explicit, Demanded, IsKnown
  <2>5. Asks(<<>>, {}, {})
    BY AsksEmpty
  <2>6. Asked(toSource, registered, {})
    <3>1. Asks(toSource, Explicit(registered), {})
      BY <2>2, <2>4, <2>5
    <3>2. \A i \in 1 .. Len(toSource) : toSource[i].id \in Reg(registered)
      BY <2>4
    <3> QED BY <3>1, <3>2 DEF Asked
  <2>7. Asking
    BY <2>4, <2>6 DEF Asking
  <2>8. Advertising
    BY <2>2, <2>4 DEF Advertising, Introduction, Introduced, Offers
  <2> QED BY <2>1, <2>2, <2>3, <2>7, <2>8 DEF SteadyIInv, Serving
<1>2. SteadyIInv /\ [Next]_vars => SteadyIInv'
  <2> SUFFICES ASSUME SteadyIInv, [Next]_vars PROVE SteadyIInv'
    OBVIOUS
  <2>1. Following(Promises) /\ Serving /\ DomainSound /\ removals \in Nat
    BY DEF SteadyIInv
  <2>2. Permits(Promises)
    BY <1>0, <2>1, HeldDomains DEF Permits, Serving
  <2>3. Following(Promises)'
    BY <2>1, <2>2, NextFollowing
  <2>4. Serving' /\ removals' = removals
    BY <1>0, <2>1, <2>2, NextServing
  <2>5. DomainSound'
    BY <1>0, <2>1, NextDomainSound
  <2> QED BY <2>1, <2>3, <2>4, <2>5 DEF SteadyIInv
<1> QED BY <1>1, <1>2, PTL DEF Spec

\* While the application adds domain signals before their users and removes
\* nothing, every data and metadata packet finds its signal known and subscribed at
\* the sink, whatever is subscribed and unsubscribed meanwhile.
THEOREM AttributableTheorem ==
  ASSUME Steady
  PROVE  Spec => []MessagesAttributable
<1>1. SteadyIInv => MessagesAttributable
  <2> SUFFICES ASSUME SteadyIInv PROVE MessagesAttributable
    OBVIOUS
  <2>1. CASE sinkOpen
    <3>1. PICK r \in View : Reaches(Promises, toSink, r)
      BY <2>1 DEF SteadyIInv, Following
    <3>2. toSink \in Seq(Message) /\ "data" \in Promises
      BY DEF SteadyIInv, Following, SinkKept, Promises
    <3> QED BY <3>1, <3>2, SoundAttributes
  <2>2. CASE ~sinkOpen
    BY <2>2 DEF MessagesAttributable
  <2> QED BY <2>1, <2>2
<1> QED BY <1>1, SteadyInvariant, PTL

\* Under the same use, once no message is in flight the source has marked exactly
\* the signals the sink's application uses, and it transmits all it has marked: no
\* order of uses, answers and registrations loses or keeps a subscription.
THEOREM DemandTheorem ==
  ASSUME Steady
  PROVE  Spec => []DemandServed
<1>1. SteadyIInv => DemandServed
  <2> SUFFICES ASSUME SteadyIInv PROVE DemandMet /\ ExplicitIsTransmitted
    BY DEF DemandServed
  <2>1. Held(registered) /\ Asking
    BY DEF SteadyIInv, Serving
  <2>2. ExplicitIsTransmitted
    BY <2>1 DEF ExplicitIsTransmitted, Held, Subscribed, IsRegistered
  <2>3. ASSUME sourceOpen, sinkOpen, toSource = <<>>, NEW s \in Signals, IsKnown(s), IsRegistered(s)
        PROVE  known[s].uses > 0 <=> registered[s].explicit
    <3>1. PICK A \in SUBSET Signals : A = Explicit(registered)
      BY DEF Explicit
    <3>2. PICK D \in SUBSET Signals : Asks(<<>>, A, D) /\ D = Demanded
      BY <2>1, <2>3, <3>1 DEF Asking, Asked
    <3>3. A = Demanded
      BY <3>2, AsksEmpty
    <3>4. (s \in Demanded <=> known[s].uses > 0) /\ (s \in Explicit(registered) <=> registered[s].explicit)
      BY <2>3 DEF Demanded, Explicit, IsRegistered
    <3> QED BY <3>1, <3>3, <3>4
  <2>4. DemandMet
    BY <2>3 DEF DemandMet
  <2> QED BY <2>2, <2>4
<1> QED BY <1>1, SteadyInvariant, PTL

\* Under the same use, the count of implicit subscriptions of a domain signal is
\* the number of its transmitted users, and at the sink every signal whose metadata
\* has arrived is bound to the live object of its domain signal if that one alone
\* has the linear table of that name, and to nothing if no signal has.
THEOREM DomainUsersTheorem ==
  ASSUME Steady
  PROVE  Spec => []DomainFollowsUsers
<1>1. SteadyIInv => DomainFollowsUsers
  <2> SUFFICES ASSUME SteadyIInv PROVE DomainCounted /\ DomainBound
    BY DEF DomainFollowsUsers
  <2>1. Held(registered) /\ DomainSound /\ EntriesTyped
    BY DEF SteadyIInv, Serving, Following, SinkKept
  <2>2. DomainCounted
    BY <2>1 DEF DomainCounted, Held, Users, IsRegistered
  <2>3. DomainBound
    <3> SUFFICES ASSUME NEW s \in Signals, IsKnown(s), known[s].described, HasDomain(s)
                 PROVE  /\ TablesNamed(s) = {TableOf[s]} =>
                             known[s].domain = known[TableOf[s]].object /\ known[s].domain # 0
                        /\ TablesNamed(s) = {} => known[s].domain = 0
      BY DEF DomainBound
    <3>1. TableOf[s] \in Signals
      BY DomainOf
    <3>2. BoundAt(s)
      BY <2>1 DEF DomainSound
    <3> QED BY <2>1, <3>1, <3>2, EntryFacts DEF BoundAt
  <2> QED BY <2>2, <2>3
<1> QED BY <1>1, SteadyInvariant, PTL
=============================================================================
