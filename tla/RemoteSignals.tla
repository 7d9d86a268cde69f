--------------------------- MODULE RemoteSignals ----------------------------
(***************************************************************************)
(* The sink end of a connection: detail::remote_signal_container,          *)
(* remote_signal_impl, the message handlers of connection, and the in-band *)
(* command interface client.  A signal is known by id from the moment it   *)
(* is advertised, or subscribed before being advertised (then it is hidden *)
(* from the application), and by signo while it is subscribed.             *)
(***************************************************************************)
EXTENDS SignalChannel

CONSTANT MaxUses \* bound: nested remote_signal::subscribe() calls

ASSUME RemoteAssumption == MaxUses \in Nat

VARIABLES known,     \* _signals_by_id: id -> its entry and remote_signal_impl, or Unknown
          bySigno,   \* _signals_by_signo: signo -> the entry it points to
          nextObject, \* identifies entries: memory is not reused
          hasClient, \* _command_interface_client exists
          pending,   \* _requests: requests not yet answered
          announced, \* per id, on_available minus on_unavailable events
          sinkOpen   \* on_peer_closed has not run at the sink

remoteVars == <<known, bySigno, nextObject, hasClient, pending, announced, sinkOpen>>

\* An entry: object identifies it, signo 0 is none, domain the object that
\* _domain_signal refers to (0 if none), described whether "signal" metadata
\* arrived, uses the remote_signal's _subscription_count.
Unknown == [object |-> 0]

NewEntry(hidden) ==
  [object |-> nextObject, hidden |-> hidden, signo |-> 0, subscribed |-> FALSE,
   described |-> FALSE, domain |-> 0, uses |-> 0]

IsKnown(s) == known[s] # Unknown

RemoteInit ==
  /\ known = [s \in Signals |-> Unknown]
  /\ bySigno = <<>>
  /\ nextObject = 1
  /\ hasClient = FALSE
  /\ pending = 0
  /\ announced = [s \in Signals |-> 0]
  /\ sinkOpen = TRUE

\* The next message, if it has the given kind, is taken from the channel.
Receive(kind) ==
  /\ sinkOpen /\ toSink # <<>>
  /\ Head(toSink).kind = kind
  /\ toSink' = Tail(toSink)

\* find_remote_signal(signo): a map lookup that yields a raw pointer to an
\* entry; Target names the entry if it still exists.
Target(n) ==
  IF n \in DOMAIN bySigno
    THEN {s \in Signals : IsKnown(s) /\ known[s].object = bySigno[n]}
    ELSE {}

Without(f, n) == [m \in DOMAIN f \ {n} |-> f[m]]
With(f, n, v) == [m \in DOMAIN f \cup {n} |-> IF m = n THEN v ELSE f[m]]
-----------------------------------------------------------------------------
(* The message handlers. *)

\* Mutant of HandleInit: the command interface client is not created.
HandleInitNoClient ==
  /\ Receive("init")
  /\ UNCHANGED <<toSource, remoteVars>>

\* handle_init: from here on subscriptions can be requested.
HandleInit ==
  /\ Receive("init")
  /\ hasClient' = TRUE
  /\ UNCHANGED <<toSource, known, bySigno, nextObject, pending, announced, sinkOpen>>

\* Mutant of HandleAvailable: a signal that is already known is passed over
\* even when it is hidden.
HandleAvailableKnownSkipped ==
  LET ids == Head(toSink).ids
      new == {s \in ids : ~IsKnown(s)}
  IN  /\ Receive("available")
      /\ \E order \in {f \in [new -> 0..(Cardinality(new) - 1)] :
                         \A x, y \in new : x # y => f[x] # f[y]} :
           known' = [s \in Signals |->
             IF s \in new THEN [NewEntry(FALSE) EXCEPT !.object = @ + order[s]] ELSE known[s]]
      /\ nextObject' = nextObject + Cardinality(new)
      /\ announced' = [s \in Signals |-> IF s \in new THEN announced[s] + 1 ELSE announced[s]]
      /\ UNCHANGED <<toSource, bySigno, hasClient, pending, sinkOpen>>

\* handle_available: new and hidden signals become visible and are announced.
HandleAvailable ==
  LET ids == Head(toSink).ids
      new == {s \in ids : ~IsKnown(s)}
      shown == new \cup {s \in ids : IsKnown(s) /\ known[s].hidden}
  IN  /\ Receive("available")
      /\ \E order \in {f \in [new -> 0..(Cardinality(new) - 1)] :
                         \A x, y \in new : x # y => f[x] # f[y]} :
           known' = [s \in Signals |->
             CASE s \in new             -> [NewEntry(FALSE) EXCEPT !.object = @ + order[s]]
               [] s \in shown \ new     -> [known[s] EXCEPT !.hidden = FALSE]
               [] s \notin shown        -> known[s]]
      /\ nextObject' = nextObject + Cardinality(new)
      /\ announced' = [s \in Signals |-> IF s \in shown THEN announced[s] + 1 ELSE announced[s]]
      /\ UNCHANGED <<toSource, bySigno, hasClient, pending, sinkOpen>>

\* remove_remote_signal forgets the signo the signal holds.
ForgetSigno(s) == Without(bySigno, known[s].signo)

\* Mutant of HandleUnavailable: the signo is not forgotten.
HandleUnavailableKeepsSigno ==
  LET s == Head(toSink).id
  IN  /\ Receive("unavailable")
      /\ IF IsKnown(s)
           THEN /\ known' = [known EXCEPT ![s] = Unknown]
                /\ announced' = IF known[s].hidden THEN announced
                                ELSE [announced EXCEPT ![s] = @ - 1]
           ELSE UNCHANGED <<known, announced>>
      /\ UNCHANGED <<toSource, bySigno, nextObject, hasClient, pending, sinkOpen>>

\* handle_unavailable: remove, detach, and withdraw unless hidden.
HandleUnavailable ==
  LET s == Head(toSink).id
  IN  /\ Receive("unavailable")
      /\ IF IsKnown(s)
           THEN /\ known' = [known EXCEPT ![s] = Unknown]
                /\ bySigno' = ForgetSigno(s)
                /\ announced' = IF known[s].hidden THEN announced
                                ELSE [announced EXCEPT ![s] = @ - 1]
           ELSE UNCHANGED <<known, bySigno, announced>>
      /\ UNCHANGED <<toSource, nextObject, hasClient, pending, sinkOpen>>

\* handle_subscribe: unknown signals are recorded as hidden; the signo is bound.
HandleSubscribe ==
  LET m == Head(toSink)
      e == IF IsKnown(m.id) THEN known[m.id] ELSE NewEntry(TRUE)
  IN  /\ Receive("subscribe")
      /\ known' = [known EXCEPT ![m.id] = [e EXCEPT !.signo = m.signo, !.subscribed = TRUE]]
      /\ bySigno' = With(bySigno, m.signo, e.object)
      /\ nextObject' = IF IsKnown(m.id) THEN nextObject ELSE nextObject + 1
      /\ UNCHANGED <<toSource, hasClient, pending, announced, sinkOpen>>

\* Mutant of HandleUnsubscribe: the signo is forgotten before the dispatch.
HandleUnsubscribeForgetsFirst ==
  LET n == Head(toSink).signo
  IN  /\ Receive("unsubscribe")
      /\ bySigno' = Without(bySigno, n)
      /\ UNCHANGED <<toSource, known, nextObject, hasClient, pending, announced, sinkOpen>>

\* handle_unsubscribe: dispatch to the signal, then forget the signo.
HandleUnsubscribe ==
  LET n == Head(toSink).signo
  IN  /\ Receive("unsubscribe")
      /\ known' = [s \in Signals |->
           IF s \in Target(n) THEN [known[s] EXCEPT !.subscribed = FALSE] ELSE known[s]]
      /\ bySigno' = Without(bySigno, n)
      /\ UNCHANGED <<toSource, nextObject, hasClient, pending, announced, sinkOpen>>

\* on_table_sought, find_table: an entry that has a linear table, which it has
\* from its own metadata on, with the table id of s.  If several do the code
\* takes the first by id, here any of them; finding s itself counts as nothing.
FindTable(s) ==
  LET found == {u \in TablesNamed(s) : u = s \/ (IsKnown(u) /\ known[u].described)}
  IN  IF HasDomain(s) /\ found # {}
        THEN {IF u = s THEN 0 ELSE known[u].object : u \in found} ELSE {0}

\* handle_signal.
HandleSignal ==
  LET m == Head(toSink)
  IN  /\ Receive("signal")
      /\ \E table \in FindTable(m.id) :
           known' = [s \in Signals |->
             IF s \in Target(m.signo)
               THEN [known[s] EXCEPT !.described = TRUE, !.domain = table]
               ELSE known[s]]
      /\ UNCHANGED <<toSource, bySigno, nextObject, hasClient, pending, announced, sinkOpen>>

\* on_peer_data_received and handle_response change nothing else here; what a
\* data message does to domain values is LinearDomain's subject.
HandleData ==
  /\ Receive("data")
  /\ UNCHANGED <<toSource, remoteVars>>

HandleResponse ==
  /\ Receive("response")
  /\ pending' = pending - 1
  /\ UNCHANGED <<toSource, known, bySigno, nextObject, hasClient, announced, sinkOpen>>
-----------------------------------------------------------------------------
(* The application at the sink, and the end of the connection. *)

\* on_signal_subscribe_requested, on_signal_unsubscribe_requested: without a
\* command interface client the request is dropped.
Ask(method, s) ==
  IF hasClient
    THEN /\ toSource' = Append(toSource, Request(method, s))
         /\ pending' = pending + 1
    ELSE UNCHANGED <<toSource, pending>>

\* remote_signal_impl::subscribe on an announced signal.
AppSubscribe(s) ==
  /\ sinkOpen /\ announced[s] > 0 /\ IsKnown(s)
  /\ known[s].uses < MaxUses
  /\ known' = [known EXCEPT ![s].uses = @ + 1]
  /\ IF known[s].uses = 0 THEN Ask("subscribe", s) ELSE UNCHANGED <<toSource, pending>>
  /\ UNCHANGED <<toSink, bySigno, nextObject, hasClient, announced, sinkOpen>>

\* remote_signal_impl::unsubscribe, matching an earlier subscribe.
AppUnsubscribe(s) ==
  /\ sinkOpen /\ IsKnown(s)
  /\ known[s].uses > 0
  /\ known' = [known EXCEPT ![s].uses = @ - 1]
  /\ IF known[s].uses = 1 THEN Ask("unsubscribe", s) ELSE UNCHANGED <<toSource, pending>>
  /\ UNCHANGED <<toSink, bySigno, nextObject, hasClient, announced, sinkOpen>>

\* on_peer_closed at the sink: clear_remote_signals detaches every signal and
\* withdraws the ones that were announced.
SinkClosed ==
  /\ sinkOpen
  /\ sinkOpen' = FALSE
  /\ announced' = [s \in Signals |->
       IF IsKnown(s) /\ ~known[s].hidden THEN announced[s] - 1 ELSE announced[s]]
  /\ known' = [s \in Signals |-> Unknown]
  /\ bySigno' = <<>>
  /\ UNCHANGED <<toSink, toSource, nextObject, hasClient, pending>>
-----------------------------------------------------------------------------
(* Properties that do not depend on who the source is. *)

\* _signals_by_signo holds raw pointers into _signals_by_id: none of them
\* outlives its entry.  It takes a source that keeps to one number per signal:
\* set_remote_signal_signo does not erase the number a signal had before.
NoDanglingSigno == \A n \in DOMAIN bySigno : Target(n) # {}

\* The application is told of a signal once and its withdrawal once: what it
\* believes to be available is exactly what the connection knows and shows.
AnnouncedExactly ==
  \A s \in Signals : announced[s] = IF IsKnown(s) /\ ~known[s].hidden THEN 1 ELSE 0

\* Data and metadata of a signal arrive only while the sink can attribute them:
\* its number is known and the signal subscribed.
MessagesAttributable ==
  (sinkOpen /\ toSink # <<>> /\ Head(toSink).kind \in {"data", "signal"}) =>
    \E s \in Target(Head(toSink).signo) : known[s].subscribed
=============================================================================
