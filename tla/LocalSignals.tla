---------------------------- MODULE LocalSignals ----------------------------
(***************************************************************************)
(* The source end of a connection: detail::local_signal_container and the  *)
(* parts of connection that register, advertise, subscribe and publish     *)
(* local signals.  An explicit subscription, asked for by the sink, also   *)
(* subscribes the signal's domain signal implicitly, counting its users.   *)
(***************************************************************************)
EXTENDS SignalChannel

CONSTANTS CountModulus, \* 2^width of implicit_subscribe_count
          MaxSigno      \* bound: registrations in one behaviour

ASSUME LocalAssumption ==
  /\ CountModulus \in Nat /\ CountModulus > Cardinality(Signals)
  /\ MaxSigno \in Nat

VARIABLES registered, \* signal -> its registered_local_signal, or Unregistered
          nextSigno,  \* _next_signo
          helloSent,  \* _hello_sent
          sourceOpen  \* on_peer_closed has not run at the source

localVars == <<registered, nextSigno, helloSent, sourceOpen>>

\* A registered_local_signal.  hooked stands for its slots and its
\* subscribe_holder, which are always taken and released together; domain is
\* the signo of the entry whose table domain_table points to, 0 if none.
Entry ==
  [signo : Nat, explicit : BOOLEAN, implicit : 0..(CountModulus - 1),
   hooked : BOOLEAN, domain : Nat]

Unregistered == [signo |-> 0]

IsRegistered(s) == registered[s] # Unregistered

Subscribed(e) == e.explicit \/ e.implicit > 0

LocalInit ==
  /\ registered = [s \in Signals |-> Unregistered]
  /\ nextSigno = 1
  /\ helloSent = FALSE
  /\ sourceOpen = TRUE

\* find_local_signal(table_id): what a signal's domain is bound to.
DomainSigno(r, s) == IF HasDomain(s) THEN r[TableOf[s]].signo ELSE 0
-----------------------------------------------------------------------------
(* subscribe() and unsubscribe(), as functions from the registrations to   *)
(* the new registrations and the messages sent.                            *)

Nothing(r) == [reg |-> r, sent |-> <<>>]

\* Mutant of Hook: the metadata goes out before the subscribe message.
HookSignalFirst(r, s, e) ==
  [reg  |-> [r EXCEPT ![s] = [e EXCEPT !.hooked = TRUE, !.domain = DomainSigno(r, s)]],
   sent |-> <<SignalMsg(e.signo, s), SubscribeMsg(e.signo, s)>>]

\* The tail of subscribe(): announce, refresh the bindings, connect the slots.
Hook(r, s, e) ==
  [reg  |-> [r EXCEPT ![s] = [e EXCEPT !.hooked = TRUE, !.domain = DomainSigno(r, s)]],
   sent |-> <<SubscribeMsg(e.signo, s), SignalMsg(e.signo, s)>>]

\* subscribe(s, false).
SubscribeImplicit(r, s) ==
  LET e == [r[s] EXCEPT !.implicit = (@ + 1) % CountModulus]
  IN  IF r[s] = Unregistered THEN Nothing(r)
      ELSE IF Subscribed(r[s]) THEN Nothing([r EXCEPT ![s] = e])
      ELSE Hook(r, s, e)

\* subscribe(s, true): the domain signal first, then the signal itself.
SubscribeExplicit(r, s) ==
  LET e == [r[s] EXCEPT !.explicit = TRUE]
      table == IF HasDomain(s) THEN SubscribeImplicit(r, TableOf[s]) ELSE Nothing(r)
      own == Hook(table.reg, s, e)
  IN  IF r[s] = Unregistered THEN Nothing(r)
      ELSE IF Subscribed(r[s]) THEN Nothing([r EXCEPT ![s] = e])
      ELSE [reg |-> own.reg, sent |-> table.sent \o own.sent]

\* Mutant of Unhook: the slots and the holder stay.
UnhookKeepsSlots(r, s, e) ==
  [reg  |-> [r EXCEPT ![s] = e],
   sent |-> <<UnsubscribeMsg(e.signo)>>]

\* The tail of unsubscribe(), when neither kind of subscription remains.
Unhook(r, s, e) ==
  [reg  |-> [r EXCEPT ![s] = [e EXCEPT !.hooked = FALSE]],
   sent |-> <<UnsubscribeMsg(e.signo)>>]

\* Mutant of UnsubscribeImplicit: an explicit subscription is overlooked.
UnsubscribeOverlooksExplicit(r, s) ==
  LET e == [r[s] EXCEPT !.implicit = (@ - 1) % CountModulus]
  IN  IF r[s] = Unregistered THEN Nothing(r)
      ELSE IF e.implicit > 0 THEN Nothing([r EXCEPT ![s] = e])
      ELSE Unhook(r, s, e)

\* unsubscribe(s, false): the count is unsigned and is not tested first.
UnsubscribeImplicit(r, s) ==
  LET e == [r[s] EXCEPT !.implicit = (@ - 1) % CountModulus]
  IN  IF r[s] = Unregistered THEN Nothing(r)
      ELSE IF Subscribed(e) THEN Nothing([r EXCEPT ![s] = e])
      ELSE Unhook(r, s, e)

\* Mutant of UnsubscribeExplicit: the domain signal is not released.
UnsubscribeKeepsTable(r, s) ==
  LET e == [r[s] EXCEPT !.explicit = FALSE]
  IN  IF r[s] = Unregistered THEN Nothing(r)
      ELSE IF Subscribed(e) THEN Nothing([r EXCEPT ![s] = e])
      ELSE Unhook(r, s, e)

\* unsubscribe(s, true).
UnsubscribeExplicit(r, s) ==
  LET e == [r[s] EXCEPT !.explicit = FALSE]
      own == Unhook(r, s, e)
      table == IF HasDomain(s) THEN UnsubscribeImplicit(own.reg, TableOf[s]) ELSE Nothing(own.reg)
  IN  IF r[s] = Unregistered THEN Nothing(r)
      ELSE IF Subscribed(e) THEN Nothing([r EXCEPT ![s] = e])
      ELSE [reg |-> table.reg, sent |-> own.sent \o table.sent]
-----------------------------------------------------------------------------
(* The actions of the source. *)

\* send_metadata: a closed peer sends nothing.
Send(messages) == toSink' = IF sourceOpen THEN toSink \o messages ELSE toSink

\* do_hello: the init message, then every registered signal.
Hello ==
  LET ids == {s \in Signals : IsRegistered(s)}
  IN  /\ sourceOpen /\ ~helloSent
      /\ helloSent' = TRUE
      /\ toSink' = toSink \o <<InitMsg>> \o
           (IF ids = {} THEN <<>> ELSE <<AvailableMsg(ids)>>)
      /\ UNCHANGED <<registered, nextSigno, sourceOpen, toSource>>

\* local_signal_container::add_local_signal, with the binding that
\* refresh_local_signal_bindings then makes.
Registration(s) ==
  [signo |-> nextSigno, explicit |-> FALSE, implicit |-> 0, hooked |-> FALSE,
   domain |-> DomainSigno(registered, s)]

\* Mutant of AddLocalSignal: a signal added after the hello is not advertised.
AddLocalSignalSilently(s) ==
  /\ ~IsRegistered(s) /\ nextSigno <= MaxSigno
  /\ registered' = [registered EXCEPT ![s] = Registration(s)]
  /\ nextSigno' = nextSigno + 1
  /\ UNCHANGED <<helloSent, sourceOpen, toSink, toSource>>

\* connection::add_local_signal of a signal that is not yet registered.
AddLocalSignal(s) ==
  /\ ~IsRegistered(s) /\ nextSigno <= MaxSigno
  /\ registered' = [registered EXCEPT ![s] = Registration(s)]
  /\ nextSigno' = nextSigno + 1
  /\ IF helloSent THEN Send(<<AvailableMsg({s})>>) ELSE UNCHANGED toSink
  /\ UNCHANGED <<helloSent, sourceOpen, toSource>>

\* connection::remove_local_signal: the entry goes with its slots and holder;
\* the domain signal's count is not touched.
RemoveLocalSignal(s) ==
  /\ IsRegistered(s)
  /\ registered' = [registered EXCEPT ![s] = Unregistered]
  /\ Send(<<UnavailableMsg(s)>>)
  /\ UNCHANGED <<nextSigno, helloSent, sourceOpen, toSource>>

\* Mutant of HandleRequest: a request for a signal that is gone gets no answer.
HandleRequestSilentOnFailure ==
  LET request == Head(toSource)
      result == IF request.method = "subscribe"
                  THEN SubscribeExplicit(registered, request.id)
                  ELSE UnsubscribeExplicit(registered, request.id)
      answer == IF IsRegistered(request.id) THEN <<ResponseMsg>> ELSE <<>>
  IN  /\ sourceOpen /\ toSource # <<>>
      /\ toSource' = Tail(toSource)
      /\ registered' = result.reg
      /\ toSink' = toSink \o result.sent \o answer
      /\ UNCHANGED <<nextSigno, helloSent, sourceOpen>>

\* handle_command_interface_request: do_command_interface_subscribe or
\* _unsubscribe for one signal, and the response.
HandleRequest ==
  LET request == Head(toSource)
      result == IF request.method = "subscribe"
                  THEN SubscribeExplicit(registered, request.id)
                  ELSE UnsubscribeExplicit(registered, request.id)
  IN  /\ sourceOpen /\ toSource # <<>>
      /\ toSource' = Tail(toSource)
      /\ registered' = result.reg
      /\ toSink' = toSink \o result.sent \o <<ResponseMsg>>
      /\ UNCHANGED <<nextSigno, helloSent, sourceOpen>>

\* publish_data on a signal whose slots are connected:
\* on_local_signal_data_published, preceded by a new domain value when the
\* table is still there and does not predict the published one.
Publish(s, jump) ==
  LET e == registered[s]
      table == registered[TableOf[s]]
      domainAlive == /\ HasDomain(s) /\ e.domain # 0
                     /\ table # Unregistered /\ table.signo = e.domain
  IN  /\ sourceOpen /\ IsRegistered(s) /\ e.hooked
      /\ jump => domainAlive
      /\ toSink' = toSink \o (IF jump THEN <<DataMsg(e.domain)>> ELSE <<>>) \o <<DataMsg(e.signo)>>
      /\ UNCHANGED <<localVars, toSource>>

\* clear_local_signals: every entry goes with its slots and holder.
ClearLocalSignals == registered' = [s \in Signals |-> Unregistered]

\* on_peer_closed at the source: clear_local_signals; requests are no longer
\* received.  The application may still add and remove signals.
SourceClosed ==
  /\ sourceOpen
  /\ sourceOpen' = FALSE
  /\ ClearLocalSignals
  /\ toSource' = <<>>
  /\ UNCHANGED <<nextSigno, helloSent, toSink>>
=============================================================================
