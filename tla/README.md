# A TLA+ development of ws-streaming

`ws-streaming` is a C++17 library for the WebSocket Streaming Protocol, built on
Boost.Asio. A *source* registers signals, a *sink* at the other end of a
connection learns which signals there are, subscribes to some of them, and
receives their metadata and samples. This directory specifies the library's own
logic in TLA+, model-checks it on small instances, and proves for all instances
the safety of the transports, of both buffers, of the connection, of the linear
domain, of the server and of the client.

Paths below are relative to the repository root.

## Inventory

| Part | State | Operations | What must be right |
|---|---|---|---|
| transmit buffer (`src/detail/dynamic_buffer.cpp`) | list of blocks, read offset, write offset, spare block, byte count | `write` (prepare, copy, commit), `data`, `consume` | a bounded FIFO of bytes; bookkeeping right at block boundaries |
| plain-TCP peer (`detail/peer.*`, `detail/base_peer.*`) | socket, transmit buffer, `_waiting_tx`, `_shutdown_when_empty`, `_is_closed`, receive buffer | `run`, `stop`, `send_data`, `send_metadata`, wait handlers, frame processing, `close` | order of the stream, one close notification, silence after it, flush before shutdown, progress |
| receive buffer (`detail/base_peer.cpp`) | buffer, its size, bytes in it | receive, process frames, slide, grow, refuse | no byte lost, repeated or shifted; room at each read; refusal only when the maximum is exceeded |
| wire format (`detail/streaming_protocol.*`, `detail/websocket_protocol.*`) | none | encode and decode headers, mask | decode is the inverse of encode, and recognises incomplete input at any cut |
| connection, sending half (`connection.cpp`, `detail/local_signal_container.cpp`) | registered signals with explicit flag, implicit count, slots, cached domain binding; `_hello_sent` | `add_local_signal`, `remove_local_signal`, hello, `subscribe`/`unsubscribe` requests, publication | both ends agree; domain signals follow their users |
| connection, receiving half (`connection.cpp`, `detail/remote_signal_container.*`, `detail/remote_signal_impl.cpp`) | remote signals by id and by number, use counts, command interface client, pending requests | `available`, `unavailable`, `subscribe`, `unsubscribe`, `signal` messages, data, application `subscribe`/`unsubscribe` | each message attributed; no number that leads to a signal that is gone; announced exactly when available |
| linear domain (`detail/linear_table.cpp`, parts of both halves) | a table at each end, value indices | driving, anchoring, metadata changes | the domain value the sink computes is the one published |
| in-band command interface (`detail/in_band_command_interface_client.cpp`) | pending requests | `async_request`, `handle_response`, `cancel` | every request answered once |
| HTTP command interface (`detail/http_command_interface_client.cpp`, `detail/command_interface_client_factory.cpp`) | address, HTTP clients in flight | creation from the remote end's offer, `async_request`, `cancel`, destruction | every command answered once and forgotten when it is |
| TLS peer (`detail/peer_tls.*`) | queue of messages, byte count, write in flight | `write`, asynchronous read and write chains, `stop`, `close` | one write in flight, order kept, the same stream as the plain peer |
| server and listeners (`server.*`, `listener.hpp`) | listeners, sessions, clients, signals, `_closed` | `add_listener`, accept loop, `add_local_signal`, `remove_local_signal`, upgrade, disconnection, commands, `close` | no entry leaked, every client sees every signal, each event raised as promised, accepting goes on |
| HTTP servicer (`detail/http_client_servicer.hpp`) | parser, stream, deadline | handshake, read, dispatch, respond, keep-alive, upgrade, `stop` | each session ends; a handed-over stream has no deadline left |
| HTTP client (`detail/http_client.hpp`) and client (`client.cpp`) | stream, deadline, handler; an HTTP client of each kind, a resolver | resolve, connect, TLS handshake, write, read, complete, `cancel`; `async_connect` in three variants, `enable_tls` | handler called once, also after an error, a timeout or a cancellation |
| metadata (`metadata.cpp`, `metadata_builder.cpp`, `struct_field_builder.cpp`, `dimension_builder.cpp`) | a JSON document | builder calls, accessors, what a remote signal caches | accessors read what was told, samples are counted and stamped right |
| URL, version, base64 and TLS context helpers | none over time | conversions, configuration | unit-tested |

How they interact: the connection owns a peer and is called back by it
(`on_data_received`, `on_metadata_received`, `on_closed`); the peer owns the two
buffers; the server owns connections and is called back by them. Callbacks are
synchronous, so a send that fails inside one operation can close the connection
inside that operation. Each connection runs on one execution context; the two
ends of a connection run concurrently and share only the ordered streams between
them.

What is hard: handlers of one peer interleave in any order the reactor allows;
`stop()`, failing writes and frames close the peer from inside other handlers;
messages of one end cross with requests of the other; signals are removed and
added again while subscriptions are under way; caches (domain bindings, linear
tables, signal numbers) must be kept in step at both ends; bytes arrive in
arbitrary pieces. `PROJECT.json` lists these hazards at the lines where they
bite.

## Modules

* **ByteFifo** is what the transmit buffer promises: a bounded queue of bytes
  that appends as much of a write as fits. `Slack` is what partly consumed blocks
  may withhold from the limit. (That a message is sent whole or refused is the
  peer's doing.)
* **DynamicBuffer** is the block list. A write, the commits of its blocks, a
  consumption and the recycling of each front block are separate steps, so that
  every intermediate state of the loops is seen. `ImplementsFifo` is refinement
  of ByteFifo.
* **Peer** is `peer` with `base_peer`. One action is one handler run, except that
  the loop over received frames takes one step per frame, since callbacks may
  send or stop in between. `rx` and `txWait` are the two waits as the reactor
  sees them (none, pending, completed and queued). `wire` and `given` number
  the bytes; a direct write sends any prefix the operating system takes.
* **RxBuffer** is the receive buffer: `run()`, `run(data, size)` with its growth
  loop, receive, the frame loop and its epilogue. A byte is its position in the
  stream, a frame is where it ends.
* **WireFormat** holds the encoders and decoders as operators on bytes. Of a
  packet, any prefix may have arrived. A binary frame holds one packet here, as
  this library writes it; the loop over several packets in one frame
  (`src/detail/base_peer.cpp:226`) is not exercised.
* **SignalChannel** defines the messages and the two streams between the ends;
  **LocalSignals** is the sending half and **RemoteSignals** the receiving half
  of a connection, each an action per operation or message handler;
  **SignalLink** composes them; **ForeignSource** composes the receiving half
  with a source that is not this library: it streams signals it has not
  advertised, moves a signal to another number, uses numbers again, and repeats
  or delays unsubscribes. The table id of a signal (`TableOf`) and whether its
  rule is linear (`LinearSignals`) are constants; that `set_metadata` has the
  connection read them again (`src/connection.cpp:711`, `:784`) is left out.
* **LinearDomain** is the domain bookkeeping of both ends. That messages arrive
  in order and can be attributed is what Peer, PeerTls and SignalLink establish;
  this module takes it for granted.
* **OrderlyStream** is what a connection may expect of either transport: the
  wire grows only by the next of the bytes accepted, the end is reported once,
  and an end reported as a completed CLOSE comes after everything up to the
  CLOSE frame was sent. Peer and PeerTls each show that they implement it
  (`ImplementsStream`).
* **PeerTls** is `peer_tls` with `base_peer`: the queue of copied messages, the
  one asynchronous write (`op`, which sends its message piece by piece), the
  one asynchronous read and its loop over frames. As in Peer a byte is its
  position in the stream.
* **HttpServicer** is one servicer per accepted socket: where its chain of
  operations is, its deadline, the answer under way. **Server** extends it with
  the listener's accept loop and the server's lists; a connection is reduced to
  whether it runs, which signals it was given, and whether its next send fails
  (`broken`), in which case it closes inside the call that sends.
* **HttpClient** is the operation chain of `http_client` and `https_client`;
  **Client** holds its two users, `wss::client` and the HTTP command interface.
  An operation is pending, or completed with its handler queued. `cancel()` does
  not reach the latter, and of the former it may or may not: a `getaddrinfo` that
  runs already and a composed operation whose inner completion is queued go on,
  and nothing in the code remembers the cancellation.
* **Metadata** holds the builder calls and accessors as operators on documents,
  which are functions from member names to values; **SignalMetadata** is a
  builder at work, a remote signal that takes the documents (WebSocket) or the
  pieces (direct TCP), what it caches of them, and samples arriving meanwhile.
* **DataProofs** (of DynamicBuffer, WireFormat and SignalMetadata), **PeerProofs**,
  **PeerTlsProofs**, **RxBufferProofs**, **SignalProofs** (of SignalLink and
  ForeignSource), **LinearDomainProofs**, **ServerProofs** and **ClientProofs**
  hold the proofs, and the **MC** modules the instances.

In Server and Client a step that uses what the code has destroyed or moved away
sets `undefined`, after which nothing is claimed: `undefined` ends the behaviour.
The cases are listed under Known divergences.

`PROJECT.json` maps every definition to the lines it models. Definitions named
`<Definition><Change>` next to a definition are its mutants: plausible errors in
that code, each of which breaks the property it is listed for.

## Runs

| Run | Module | Bounds | States | Shows |
|---|---|---|---|---|
| `dynamic_buffer` | MCDynamicBuffer | limit 7 bytes, blocks of 2, `data()` of 2 | 43,578 | `ImplementsFifo`; `BufferInv`: offsets and byte count agree, `data()` is a prefix of the content |
| `peer` | Peer | frames of 1 and 3 bytes, limit 3, 5 bytes sent, 2 frames per receive | 50,912 | `WaitIffBuffered`, `ClosedOnce`, `ImplementsStream`; under fairness `Drains`, `StopCloses` |
| `peer_tls` | PeerTls | frames of 1 and 3 bytes, limit 4, 6 bytes sent, 2 frames per receive | 199,075 | `OneWriteInFlight`, `QueueAccounted`, `ImplementsStream`; under fairness `Progresses`: the queue drains, `stop()` leads to the end |
| `rx_buffer` | RxBuffer | size 1 growing to 3, frames of 1 to 4 bytes, 8 bytes | 18,261 | `RefusesOnlyOversize`, `FramesWhole`; under fairness `FramesProcessed`, handed-over frames included |
| `wire_format` | MCWireFormat | sizes at each change of representation, signal numbers up to 2^20-1, cuts anywhere in the first 24 bytes and at the end | 6,032 | `PacketRoundTrip`, `NextFrameAligned` |
| `signal_link` | MCSignalLink | two value signals on one domain signal, queues of 2 | 609,056 | `MessagesAttributable`, `DemandServed`, `DomainFollowsUsers`; under fairness `SubscribeTakesEffect` |
| `signal_link_churn` | MCSignalLink | a value signal and its domain signal in any order, 2 removals, 4 registrations | 1,528,229 | `LinkInv`: types, no dangling signal number, the ends agree on what is available; `SubscriptionAgrees`, `RequestsAnswered` |
| `foreign_source` | MCForeignSource | two numbers, 2 withdrawals, queues of 2 | 7,250,235 | `NumbersResolve`, `ShownAsAdvertised`, `StreamedSubscribed` |
| `linear_domain` | MCLinearDomain | two explicit signals, one driven one, two rules, 2 samples, one metadata change | 286,058 | `DomainInv`: every sample has the domain value it was published with, and the tables of both ends agree |
| `server` | Server | two sockets, one signal, 2 requests on a session | 181,136 | `ListsExact`, `SignalsEverywhere`, `ReportsComplete`, `UpgradedUndisturbed`, `QuietAfterClose`; under fairness `StaysUsable`: accepting goes on, every session ends |
| `client` | Client | one plain and two TLS clients, 3 attempts, 2 commands | 44,676 | `ObjectsOwned`; under fairness `Answered`: every attempt that the code does not forsake, and every command, is |
| `metadata` | MCSignalMetadata | 3 builder calls, foreign documents with members of the wrong type, 3 samples between two time messages | 196,768 | `DocumentsSound`: documents stay well-formed and accessors read what was told; `SamplesCounted`, `DriftBounded` |

Several properties are conjunctions of named parts (`ListsExact` is `TypeOK`,
`ClientsRun` and `SessionsExact`), each with its own comment in its module. Every
safety property of the table is also proved (see Proofs).

Why the bounds are enough. The transmit buffer's cases differ in whether a write
or a consumption ends inside, at or beyond a block, with zero, one or more blocks
behind: three blocks of two bytes and one byte that fits no block show all of
them. The peer's stream properties relate a direct write to one buffered
remainder: a limit of 3 with frames of 1 and 3 has direct, partly buffered, fully
buffered and refused writes. The receive buffer meets frames below, at and above
each size it can have, the last doubling is cut by the maximum. Two value signals
are needed for a domain signal with more than one user. Two removals let a signal
be removed, added and removed again, so that old messages meet new registrations.
Two numbers for two signals let a foreign source renumber a signal, give a number
back and hand it to the other one. `CountModulus` stands for the width of the
unsigned count: the wrap below zero is the same with any modulus above the number
of users. The TLS peer's limit of 4 has room for a frame of 3 in flight and a
control frame behind it, and refuses the next. Two sockets are needed for a
fan-out that loses one client on the way to the other, and for a session that is
accepted while another one is served; a second request on a session is the first
one after keep-alive. Three attempts are one that succeeds or fails, one made
inside its handler and one on an object that has been used; two TLS objects let
`enable_tls` replace one in use. Three builder calls are enough for one call to
overwrite another with a third in between. `Base`, `TickDenom` and `Epoch` are
small stand-ins for 2^32, 10^9 and 946684800, with which the truncation of ticks
still happens.

Deadlock is not checked in runs other than `dynamic_buffer`: a connection, a
server or a client may rest, a closed one does rest, and the bounds end every
behaviour.

### Fairness

Handlers that are queued run (the execution context is running: weak fairness of
each handler). A pending write wait completes, because the remote end reads; a
wait that keeps completing sends something eventually, since readiness is not
spurious for ever (strong fairness of a `finish_wait_tx` that sends at least a
byte). Bytes sent arrive (`Receive`), and `run(data, size)`, one call in the code
and several steps in RxBuffer, does not stop halfway. With TLS the handler of a
write is strongly fair, since the loop over received frames, which is one handler
in the code and several steps in the model, disables it between its steps. In
SignalLink the receiving end handles what arrives (weak), and the sending end
handles requests; the latter is strong because the queue bound, which the code
does not have, disables it at times. In Server a completed accept is handled and
an armed deadline expires. In Client a resolver and a connect come to an end by
themselves (the operating system bounds them), every later operation does so at
the deadline the code sets, and handlers run. No fairness is assumed of
applications, of remote ends answering, of `run()`, of `stop()`, or of the network
failing.

## Known divergences

Where the code does something else than its comments say, or leaves the
behaviour undefined, the models follow the code, and the properties are stated
so that they claim what the code does guarantee.

Transports:

* `connection::close()` is said to end with `operation_aborted`
  (`include/ws-streaming/connection.hpp:148`). On the plain transport a read wait
  that completed just before makes `finish_wait_rx` read from the closed socket,
  and because it treats 0 bytes as the end of the stream before it looks at the
  error (`src/detail/peer.cpp:117`), the end is reported without any error.
  `StopCloses` claims a report, not its code.
* Over the direct TCP protocol the metadata encoding is written in host order and
  read as a big-endian number (`src/detail/base_peer.cpp:292`); what
  `PacketRoundTrip` says of the encoding is about WebSocket frames.
* A packet without payload is written with a one-word header that the decoder
  takes for half of a two-word one (`src/detail/streaming_protocol.cpp:30`); the
  run's sizes start at 1.
* Bytes handed over with the upgrade that exceed the maximum of the receive buffer
  close the connection with `no_buffer_space` even if they are short frames, each
  of which would fit (`src/detail/base_peer.cpp:51`); `RefusesOnlyOversize` has
  this case apart.

Connection:

* A value signal subscribed before its domain signal is registered later
  decrements a count it never incremented (`src/connection.cpp:768`); the count
  wraps, and an explicit subscription of the domain signal is acknowledged and
  never served. `signal_link` registers domain signals first (`DomainFirst`), as
  an application should; `signal_link_churn` does not. Nor does `signal_link`
  remove anything: what `DomainFollowsUsers` and `DemandServed` say is not claimed
  of a domain signal that is removed under its users.
* `set_remote_signal_signo`
  (`include/ws-streaming/detail/remote_signal_container.hpp:89`) leaves the number
  a signal had before. When the signal is withdrawn only its current number is
  erased, and the old one is left with a pointer to a signal that is gone;
  `NumbersResolve` says that no other number is. A message under such a number
  uses the pointer, and an unsubscribe under a replaced number of a signal that is
  still streamed marks it unsubscribed, so ForeignSource sends neither. A number
  taken over from a signal that is unsubscribed but not withdrawn is lost when
  that one is withdrawn; ForeignSource waits for that. This library's own source
  never gives a signal a second number.
* A signal whose domain signal is not linear (as in `examples/can-source.cpp:32`),
  or whose domain signal has no table id in its own metadata, is bound to no
  domain signal at the sink (`src/detail/remote_signal_container.cpp:47`).
  `DomainBound` says so, and `DomainUsersTheorem` proves it for every choice of
  the linear signals; in the runs the domain signal is linear.
* `set_metadata` with metadata that has a value index of its own makes the two
  ends count from different indices (`src/connection.cpp:337`). LinearDomain's
  metadata has the index the connection puts in.

Server:

* `add_local_signal` and `remove_local_signal` iterate over `_clients` while a
  failing send removes the element the loop stands on (`src/server.cpp:118`):
  undefined.
* `close()` drops its clients without `on_client_disconnected`, and their signals
  without `on_unavailable` (`src/server.cpp:102`), although its comment promises
  both (`include/ws-streaming/server.hpp:167`). What `QuietAfterClose` says of the
  time after `close()` is the silence of slots that are gone, and
  `ReportsComplete` is about an open server. A connection whose hello fails inside
  `run()` is reported as disconnected before it is reported as connected
  (`include/ws-streaming/server.hpp:378`).
* A session's entry stays in `_sessions` from an upgrade until the server closes:
  `on_closed`, said to be raised after an upgrade
  (`include/ws-streaming/detail/http_client_servicer.hpp:51`), is not, because the
  socket has been handed over. `SessionsExact` leaves open whether such an entry
  is listed.
* `do_response` reads the message's `keep_alive` in the call that moves the
  message away (`include/ws-streaming/detail/http_client_servicer.hpp:489`); the
  order is unspecified, and the model has both.
* One failed accept ends a listener's loop for good
  (`include/ws-streaming/listener.hpp:121`); `KeepsAccepting` is about the others.

Client:

* A handler is never called if the endpoint of a socket just connected cannot be
  read, if `enable_tls` replaces the client in use, or if a request is started
  inside the handler of the last one on the same object, which clears the new
  handler when it returns (`include/ws-streaming/detail/http_client.hpp:253`).
  `forsaken` marks these attempts, and `AttemptsAnswered` is about all others. The
  comment of `async_connect` guarantees one call in every case
  (`include/ws-streaming/client.hpp:114`).
* `cancel()` keeps no mark of its own
  (`include/ws-streaming/detail/http_client.hpp:148`): what the resolver or the
  socket does not end goes on, and may end in a connection. `client.hpp:134`
  allows for a success that was already scheduled, `http_client.hpp:144` for none.
* A TLS client whose stream was handed to a connection is used again by the next
  attempt or by `cancel()` (`src/client.cpp:174`): undefined.
* The deadline of one request still runs while the next one on the same object
  resolves and connects (`include/ws-streaming/detail/http_client.hpp:186`).
* A direct TCP attempt is not reached by `cancel()`.
* A command interface client that is destroyed with a command pending is used by
  the handler (`src/detail/http_command_interface_client.cpp:66`): undefined. A
  cancelled command whose handler is queued already goes on.
* The factory takes an integer port for "1", since it converts the answer of
  `is_number_integer` and not the number
  (`src/detail/command_interface_client_factory.cpp:37`).

Metadata:

* `tcp_signal_rate_ticks` is said to round (`src/metadata.cpp:157`) and truncates;
  `DriftBounded` bounds what that adds up to. `handle_time`
  rounds with half a second where half a tick is meant
  (`src/detail/remote_signal_impl.cpp:255`): the time of a signal may be that
  much ahead of the stamp the device sent. `clock` is what the stamp means, without
  rounding, and the half second is part of the bound of `DriftBounded`.
* The builder writes `origin` where `definition.origin` hides it;
  `struct_field_builder::dimension` drops the dimensions given before
  (`src/struct_field_builder.cpp:48`); `sample_size` ignores the rule although its
  comment says that it does not (`include/ws-streaming/metadata.hpp:143`),
  so that `ReadsAsTold` speaks of the sample size of explicit-rule
  signals only. `extra_metadata` throws at a value that is no string
  (`include/ws-streaming/metadata.hpp:90`); the documents of the run have none.

## Proofs

TLAPS checks the following for every value of the constants that satisfies the
named assumption of the module.

**DataProofs**, transmit buffer (from `SizeAssumption`). `Bookkeeping`, which is
`TypeOK` and `OffsetsConsistent`, is inductive as it stands, since the latter says
at each step of a loop what the loop has left to do. Everything else follows from
it and from `At`, the byte at a position counted from the start of the first
block: what copying, preparing and rotating do to `At` (`FilledAt`, `PreparedAt`,
`RotatedAt`), and where the content ends (`ContentEnds`). Then a write appends a
stretch, a consumption drops one, and the loops leave the content alone, which is
the refinement. For `data()` the function inside `FlattenSeq` is shown to be the
one that gives longer and longer stretches of the content; that there is only one
such function needs an induction, which is made with the least number at which two
of them differ (`LeastNatural`, from the library's well-foundedness of strict
inclusion). Results: `BufferBookkeeping`, `BufferInvariant`,
`BufferImplementsFifo`.

**DataProofs**, wire format (from `WireAssumption`, and from `0 \notin Sizes`: a
packet without payload is not read back, see Known divergences). A byte is its
eight bits, so masking twice with the same key is the identity (`XorInvolution`,
`MaskTwice`); a word is its four bytes (`WordBytes`), of which the third is shared
by the signal number and the short size (`FirstWordFields`). From these
`HeaderDecodes` says what the packet decoder finds in what the packet encoder
wrote, `FrameDecodes` the same of WebSocket frames with each of the three forms of
a length, and `TcpReads` and `FrameReads` join them for a receiver that has any
number of the bytes. `WireInv` says of the state that the packet is one a
connection sends and that no more bytes are there than were written. Results:
`PacketsRoundTrip`, `FramesAligned`.

**DataProofs**, metadata (from `BaseAssumption`, `SignalMetadataAssumption` and
`ForeignAssumption`). The documents that a builder starts from are JSON documents
of any shape and with values of any type; only the fields of a structure are the
builder's own, since `told` names them by their arguments. A document is divided
into *sections*, the members of its definition and of its interpretation and the
other members of the document itself. One lemma per builder call says that the
document stays one, that only the sections the call writes are touched, and what
the accessor about them returns (`LinearRuleCall`, `UnitCall` and so on); one
lemma per accessor says which sections it reads (`Sections`, `ViewSame`). Where
the one does not meet the other an accessor keeps its answer (`AgreeKept`). The
sample size of a structure is a sum over its fields, which needs an induction:
again the least number at which it would fail (`SumsExist`). `MetadataInv` joins
`BuilderInv`, which says this of the draft and of the fields told, with what the
remote signal has cached (`Cached`: the size is that of the samples the source
sends, the interval is the rate sent last, rounded), with what the kind of source
can not have sent (`KindInv`) and with `DriftBounded`. The arithmetic of the
latter is `TickError`, a division rounded to whole ticks errs by at most one,
`RateError`, the same in the units of the device's clock, and `StampError`, which
compares what `handle_time` makes of a stamp with what the stamp means. Results:
`MetadataDocuments`, `MetadataDrift` and the action property `MetadataSamples`.

**PeerProofs** (from `PeerAssumption`). `StreamIntact` is not inductive: a direct
write preserves the order only if nothing is buffered, which `write` infers from
`_waiting_tx`. The invariant `IInv` therefore joins it with `WaitIffBuffered`,
with the types, with `ClosedOnce`, and with the fact that a closed peer's socket
is closed, without which a closed peer could still send. The proof takes one
lemma per action; two lemmas about stretches of the byte stream (a stretch has
its length, adjacent stretches concatenate) carry the sequence reasoning.
Results: `PeerTypeCorrect`, `PeerWaitIffBuffered`, `PeerStreamIntact`,
`PeerClosedOnce`, the action properties `PeerSilentAfterClosed` and
`PeerShutdownFlushes`, and `PeerImplementsStream`: every step of the peer, read
through the refinement mapping, is a step of OrderlyStream or a stutter.

**PeerTlsProofs** (from `PeerTlsAssumption`). That the wire is a prefix of what
was accepted does not say that the next write continues it. `IInv` is `CoreInv`,
what `write` and `finish_write` can disturb, and `RestInv`, the types of the rest.
`CoreInv` has three parts besides the properties. `QueueInv`: the queued messages
are adjacent stretches of the stream, the last of which ends with the last byte
accepted. `OpInv`: a write in flight sends the first of them and stands where the
wire ends; without one an open connection has nothing queued. `MarkInv`: the
CLOSE frame of an open connection is among the queued messages, which is what
makes the end after it a graceful one. Effect lemmas for `write` and for
`close` are shared by the actions that call them. Results:
`PeerTlsTypeCorrect`, `PeerTlsOneWriteInFlight`, `PeerTlsQueueAccounted`,
`PeerTlsStreamIntact`, `PeerTlsClosedOnce`, `PeerTlsImplementsStream`.

**RxBufferProofs** (from `RxAssumption`). That the buffer is the end of the stream
says nothing about where the next frame begins in it. `IInv` adds `Aligned` (the
next frame starts at `offset`, which is 0 outside the loop) and `FramesOrdered`
(frames not yet processed end in order, the last one where the stream ends); from
both follows that a full buffer without a complete frame holds the beginning of
one oversize frame, which is the first half of `RefusesOnlyOversize`; the second,
about bytes handed over, is the guard of the refusal kept through every later
step. Results: `RxTypeCorrect`, `RxRoomToRead`, `RxBufferIsStream`,
`RxRefusesOnlyOversize`, `RxFramesWhole`.

**SignalProofs** (from `TableAssumption`, `LocalAssumption`,
`RemoteAssumption`). What the two ends know differs by the messages in flight,
so no relation between their states alone is inductive. A *view* is what a sink
knows, without its pointers: what is shown, what is subscribed, what has been
described, under which number. `After` is what a message does to a view, `Legal`
when it may come, and `Reaches` says that the messages in flight are each legal
where they arrive and lead from the view of the sink to a given one. One lemma
per handler of the sink shows that it follows `After`; one lemma per action of a
source shows that what it appends is legal and leads to the view that the source
believes in. Three invariants are built from this.

* `ForeignIInv`: the view at the end of the queue is the advertised and streamed
  signals of a foreign source, their numbers and the numbers it has replaced
  (`ForeignAgrees`); no two signals have the same number (`Numbered`). Results:
  `NumbersResolveTheorem`, `ShownAsAdvertisedTheorem`,
  `StreamedSubscribedTheorem`.
* `LinkIInv`: the view at the end of the queue is the registrations of this
  library's own source (`Following`), and the pending requests of the sink are the
  ones under way plus the answers under way (`Answering`). It holds whatever is
  removed, and in whatever order signals are registered. Results: `LinkTheorem`,
  `SubscriptionTheorem`, `RequestsTheorem`.
* `SteadyIInv`, under `Steady`: nothing is removed and domain signals are
  registered first, which is how `signal_link` is set up. Neither half can be
  dropped: with removals, or with a domain signal registered after its user, TLC
  finds each of the three properties violated. The invariant adds that the
  implicit count of a domain signal is the number of its users (`Held`), that the
  requests in flight turn the explicit subscriptions into what the application of
  the sink uses (`Asking`), and that nothing is used before it is announced
  (`Advertising`). Results: `AttributableTheorem`, `DemandTheorem`,
  `DomainUsersTheorem`.

**LinearDomainProofs** (from `LinearAssumption`). The tables of the two ends
agree only once the queue is empty. `IInv` says that a sink that receives what
is in flight delivers each sample with the value it was published with, and ends
with the table and the value indices of the source. Result: `DomainTheorem`, for
`MetadataIndexes` a subset of {0}, which is what the metadata builder writes:
with another index the property fails (see Known divergences).

**ServerProofs** (from `ServicerAssumption`). `ListsExact` is preserved only if
the servicers are where the lists say, so `IInv` joins it with where a servicer
may be that has a connection (`HandedOver`), what the application was told of
each socket (`Told`), whose remote signals it sees (`Offers`), and that
`close()` leaves nobody at work (`ClosedIsEmpty`). `SessionsListed` is the stronger
form of `SessionsExact` that the code keeps: every session that was started and has
not closed is listed, a handed-over one included. Results: `ListsExactTheorem`,
`SignalsEverywhereTheorem`, `ReportsCompleteTheorem`,
`UpgradedUndisturbedTheorem` and the action property `QuietAfterCloseTheorem`.

**ClientProofs** (from `ClientAssumption` and `TlsObjectsAssumption`). That an
attempt in progress has exactly one object at work is preserved only because an
object with a chain has an operation (`AtWork`), a forsaken attempt is never
followed by another (`Forsaken`) and one call is due per attempt in progress
(`CallDue`). Result: `ObjectsOwnedTheorem`.

Only model-checked: the liveness properties (`Drains`, `StopCloses`,
`Progresses`, `FramesProcessed`, `SubscribeTakesEffect`, `StaysUsable`,
`Answered`), which the prover does not handle.

## Not modelled

* TLS context helpers: configuration of OpenSSL without state.
* URL, version and base64 helpers: parsing of short strings by regular
  expressions and library functions, covered by unit tests.
* Of the readers of single structure fields, dimensions and units
  (`src/struct_field.cpp`, `src/struct_field_dimension.cpp`, `src/unit.cpp`) all but
  the data type of a field and the size of a dimension: one lookup each.
* Contents of JSON and MessagePack payloads; identifiers of in-band requests
  (answers come in the order of the requests on one stream); the text of HTTP
  requests and responses.
* Allocation failure, and `set_send_buffer_size`, which passes a socket option on.
* Registrations beyond 2^20 on one connection, where signal numbers outgrow
  their field.

## Plan

Done, in this order: transmit buffer, peer, its proofs, signal link, foreign
source, linear domain, wire format, receive buffer, its proofs, TLS peer, its
proofs, the orderly stream both peers implement, server with HTTP servicer,
client with HTTP client and HTTP command interface, metadata.

Proofs of all of them are done: the two peers, the receive buffer, the transmit
buffer with its refinement, the wire format, the connection with either kind of
source, the linear domain, the server, the client and the metadata.

What could follow is outside the reach of these tools as they are: the liveness
properties for every value of the constants, and the behaviours that the code
leaves undefined (Known divergences), of which only the parts before the undefined
step can be specified.
