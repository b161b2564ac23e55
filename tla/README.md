# mqtt-async-embedded in TLA+

A verification project for the Rust workspace in `src/crates`: TLA+ models of its
MQTT clients and of the parts they are built from, model-checked with TLC on
small instances, and theorems about them that TLAPS proves for every instance.
Every definition is translated from the source; `PROJECT.json` names the lines
each one stands for.

## 1. The system

Two clients share a packet codec and little else.

| Part | Source (`src/crates/`) | State it keeps | Operations | What makes it hard |
|---|---|---|---|---|
| Tokio event loop | `mqtt-tokio/src/eventloop.rs` | transport, packet identifier counter, in-flight publishes, pending (un)subscribes with their responders, active subscriptions, router, reconnect attempt, last transmission | connect with backoff, handshake, session recovery, read, request, ping, stop | everything meets here: callers, broker, broken links, partial writes, reconnection, timers |
| `AsyncClient` handles | `client.rs` | a channel sender | publish, publish_with_ack, publish_batch, datagram, subscribe, unsubscribe, disconnect | many tasks, a bounded channel, responders that may be dropped |
| Topic router | `router.rs` | a trie of filters with stream senders | insert, remove, dispatch | wildcards, pruning, streams closed by other tasks |
| Data streams | `stream.rs` | sequence counter, recovery journal, reorder buffer | send and its typed forms, replay_recovery_journal, recv_ordered, recv_sensor_data | racing producers, a lock held across awaits, loss, duplicates, gaps, narrow length fields |
| Options, transports, fallback | `options.rs`, `transport.rs`, `fallback.rs` | none | from_uri, compute_delay, connect_transport, SmartTransport | stages that fail, refuse or hang |
| Embedded client | `mqtt-embedded/src/client.rs` | state, identifier counter, two buffers, in-flight table | connect, publish, publish_batch, begin_stream_publish, subscribe, unsubscribe, poll, poll_batch, disconnect | errors half-way through an operation, both directions in one small table |
| Embedded in-flight table | `mqtt-embedded/src/inflight.rs` | a bounded vector | track_*, handle_* , clear | shared identifiers |
| Stream writer | `mqtt-embedded/src/stream_writer.rs` | bytes left | write_chunk, write_dma_slice, write_dma_vectored, finish, drop | abandoned half-way |
| Core state machine | `mqtt-core/src/state.rs` | one of six states | transition | any event in any state |
| Core in-flight queue | `mqtt-core/src/inflight.rs` | a bounded vector | push, acknowledge, mark_pubrel_sent, clear | collisions, swap_remove |
| Store | `mqtt-storage/src/mem.rs` | two parallel vectors | persist, load, remove, clear | the two must agree |
| Codec | `mqtt-packet/src` | none | encode, decode, variable byte integers, frame iterator | boundaries, packets cut by reads |
| Web hub | `mqtt-bridges/src/web.rs` | a broadcast channel, a worker, a task per web client | subscribe, forward | slow clients, streams that must end |
| UI bindings | `mqtt-bridges/src/slint_support.rs` | a task and its handle | three bind functions, abort, drop | a task that never pauses |
| Embedded transports | `mqtt-embedded/src/transport.rs` | a socket | connect, send, recv | - |
| Crypto | `mqtt-crypto/src` | none | traits only | - |

The callers of the Tokio client hand a `ClientRequest` to the loop over an mpsc
channel and wait on a oneshot responder; the loop owns the socket and is the only
task that touches the tables and the router; a stream is an mpsc channel of 128
messages from the router to a `TopicSubscription`; a data stream is a task above
`publish` at one end and above a `TopicSubscription` at the other; hub and bindings
are tasks that read a `TopicSubscription`. The embedded client has no tasks: the
application calls one method at a time, and is lent out to a stream writer while a
message is streamed. `mqtt-core` and `mqtt-storage` are libraries that neither
client uses.

### What each part must get right

* **Event loop**: no accepted QoS 1/2 message is forgotten; an acknowledgement is
  reported only for a message the broker has; no caller of a tracked message is given
  up; after a reconnection every tracked message is under way again and the broker has
  the active filters it can be sent and grants; requests are eventually answered; the
  broker hears from it in time; one outage is one backoff.
* **Router**: a message reaches exactly the live streams whose filter matches.
* **Data streams**: output strictly ordered; gaps given up only by the window;
  no deadlock between senders and a replay; data decoded as what it was sent as.
* **Embedded client**: the table stays within its bound, every entry belongs to
  an exchange that can still end, every slot is freed, what is acknowledged was
  delivered; a streamed message never leaves the broker out of step unnoticed.
* **Dialling**: SmartTransport connects whenever its fallback could.
* **Core, store**: no reconnection after a disconnect, a packet leaves only by its
  acknowledgement, two vectors behave as one map.
* **Codec**: what was sent is received, however reads cut it, unless a cut hangs the
  loop, and it is known which cuts do.
* **Bridges**: every web client is fed in order; responses and bindings end.

The hazards behind these, each at its line and with the properties that would
catch it, are in `PROJECT.json`.

## 2. The plan

Modules were written in the order of what would hurt most if it were wrong.

| Order | Module(s) | Stands for | State of it |
|---|---|---|---|
| 1 | `EventLoop` | the Tokio client: callers, loop, connection, broker | every handler modelled; safety and liveness checked |
| 2 | `OrderLemmas`, `EventLoopProofs`, `EventLoopDelivery` | theorems about it | every invariant the runs check proved |
| 3 | `Inflight`, `EmbeddedClient`, `EmbeddedProofs` | the embedded client over its in-flight table | every operation; every invariant proved, two of them short of the leak of section 6 |
| 4 | `RouterSpec`, `TopicRouter`, `RouterProofs` | matching by definition, and the trie that implements it | complete; the refinement and the invariant proved |
| 5 | `DataStream`, `DataStreamProofs` | producers, journal, consumer | complete; every invariant proved |
| 6 | `ConnState`, `CoreInflight`, `KVStore`, `MemStore`, `PartsProofs` | the libraries | complete; every property proved |
| 7 | `Codec`, `Framing`, `CodecProofs` | packets on octets, and how a read buffer cuts them | encode and decode of every packet type; every invariant proved |
| 8 | `BroadcastHub` | one subscription fanned out to web clients | complete; its invariant proved |
| 9 | `KeepAlive` | the loop's clock: pings and silence | complete; its bound proved in `PartsProofs` |
| 10 | `StreamPublish` | the embedded client's streamed publish | complete; both invariants proved in `PartsProofs` |
| 11 | `Dial`, `PartsProofs` | URIs, transports, backoff, fallback | complete; the backoff proved |
| 12 | `SensorWire` | the encodings of sensor data and chunks | complete; proved in `CodecProofs` |
| 13 | `UiBinding` | binding tasks and abort | complete |

What composes what: `EmbeddedClient` and `StreamPublish` hold the table of
`Inflight`; `TopicRouter` is an implementation of `RouterSpec`, `MemStore` of
`KVStore`; `Framing` runs `Codec` over a buffer; `MCParts` puts the parts that stand
alone side by side. `EventLoop` takes the router at its abstract face (a set of
routed streams, filters that match by name), the codec at its (a frame is what it
carries), and time and transports at theirs (a timer may fire, a dial may fail),
which is what `TopicRouter`, `Codec`/`Framing`, `KeepAlive` and `Dial` justify
separately. The reads of `EventLoop` hold whole packets: a read that ends in a
length field hangs the loop (section 6), so its liveness properties are those of
connections on which that does not happen.

Left for later:

* *Model*: the embedded client on a transport that cuts packets; a caller that
  drops its future; wildcards inside `EventLoop`, by instancing `RouterSpec`.
* *Abstract specifications*: what an `AsyncClient` promises its callers (a map from
  calls to outcomes, at-least-once), with `EventLoop` as its implementation.
* *Theorems*: every invariant has one; what is left is to prove `EventLoop` an
  implementation of the specification just named.

## 3. Modules and code

### `EventLoop`: eventloop.rs, client.rs, the types it uses

A handler of the loop never runs beside another one, so a handler is one action:
what it does to the tables, the router, the wire and the responders, in one step,
with one disjunct for each way it can end. The frames of one read are the
exception: the loop suspends in each of them, so they are handled one a step from
`rx`, while callers and the broker go on. What interleaves with the loop is the
calls, the streams' readers, the broker and the network.

| State | In the code |
|---|---|
| `result` | where the future of each call stands: not made, sent without waiting, waiting for its responder, or what it returned (`"cancelled"` is a responder dropped) |
| `reqs` | the mpsc channel of `ClientRequest`, at most `channel_capacity` |
| `streamOpen`, `queue`, `router` | the `TopicSubscription` receivers, what waits in them, and the senders the router holds |
| `phase`, `status`, `attempt` | where `run` is, `"stopped"` when it has returned and `"gone"` when the `EventLoop` value is dropped; the `ConnectionStatus` it last published; `reconnect_attempt` |
| `nextPid`, `inflight`, `subWait`, `unsubWait`, `active` | `next_packet_id`, `inflight_publishes`, `inflight_subscribes`, `inflight_unsubscribes`, `active_subscriptions` |
| `conn`, `c2s`, `s2c`, `rx` | the transport and the frames in flight; `actions` of one read |
| `session`, `brokerSubs`, `received`, `inbox`, `pushed` | the broker |
| `accepted`, `wrapped`, `faults` | history and bounds, read by no guard of the code's actions |

| Actions | In the code |
|---|---|
| `Call`, `DropHandles`, `StreamRecv`, `StreamDrop` | `AsyncClient` methods, the last clone dropped, `TopicSubscription` |
| `DropLoop` | the `EventLoop` value dropped after `run`: by the task of `Client::connect` at once, by the owner of a loop from `new_split` at any time or never |
| `StartAttempt`, `Wake`, `Dial`, `DialFails`, `HandshakeOk`, `HandshakeFails` | `connect_with_backoff`, `perform_connect_handshake`, `perform_session_data_recovery` |
| `Read`, `ReadUndecodable`, `ReadClosed`, `HandlePublish`, `HandleAnswer`, `HandleFails` | the read branch of `drive_connection` |
| `Publish`, `PublishBatch`, `PublishDatagram`, `Subscribe`, `Unsubscribe`, `Disconnect`, `HandlesGone` | the request branch and the `send_*_direct` functions |
| `PingTick` | the timer branch |
| `Broker*`, `Break` | external: a broker that answers, may publish, send DISCONNECT or garbage, and links that break |

A failed write may have put any prefix of its frames on the wire. A broken link is
noticed at any later time, by a read or by a write. Of a filter the model knows
whether its SUBSCRIBE and its UNSUBSCRIBE fit in `tx_buf` (`SubTooLong`,
`UnsubTooLong`), whether the router takes it (`Invalid`) and whether the broker
grants it (`Refused`): an encode error ends the connection after the tables were
changed, the recovery passes over such a filter, and a SUBACK answers the caller
whatever its code.

### The other modules

* **`EmbeddedClient`**: `connect`, `poll` and `poll_batch` suspend between a read and
  their answers, and take a step to begin and one per frame; the other methods have
  one suspension and are one action. `Inflight` gives `InflightQueue`'s operations
  as functions of a table. The application may do anything at any time, once.
* **`StreamPublish`**: `begin_stream_publish` with its checks in the code's order,
  then the writer's calls. Octets are counted: the broker is the number of octets it
  still expects of the packet it is in, and goes astray when it takes a packet for
  payload or payload for a packet.
* **`TopicRouter`**: the trie as the set `nodes` of paths with the two subscriber
  lists `exact` and `hash`; `InsertStream`, `RemoveFilter` and `Dispatch` follow the
  walks of router.rs: removal prunes the branch it emptied, a dispatch is one step
  that delivers to live streams, skips full ones and forgets closed ones. `RouterSpec`
  has a set of pairs of stream and filter, and matching by definition; `Implements`
  is the refinement.
* **`DataStream`**: a `send` is three steps because it suspends on the lock and on
  the request channel; a replay publishes a chunk a step and keeps the lock.
  **`SensorWire`**: the six types of sensor data behind their tags, the chunk behind
  its number and time, and the decoder on its own producer's payloads and others'.
* **`KeepAlive`**: the loop's clock in discrete time: the interval timer with
  `MissedTickBehavior::Delay`, `last_tx`, and what holds the loop up besides.
* **`Dial`**: `from_uri`, the stages of `connect_transport` for each kind of target
  against networks that accept, refuse or say nothing, `connect_with_backoff` with
  `compute_delay`, and `SmartTransport`.
* **`Codec`** is `Encode` and `Decode` for every packet type on sequences of octets,
  written from one description per type; **`Framing`** is the read branch's buffer.
* **`ConnState`**, **`CoreInflight`**, **`MemStore`**/**`KVStore`**, **`BroadcastHub`**:
  one action per method, or per task and suspension. **`UiBinding`**: a binding's
  task between the polls of the runtime, where alone it can be aborted.

Definitions that stand right before another one of a similar name and are said to
be "the variant" are what `PROJECT.json` calls mutants: the definition with a
plausible mistake, which some run must find.

## 4. What is checked

Every run is exhaustive within its bounds. Deadlock checking is off in all of
them, because the systems may stop: a loop that was stopped, an application that
makes no further call, a stream that has ended.

| Run | Instance | What it shows |
|---|---|---|
| `EventLoopSafety` | two acknowledged publishes, a batch whose second message cannot be encoded, a disconnect, a datagram; 2 faults, 2 retries, channel of 2, 5 identifiers | `TypeOK`; `IdentifiersUnique`, `UnackedRecoverable`, `AckedReceived` (delivery); `ExchangeAlive` (after a recovery too, every tracked QoS 1 message is under way); `CancelledOnlyByDrop` (no publish is given up before the loop is dropped) |
| `EventLoopSubscribe` | a subscription with a stream of capacity 1 and its unsubscription, a filter too long to encode, a filter that is invalid and refused, an incoming message, kept session, 1 fault | `SubscriptionsInstalled`, `RoutedIsActive` |
| `EventLoopLive` | a publish, a subscription, its unsubscription, an unsubscription too long to encode, a disconnect; clean session, 1 fault, fairness | `PublishResolved`, `DisconnectStops`, `SubscriptionsConverge` |
| `EmbeddedSafety` | three messages of QoS 0, 1, 2, two batches, an incoming QoS 2 message on an identifier the client uses too, reads of two frames, `poll_batch`, 1 fault | `ExchangeAlive`, `TrackedWasSent` |
| `EmbeddedLive` | the same with `poll`, a table of two slots that fills up, one batch, fairness | `TypeOK` (the table's bound), `AckedIsDelivered`, `SlotsFreed` |
| `DataStream` | two producers, a replay, 3 chunks, journal of 2, window of 1, one chunk lost, duplicated or foreign, fairness | `TypeOK`; `OutputOrdered`; `SkippedOnlyByWindow` (no gap but by the window); `ReadIsKept`; `ReplayReaches`, `SendCompletes` (neither replays nor sends block each other) |
| `Parts` | eleven parts, see below | the properties of the parts that stand alone |
| `EventLoopHandles`, `EventLoopHang`, `EventLoopCoalesced`, `EmbeddedSlotLeak`, `KeepAliveHeartbeat` | one call each, or none | what the code does not do; section 6 |

Why these bounds are enough. Identifiers never repeat in `EventLoopSafety` (four
messages, five identifiers), so its delivery properties are not vacuous, and the
theorems cover every other instance. Two faults are a failure and one during the
recovery from it. A channel of two makes callers wait, a stream of one overflows,
two retries are exhausted. A window of one and a journal of two overflow with three
chunks. The embedded table of two slots is full in the middle of a batch.

`Parts` runs one part at a time:

| Part | Instance | Properties |
|---|---|---|
| *state* | the connection state machine, fed every event in every state | `NoReconnectAfterDisconnect` |
| *queue* | four identifiers on a queue of three | `TrackedUntilAcked` |
| *store* | five keys (one too long), three values (one too long for an entry, one for the smaller load buffer), three entries | `StoreImplementsKV` |
| *wire* | streams of two packets: every packet type, with and without properties, both protocol versions, before a short one; a publish with all the properties there is room for; publishes whose length takes one octet or two, or that exceed the buffer of 140; streams that end in octets that are no packet, or in a packet with a code too many; read in portions of 1, 2, 5 or 140 octets in every mixture | `ReceivedAsSent`, `ClosedForCause`, `FirstOfRead` |
| *hub* | two web clients, one of which is read, three messages, all capacities 1, so that every queue is full at some time | `FedInOrder`, `ReaderGetsLatest`, `ResponsesEnd` |
| *router* | two streams of capacity 1, eight filters of every form (one invalid: every combination of literal, `+` and `#` at the first two levels, and shared prefixes), five topics | `NoDeadBranch`, `Implements` |
| *ping* | keep_alive 3, a handshake limit of 2, hold-ups up to 2, a broker that may hang | `SilenceBounded` |
| *publish* | topics of 1, 253 and 255 octets around the header buffer of 256, payloads of 0 and 2 octets in pieces of 1 and 2, one slot, both protocols | `InStep`, `FinishedIsWhole` |
| *dial* | a URI of every scheme, with a bad port too; ports that accept, refuse or are silent, peers with public or private certificates or silent; delays from 2, times 1.5, up to 7; no limit, 0 or 2 retries; four attempts | `BackedOff`, `SmartConnects` |
| *sensor* | octets below 8, so that the u8 and u16 fields wrap at 8 and 64: every type at, below and above those lengths, and every tag with too little behind it | `TypedAsSent` |
| *binding* | a stream of two messages, a poll of two receives, for each bind function | `BindingEnds` |

### Fairness

* `EventLoop`: the loop's own steps, weakly: tokio polls a task whose futures are
  ready and timers fire, `select!` polls its branches in random order, so no branch
  starves. The broker answers what it gets and resends what a kept session has not
  seen acknowledged. Calls, faults, pings and new publishes of the broker are not
  fair, and faults are finitely many.
* `EmbeddedClient`: the application polls for ever and reconnects when it must.
* `DataStream`: a task that is in a send or a replay is scheduled (tokio's lock is a
  fair queue) and the consumer keeps calling; nobody has to begin anything.
* `BroadcastHub`: the worker and the clients' tasks, and the reads of clients that
  are read; nobody has to arrive, leave or drop the hub.
* `KeepAlive` (in `KeepAliveHeartbeat` alone): time passes, due ticks are taken, and
  writes to a socket that takes octets end.
* `Dial`: a stage that can pass does, the five seconds of `SmartTransport` end, and
  `connect` is polled. A silent peer is never forced to answer.
* `UiBinding`: the runtime polls its tasks and callbacks return; nobody has to send,
  abort or drop.

## 5. What is proved

For every value of the constants, from the assumptions each module declares on them
(their types, and in `EventLoopAssumption` that a publish and a datagram carry one
message and that only those two may be sent without waiting):

| Theorem | Statement |
|---|---|
| `EventLoopProofs!TypeCorrect` | `Spec => []TypeOK`, the capacities of the two kinds of channel included |
| `EventLoopProofs!RoutesAreActive` | `Spec => []RoutedIsActive` |
| `EventLoopDelivery!DeliveryCorrect` | `Spec => []Delivery`, the inductive invariant of the next three |
| `EventLoopDelivery!IdentifiersAreUnique` | `Spec => []IdentifiersUnique` |
| `EventLoopDelivery!UnackedAreRecoverable` | `Spec => []UnackedRecoverable` |
| `EventLoopDelivery!AcknowledgedAreReceived` | `Spec => []AckedReceived` |
| `EventLoopDelivery!CancelledMeansGone` | `Spec => []CancelledOnlyByDrop` |
| `EventLoopDelivery!ExchangesGoOn` | `Spec => []ExchangeAlive`, if `resend_unacked_inflight` |
| `EventLoopDelivery!SubscriptionsAreInstalled` | `Spec => []SubscriptionsInstalled`, if `auto_resubscribe` |
| `EmbeddedProofs!ClientTypeOK` | `Spec => []TypeOK`, MAX_INFLIGHT included |
| `EmbeddedProofs!AckedAreDelivered` | `Spec => []AckedIsDelivered`, with `poll` alone and a kept session |
| `EmbeddedProofs!ExchangesAlive` | `Spec /\ [][~SlotLeak]_vars => []ExchangeAlive`, with `poll_batch`, or with `poll` and one packet a read |
| `EmbeddedProofs!TrackedAreSent` | `Spec /\ [][~SlotLeak]_vars => []TrackedWasSent` |
| `RouterProofs!TrieIsRouter` | `TrieSpec => Implements`, a refinement |
| `RouterProofs!NoBranchIsDead` | `TrieSpec => []NoDeadBranch` |
| `PartsProofs!SilenceIsBounded` | `PingSpec => []SilenceBounded` |
| `PartsProofs!OutagesBackedOff` | `DialSpec => []BackedOff` |
| `DataStreamProofs!StreamTypeOK` | `Spec => []TypeOK`, the bounds of journal and window included |
| `DataStreamProofs!ReturnedInOrder` | `Spec => []OutputOrdered` |
| `DataStreamProofs!NothingReadIsLost` | `Spec => []ReadIsKept` |
| `DataStreamProofs!GivenUpByWindow` | `Spec => []SkippedOnlyByWindow` |
| `PartsProofs!StreamsStayInStep` | `StreamSpec => []InStep` |
| `PartsProofs!FinishMeansWhole` | `StreamSpec => []FinishedIsWhole` |
| `PartsProofs!NoReconnection` | `ConnSpec => []NoReconnectAfterDisconnect` |
| `PartsProofs!PacketsStayTracked` | `QueueSpec => TrackedUntilAcked`, an action property |
| `PartsProofs!StoreIsMap` | `StoreSpec => StoreImplementsKV`, a refinement |
| `PartsProofs!ClientsFedInOrder` | `HubSpec => []FedInOrder` |
| `CodecProofs!PacketRoundTrip` | every packet its struct can hold, whose body a length field of four octets has room for, is decoded from its own octets as itself |
| `CodecProofs!PacketsReceivedAsSent` | `WireSpec => []ReceivedAsSent` |
| `CodecProofs!ConnectionClosedForCause` | `WireSpec => []ClosedForCause` |
| `CodecProofs!FirstPacketOfRead` | `WireSpec => []FirstOfRead` |
| `CodecProofs!SensorDataAsSent` | `SensorSpec => []TypedAsSent` |

**Event loop.** `TypeOK` is inductive as it stands, with one addition: `active` is
finite, because the recovery enumerates it. `RoutedIsActive` is inductive with the types: a stream is routed in the
step that records its filter, and the step that gives up a filter removes all its
streams.

The delivery guarantees need a strengthening. That `publish_with_ack` may return Ok
when a PUBACK arrives rests on the broker having the message tracked under that
identifier (`PubackEarned`), which rests on a PUBLISH in flight carrying the message
tracked under its identifier (`PublishTracked`), which rests on identifiers in use
being below the counter, so that no new message is tracked over an old one
(`IdentifiersUnique`), and on the responder of an entry belonging to a call that
published its message (`RespondersKnown`). `Delivery` is their conjunction with the
two guarantees. The proof has two patterns: a step that sends no PUBLISH and no
PUBACK and tracks nothing keeps it (`QuietStep`), and one that adds entries under
new identifiers and frames that fit them keeps it (`ExtendingStep`). The batch needs
arithmetic of its own: its messages take consecutive identifiers, so the last taker
of each is its only one (`BatchTable`). "Until identifiers repeat" (`~wrapped`) is
part of these statements, because the code does not look whether an identifier is in
use: see section 6.

That every exchange goes on does not need it: it holds after identifiers have
repeated, too. Inductive (`AliveInv`) is that the PUBLISH on its way is one of a QoS 1
message, so that the broker answers it, even if it is an older message's under the
same identifier. A handler that keeps the connection only appends to the wire
(`WriteAdds`); one that fails gives the connection up, and nothing is promised until
the recovery, which sends every entry that can be encoded (`HandshakeOkAlive`); a
batch that keeps the connection has passed over none that can (`BatchSends`). The
hypothesis that the policy resends is needed: without it entries survive a
reconnection that nobody sends again.

That no caller of a tracked message is given up (`CancelledOnlyByDrop`) rests on the
same invariant: what a step cancels is the responder of a request it takes, or of an
entry it tracks over, and an identifier that is not in use has no entry. A publish is
tracked before it is encoded or written, so neither error finds its responder outside
the table (`PublishCancels`).

For the filters, inductive (`InstallInv`) is that the last frame on the wire about a
filter says what `active_subscriptions` says, or that there is none and the broker
is right (`Right`). Reading takes the first frame off and writing puts one behind all
others (`TailSays`, `ConcatSays`, `AppendSays`). That the recovery begins with an
empty wire, and with a clean session with no filter at the broker, is the invariant
of the handshake (`Greeting`).

**Embedded client.** `AckedIsDelivered` speaks of what the broker believes. Inductive
(`AckInv`) is that it also holds of every PUBACK, PUBREC and PUBCOMP on its way to
the broker and of every PUBREL on its way back, and that `poll` has one frame in
hand. The application's calls send frames, but never an acknowledgement
(`SendKeeps`); an answer is handed over in the step that may put it on the wire
(`HandleKeeps`); a send that fails has not written its last frame, and an answer is
one frame (`FailsAlone`). The bound of the table (`TypeInv`) is interesting for a
batch only: several messages take slots in one call, and the last of them that was
let in counted all before it (`BatchTabled`).

That every entry belongs to an exchange that can still end is false of the code as
it is: `EmbeddedSlotLeak` shows an entry for a message that was never written, and a
batch that finds the table full half-way leaves the same. The theorems exclude the
calls that do this, and only those (`SlotLeak`), and with `poll` they speak of reads
of one packet, because `poll` drops what follows it (section 6). Everything else is
covered: failed writes, answers on shared identifiers, both directions in one entry.

**Data streams.** The order of the output rests on `expected_seq` lying between what
was returned and what is buffered (`Between`), which rests on a return taking the
smallest buffered number, in order or when the window overflows.

**Topic router.** The abstract step is the trie's step as soon as every subscriber
is at a node of the trie, in the list its filter calls for (`RouterInv`): a dispatch
walks the nodes, and removal prunes a branch only where nobody is left.
`NoDeadBranch` is the other half: of what an insertion adds and a removal leaves,
every node is on the way to a subscriber, as long as no stream was dropped.

**Keep-alive.** The bound is not inductive: while the connection is driven it rests
on `last_tx` not being younger than the last transmission (`TxNotYounger`) and on a
pending tick not being too far away (`TickInTime`); before, on the loop doing nothing
but wait (`OnlyHeldUp`). Session recovery transmits without updating `last_tx`, which
can only make a ping early.

**Backoff.** The pauses of an outage are `compute_delay` of 1, 2, 3, ... in turn
(`BackoffInv`), because `reconnect_attempt` counts the dials; that they never
shrink, or never grow with a multiplier below one, is then a fact about the powers of
the multiplier, which the code cuts at the tenth: `Factor` is unrolled that far.
Assumed of the policy (`DialAssumption`): the delays are whole numbers of units
(nanoseconds in the code), zero included, and the multiplier is a fraction, zero
included, with which the model calculates exactly where an f64 rounds. A multiplier
that is negative or no number is outside the theorem (section 6).

**Streamed publish.** `Counted` says that what the writer believes to remain is what
the broker still expects, or more once the transport has failed; `Between` that the
broker expects nothing between messages unless the program was told. `FinishedIsWhole`
says what `finish`'s Ok is worth: the broker has the whole message, whatever write
failed, unless it was out of step already. After a message left unfinished the client
stays connected, a second one is taken for the rest of the first, and its `finish`
returns Ok as well: that is not excluded, but named in the formula. Both need that
the header written is the header announced (`HeaderIsAnnounced`), property length
and identifier included.

**Containers and hub.** Queue and store remove an entry by moving the last one into
its place; that this neither loses nor changes another rests on no two entries
having the same key. The two vectors are then the graph of a map, and every method
is a step of `KVStore` or a stutter. For the hub, what a client was given or is about
to be is a rising sequence of what was broadcast before its receiver's position.

**Packets on octets.** `Codec` writes a body as fields and reads it field by field;
a field is proved to be read back where it stands in front of any others (`ReadsAs`),
and a body follows from its fields in turn (`ThreeFields`, `FourFields`, for CONNECT
`ElevenFields`). Length fields are read back from one to four octets, and are
incomplete as long as one of them is missing (`VarIntRead`); the lists of properties,
topics and filters are loops over a cursor (`ListIs`), and what was written from
vectors of eight does not exceed them (`AllFit`). So `Decode` returns the packet
as soon as all its octets are there, whatever follows, and "incomplete" before
(`DecodeIs`): that is `FirstOfRead`. `FrameLength` agrees with it about where a packet
ends (`FrameOf`) and does not depend on what was cut off in front (`FrameShift`).

For the connection, inductive (`WireInv`) is that the buffer holds what was read after
the last packet received, without a whole frame, and that the wire is the rest of the
stream. A read whose frames do not go beyond the packets has exactly the next ones
(`FramesArePackets`) and leaves such a buffer (`KeepRest`); one that goes beyond them
meets a frame of the tail, which cannot be decoded (`FrameOfTail`). With no whole
frame in the buffer the next packet is longer than what the buffer has
(`NextPacket`): a full one is too small for it, and some of it is still on the wire.
That the loop hangs at exactly the reads that end in a length field (`StuckIs`) rests
on the buffer beginning where the octets come so far end in a packet (`BeginsAt`).
Assumed: the traffic consists of packets (`Packets`: what the structs of
packet_types.rs can hold, their vectors of eight included) whose bodies a length field has room for
(`TrafficAssumption`), and the tail cannot be decoded: whatever has come of it is no
whole frame or one that `Decode` refuses, because it is no packet or has an item too
many for its struct (`TailsAssumption`). A packet of another peer that the structs
cannot hold belongs to a tail, and closes the connection.

The recursive functions in this (lists of items, the iterator's stops) are shown to
exist by induction on what is left of the buffer (`Backwards`), as an induction over
a set of numbers (`NatInduct`), which the provers can do.

**Sensor data** (`CodecProofs`, last part).  A number put into `w` octets is got back
modulo `Capacity[w]` (`GetPut`): after `k` octets what has been got, and what put has
not yet divided away, make up the number (`AnotherDigit`).  A payload is read back in
its parts (`Between`), a series value by value (`EqualParts`), each type of data from
its own octets (`SampleRead`), a chunk from its header (`ChunkRead`).  The invariant
(`SensorInv`) says that what is on the topic is the encoding of what was sent and that
what was decoded is what is on the topic.  Assumed: the data are what
`SensorDataType` can hold and the numbers a u64 (`SamplesAssumption`); of `Base` only
that the six tags and one more fit into an octet, so the theorem is about octets of
256 values as well as about the small ones the run has.

Only model-checked: the liveness properties, because liveness under fairness is
beyond the prover.

## 6. Where the code and its documentation part

Five runs end in a counterexample, each from one or two calls or from none:

* `EventLoopHandles`: dropping every client handle does not end the loop
  (eventloop.rs:98 says it does). It sends DISCONNECT, drives the same transport
  again, reconnects when the broker closes, and starts over; its status may be
  Stopped in between.
* `EventLoopHang`: a subscribe whose SUBACK is lost with the connection is
  resubscribed under another identifier; its own responder is never used.
* `EventLoopCoalesced`: what arrives in the same read as CONNACK is dropped.
* `EmbeddedSlotLeak`: a message that cannot be encoded keeps its slot in the table.
  (`EmbeddedSafety` shows that, where everything fits, every entry was written.)
* `KeepAliveHeartbeat`: a broker that takes pings and never answers is never given
  up (docs/appflow.md:75 promises a heartbeat timeout).

Further disagreements seen while modelling, which the models follow but no run
is devoted to:

*Tokio client*

* QoS 2 has no second half: PUBREC, PUBREL and PUBCOMP are ignored (the
  repository's README.md:52 promises a full state machine), so such a message is
  resent on every reconnection and its caller waits for ever.
* `max_inflight` of `DataRecoveryPolicy` (types.rs:85) is read by nobody:
  `inflight_publishes` has no bound.
* An incoming publish is acknowledged before it is dispatched, and dropped when its
  stream is full.
* `next_packet_id` wraps without looking at identifiers in use. After 65535 of them
  a new message may replace an unacknowledged one, whose caller gets an error and
  which is forgotten, and an old PUBACK may be taken for the new message.
* A read that ends inside a length field of several octets hangs the client: the
  frame iterator returns the same error each time it is asked (codec.rs:889) and
  `flatten` (eventloop.rs:330) drops it and asks again, without an await. (A packet cut
  after its first octet, or behind its length field, is waited for.) A length field with
  four continuation bits does the same. It is `"stuck"` in `Framing`, and
  `ClosedForCause` says that among packets it happens at just these reads.
* A v5 packet with more than eight properties, or a SUBACK with more than eight codes,
  cannot be decoded (properties.rs:75, codec.rs:555) and ends the connection.
* A read of a single octet that begins a ping or a DISCONNECT is decoded as whole by
  the functions that do not go through the iterator.
* A length of 128^4 and more is encoded in five octets (varint.rs:49), where the
  codec reserves four.
* `publish_datagram` writes topic and payload without a fixed header, while
  `recv_datagram` decodes an MQTT packet.
* `tokio::time::interval` panics for a keep_alive of zero; `as_secs` cuts a
  keep_alive that is no whole number of seconds in CONNECT.

* A filter whose SUBSCRIBE cannot be encoded in `tx_buf` drops the connection and stays
  in `active_subscriptions`, where the recovery passes over it. One the router turns
  down is sent to the broker all the same, and its stream has ended before its caller
  gets it. SUBACK's codes are not looked at: `subscribe` returns Ok for a filter the
  broker refused, and the loop asks for it again on every connection.
* `run` stops without dropping anything: with `new_split` the callers wait, and new
  requests fill the channel, until the `EventLoop` value is dropped. With
  `Client::connect` its task drops it at once.

*Dialling*

* With the default features `tls` and `quic` the transports are compiled in, but
  `from_uri` tests `tokio-tls` and `transport-quic` and refuses mqtts and quic URIs.
  A host that is an IPv6 address fails to parse.
* The QUIC transport verifies with an empty root store, so every QUIC handshake
  fails, and of SmartTransport only the plain-TCP fallback connects - to the same
  host and port, without a time limit (docs' ADR 0004:18 has it on 8883 or 1883).
  The event loop does not use SmartTransport, and `connect_transport` has no limit:
  a TLS peer that says nothing is waited for without end.
* A handshake that succeeds resets `reconnect_attempt`, so a broker that accepts and
  closes at once is redialled without a pause. The first connection is retried even
  with reconnection disabled; `max_retries` of `Some(0)` dials once.
* The jitter that eventloop.rs:127 and docs/appflow.md:61 promise is not there. With a multiplier below one the pauses shrink. One that is negative
  panics in `Duration::from_secs_f64` (in `Dial` it is a fraction from zero up).

*Data streams and router*

* `DataStreamConsumer` ends with what it has buffered undelivered; racing producers
  of one stream number their chunks before they queue them, out of order
  (stream.rs:264).
* Time series of more than 65535 values and MIME types of more than 255 octets are
  cut without an error.
* Nodes of the trie whose streams were dropped are never pruned (router.rs:193).

*Embedded client*

* `poll` and `poll_batch` keep no rest of a packet a read cut; `poll` ignores what
  follows the first packet of a read; `poll_batch` loses events it has already
  collected when a later frame fails, and those beyond `MAX_EVENTS`, though all were
  acknowledged; a kept session's table is cleared by every connect; a QoS 2 duplicate
  is delivered twice.
* `poll` waits in `recv` without a limit, so the ping it would send is sent only when
  something arrives first; `poll_batch` never pings; the transports' `timeout` is
  read by nobody; keep_alive in seconds wraps at 16 bits.
* `publish` sends QoS 2 messages, while the repository's tests (tests/client_tests.rs:136)
  and its CHANGELOG.md:104 have them rejected with `UnsupportedQoS`.
* `begin_stream_publish` sends the fixed header before it knows that the rest fits in
  its 256 octets: for a topic too long it returns an error with the broker in the
  middle of a packet, and for one just short of that it panics on an index (ADR
  0005:18 promises no panics). Its error paths keep the slot, and the client stays
  connected.

*Bridges*

* `MqttBroadcastHub` holds a sender itself, so that its clients' responses do not end
  with the subscription as long as a clone of the hub is left; its receiver count
  includes clients already gone until the next message reaches their tasks.
* A binding's `abort` is seen at the task's next pause: callbacks go on for the rest
  of a poll's messages. A handle that is dropped leaves its task running, and a
  callback that panics ends the binding without a word.
* The MJPEG stream's boundary can be chosen, its `CONTENT_TYPE` cannot.

## 7. What is not modelled

* Dead code: `send_publish` with the offline queue (eventloop.rs:530).
* Transports below their stages: sockets, TLS, QUIC and datagrams are outcomes. The
  embedded transports (`mqtt-embedded/src/transport.rs`) hand each method to one
  method of a socket and keep no state; their failures are the faults of
  `EmbeddedClient` and `StreamPublish`.
* A caller that drops its future half-way, and the embedded client's futures dropped
  by `select`.
* The embedded client's clock (embassy): a ping is a step that may be taken.
* Traits, errors and re-exports: `mqtt-crypto`, most of `mqtt-core`'s traits, the
  facade crate.
* The MJPEG and SSE wrappers, which format one chunk at a time without state.
* UTF-8 checks, and encode errors of a small buffer inside `Codec` (`EventLoop` has
  them as outcomes).
* A `run` that is called again after it has returned, and one that is dropped half-way
  (by `JoinHandle::abort`, for one).
* A broker that closes the connection because of an invalid filter, which the recovery
  would send it again.

## 8. Running it

`tlc -config EventLoopSafety.cfg MCEventLoop`, and likewise for the other runs (the
module of each is in `PROJECT.json`); `tlapm EventLoopDelivery.tla` and likewise for
the other `*Proofs` modules, a minute or two each.
