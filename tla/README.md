# A TLA+ development of protosocket

This directory holds TLA+ models of [protosocket](../src), a set of Rust crates
for message-oriented connections: the `spillway` channel, the `Connection`
future, its codecs, the rpc client and server built on it, the client's
connection pool, the listeners and servers that accept connections, and the
`level-runtime` they are spawned on. TLC checks the models on small instances;
TLAPS proves, for every instance, the refinements and every invariant that the
runs check. `PROJECT.json` maps each definition to the source lines it models
and lists runs, mutants, hazards, findings and theorems.

Run a check with `tlc -config <cfg> <module>` and a proof with `tlapm <module>.tla`.

## The system

| Component | State | Operations | Talks to |
|---|---|---|---|
| spillway channel (`spillway`) | chutes (mutex + `clean` flag), waker, sender count, chute clock, size; the receiver's buffer and cursor | `Sender::send`, `send_many`, `clone`, `drop`; `Receiver::next`, `poll_next`, `next_batch`, `try_next`; `BatchDrain` | shared memory between sender threads and the receiver's task |
| connection (`protosocket-connection`) | receive buffer, unread index, send buffer, budget | one future: `poll_receive`, reactor poll, `poll_writev_buffers` | byte stream, codec, `MessageReactor`, a spillway `Receiver` |
| rpc client (`protosocket-rpc/client`) | submission queue, `CompletionRegistry`, `is_alive`, completions | `send_unary`, `send_streaming`, reactor callbacks, completions' polls and drops | spillway, its Connection |
| rpc server connection (`protosocket-rpc/server`) | pool of rpcs, `AbortionTracker`, rejections | reactor callbacks, `poll_outbound_many`, `RpcStream::poll_next` | its Connection, the service |
| connection pool (`client/connection_pool.rs`) | a mutex-guarded `ConnectionState` per slot, shared connect handles | `get_connection*`, `reconcile_client_slot` | connect tasks, rpc clients |
| connect (`client/configuration.rs`, `stream_connector.rs`) | the stage of a connect | `connect`, `connect_stream` | pool, rpc client, Connection |
| codecs (`protosocket-prost`, `protosocket-messagepack`, `PooledEncoder`) | the buffer pool; the messagepack decoder's cached length | `encode`, `return_buffer`, `decode` | Connection |
| listeners and servers (`socket_listener.rs`, `protosocket-server`, `rpc/server/socket_server.rs`) | the socket, handshakes in flight, the queues made | `listen`, `poll_accept`, `poll` of a server | the kernel, TLS, the runtime |
| level-runtime (`level-runtime`) | a current-thread runtime, thread and count per worker | `spawn_balanced`, `spawn_local`, `spawn_on_each`, `start`, `run_with_termination` | tokio, servers and connections |

### What is hard

* **spillway**: every chute has its own lock and a flag that is read without
  it; a sender wakes only on the edge from empty to non-empty; the receiver
  looks, registers its waker and looks again. The capacity counter is added to
  before it is checked and taken back afterwards, while `next_batch` lends a
  unit. Correct means: each sender's values arrive once, in order, a batch
  unbroken; no wake-up is lost; the counter stays exact; `None` means the end.
* **connection**: frames are cut by reads in any way, the buffer grows and is
  compacted between decodes, writes end inside one of several gathered
  buffers, and four parties may hold the task's waker. Correct means: no byte
  lost, repeated or moved in either direction; bounded buffers; the task never
  parks on work it could do and never spins.
* **rpc**: completion, end, cancellation, rejection and the loss of either
  connection race over two connections and two maps keyed by message id.
  Correct means: one terminal answer, no orphan in either map, streams complete
  and in order, every completion resolves.
* **pool**: waiters run late, on a slot that others have moved on. Correct
  means: connects are shared, a live client is not replaced, and the slot heals.
* **codecs**: a frame is cut anywhere, its length inside its own encoding; a
  decoder keeps a length between calls; buffers are reused. Correct means: what
  comes out is what went in, and a decoder neither waits for too much nor asks
  for too little.
* **servers**: a server waits for a socket and for handshakes at once, and is a
  task of a runtime that may be shut down by another thread. Correct means: no
  peer is forgotten, none can end the server or hold up another, and no queue
  is kept open.
* **level-runtime**: counts are compared without a lock while spawning,
  finishing, aborting and closing threads change them, and a future is counted
  before its runtime takes it, or refuses it. Correct means: the counts are
  exact, a task stays on its worker, and nothing survives the join.

## Modules

| Module | Models | Notes |
|---|---|---|
| `SenderFifo` | what a spillway promises (docs of `Sender::send`, `send_many`) | abstract specification |
| `Spillway` | `spillway/src/{lib,shared,sender,receiver}.rs` | one action per access to shared memory |
| `SpillwayInv` | the inductive invariants `FifoInv`, `WakeInv`, `DirtyInv`, `SizeInv` | |
| `SpillwayProofs`, `SpillwayFifoProofs` | theorems | |
| `Connection` | `connection.rs`, `send_budget.rs`, `message_reactor.rs`, `encoding.rs` | one action per call to the stream, codec, reactor or queue |
| `ConnectionProofs` | theorems | |
| `RpcWire` | the two connections between client and server, as message sequences | what `Connection` guarantees while it is open |
| `RpcClient` | `rpc_client.rs`, `client/reactor/*` | |
| `RpcServer` | `rpc_submitter.rs`, `rpc_stream.rs`, `abortion_tracker.rs`, `server_traits.rs` | the service is environment |
| `RpcSession` | composes `RpcClient` and `RpcServer` over `RpcWire` | connection loss at either end |
| `RpcSessionProofs` | theorems | |
| `ConnectionPool` | `connection_pool.rs`, `configuration.rs`, `stream_connector.rs` | one slot; slots share nothing |
| `ConnectionPoolProofs` | theorems | |
| `Codec` | `pooled_encoder.rs`, `encoding.rs`, both codec crates | an encoder, a stream cut anywhere, a decoder |
| `CodecProofs` | theorems | |
| `Placement` | what level-runtime promises of where tasks are | abstract specification |
| `LevelRuntime` | `runtime.rs`, `worker.rs`, `concurrency_tracker.rs`, `builder.rs` | one action per access to shared state |
| `SocketServer` | `socket_listener.rs`, `connection_server.rs`, `socket_server.rs` | one action per call of an accept loop |
| `LevelServers` | composes `SocketServer` and `LevelRuntime` | as the main of `example-proto` does |
| `LevelRuntimeProofs`, `LevelServersProofs` | theorems | |
| `MC*` | instances for TLC | |

Operators named `Mut...` are the seeded faults of `PROJECT.json`: small
alternatives of the definition that follows them. Nothing else uses them.

### Spillway

A value is a pair of its sender and its position among that sender's values.
`pc[s]` is where a sender is in its call: `BeginSend` is the `fetch_add` and
its test, `Rollback` the `fetch_sub` of `Error::Full`, `Commit` what
`Chute::send_many` does under the mutex (extend the queue, clear the flag if
the queue was empty), `WakeForDirty` the wake that is called with the mutex
still held (hence `Locked`). `rpc` is where the receiver is: `FindDirty` and
`FindClean` are the loads of `race_find_dirty`, `Register` the `AtomicWaker`,
`Swap` the exchange of the chute with the empty buffer, `TakeOne` the
pop with its decrement; `TakeForBatch`, `PutBack`, `DrainNext` and `DrainDrop`
are `next_batch` and its `BatchDrain`. `DropReceiver` only stops the receiver:
there is no `Drop`, and `Dead` is constantly `FALSE` because nothing stores to
it. `sent`, `got`, `ends` and `last` are history, and are the variables of
`SenderFifo`. Atomics are sequentially consistent in the model; the relaxed
loads of the code are weaker (not modelled). The clock is kept modulo
`NChutes`.

### Connection

Inbound, a byte is its position in the peer's stream (`wire`), so a misplaced
byte is visible. A frame's first byte carries kind and size; the decoder can
tell them once `Header` bytes are there (`Incomplete`, `NextMessageSize`).
`ReadSome(n)` takes any number of bytes that have arrived and fit, which covers every
segmentation. `EndPass` is the compaction after the decode loop and the return
to reading. `DecodeOver` is a decoder that claims a byte it was not given;
`DecodeBeyond` is the panic the compaction then ends in. Outbound, a byte is a
message and a place in it; `TakeQueued`, `QueuePending`, `QueueNone`,
`EmitSome`, `EmitPending`, `EmitNone` are `poll_serialize_outbound_messages`;
`QueueMisses` is the `None` of a spillway that leaves messages behind (the run
`spillway_none`): the queue counts as closed with messages in it.
`WriteSome(n)` is a short write of the gathered `Slices` with
`advance_send_buffers` (`Advanced`). `room` is what the stream takes before it
is pending. `wakes` records which parties hold the task's waker in this
state; `Wake(w)` schedules the task only if the waker is registered there.
A stream with `Ok(0)` on a write of no slices models the std/tokio behaviour;
a read that is `Ready` with `WouldBlock`, which the code treats as pending and
which would leave no waker, is not something tokio's streams return.
The codec, the peer, the queue's senders and the reactor's own work are the
environment.

### Rpc

The submission queue is a spillway and keeps the order of one `Sender` only;
request and cancellation are sent through two, so `queue` is a set.
`CheckAlive` and `Submit` are two steps, as `send_message` reads `is_alive`
before it sends. `HasCompleter` is the existence of the sending half of a
completion: when it is gone the caller's poll resolves. The channel of a
streaming completion is a spillway too, and its poll is not one step: `PollItem`
and `PollEmpty` are its scans, `PollFinished` and `PollPending` the load of the
sender count after them. The connection's task may fill the channel and drop the
completer in between, so `PollFinished` does not look at the channel again. On the server, `woken`
is the ready set of the `FuturesUnordered` pool, which is polled only with a
permit in hand; `Polled` gives rejections priority, and `Emit` turns an
`RpcStreamEvent` into a message and retires the rpc if the event is terminal.
`OnControl`, `OnItem`, `OnUnary` and `OnUnregistered` are the ways of the
client's `on_inbound_message`. The kind of an rpc is the same at both ends.
`ClientDrops` and `ServerDrops` end a connection's future with any suffix of its
unsent messages lost; the other end reads what is left and then the end of the
stream. `ClientDrops` also loses any part of the submission queue, namely what
the `Receiver` had swapped into its own buffer; the rest stays in the chutes.
Every rpc has a message id of its own.

### ConnectionPool

An action is one hold of the slot's mutex. `get_connection_by_slot` locks it
anew each time around its loop: `FindDead` turns a dead client into
`Disconnected`, `Connect` spawns the connect task and changes the slot, and both
leave the caller at pc `"look"`, to find whatever the slot holds by then
(`FindConnected`, `FindConnecting`, or again one of the two). `Fail` sets the slot to
`Disconnected` whatever it holds, as the code does; `Reconcile` prefers a live
client that is already in the slot. A connect is two steps, `Handshake` (the
tcp stream, the reactor and the client exist) and `ConnectSucceeds` (the
handshake is done, the Connection is spawned); `ConnectFails` is an error of
any part, and of the task.

### Codec

A byte is a digit of a length or a place in a body, so a byte that is cut,
reused or read as something else is visible. Lengths have a small base:
`WriteVarint` is the little-endian continuation format of prost, `WriteU32` the
tag and fixed width of messagepack, and `Framed` wraps at that width; `Power[n]`
is the value of a digit at place `n`, and the two read operators add up digits
by recursion over the places. The
decoders are the two `decode` functions; `state` is the cached length of the
messagepack one. The peer is the encoder of the model (`"own"`) or a foreign one
that sends any bytes (`Foreign`): digits with and without the mark that more
follow for prost, tags and digits for messagepack, but no body the receiver
knows, as such a frame is the encoder's. A varint of `VarintMax` digits that
does not end stands for every varint that is invalid (also one whose tenth byte
is too large); the decoder answers it as it does a varint that is cut. The sum
of length and delimiter wraps at `Usize`, as in a release build; a debug build
panics there. `Write(n)` is a write of any part of the first buffer, with
the return of a finished one to the pool. A body is opaque: some messages are
of a type the receiver does not know (`Known`), which is where decoding fails.

### Servers on the level runtime

`pc[s]` is where the poll of a server is: `AcceptStream`, `AcceptHandshake` and
`AcceptPending` are the poll of the socket, `JoinStream`, `JoinFailed` and
`JoinPending` that of the `JoinSet`, `Serve` the queue, reactor and Connection
made for a stream, `EndIteration` the Senders the loop lets go of at the end of
an iteration. `armed` says who holds the server's waker. `AcceptError`,
`JoinError` (a handshake task that panicked) and `ListenError` end a server.

In `LevelRuntime`, a spawn is a call of some thread or task: `SpawnBalanced`
and `BalanceSecond` load two counts one after the other, `Wrap` counts the
future, `Submit` hands it to the runtime, which takes it or, if it is closed,
drops it. `Poll`, `Yield`, `Complete` and `Abort` are what a worker's thread
does with its tasks, `Terminate`, `StopWorker`, `DropOwned`, `CloseWorker` and
`Join` the end. `Start` happens once, as in every example; the code does not
enforce it. `start` borrows the runtime, so `run_with_termination` could follow,
the assert of worker.rs:61 being per thread, and the threads of `start` would
then keep the workers and their tasks alive after the join. A caller has a handle, or a
default runtime was set: the panic of the static functions without one is left
out. `LevelServers` conjoins the two: a server's step happens in its
poll, a spawn in it is a spawn of the runtime, and a task that is dropped drops
the server or connection that it is. TLS handshakes are tasks of tokio, on the
same threads, that no count includes, as in the code.

## Runs

Passing:

| Run | Bounds | Shows |
|---|---|---|
| `spillway_safety` (359 679 states) | 3 senders (two share a chute), 2 chutes, capacity 3, batches of 2, all ways to receive | `NoLostWakeup`, `ExpectHolds`, `InFlightBounded`, `SizeIsExact`, `NoneMeansNoSender`, and `FifoSpec` (the channel implements `SenderFifo`) |
| `spillway_live` (80 926) | 2 senders, 2 chutes, unbounded, two single sends each | `Delivery`, `EndIsSeen` |
| `connection` (2 303 223) | streams of two or three frames (messages, skips, an invalid, a cut-off, an oversized one, a skip of the grown buffer's length and one longer) with a reply, and a short stream with two queued messages and two replies, one of them empty; header 2, limit 3, increment 2; budget 2, window 2; one fault | `BytesInStep`, `DispatchedInOrder`, `BufferBound`, `NothingForgotten`, `NoPanic`, `SendIntegrity` |
| `connection_live` (108 034) | one message from each source; a skip that fills the buffer or a message that is too long | `PollReturns`, `Outbound` |
| `rpc_session` (115 715) | a unary and a streaming rpc, 2 items, budget 2, loss of either end | `OneTerminal`, `CancelReaches`, `InFlightIsServed`, `ItemsInOrder`, `FinishedMissesOnlyLate`, `QuietIsClean`, `Resolves` |
| `pool` (73 690) | 2 callers, 3 troubles (failed connect, death, dropped wait), 9 connects | `ConnectIsShared`, `LiveIsNotReplaced`, `Settles`, `Answered` |
| `server` (198 442) | an rpc server with TLS on each of 2 workers, 2 peers, backlog 1, one fault, termination at any time | `CounterExact`, `JoinedIsEmpty`, and `PlacementSpec` (the runtime implements `Placement`) |
| `server_live` (13 216) | each server over each listener on one worker, 2 peers, backlog 1, one fault | `NothingForgotten`, `PeersDoNotEndServers`, `QueueOwners`, `Admitted`, `Closes` |
| `codec` (22 810) | both codecs, pool of 1 or none, up to 3 messages of 3 sizes, one type unknown to the receiver, or any 5 bytes of a foreign peer; digits of base 2, lengths of 3 digits | `RoundTrip`, `AsksForMore`, `Delivered` |

Violations, each a disagreement between the code and a sentence of the repository:

| Run | Property | What happens |
|---|---|---|
| `spillway_none` | `NoneMeansCaughtUp` | the last sender sends and is dropped between the receiver's second scan and its load of the sender count: `None`, with a value left in a chute |
| `connection_skip` | `PollReturns` | a skip longer than the buffer fills it; a full buffer is `MoreToRead`; the poll spins |
| `rpc_lost` | `AlwaysResolves` | a request that is in the submission queue when the connection ends is kept alive by the guard that waits for it: its caller waits for ever |

The models reach these states too, without a run of their own:

* `send_many` of no values marks an empty chute dirty and the receiver's
  `expect` (receiver.rs:97) fires: `ExpectHolds` fails once `BatchSizes`
  contains 0.
* While `next_batch` has a value out and not yet put back, one value above the
  capacity is admitted (lib.rs:38 calls it an upper bound): the `Slack` of
  `InFlightBounded` is needed.
* Sends after the receiver is dropped succeed, though sender.rs:61 documents
  `Error::Closed`.
* The receive buffer grows by whole increments, so a message longer than
  `max_buffer_length` passes if it arrives in one piece and is refused if not.
* A decoder that consumes too much ends in a panic, not in the error the loop
  prepares (connection.rs:201 and 252).
* A connection whose sources are both exhausted closes with the messages it has
  just serialized unwritten (`EmitNone`).
* A streaming completion may end with its last item unread: the item and the end
  of the stream arrive after the second scan of the caller's poll and before its
  load of the sender count (receiver.rs:62-75, the `None` of `spillway_none`), and
  `PollFinished` reports `Error::Finished`, though error.rs:18 of the rpc crate
  calls it "RPC finished normally". `FinishedMissesOnlyLate` needs its
  `Len(channel[r])` for them.
* A varint that is not a length (ten bytes or more that all say that another
  follows) makes the prost decoder ask for ten bytes although it has them
  (decoder.rs:29-33); the connection waits, fills its buffer and, as a full
  buffer is `MoreToRead` (connection.rs:187), spins. error.rs:12 of the
  connection crate warns of it: "Undercounting wedges a connection on a message
  it can never buffer." `AsksForMore` needs its exception for it, and
  `NeverUndercounts`, without the exception, holds of the encoder's stream only.
* A streaming completion ends with `Error::Finished` ("finished normally") for
  a rejected rpc and a lost connection as well (`PollFinished`).
* A cancellation, sent through another `Sender`, may overtake its request
  (completion_registry.rs:74): the server ignores the one and runs the other
  to its end, though rpc_client.rs:17 says "To cancel an RPC, drop the response
  future."
* An accept error and the panic of a handshake task end the server
  (`AcceptError`, `JoinError`), though connection_server.rs:56 says "it runs
  forever"; `PeersDoNotEndServers` needs its exception for them.
* A second waiter of a failed connect clears a slot that a third caller has
  filled with a live client since (`Fail`).

### Why the bounds are enough

Spillway: two chutes are the least with a scan that can be overtaken, three
handles the least with a shared chute beside another one, a batch of two the
least that can be torn, a capacity of three the least at which a second batch
fits only through the unit `next_batch` lends. Connection: a limit that is not
a multiple of the increment and frames just below, at and above both limits;
two buffers and a window smaller than their total, so every short write within
and between buffers happens; one fault, as a second one meets the same states.
Rpc: rpcs of the two kinds, as different rpcs share only the channels'
capacity; two items, so that one can overtake. Pool: two callers are a
stale waiter and a fresh one, and three troubles the least that let the slot go
wrong, heal and go wrong again; `MaxConnects` is above what the troubles can
cause, so it never blocks a caller; what is proved holds for any number of
callers. Servers: two workers are the least to choose from or
to mistake for each other, two peers with a backlog of one the least that can
compete for it, and one fault ends one server while the other goes on; the
second run has one worker, as its properties are about one server, and all four
combinations of server and listener. Codec: lengths with one and with several
digits, an empty body, a cut inside the length, and three messages, so that a
buffer is reused with another in flight; `MaxForeign` is above the longest
varint and the longest prefix, so that a foreign peer sends an overlong one and
bytes behind it. Only foreign lengths reach the wrap of `Framed`; with
`max_buffer_length` below 2^32 - 5, Connection refuses a frame near it once it
is asked for.

`CHECK_DEADLOCK` is on for the channel, whose end is the action `Finished`. It
is off for the others: a closed connection, a session whose rpcs are all done,
a pool whose bounds are used up, a joined runtime and a codec with nothing left
to send have no next step.

### Fairness

* `Spillway!FairSpec`: a thread inside a call goes on, a woken task is polled,
  the receiver's owner keeps asking (what `Connection` does on each poll) and
  takes values from the batches it asked for: strong fairness of `DrainNext`,
  as a drain may be dropped after each value. No sender has to send or go.
* `Connection!FairSpec`: the runtime polls a woken task and a poll runs on; the
  peer goes on reading (for `Outbound` only). No fairness for faults, the
  peer's sends, the queue or the reactor.
* `RpcSession!FairSpec`: the tasks at both ends run, callers that have begun
  submit and poll, and a service finishes. No fairness for rejection as
  opposed to acceptance, drops or loss.
* `ConnectionPool!FairSpec`: connects resolve, ready callers run, callers keep
  asking. Failures are bounded by `MaxTrouble`. That a handshake ends is up to
  the server, as `connect` sets no timeout.
* `LevelServers!FairSpec`: threads run, a poll returns, and a worker polls its
  woken tasks in turn: strong fairness of the polls of a server and of
  `run_main`, as a poll of another task disables them for a while. Nobody has
  to connect, to finish a handshake or to terminate the runtime, and
  connections may live on.
* `Codec!FairSpec`: the connection writes what it has and decodes what it reads.

## Proofs

The theorems hold for every value of the constants that satisfies the
assumption of their module: `SpillwayAssumption` (any finite set of senders,
any number of chutes, capacity, batch sizes, 0 included, and polling modes),
`ConnectionAssumption` (any traffic whose inbound stream is cut into frames,
`WellFramed`, the last perhaps unfinished; any positive sizes, budget and
window), `RpcAssumption` (any finite set of rpcs, any length of a stream and any
send budget), `LevelAssumption` (any positive number of workers, finitely many
tasks, any threads), `CompositionAssumption` (a server per worker; `run_main`,
the servers and the connections are different tasks), `PoolAssumption` and
`CodecAssumption` (any set of messages whose frames are shorter than an u32 can
say and whose sizes a varint can; any base above one, number of digits, pool and
queue; peers of both kinds, and any number of foreign bytes). The constants are those of both codecs; what the code has is
`Codecs = {"messagepack"}` with base 256 and 4 digits, and `Codecs = {"prost"}`
with base 128 and at most 10 digits.
`ExpectNeverFires` alone has a hypothesis of its own, `0 \notin BatchSizes`,
without which it is false (see above).

| Theorem | Says | Rests on |
|---|---|---|
| `SpillwayProofs!TypeCorrect` | `Spec => []TypeOK` | `TypeOK` is inductive; lemmas on `Wrap`, `Batch`, `Deliver` |
| `SpillwayFifoProofs!ImplementsSenderFifo` | `Spec => FifoSpec` | `FifoInv` |
| `SpillwayProofs!NoWakeupIsLost` | `Spec => []NoLostWakeup` | `WakeInv` |
| `SpillwayProofs!EndIsReal` | `Spec => []NoneMeansNoSender` | `WakeInv` |
| `SpillwayProofs!ExpectNeverFires` | `0 \notin BatchSizes /\ Spec => []ExpectHolds` | `DirtyInv` |
| `SpillwayFifoProofs!SizeStaysExact`, `CapacityHolds` | `Spec => []SizeIsExact`, `[]InFlightBounded` | `SizeInv`, `FifoInv` |
| `ConnectionProofs!BytesStayInStep`, `MessagesInOrder`, `PanicNeedsOver` | `Spec => []BytesInStep`, `[]DispatchedInOrder`, `[]NoPanic` | `ReadInv` |
| `ConnectionProofs!NothingTorn`, `BuffersBounded` | `Spec => []SendIntegrity`, `[]BufferBound` | `SendInv` (and `ReadInv`) |
| `ConnectionProofs!ParksOnlyWhenIdle` | `Spec => []NothingForgotten` | `SendInv`, `WatchInv` |
| `RpcSessionProofs!CancellationReaches` | `Spec => []CancelReaches` | `TypeInv` |
| `RpcSessionProofs!RegistryIsServed`, `QuietLeavesNothing` | `Spec => []InFlightIsServed`, `[]QuietIsClean` | `Tracked` |
| `RpcSessionProofs!AnsweredOnce` | `Spec => []OneTerminal` | `OnceInv` |
| `RpcSessionProofs!SessionHolds`, `StreamsInOrder`, `FinishedStreamsMissOnlyLate` | `Spec => []SessionInv`, `[]ItemsInOrder`, `[]FinishedMissesOnlyLate` | `SessionInv` |
| `LevelRuntimeProofs!LevelTypeCorrect`, `CountsAreExact`, `JoinedHoldsNothing` | `LevelSpec => []LevelTypeOK`, `[]CounterExact`, `[]JoinedIsEmpty` | `LevelInv` |
| `LevelRuntimeProofs!ImplementsPlacement` | `LevelSpec => PlacementSpec` | `LevelInv` |
| `LevelServersProofs!ServersUseRuntime` | `Spec => LevelSpec` | every step is one of the runtime, or leaves it alone |
| `LevelServersProofs!ServersCounted`, `ServersJoined`, `ServersPlaced` | `CounterExact`, `JoinedIsEmpty` and `PlacementSpec`, of the servers | `ServersUseRuntime` |
| `LevelServersProofs!ServersHold`, `ServersForgetNothing`, `PeersAreHarmless`, `QueuesHaveTheirOwners` | `Spec => []ServersInv`, `[]NothingForgotten`, `[]PeersDoNotEndServers`, `[]QueueOwners` | `ServersInv` |
| `ConnectionPoolProofs!PoolTypeCorrect`, `ConnectsAreShared`, `LiveClientsStay` | `Spec => []TypeOK`, `[]ConnectIsShared`, `LiveIsNotReplaced` | `PoolInv` |
| `CodecProofs!CodecHolds`, `DecodedIsSent`, `AsksEnough` | `Spec => []CodecInv`, `[]RoundTrip`, `[]AsksForMore` | `CodecInv` |

*Order.* That the receiver delivers the next value of a sender does not follow
from the counters; it needs where the values are. `FifoInv` says: the buffer
and every chute hold values that are enqueued and not received, in sending
order per sender, with a change of sender only at the end of a batch
(`Queued`); values wait in their own sender's chute (`InOwnChute`); what is in
the buffer is older than what is in a chute (`BufferFirst`, which needs that
the buffer is empty whenever the receiver scans); nothing between `got` and
`sent` is missing; a batch received in part goes on at the head of the buffer
(`BatchGoesOn`). Each action preserves it by one of the lemmas `CommitFifo`,
`SwapFifo`, `DeliverFifo`, `CloneFifo`, or by `FifoFrame` if it touches none of
these variables; `HeadIsNext` then gives that a delivery is a `Receive` of
`SenderFifo` (`FifoSimulation`).

*Wake-ups.* `NoLostWakeup` speaks of a parked receiver, but is decided while
it scans. `Watching` states it for the whole stretch from registration to
parking: the waker is in place, and any chute already passed by the scan that
has values is locked by a sender about to wake. `CleanMeansEmpty` makes a
clean flag evidence of an empty chute, `ScanComplete` makes a finished scan cover
every chute, `SendersCounted` relates the counter to the handles
that exist, and `EndAnnounced` is the same argument for the last drop.

*The expect.* `DirtyInv` is the converse of `CleanMeansEmpty`: a chute whose
flag is dirty has a value, and the flag the receiver saw dirty is still so when
it swaps, as only the receiver sets it. `Commit` of an empty batch is the one
action that breaks it, hence the hypothesis.

*Capacity.* The counter exceeds what is admitted while refused calls have not
taken their part back, so `InFlightBounded` is not inductive. `SizeInv` counts
two regions of positions: `Held`, every reservation included, which the counter
follows exactly up to what `next_batch` lends and an open `BatchDrain` has
consumed; and `Admitted`, without the calls that will be refused, which is
bounded. `AdmissionFits` is the step where the check of `BeginSend` decides: it
compares a counter that is at most one below `Held`, and `Admitted` is part of
`Held`. The sizes of regions come from the theorems on cardinalities, sender by
sender.

*Connection, inbound.* `ReadInv` ties three positions in the peer's stream
together: what was read, the unread stretch of the buffer, and the cursor.
`DispatchedInOrder` says that the messages given to the reactor are exactly the
message frames before the cursor; that a decode passes one frame and no other
(`WellFramed`) makes it inductive. `CursorReset` and `OnlyOverPasses` say when
the cursor may be inside or beyond the bytes read, which is what the compaction
depends on.

*Connection, outbound.* `SendInv` is `SendIntegrity` with the types and the
bound of the send buffer. The work is in `FlattenSeq`, a recursive definition:
its value for every sequence is obtained from the least member of a set of
naturals (`NatLeast`, `NatSets`, from the library's `WFMin`), not from the
induction theorems. From it follow that flattening distributes over
concatenation, that `Slices` are a beginning of the send buffer, and that
`Advanced` takes away just the bytes that were written.

*Connection, wake-ups.* `WatchInv` has a part for each of the four parties that
may hold the waker (stream, queue, reactor, peer): from the step after it was
asked until the task is parked, it has nothing to report and will wake the task,
or the task has been woken. `RoundStarts` is needed because `queue_closed` is a
local that a later step of the same poll relies on; it says that no Sender is
left, not that the queue is empty (`QueueMisses`).

*Rpc.* `Tracked` strengthens `InFlightIsServed`: of the messages on the way only
a request, or a last word, keeps an rpc alive. `OnceInv` follows an rpc through
its life: a request is in the queue, on the wire or at the server, and in one of
these only; an rpc is refused or in the pool, not both; one in the pool has had
no terminal reply. For the streams, `ReplyInv` ties the wire to the record of
the replies and says that a last word is the last of its rpc's messages, and
`FlowInv` that the items a waiting caller holds are the first ones, that the
ones on the wire follow them in order and without a gap (`Stream`), up to the
last one sent unless the server's connection was lost, and in any case if the
end message is there. A lost suffix keeps this, because it takes the end before
it takes an item. When the end has been handled, all items are with the caller or
in its channel, so a finished stream lacks none but those in the channel; that
there may be some is said above.

*Counts.* `CounterExact` is not inductive alone. `LevelInv` adds that the calls
in progress have disjoint things to spawn, none of them new (`CallInv`, or a
task could be counted by two callers), and that a worker polls only tasks it
owns, and owns none once it is closed (`WorkerInv`, or a task could complete on
a worker that does not count it, and the join could leave one behind). Each
action is then shown, in a lemma of its own, to be one of three things to
`Placement`: nothing changes (`Stays`), one task arrives at one worker and its
count rises (`Arrives`), or one leaves and it falls (`Leaves`). The first two
facts and the refinement follow from the same trichotomy. `LevelServers` adds
no step that the runtime does not have, so `ServersUseRuntime` carries all of
it over.

*Servers.* `ServersInv` says where a connection is (`Located`: in one backlog,
or in one JoinSet), which makes a step for one connection no step of another
server. `Watched` is the argument of `WatchInv` for the two things that a TLS
listener waits for: in the part of the poll after the socket was pending, the
socket already holds the waker; the JoinSet holds it once the task is parked.
`QueueInv` counts the Senders of a queue: its reactor's, if the server is a
plain one, and that of the loop iteration (`Holding`). `Blamed` says that a
panicked handshake was counted and that a runtime closes only after its
termination.

*Pool.* `TypeOK` needs `SlotInv` (a slot that is Connected names a connect that
succeeded; a connect that was not spawned has no outcome), and
`ConnectIsShared` needs `CalmInv`: before any trouble, the only connect there
is is in the slot and its client is alive, so nobody needs another.

*Codecs.* Two arguments meet. The first is about lengths: `U32Reads` and
`VarintReads` say that the digits of a number, from the highest on or from the
lowest on, are read as that number. Each is an induction over the places with
`NextDigit`, the fact that dividing by one more power of the base splits off one
digit; the recursive functions (`Power` too) are shown to exist on every
beginning of the naturals first, and the induction goes through the least member
of a set (`LeastNatural`, `UpTo`). The second is about the stream. `RoundTrip`
says nothing of the bytes on the way, so `CodecInv` has them: there is a function
`off` with the places where the frames of the messages sent end, and the bytes
given to the decoder are those of the stream from the end of the last frame
decoded to the last byte written (`InStream`). The queue has the frames of the
messages not written, only the first of them cut (`Queue`), because every buffer
in the pool is empty (`Types`): in a filled one
messagepack would write its length over other bytes, and `FrameIs` be false. A length that
the messagepack decoder keeps is that of the frame it is at (`Decoder`). So
decode always sees a frame, or a beginning of it (`At`), and `ProstDecodes` and
`MessagePackDecodes` say what it returns then: a size above the bytes it has, or
the message, which no other message's body can be taken for (`SameBody`). Of a
foreign stream nothing is known but what its bytes may be, and `ForeignInv` is
just that and `AsksForMore`: `ForeignAsks` goes through what either decoder
returns for any such bytes, and `NoLength` says when prost reads no length: the
varint is cut, and then there are fewer bytes than it asks for, or it is overlong.

Only model-checked is all liveness (`Delivery`, `EndIsSeen`, `PollReturns`,
`Outbound`, `Resolves`, `Settles`, `Answered`, `Admitted`, `Closes`,
`Delivered`), which is outside what the prover handles.

## The plan

Every invariant and every action property of the runs is proved; what is left to
the prover is liveness, which it cannot do.

Still to model: message ids that are reused while a cancelled rpc is in the
pool (rpc_submitter.rs:86).

## Not modelled

* `rpc_drop_guard.rs`: no code of the crate uses it.
* The values of options: socket options (`nodelay` and `reuse` of
  `ProtosocketSocketConfig` are not read by any code), certificates and
  verifiers of TLS, thread names and tuning of the runtime's builder.
* `block_on` of a worker handle, which runs a future of its caller and counts
  nothing.
* The bodies of messages, and the libraries that encode them.
* Examples and benchmarks, apart from the main of `example-proto`, which is how
  `LevelServers` starts.
* The panic of `level_runtime::spawn_*` without a default runtime, and a runtime
  that is started twice.
* Logging, and the weaker orderings of relaxed atomics.
