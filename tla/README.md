# A verification project for zenoh-plugin-grpc

TLA+ models of the gRPC plugin for zenoh, of its Rust client and of the C
wrapper over that client, TLC
configurations that check them on small instances, and TLAPS proofs of the
safety properties that matter most. `PROJECT.json` lists components, runs,
mutants, the map from definitions to source lines, findings, hazards and
theorems.

Paths below are relative to the repository. *Plugin* is
`zenoh-plugin-grpc/src/lib.rs`, *client* is
`zenoh-grpc-client-sdk/zenoh-grpc-client-rs/src/lib.rs`, *queue* is `queue.rs`
beside it, *C wrapper* is `zenoh-grpc-client-sdk/zenoh-grpc-c/src/lib.rs`.

## 1. The system

A zenoh router loads the **plugin**, which serves five gRPC services (session,
publisher, subscriber, queryable, querier) over one shared zenoh session.
Clients in Rust, and through it in C, C++ and Python, use zenoh through it. The
client is *local first*: operations succeed at once, go into bounded queues, and
background workers connect, declare, send, retry and reconnect.

| Component | State | Operations | Talks to |
|---|---|---|---|
| Client queue (queue) | flume channel, `pending`, `dropped`, `Notify` | `push`, `recv*`, `processed_one`, `wait_empty` | any threads, one worker, flushing tasks |
| Client connection (client 347-665) | channel + generation, `closed`, `disconnected_warned`, `connection_notify`, session command queue | reconnect, heartbeat and session workers; `info`, `get`, `put`, `delete`, `cleanup`; `mark_disconnected`, `set_connected` | server; every worker of the client |
| Publishers, subscribers, queriers (client 667-1247, 1708-1829) | remote handle (`RemoteBinding`), `closed`, local queues, workers | `put`, `delete`, `recv`, `get`, `undeclare`; `ensure_remote_handle`, `invalidate_handle`, `take_handle` | connection, server |
| Queryables and queries (client 1249-1706, 1864-1985) | event queue, command queue, `active_queries`, `stale_queries` | `recv`, `reply*`, `finish`, drop, by-id replies, `undeclare`; event and command workers | connection, server, application |
| Plugin state and services (plugin 119-955) | four entity tables, `inflight_queries`, `client_last_seen`, `next_handle`, `next_query_id`; a background task per queryable | declare, undeclare, events, put, get, reply, finish, `cleanup_client`, `touch_client`, lease cleaner | zenoh, clients |
| Plugin start and stop (plugin 60-117, 960-1043), configuration | `stop: Notify`, tasks, listeners | `start`, `run`, `drop` | zenoh runtime |
| C wrapper | queryables with a table of active queries, callback state with a raw `self_ptr`, structs with heap memory behind them | declare with or without a callback, `recv*`, `reply*`, `finish`, `undeclare`, `zgrpc_querier_get`, `zgrpc_*_free` | Rust client, its dispatcher threads, the application's threads |
| C++ and Python wrappers | handles of the C wrapper or the client | one call per method | C wrapper, Rust client |
| Bridge, protocol, packaging | none | | |

What makes it hard: every handler holds its lock only for a part of its work and
awaits zenoh in between; a broken connection drops a handler at any await; the
cleaner runs beside requests; the client's workers coordinate through `Notify`,
which stores no permit for `notify_waiters`; the server can stop, come back empty
and count handles and query ids from 1 again while the client still holds the old
ones; answers are lost after the effect; the C wrapper shares a queryable between
the application's threads and a dispatcher thread through a raw pointer, and hands
out memory that C has to give back. The hazards are listed with their lines
in `PROJECT.json`.

What makes each part correct:

* queue: counters are exact, a flush means flushed, FIFO but for the oldest;
* connection: a failure never hurts a newer channel, no command is skipped but by the
  drop-oldest rule, the client reconnects, waiting workers wake up, one warning per
  outage;
* bindings: a handle names its own entity, nothing is declared twice, a subscriber
  comes back after an outage, undeclare takes effect;
* queries: a command acts on the query it is for, finish is last, finished queries
  end at the server;
* server: every zenoh entity has exactly one keeper, cleanup takes all of its
  client and nothing else, queries belong to who they say, dead clients are
  reclaimed;
* start and stop: a dropped plugin takes its tasks with it, the cleaner lives while
  the plugin serves, every listener comes to serve and keeps its address;
* C wrapper: no query is lost, finished twice or replied to after its finish, a
  callback sees its queries and its context lives as long as it does, every block
  of memory has one owner and is freed once.

Not all of it is so: sections 3.2 and 3.3 say where the code falls short.

## 2. Modules

| Module | Models | Run by | Proofs in |
|---|---|---|---|
| `LossyFifo` | abstract: a bounded FIFO that may lose its oldest item | (refined) | |
| `QueryLife` | abstract: a query waits, is handed out once, is held and is finished once | (refined) | |
| `DropOldestQueue` | queue | `MCDropOldestQueue` | `DropOldestQueueProofs` |
| `ClientConnection` | client connection | `MCClientConnection` | `ClientConnectionProofs` |
| `ClientBinding` | publishers, subscribers, queriers against a restarting server | `MCClientBinding` | `ClientBindingProofs` |
| `QueryFlow` | a query's way from server to application and back | `MCQueryFlow` | `QueryFlowProofs` |
| `PluginServer` | the plugin's state and services | `MCPluginServer` | `PluginServerProofs` |
| `PluginRun` | start, listeners, cleaner task and stop of the plugin; `Config::listeners` | `MCPluginRun` | `PluginRunProofs` |
| `CQueryable` | queryables and callback subscribers of the C wrapper | `MCCWrapper` | `CQueryableProofs` |
| `CBuffers` | the memory behind the C wrapper's structs | `MCCWrapper` | `CBuffersProofs` |

`ClientBinding` and `QueryFlow` each compose a client part with the part of the
server it depends on (tables and counters that a restart resets), in less detail
than `PluginServer` and `ClientConnection`. The two abstract modules are refined by
`INSTANCE ... WITH`: `LossyFifo` by the queue, `QueryLife` both by the Rust client's
queryable (`QueryFlow`) and by the C wrapper's (`CQueryable`), where the query numbers
that no code sees are the queries of `QueryLife`.

### DropOldestQueue

One step per channel call, atomic access or notification, for any number of
producers and flushing tasks and one worker. `pcP`, `pcC`, `pcW` say where each
stands: `push` is *send*, then *add*, or (full) *evict*, *count*, *sub*, *notify*
and *send* again; `wait_empty` is *load*, *gap* (the counter has been read, the
`Notified` not yet created), *waiting*. `pending` is a word of `Modulus` values:
the worker can count an item off before it has been counted. Relaxed atomics are
taken as sequentially consistent. The queues that carry received events use
`push` and `recv` and never call `processed_one`; only command queues are flushed.

### PluginServer

`task` holds the locals and the place of each running handler (and of the
cleaner): a declaration is *declare* (await zenoh) then *insert*; an undeclaration
is *remove*, the owner check, for queryables *retain_handle*, then *undeclare*
(await zenoh); a cleanup scans each table under its read lock, removes one handle
at a time under its write lock, and drops the queries last. `Sweep` is the order
of the tables, and its elements are the kinds in play. `declared` is what zenoh
has. `Cancel` is tonic dropping the future of a request whose connection broke:
whatever the handler held is dropped, which undeclares it in zenoh. Leases are an
abstract clock: *fresh*, *stale*, *none*. `ChannelCap` = 1 stands for the 256 of
the query channel.

### ClientConnection

The reconnect worker, the heartbeat, session workers, the callers of `info` (which
wait for a connection like the workers) and of `get` (which do not), and the closing
task. A worker's queue is the number of its commands, at most `Capacity`: a push to a
full queue evicts the oldest (`DropOldestQueue` has the steps). Look and
registration are separate steps (*look*, *gap*, *asleep*). `generation` is the
connection's, `gen` the one a call was made with. A call over a channel whose
server restarted fails or, since a tonic `Channel` reconnects by itself, is
answered by the new server. Back-off times are abstracted; `CloseFlushed` stands
for `cleanup`'s `wait_empty`, which waits for the workers' queues and for no other
task.

### ClientBinding

Each entity has a user (publisher worker, subscriber event worker, a task in a
querier's `get`) and an undeclaring task. `binding` is `RemoteBinding.handle`, 0
for `None`; its lock is held while `pc` is *declare*, so `TakeHandle` waits.
`table` is the server's, with the entity that each entry was made for, which no
code sees; another client's entities are of the kinds this session uses, the
others could not be met by its handles. `NotFound` and `PermissionDenied` are both stale
(`is_stale_status`). `mark_disconnected` clears the channel or, if a newer one has
been set, does not: a nondeterministic choice here, decided in `ClientConnection`.
`is_closed` and the look at the connection are one step. Without a connection a worker
is in the *gap* and then *asleep*, registered with `connection_notify` and
`close_notify`; only a notification that finds it *asleep* wakes it, and
`SetConnected` may come in the gap or not at all. `get` does not wait. A stream that is
over ends as a disconnection (`StreamEnds`, which also has the errors that merely
restart the loop) or with a stale handle (`StreamStale`). `MaxCalls` is at most 256, so
that a publisher's queue never overflows here.

### QueryFlow

`inflight` is the server's table of queries, `events`, `cmds` the client's two
queues, `objs` the `GrpcQuery` objects, `active` and `stale` the two maps of
`QueryableInner`. `q` in each record is the getter's query, `late` says that a
command was queued after the finish: no code sees them. Pushes are atomic here;
`DropOldestQueue` has their steps. `reply`, `reply_err` and `reply_delete` differ
in their payload only, and are one action; the by-id replies of the queryable use
`active`. `conn` says that the session has a channel: the command worker looks for one
before every call and waits as in `ClientBinding` (*look*, *gap*, *asleep*), and a failed
call, of this worker (`CallDisconnected`, `CallAnswerLost`), of the event worker
(`StreamEnds`) or of another task (`ConnectionLost`), may clear it. `undeclare` is *flush*,
*empty*, *closed*, *call*, *done*: `closed` is set and `close_notify` told in two steps.

### PluginRun

Each start of the plugin in a process has its own `run` (`pcR`: *init*, *spawned*,
*wait*, *grace*, *ended*), cleaner task (`pcC`) and listener tasks (`pcL`); they
share the TCP port and the socket file, and `port` and `file` say whose they are. A Unix
listener removes the file and binds in two steps: between them another run's task may
make the file, so that the bind fails, or a late removal takes the file of a run that
already serves. `refused` remembers each failed bind and the run that was in its way; a
failed bind panics and ends the task. `Drop` is `notify_waiters`: it moves whoever
stands at `notified()` (*wait*, *select*, *serving*) and nobody else. *told* is a
cleaner or listener that has been notified and has not run since; a cleaner's
`select!` may then still take a tick. `GraceOver` aborts all the tasks, whatever
they do. A start follows the drop of the plugin before it, as in a zenoh process
that reloads it, while the old tasks may still be there. A configuration is what
decides: the `listen` endpoint (none, TCP, Unix, or one that `listeners` rejects),
whether there is a `uds_path`, and whether the cleanup interval is zero.

### CQueryable

`map` is `active_queries`, `ptr` says that `self_ptr` is not null, `box` is the
queryable's allocation, `arcs` the owners of the callback state. The dispatcher's
closure is *taken*, *insert*, *call*, *remove*, *finish*; calls by id come from the
application's threads and, while it is in *call*, from the dispatcher.
`zgrpc_queryable_undeclare` is *finishing*, *inner*, *free*. A query has its `id`,
which a restarted server gives out again, and a number `q` that no code sees.
Replacing a query in the table drops the old one, which queues its finish. The queries in
`Unfit` may have a NUL in one of their strings: `query_to_owned` then panics in the
closure, the dispatcher catches it, and the query is dropped and thereby finished
(`DispatchPanics`). A use of
the freed queryable sets `undefined`, and the model stops there. The application is
taken to keep C's rule for its own threads: none is in a call on the handle when
it calls undeclare, and none calls later. A callback may be running then: the
application cannot know.

### CBuffers

Who owns the memory that the wrapper allocates: the application's struct `out`, or
`local`, the struct that a callback is lent or that `zgrpc_querier_get` receives
into. A pointer field holds no block or one block, under the length that stands beside
it; the heap has the block under the length that was allocated. The two agree because
`into_c_bytes` is only given fresh copies, whose capacity is their length
(`CapacityOfCopy`, an assumption on Rust's `Vec`). `into_c_string` panics on a string
with a NUL: in a call from C that aborts the process (`RecvAborts`), in a callback's
thread it is caught, and the blocks made before it, in the order in which the struct is
filled, are `leaked` (`CallbackPanics`). The application frees a struct before it uses it again, as often as
it likes, and does not free the reply of a failed `zgrpc_querier_get`, which, unlike
the receiving functions, leaves the struct as it was.

## 3. Runs

### 3.1 Passing runs

Every run checks all interleavings of its instance. `CHECK_DEADLOCK FALSE` is set
where the system may rest: everything pushed, called or asked up to the bounds has
been dealt with.

| Run | Instance | Shows |
|---|---|---|
| `queue` | 2 producers x 2 pushes, 1 flush, capacity 2, word of 8 values | counters exact (`PendingExact`, `DropsAccounted`), implements `LossyFifo` (`IsLossyFifo`), `FlushOnDone`, `ItemsSettle` |
| `server_entities` | 2 clients, 2 requests, cleaner, 1 table, 2 handles | `OneKeeper`, `CleanupSparesOthers` |
| `server_queries` | 1 client, 1 request, cleaner, 2 tables, 2 handles, 2 queries | `QueriesAttributed`, `CleanupIsComplete`, `OrphansOnlyByRace`, `LeaseReclaims` |
| `connection` | two of 1 worker, 1 `info`, 1 `get` and the heartbeat, beside the reconnect worker and close; 2 commands, queue capacity 1, 1 server stop | `NothingSkipped`, `OnlyGapLosesWakeups`, `OneWarningUnlessConnecting`, `LateFailureHarmless`, `KeepsTrying` |
| `binding_calls` | publisher, querier, another client, 1 restart, 1 fault | `OwnUnlessRestarted`, `DeclaredOnce`, `BoundIsDeclared` |
| `binding_restores` | subscriber, another client, 2 restarts, 2 faults | `Restored` |
| `query` | 2 queries, 1 reply each, another client, 1 restart, 1 fault, capacity 2 | `OriginalUnlessRestarted`, `FinishIsLast`, `FinishNotLost`, `FinishUnlessRestarted` |
| `plugin_run` | 2 starts, the first with both listeners and interval zero or with a wrong endpoint, the second with one listener of either kind; with or without an old socket file | `CleanerWhileServing`, `StopStopsAll`, `ListenersServe` |
| `c_wrapper` | `CQueryable`: 2 threads, dispatcher, 3 queries, one of them with a NUL, 1 restart, capacity 2; `CBuffers`: 2 calls | `HeldOrFinished`, `NoReplyAfterFinish`, `DanglingOnlyIfOverlap`, `ContextOutlivesCallbacks`, implements `QueryLife` (`IsQueryLife`), `UndeclareSettles`, `CallbackSeesQueries`, `CallbackQueriesFinish`; `NoBadFree`, `OwnedOnce` |

`queue`, `plugin_run` and `c_wrapper` also check a type invariant that says something
about the code (capacity, validated endpoints, lengths of blocks). The other modules'
type invariants are proved (section 4) and in no run.

`MCCWrapper` runs the two C modules side by side. They share no state, so it lets
one of them rest in each behaviour. `MCClientConnection` picks the two callers at
the start; the others never begin, which the full system may do as well.
`MCQueryFlow` lets the run `query` explore, after the server has stopped, only its
return: all four properties of that run are about the time before a stop.
`query_hangs` has no such limit.

The bounds are enough for what goes wrong: two producers make every overlap of
two pushes and the eviction of a foreign item; a capacity of 2 has empty, partly
filled and full queues; four pushes fill it and evict; the small word lets the
counter wrap below zero. Two requests beside the cleaner make declare, undeclare
and two cleanups overlap, and two clients let one name the other's handle. One stop
interrupts the calls of several tasks at once, so a failure reported late meets
the next connection; a second command finds a queue of capacity 1 empty, or full behind
a worker that waits. The theorems of section 4 cover any number of stops, tasks and
commands. Two
holders of handles (the session and another client) suffice to mistake a handle,
two queries to mistake an id. Two starts suffice for tasks of one run to stand in
the way of the next. In the C wrapper three queries fill and overflow the queue
behind a busy dispatcher, two of them can have the same id across a restart, and
two threads and the callback meet at one query; two calls let a struct be filled, freed
and filled again, or a callback's panic be followed by a callback.

### 3.2 Violation runs

They show what the code does where a document, comment or test says otherwise:

| Run | Property | What happens |
|---|---|---|
| `server_orphan` | `DeadClientsReclaimed` | a declaration ends after the cleanup of its client; nobody looks for it again |
| `binding_stolen` | `Restored` | after a restart one subscriber's old handle is the other's new one |
| `query_hangs` | `QueriesFinish` | `stale_queries` remembers an identity that a restarted server gives out again |

### 3.3 Other properties the code does not have

These are stated in the modules, TLC refutes them, and they have no regular run.
Naming one in a copy of a configuration shows the trace.

| Property (module) | Configuration to start from | What happens |
|---|---|---|
| `DropsOnlyWhenFull` (`DropOldestQueue`) | `queue` | room is made between *Full* and the eviction |
| `WaitEmptyReturns` (`DropOldestQueue`) | `queue` | the last notification falls between `wait_empty`'s load and its registration: it sleeps on an empty queue |
| `Reconnects` (`ClientConnection`) | `connection` | `mark_disconnected` falls between look and registration of the reconnect worker, and no other call fails |
| `OnlyOwnersRemove` (`PluginServer`) | `server_entities` | `undeclare` removes the entry, then checks the owner |
| `UndeclareClosesQueries` (`PluginServer`) | `server_queries` | a query is filed after the undeclare's `retain` |
| `OneWarning` (`ClientConnection`) | `connection` | `set_connected` clears the flag before it sets the channel |
| `WaitersSeeConnection` (`ClientConnection`) | `connection` | `set_connected` falls between look and registration of a waiting worker |
| `UndeclareTakesEffect` (`ClientBinding`) | `binding_restores` | `undeclare` finds no handle while the event worker is about to declare |
| `RepliesReachOriginal` (`QueryFlow`) | `query` | after a restart an id is another getter's query |
| `DropStopsAll` (`PluginRun`) | `plugin_run` | the plugin is dropped before `run` waits; the notification reaches nobody, and the plugin serves on |
| `SocketStays` (`PluginRun`) | `plugin_run` | a late Unix listener task of the dropped run removes the socket file of the run that serves; clients find no socket |
| `NothingLeaks` (`CBuffers`) | `c_wrapper` | a key or selector with a NUL: `into_c_string` panics in the callback's thread after other blocks have been made |
| `NeverDangling` (`CQueryable`) | `c_wrapper` | undeclare returns while a callback is running; the closure then uses the freed queryable |

The lost notifications need a step to fall into a window of a few instructions; on a
multi-threaded runtime that is rare and possible. `ListenersServe` names the listeners
that may never serve: one of a restarted plugin whose port the run before it still
holds, or whose socket file a late task of that run made between this one's
`remove_file` and `bind`. Nobody tries them again.

### 3.4 Fairness

Weak fairness only, on what tokio's scheduler and the environment provide: a
started task goes on when it can; a worker takes the next command; a lease that is
not renewed expires and the cleaner ticks; a stopped server comes back (otherwise
nothing could reconnect); in `ClientConnection` the reconnect worker's connection
attempts are made; the plugin's tasks run and its grace period passes; the C wrapper's dispatcher thread
runs, callbacks return, and a call that does not wait for anybody goes on.
Nobody is obliged to push, call, reply, finish, undeclare or close, no event has to
arrive, no fault has to happen; the cleaner's ticker and the connections of a stopped
listener owe nothing. Faults and stops are bounded, which says that
they end, not when.

In `ClientBinding` and `QueryFlow` nothing says that the session reconnects, or that a
worker which waits for a connection is told of one: `ClientConnection` refutes both
(`Reconnects`, `WaitersSeeConnection`). There `SetConnected` has no fairness, a worker
that is *asleep* has no step of its own, and `Restored`, `FinishUnlessRestarted` and
`QueriesFinish` except the behaviours in which the worker sleeps for ever from some time
on. What they say is that nothing else keeps a subscriber from its events or a finish
from the server. `KeepsTrying` is about a reconnect worker that has seen the channel
gone. `binding_stolen` and `query_hangs` violate theirs with every worker awake.

## 4. Proofs

For every value of the constants, by inductive invariants. Each one rests on the
module's `TypeOK` (`TypeCorrect` in every proof module; `MemoryTypes` for `CBuffers`).

* **DropOldestQueueProofs.** `PendingExact` is inductive with `TypeOK`: each step
  changes `pending` and `Balance` by the same amount modulo the word, using that
  the balance stays within `-|Producers|` and `Capacity + |Producers| + 1`, which is why
  `ModulusLarge` is assumed. `FlushMeansFlushed` follows: with no push between its send
  and its count, a counter of zero leaves nothing in the channel or the worker's
  hands. `ImplementsLossyFifo` maps `lost` to `dropped` plus the
  evictions that are not counted yet. `LineInv`: of two items of one producer, the
  channel has the earlier in front, and whatever was delivered was pushed before what
  is queued; with `PlaceInv` it gives `ItemsHaveOnePlace` and `ProducersKeepOrder`.
  Order and distinctness need each other: an item is new because it comes behind all
  others of its producer.
* **PluginServerProofs.** `KeeperInv` (with `OneKeeper`): handles are allocated
  once, so the handle a declaration holds is in no table and held by nobody else.
  `SparesInv`: what a cleanup has still to remove was owned by its client when it
  looked, and a handle never changes owner. `CompleteInv`: between the scan of a
  table and the end, a cleanup that no declaration overlaps leaves in the table
  only what is in its `todo`. `OrphansAreRaces`, an action property, goes through the
  steps: an entry loses its last reclaimer only where a lease or a cleanup goes away.
  The step that removes the lease leaves its cleanup running, a cleanup that ends in
  quiet has, by `CompleteInv`, removed everything, and what is left are the three
  steps that the property names; `server_orphan` is the first of them.
  `AttrInv`, with `KeeperInv`, gives `QueriesAttributed`: query ids are allocated once,
  a background task belongs to the queryable with its handle, and no other kind of
  entity ever has that handle.
* **ClientConnectionProofs.** `GenInv`: a call's generation is never ahead of the
  connection's, and equality with a set channel means that very channel. `GapInv`:
  whoever clears the channel is on its way to `notify_waiters`. `SkipInv`: what was
  pushed is queued, dealt with, evicted or, away from *idle*, in the worker's hands, and
  a queue evicts only what comes on top of its capacity. `WarnInv`: the flag is down only if nothing
  was printed since the channel was set, but for one warning while `set_connected` stands
  between its two steps (`WarnedOnce`). `ConnectInv`: while the worker looks for a new
  channel there is none, so it replaces none (`ChannelsReplaceNone`).
* **ClientBindingProofs.** `OwnInv`: until the first stop every handle in a table
  or known to a task is below `nextHandle`, so a new entity gets a number that
  nobody holds. `DeclInv`: the binding is empty while a declaration is in progress
  (its lock is held), and a handle is taken only after `closed` is set. `BoundInv`, with
  `OwnInv`: a handle that an undeclare has taken is no binding any more and never
  becomes one again, so removing it removes nothing that is bound
  (`BindingsAreDeclared`). A notification moves any worker that is *asleep*; the
  invariants do not tell *check*, *gap* and *asleep* apart, so one lemma about `Woken`
  serves all steps that notify.
* **QueryFlowProofs.** `IdInv`: until the first stop the id in every queue, table, object
  and command is the query's own number, so equal ids mean equal queries. `OrderInv` and
  `DoneInv`: behind a finish, in the worker's hands or in the queue, and after the server has
  performed it, only commands of its query remain that were made after it.
  `FinishesAreKept` needs in addition that all records of a query name one handle
  (`AgreeInv`) and that no query the server holds is marked stale (`StaleInv`): then a
  worker gives up a finish only if there is nothing to finish. `OnceInv`: a query waits
  once or is held once; it makes every step one of `QueryLife` (`ImplementsQueryLife`),
  with no assumption on restarts. The steps of the connection and of the wait for it
  change no queue, table or object (`LinkStep`), and preserve all of these at once.
* **PluginRunProofs.** `CleanerInv`: a run's tasks are spawned together, only a drop
  tells a cleaner to stop, and only a run that has been told aborts its tasks.
  `PortHeldByListener` is inductive with it. `StopInv`: a run that was stopped in time
  has gone into its grace period, and one that has ended has no task or has aborted
  them (`StopsAreUnderWay`, the safety part of `StopStopsAll`). `RefusedInv` gives
  `OnlyDroppedRunsRefuse`: runs start in order, each after the drop of the one before
  (`InOrder`); a file belongs to a run that has bound, and none of an earlier process is
  left once a task has removed it (`FileInv`).
* **CQueryableProofs.** `LifeInv` ties `box`, `ptr`, `arcs` and `drops` to the steps of
  undeclare and of the dispatcher: the closure's share goes with the dispatcher thread,
  the object's with the box, and a dispatcher that uses the pointer of a freed box was
  using it when it was taken back. `QueueInv`: the numbers in the event queue are distinct and
  not yet taken. `HandInv`: who has a query in hand, and how many. `PlaceInv` is
  `HeldOrFinished` with these; `NoReplyAfterFinish` follows, since a reply needs its
  query in the table. From the same invariants every step is one of `QueryLife` or leaves
  its state alone (`ImplementsQueryLife`): moving a query between table, hands and
  undeclare's batch is a stutter, and replacing one under an id used again is its finish.
* **CBuffersProofs.** `MemInv`: blocks carry the call and the field they were made
  for, so what a new call allocates is new (`Old`); a struct's field holds only what
  its type fills (`FillInv`), which is within what its free function frees; an
  unwritten struct is never freed (`RawInv`). What a panic lost stays apart from every
  struct, since its call is never used again: no later free reaches it.

Seven of the theorems are about properties that no regular run checks: `OnePlaceEach`,
`ProducerOrder`, `ReplacesNoChannel`, `PortHeldByListener`, `StopUnderWay`,
`RefusedByDropped` and `QueryFlow`'s `IsQueryLife`. TLC confirms each when it is named in a copy of the
configuration of its module's run.

Assumptions are the named `ASSUME`s of the modules: capacities are positive,
bounds are natural numbers, classes of entities are disjoint, a word is larger
than what a machine can hold.

Only model-checked: the liveness properties (`ItemsSettle`, `LeaseReclaims`,
`KeepsTrying`, `Restored`, `FinishUnlessRestarted`, `StopStopsAll`, `ListenersServe`,
`UndeclareSettles`, `CallbackSeesQueries`, `CallbackQueriesFinish`), because liveness
under fairness is out of the prover's reach. Every invariant, every action property and
both refinements that a run checks are proved.

## 5. Not modelled

* `GrpcSession::drop`, which depends on reference counts that the session's own
  workers keep above one; the waits with a time-out for a stream to be ready; the
  event streams of the server beyond what `QueryFlow` has of them.
* The eviction from a publisher's full queue (`ClientBinding` stays below its capacity);
  the queues of the session and of queryables are bounded in their models.
* A lease that lapses while the client is back already: `PluginServer` has the race of the
  cleaner with a returning client, `ClientBinding` lets a lease lapse only while the
  session is disconnected.
* Deserialisation and defaults of the configuration; the client's argument types:
  plain data.
* The session, publisher and querier functions of the C wrapper: they copy their
  arguments and call the client once.
* The Python wrapper (conversions and blocking calls over the client) and the C++
  one (RAII over the C wrapper): they keep no state besides a handle.
* Payloads, encodings, key expressions and QoS, which no control depends on.
* zenoh, tonic, tokio and flume: external, by their documented behaviour. Calls of
  zenoh return in the end, so holding a lock across one blocks nobody for ever.
* The bridge (command line and start of a zenoh runtime), generated code, packaging.

## 6. Plan

1. Done: queue, server, connection, binding, query flow, plugin start and stop, C
   wrapper; proofs of every invariant and action property that a run checks, and of the
   refinements of `LossyFifo` and `QueryLife`.
2. Open: `GrpcSession::drop` and session close in `ClientBinding`; the queryable as a
   fourth kind of entity there; the streams of the server with lagging receivers;
   the C++ wrapper's destructors over `CQueryable`.
