# A TLA+ verification project for mockd

mockd serves mock APIs: an **engine** matches requests against mocks and answers
them over several protocols, an **admin API** manages mocks, workspaces and
engines, a **file store** keeps everything across restarts, **stateful
resources** give mocks CRUD behaviour, and **chaos faults** make them misbehave
on purpose. This directory models the parts of it whose correctness depends on
interleavings, failures and long histories, checks them with TLC and proves the
main results with TLAPS.

## Inventory

| Part | State | Operations | What is hard | Modelled |
|---|---|---|---|---|
| File store (`pkg/store/file`) | data in memory, dirty and saving flags, one-place save channel, debounce timer, data.json and its temp file | Open, Close, mutators, debounced save, ForceSave, Rollback | three kinds of goroutine call `doSave`; the dirty flag is cleared outside the mutex; crashes and failed system calls inside a save; two stores on one directory | `FileStore` (partly: one collection stands for all) |
| Stateful resources (`pkg/stateful/resource.go`) | items, sequence counter, seed data | Create, Update, Patch, Delete, Clear, Reset, seeding | IDs from clients and from the sequence, limit, deterministic reset | `StatefulResource` |
| Custom operations (`pkg/stateful/executor.go`) | activations, rollback journal | Execute, its seven step types (read, list, set, validate, create, update, delete), rollback | locks are held per access: others run between steps, between record and write, and between restores | `OperationExecutor` |
| State store, bridge (`store.go`, `bridge.go`, `filter.go`) | registry of resources and operations | register, unregister, CRUD requests, reset and clear, filters | stale resource pointers; non-atomic global reset | partly, as the clients of `OperationExecutor` |
| Circuit breaker (`pkg/chaos/circuit_breaker.go`) | state, three counters, time of opening | Handle, Trip, Reset, State, Stats | off-by-one thresholds; queries change state; admin calls between requests | `CircuitBreaker` |
| Other chaos faults (`injector.go`, `progressive.go`, `retry_after.go`) | per-fault counters and windows | ShouldInject, Handle, Reset | maps and generators shared across locks | planned |
| WebSocket connections (`pkg/websocket`) | connections, groups on both sides | join, leave, remove, broadcast | two locks for one relation | planned |
| Engine registry and fan-out (`engine_registry.go`, `engine_fanout.go`) | engines, ports, status, pushed mocks | register, heartbeat, health check, pushes | lost and reordered pushes, late heartbeats, exhausted ports | planned |
| Mock, protocol and workspace managers, server (`pkg/engine`) | mocks, handlers, servers | add, update, delete, start, stop | half-done updates, failed starts and stops | planned |
| Rate limiters, SSE buffer and manager, request log | buckets, rings, subscribers | allow, cleanup, add, replay, subscribe | limits, eviction, times read before locks | planned |
| OAuth provider, MQTT broker, recording, tunnel | tokens, topics, sessions, connection | — | expiry, reconnect | planned last |
| Matching, pagination, sorting | none | pure | ties and boundaries | planned as operators |
| Templates, validation, configuration, import/export, CLI, MCP, metrics, tracing, TLS | — | — | documents and I/O | not planned |

## Modules

**FileStore** has one instance of every volatile variable per store, because the
admin API and the engine each open their own, and one shared directory. A mutator
is a single action (it runs under `s.mu`) that ends with `markDirty`. `doSave` is
split where another goroutine can observe it: `CheckDirty`, `BeginSave` (the
compare-and-swap), `Marshal` (under `s.mu`), `OpenTmp`, `WriteTmp`, `RenameTmp`,
`ClearDirty`, `EndSave` (the deferred reset). Its callers are timer callbacks
(`Fire`), the loop itself (`FinalSave`) and `ForceSave`. `SaveFails` is the error
path of `MkdirAll`, `WriteFile` or `Rename`. Files are inodes, since a writer
keeps writing to the inode it opened after someone renames it. A document is the
mocks and a revision number, which is what tells two documents apart; mocks stand
for the other collections. `Crash` loses memory and keeps the directory. Loss of
written data in a power failure is not modelled (the code calls no fsync).
Variables marked auxiliary (`clock`, `raced`, `closeRev`, `failures`, `crashes`)
are history for the properties and the bounds.

**StatefulResource** has the items, the sequence counter and the seed data of each
resource; every operation is one critical section. Items are the version their
last writer gave them, IDs are numbers: those of the "sequence" strategy, which is
the one with state; the others generate fresh strings. Seeding is a recursive
function over the seed list.

**OperationExecutor** extends it with activations of `Execute`. Steps are chosen as
an operation runs, which covers every program of up to `MaxSteps` steps, and
expressions may yield anything or fail. Update and delete steps are two actions
each, because the journal's read and the write are separate critical sections.
A rollback is one action per journal entry. `start` and `foreign` are auxiliary:
the items when an atomic operation began, and the keys others wrote since.

**CircuitBreaker** has one action per state for `Handle`, and `Trip`, `Reset`,
`Query` (State and Stats, which make the timed transition too) and `Tick`. The
time of opening is kept as an age up to `OpenDuration`, the request count up to
`TripAfter`: beyond them nothing depends on the value. A random draw may fall
either way unless the rate is 0 or 1. `sinceTrip`, `sinceClosed` and `streak` are
auxiliary.

Each has an `MC...` module with its definitions for TLC. The definitions marked
"Mutant" are plausible faults of the code, one at least for each property; put in
the place of the definition they follow, TLC finds that property violated.

## Runs

| Run | Instance | Checks | States |
|---|---|---|---|
| `file_store` | 1 store, 2 changes, 1 callback, 1 forcer, the loop, 2 inodes, 1 failure, 1 crash | `TypeOK`, `SaversExclude`, `DataFileComplete`, `StaleOnlyIfRaced` | 1,004,871 |
| `file_store_live` | 1 store, 2 changes, 2 callbacks, no failures | `CloseReturns`, `EventuallySaved` | 42,302 |
| `file_store_close` | as above, 1 callback | `CloseSavesPending`: **violated** | |
| `file_store_shared` | 2 stores on one directory, 2 changes | `DataFileComplete`: **violated** | |
| `stateful_resource` | every seed list of up to 3 entries, IDs to 5, maxItems 2 | `ResourceTypeOK`, `GeneratedIDsTracked`, `WithinCapacity`, `ResetRestoresSeed` | 70,144 |
| `operation_executor` | 2 operations of up to 2 steps, 2 IDs, 2 values | `TypeOK`, `RollbackRestores` | 200,407 |
| `operation_executor_client` | 1 operation of up to 3 steps, 1 client, maxItems 1 | `TypeOK`, `RollbackRestores` | 133,272 |
| `operation_executor_capacity` | 1 operation, 1 client | `WithinCapacity`: **violated** | |
| `operation_executor_response` | 1 operation | `FailureLeavesNoTrace`: **violated** | |
| `circuit_breaker` | 729 configurations: thresholds and duration 1 to 3, tripAfter 0, 1, 3, rates 0, some, 1 | `TypeOK`, `PassOnlyAfterOpenDuration`, `ClosesOnlyRecovered`, `TripsExactlyAfter`, `Recovers` | 15,093 |

Run one with `tlc -config MCFileStore.cfg MCFileStore`.

**Why the bounds are enough.** The races of the file store need one change in
memory when a save takes its snapshot and one after it, hence two changes; three
savers of the three kinds; an inode for data.json and one for the temp file (and
a third where two stores have one each). One failure and one crash may fall
anywhere, also one after the other. For a rollback, two IDs
and two values distinguish "restored", "left" and "another's item", and three
steps let an operation write one item twice and then fail. Three is the smallest
threshold with a value strictly between its ends. What these bounds leave open is
what the theorems are for.

**Deadlock** is checked for the breaker and the resources, which never stop. The
other systems end: bounded changes are used up, stores are closed, operations
return.

**Fairness.** `FileStore`: goroutines that can run do run and an armed timer
fires (weak fairness of the saver steps, of `Debounce`, `LoopExit` and `Fire`);
Go's `select` picks at random among ready cases, so a closed `closeCh` is not
passed over for ever (strong fairness of `FinalSave`). Nothing is assumed of
clients. `CircuitBreaker`: time passes and requests keep coming; the timed
transition is made by the next call, so without requests or queries the breaker
stays open for ever, harmlessly.

## What the runs found

The four violated properties are sentences of the repository that the code does
not keep in every interleaving:

* *"Close saves any pending changes"* (`store.go:160`). A callback past its
  snapshot makes the final save of `Close` give up; a change made since is in
  neither, and the callback then clears the dirty flag.
* *"Atomic write: write to temp file, then rename"* (`store.go:198`) with the two
  stores of the admin API and the engine on one directory: one temp file name
  for both.
* *"MaxItems limits the number of items this resource can hold"*
  (`config/types.go:364`): a rollback puts items back without looking at the limit.
* *"`atomic` (rollback-on-failure...)"* (`reference/configuration.md:679`): a failing
  response expression is reported as an error and nothing is rolled back.

`StaleOnlyIfRaced` and `RollbackRestores` are the exact forms that do hold: the
lost-dirty-flag race is the *only* way a change is hidden, and interference by
others is the *only* way an item survives a rollback that follows a failed step.

## Theorems

* `FileStoreProofs` — for any sets of stores, callbacks, forcers and inodes.
  `TypeCorrect` and `Exclusion` hold for any number of stores. The inductive
  invariant of `Exclusion` (`ExclusionInv`) adds that a saver in `doSave` means
  the saving flag is set: without it the compare-and-swap says nothing.
  `DataFileAlwaysComplete` and `CleanUnlessRaced` assume `Single`, one store on
  the directory; the run `file_store_shared` shows they need it. Their invariant
  `FileInv` says that the two names never share an inode, what a saver may rely on
  at each step (the inode it writes is the temp file's; before the rename it holds
  the snapshot, after the rename data.json does), and that a snapshot differs from
  memory only if memory changed in the window.
* `OperationExecutorProofs` — `RollbackIsComplete`, for any requests, clients,
  resources, IDs and steps. The invariant (`RollbackInv`) says, of an atomic
  operation that may still roll back or has done so (`Revocable`) and of each key
  nobody else wrote: its journal entries hold the item as it was at the start,
  and a key without an entry has the item it had at the start (`Sound`). Besides
  it needs that the target of an update or delete step is journaled before it is
  written, and that an operation that is done has no journal. A step of another
  request adds the keys it writes to `foreign`; a restore removes an entry and
  with it the difference.
* `CircuitBreakerProofs` — for every set of configurations with positive
  thresholds and duration: `CountersBounded`, `OpenRejects`, `RecoveryIsEarned`,
  `TripAfterIsExact`. The invariant relates the breaker to its history: an open
  breaker's age is the time since the trip and any other's trip is at least
  openDuration ago, the successes of a half-open one are at most the current
  streak, the count of a closed one is the requests since it closed and below
  tripAfter.

The assumptions are those named in the modules (`FileStoreAssumption`,
`ResourceAssumption`, `ExecutorAssumption`, `ConfigAssumption`), which every run
evaluates. Only model-checked: the liveness properties (fairness and ENABLED are
beyond the prover), and the properties of seeding in `StatefulResource`, which
need induction over the seed list.

## Plan

1. `StateStore`: registration, stale pointers, the reset of all resources; filters
   and pagination as operators against reference definitions.
2. An abstract store ("the disk holds some earlier or the current memory, a crash
   returns to the disk") that `FileStore` refines.
3. WebSocket groups: what the two sides of the relation agree on, and when.
4. Engine registry with health check, and the fan-out composed with it: lost and
   reordered pushes, convergence after an import.
5. Mock, protocol and workspace managers: what is stored is what is served,
   except after a failed registration.
6. Rate limiters, SSE buffer, request log, retry-after and progressive faults.
7. Proofs: the resource invariants, the refinement of 2, the group invariant of 3,
   the registry invariants of 4.
8. OAuth, MQTT, recording, tunnel.
