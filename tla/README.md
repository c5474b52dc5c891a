# Toolbox: a verification development

Toolbox is an MCP server that manages other MCP servers ("toolsets"): it
registers them, starts them on request, routes calls to their tools, composes
such calls, refreshes their contracts and takes them down again. It is one
Python process with one asyncio event loop, a JSON state file, and one
downstream process per mounted toolset. The modules in this directory model
its lifecycle, its runtime actors, its files, its contract surfaces and its two
ways of composing tools; TLC checks them on small instances, and TLAPS proves
what matters most for all instances.

    tlc -workers 2 -config <run>.cfg <Module>       # one run, see "Runs"
    tlapm LifecycleRecordsProofs.tla                # the proofs of one module

## Inventory

| Component | State it keeps | Operations | Modelled |
|---|---|---|---|
| Toolset records and scope policy (`models.py`, `scope_manager.py`) | none; pure functions on a record | validate, add/remove loaded and recoverable scopes, choose scopes to restore | `Toolsets` |
| Lifecycle service (`service.py`) | none between requests, locals across awaits | register, unregister, activate, refresh, deactivate, restore (on request, at startup), health check, clear stale, mark stale, mounted call | `Lifecycle`; cancelled by the host: `Cancellation`; no graceful shutdown |
| Namespace locks (`service.py`) | `_namespace_locks`: namespace to `asyncio.Lock` | look up or create, wait, release, forget on unregistration | `Lifecycle`, `Cancellation` |
| Transport manager and runtime actors (`transport_manager.py`) | `_runtimes`, `_in_flight`, per runtime a task, a command queue and `_closed` | open, swap, disconnect, call, probe, close, abort | many actors from outside: `Lifecycle`; one actor from inside: `RuntimeActor`; no `shutdown()` |
| Stdio transport (`stdio_transport.py`) | a process and its streams | spawn, shut down with escalation | `RuntimeActor` |
| State store (`registry.py`) | the state file: toolsets, schema cache, previous schema cache | load, migrate, upsert, delete, replace snapshot | contents between requests: `Lifecycle`; file accesses and crashes: `StateStore` |
| Audit log (`registry.py`, `service.py`) | `audit_events` and the next sequence number in the state file | append, cut to the retention limit | `StateStore`, `AuditLog` |
| Transport secrets (`transport_secrets.py`) | the key file | seal, open, migrate, create the key | `StateStore`; ciphers and DPAPI left out |
| Contract inspection and diff (`service.py`, `validation.py`) | none; it reads record, cache and mounted tools | validate, hash and diff inventories; inspect; report a refresh; observe health | `Contracts` |
| Batch runner (`service.py`) | results so far | run steps in order, resolve references, stop or go on, reply | `BatchRun` |
| Program runtime (`program_runtime.py`) | block structure, traces, call and iteration counters | interpret a restricted program | `ProgramRun`; values of expressions left out |
| MCP server (`server.py`) | none | startup restore before serving, dispatch | startup and mounted calls in `Lifecycle`, composing requests in `Compositions` |
| Search and listing, configuration, fake server | none | read-only queries; paths; a test double | no |

How they interact. A request is a coroutine of the service. It takes the lock of
one namespace after the other; under the lock it reads the record from the state
file, asks the transport manager to open, swap, probe or disconnect a runtime,
and writes the record back. A runtime is an actor: a task that owns the
downstream session and handles a queue of commands one by one; a requester
awaits the future of its command with a timeout, and a timeout cancels the whole
actor, which then shuts its process down. A mounted call holds the namespace
lock only to be counted in and again to be counted out. Batches and programs
make mounted calls one after the other, while other requests change what is
mounted. Each change of the stored state is a row of store operations, each of
which loads, changes, seals and replaces the whole file.

What is hard. Code between two awaits is atomic with respect to other requests,
so every hazard of interleaving sits at an await: the wait for a lock (what was
resolved before it may be gone), the wait for a new runtime (the record copy is
written back afterwards), the wait for an answer (someone else may have
replaced, closed or aborted the runtime), the wait for a close (the new runtime
is mounted, the record not yet written), and the wait for an actor's end (a
second cancellation cuts its shutdown short). At every await the host may also
cancel the request, and handlers written for `Exception` do not see that. On top
come failures of the downstream server, timeouts that hit innocent waiters of
the same actor, a death of the process anywhere, and a crash between any two
file accesses.
`PROJECT.json` lists the hazards line by line with the properties that cover
them, and says of the others why none does.

What makes each component correct:

* records: whatever happens, the validator accepts every stored record, since
  one rejected record makes the whole file unloadable;
* scopes: they change only by being granted, regained, dropped or reset, each in
  one step; startup restore never exceeds the policy; restarts lose nothing;
* locks: two requests are never inside the section of one namespace, and a
  cancelled request leaves none held;
* runtimes: mounted means loaded, connected means mounted, none is lost, none is
  closed under a call by a request that promised not to;
* actors: commands are answered once and in order, whoever got a timeout or
  closed the runtime may rely on its end, an undisturbed shutdown leaves no
  process behind, every coroutine returns;
* files: the state file is whole at all times, nothing in it is sealed with a key
  that is not on disk, no secret stays readable, no event of success is invented;
* contracts: record hashes, cache and mounted tools name the same inventory, also
  of what is mounted after a crash has left hash and cache apart, and what was
  reported is what a later diff tells;
* compositions: within their budgets, each call with arguments that were
  answered before, nothing after a failure, a reply that tells what happened;
* progress: every request returns, even if no downstream server ever answers.

## Modules

| Module | What it is |
|---|---|
| `Toolsets` | records, policies, validator, scope manager, and each rewrite of a record, as operators |
| `Lifecycle` | the state machine: requests, locks, contents of the state file, runtimes, faults, fairness |
| `LifecycleProperties` | its type invariant, safety invariants, action and liveness properties, the mapping to `ScopeRegistry` |
| `ScopeRegistry` | abstract: how scopes may change |
| `MCLifecycle` | the sets of policies and inventories the `.cfg` files use |
| `Cancellation`, `CancellationProperties` | `Lifecycle` with requests cancelled at any await, and what stays true then |
| `RuntimeActor`, `RuntimeActorProperties` | one actor, the coroutines that use it, and the shutdown of its process |
| `CommandChannel` | abstract: what an actor promises to those who send commands |
| `StateStore`, `StateStoreProperties` | state file, temporary file and key file under crashes |
| `AuditLog` | abstract: numbering and retention of events |
| `Contracts`, `ContractsProperties` | validation, hashes, diffs, reports and health of one toolset's contracts |
| `BatchRun`, `BatchRunProperties` | a batch of steps with references |
| `ProgramRun`, `ProgramRunProperties` | the interpreter of tool programs |
| `Composition` | abstract: what batches and programs both promise to the host |
| `Compositions`, `MCCompositions` | the two kinds of request side by side; the programs the run takes, and a recursive definition of what running one means |
| `LifecycleProofs` | proofs: each rewrite of a record keeps it sound; types and stored records of `Lifecycle` |
| `LifecycleSafetyProofs` | proofs: runtimes, calls in flight and locks |
| `CancellationProofs` | proofs: the same, and the stored records, when requests are cancelled |
| `LifecycleRecordsProofs` | proofs: scopes, restarts, hashes, what is mounted beside what is recorded; the refinement of `ScopeRegistry` |
| `RuntimeActorProofs` | proofs about one actor; the refinement of `CommandChannel` |
| `StateStoreProofs` | proofs about the files; the refinement of `AuditLog` |
| `ContractsProofs` | proofs about one toolset's contracts |
| `CompositionsProofs` | proofs about batches and programs; the refinement of `Composition` |

How they compose. `Lifecycle` extends `Toolsets`, and `Cancellation` extends
`Lifecycle`. `Compositions` joins `ProgramRun` and an instance of `BatchRun` by
the request the host makes. `RuntimeActor` looks into one of `Lifecycle`'s
runtimes and `StateStore` into one of its writes; `Contracts` follows the
contract of one toolset through what `Lifecycle` treats as a value.

### Correspondence

`Lifecycle` and `Cancellation`:

| Code | Model |
|---|---|
| state file (`toolsets`, `schema_cache`, `previous_schema_cache`) | `store`, `cached`, `previous` |
| `_namespace_locks`, `asyncio.Lock` with its waiters | `lockOf`, `lockq` (holder first) |
| `TransportManager._runtimes`, `_in_flight` | `mounted`, `inFlight` |
| a runtime's task, `tools`, queue, `_closed` | `runtime[r].state` (up, closing, aborting, down), `.tools`, `.queue` |
| a coroutine between two awaits | `task[t]`: its place `pc`, its request, the locals it still uses, the runtime whose future it awaits (`rt`) and what that future brought (`sig`) |
| candidates of the startup restore | `boot` |
| a cancelled request that has returned | `pc = "gone"`, until no queue holds its command |

An action is one stretch of a coroutine from one suspending await to the next,
with all its writes. Awaits that never suspend (`queue.put` on an unbounded
queue, leaving `async with lock`) are no boundaries. The head of a queue is the
command its actor is handling, or is about to. `Serve` is the actor's answer,
`TimeOut` the expiry of a `wait_for`, `Unwind` the end of a cancelled actor,
`Die` an actor whose transport raised. When an actor ends, the waiters of queued
commands get an error; the waiter of the command in progress does not, because
the inner `finally` has dropped that future (see the third finding).
`Cancellation` adds one action per kind of await a request can be cancelled in.

A stretch may write the state file more than once, and the process may die
between two of these writes. Such a death is an action of its own, `Crash`, which
does the writes before it and reboots on what they leave: `InstallCut` has stored
a record and not its snapshot (in activation, restore and refresh), `ForgetCut`
has deleted snapshots and not the record, `FailureCut` has recorded a failed
health check and not what it observed. `Restart` is a death between two
stretches, or after the last write of one, since what is left of that stretch
is only in memory or in the audit log.

`RuntimeActor`:

| Code | Model |
|---|---|
| where `_run_actor`, `stdio_client` and `_shutdown_process` are suspended | `phase` |
| the downstream process | `process` |
| `task.cancel()` called, `CancelledError` not yet thrown | `cancelling` |
| `_closed`, `_queue`, `current_future`'s command | `closed`, `queue`, `handled` |
| `bootstrap_future` and the commands' futures | `future` |
| coroutines in `open_runtime`, `call_tool`, `probe`, `close` | `pc` of `Opener`, `Caller`, `Closer` |
| requests whose cancel scope the host has cancelled | `scope` |

`StateStore`: the three files are `file`, `temp` and `key`; `step` is the next
access of the store operation under way (load, truncate and fill the key, truncate
and fill the temporary file, replace); `todo` the operations the service has
still to make for its request; `draft` the document in memory. `Row` starts a
request's operations, in the order of the code.

`Contracts`: `record`, `cache` and `previous` are stored, `mounted` is what the
runtime told, `opening` is a request between its mount and its store, `reported`
what the last refresh returned. Everything the surfaces compute (`ContractDiff`,
`SchemaHash`, `Diff`, `Normalized`, `Valid`) is an operator.

`BatchRun`: `results`, the references of the `call` that is out (while `pc` is
`calling`), and the `reply`.
Arguments are references into results, chosen when a step is reached; results are
JSON values as deep as references look. `ProgramRun`: the interpreter's recursion
is a `stack` of frames, a frame being the rest of a block or of a loop, and the
break and continue exceptions cut the stack; `traces` and `iterations` are the
two counters; `invoked`, `passes` and `erred` are history.

### What is abstracted

* One namespace is enough for TLC in the lifecycle: locks, runtimes and counters
  are per namespace and the store is updated per record; the proofs hold for any
  number. A request on several namespaces is the sequence of its one-namespace
  sections.
* Scope lists are sets. A schema hash is the inventory it digests, so distinct
  inventories have distinct hashes. Of `last_error` only the presence is kept;
  reasons, texts, timestamps and titles are left out. The state `degraded` is
  left out: nothing in the code assigns it.
* Any coroutine that could go on may be next; the event loop's ready queue would
  allow fewer orders.
* Locks and runtimes are numbers, and a new object takes the lowest free one.
* Arguments the caller leaves open (scope, `force`, `if_not_loaded`, `if_stale`,
  `stable_host_identity`) are chosen in the section that reads them.
* `mark_toolset_stale` is a method of the service that tests call; no server
  tool does. It is an operation like the others.
* `Cancellation`: a cancellation is delivered to a request that really waits; a
  lock that is only being handed on counts as free, and a wait for it is not
  cancelled. An actor whose opener is cancelled is left behind, and no longer
  followed there: it is `RuntimeActor`'s.
* `RuntimeActor`: the bytes on the streams are left out; the actor learns of them
  by an answer, an error or a failing stream task.
* `StateStore`: a file is whole, absent, or truncated and not yet filled. Ciphers
  are left out: a transport is bare, plain or sealed, and a sealed one opens with
  the key that was there when it was sealed. A key file is `"strange"` when a load
  has found a sealed transport and no key, and has created one: it opens nothing,
  and the load raises (`CanOpen`, `LoadRaises`). No run reaches it, which is part
  of what `HaltsOnTornKeyOnly` says. File accesses that fail (a full disk, missing
  permissions) are left out.
* `Contracts`: a tool is its name and what its hash digests beside it. `Mount`,
  `Install` and `InstallFails` stand for the locked section of a request; a
  failing call takes the runtime down in between, as the code allows.
* `BatchRun`: a batch's calls are instantaneous to mounted tools: answered,
  answered with an error, or raising. Redaction and previews are left out.
* `ProgramRun`: a condition may hold or not, an iterable has any number of items
  up to `MaxItems`, an expression may raise. Calls within an expression stand
  before the statement they belong to.

## Runs

| Run | Module | Instance | Shows |
|---|---|---|---|
| `control_plane` | `MCLifecycle` | 2 requests of all kinds but unregister and call; 2 inventories; 6 policies, 3 of them invalid; restarts anywhere, also between two writes, restore at boot; requests are a symmetry; 874 648 states | `StoreLoadable`, `MutualExclusion`, `ConnectedMeansMounted`, `MountedIsNamed`, `HashesNameSnapshots`, `BootWidensNothing`, `RestartKeepsRestorable`, and that `ScopeRegistry` is implemented |
| `calls` | `MCLifecycle` | 3 requests: register, activate, deactivate, call; servers fail, hang, die; 2 481 578 states | `TypeOK`, `InFlightExact`, `MountedMeansLoaded`, `SafeUnload` |
| `contracts` | `MCLifecycle` | 2 requests: calls, refresh, probes, activation, deactivation; 2 inventories; crashes between two writes; 1 463 656 states | `MountedMatchesCached`, `CallRouted` |
| `unregistering` | `CancellationProperties` | 2 requests: register, unregister, activate, call, all but the first cancelled anywhere; crashes between two deletes; 3 locks; 1 630 574 states | `SafeUnload`, `RuntimesOwned`, `NothingHeld`, `NeverUndercounted` |
| `liveness` | `CancellationProperties` | 2 requests, deactivations and health checks cancelled anywhere; fairness; servers need not answer; 82 385 states | `EveryRequestEnds`, `ClosedRuntimesEnd` |
| `actor` | `RuntimeActorProperties` | an opener, 2 callers, 2 closers; cancelled requests, failing streams, exits; fairness; 356 518 states | `StoppedWhenTimedOut`, `UndisturbedReaps`, `EveryWaiterReturns`, and that `CommandChannel` is implemented |
| `state_files` | `StateStoreProperties` | a seeded and another namespace, 2 contracts, 2 crashes, 3 events of which 2 are kept; old and edited files; 3 013 741 states | `TypeOK`, `SealedHasKey`, `NothingPlain`, `SnapshotsOwned`, `HaltsOnTornKeyOnly`, `EventsFollowEffects`, and that `AuditLog` is implemented |
| `compositions` | `MCCompositions` | any batch of up to 3 steps, or one of some 900 programs; 3 calls, 4 iterations; fairness; 414 282 states | `WithinBudgets`, `RunsAsWritten`, `ProvenArguments`, `HonestReply`, `EveryCompositionEnds`, and that both kinds implement `Composition` |
| `contract_surfaces` | `ContractsProperties` | 2 tool names, 2 descriptions, listings of up to 2 tools; 621 464 states | `PreviousNamed`, `ReportStands`, `HealthOfThisContract` |
| `refresh_beside_calls` | `MCLifecycle` | 2 requests: refresh and call | finding 1 |
| `unregister_race` | `MCLifecycle` | 2 requests: register, unregister, activate; 3 locks | finding 2 |
| `ended_runtime` | `MCLifecycle` | 2 requests: health and call | finding 3 |

Every property has a mutant in `PROJECT.json`: a plausible bug, written beside
the definition it replaces, under which the property's run fails.

### Why the bounds are enough

Lifecycle. One namespace, and one actor more than requests can hold, so that a
new runtime is always available. Two requests give every pair of operations in
every interleaving of their stretches, and each request may be followed by any
other, so histories are unbounded: only what is in progress at once is bounded.
The third request of `calls` adds the case where one call fails, a second is
queued behind it and a third request unloads. Two inventories distinguish the old
contract from the new one. Scope policies matter through which scopes are
supported and restorable and which gates restore has: `Assorted` has a freely
restorable scope beside one that is not restorable, each gate alone, and one
policy for each rejection of the validator a caller can provoke. A namespace
needs one lock, and one more after each unregistration while an old one is
waited for: with two requests, three. `MaxInFlight` is 1: a cancelled call may
leave the counter too high, once per call, and one left count is enough to be
confused with a call in progress. In `control_plane` the requests are a symmetry:
no definition tells one request from another, and all its properties are safety
properties.

Operations are split among the runs where their product would be too large, and
where a finding breaks a property: `ConnectedMeansMounted` is checked without
calls (finding 1), `MutualExclusion` without unregister (finding 2).
`MountedMatchesCached` and `ConnectedMeansMounted` are checked without the fault
`death` and without cancellation: with them, a swap or a deactivation may stop
halfway (see "Observed").

`actor`. Two callers and two closers give a command in progress beside one in
the queue, two timers on one actor, a close behind a call, and a close of an
actor that is being closed.

`state_files`. Rows have at most four operations, and a crash may cut any of
them; the second crash can hit the start after the first. `MaxEvents` of 4 lets
three events be appended, one more than `RetentionLimit` keeps. The seeded
namespace carries a secret, so the key is needed from the first start on.

`compositions`. `Programs` has every statement at the end and in the middle of
blocks, loops in loops, a conditional in them, and a call behind; four iterations
are fewer than two nested loops over two items make, and three calls fewer than
they can ask for, so both budgets are hit. References have paths of up to two
tokens, one of them past the end of a list. `MaxChanges` is 1: what is mounted is
read anew for each call.

`contract_surfaces`. Two names and two descriptions give added, removed, changed
and unchanged tools; a listing of two can name a tool twice. `Names` is a
symmetry: no definition tells one name from another.

`CHECK_DEADLOCK FALSE` is set where the system stops: in `actor` each coroutine
makes one request, in `compositions` there is one request, and in `state_files`
the bounds end a history. The lifecycle never stops: a request can always arrive.

### Fairness

`CancellableFairSpec` (and `FairSpec` of `Lifecycle`) ask for weak fairness of
each coroutine's continuation together with its timer, and of the unwinding of
each cancelled actor. asyncio resumes every ready callback and timer in FIFO
order, so a continuation that stays enabled is run; every wait for an actor is
inside `wait_for`, so its timer fires; and a cancelled actor ends because the
stdio transport bounds each of its shutdown waits, which is what `actor` shows.
Nothing is assumed of `Serve`: the downstream server may never answer. A lock is
handed on in FIFO order by its queue, without a fairness assumption. Nothing is
assumed of cancellation either: a client cancels or does not.

`FairSpec` of `RuntimeActor` asks the same of the actor's own continuation and of
each coroutine that uses it. Answers, exits and failures of the downstream
process are not among its fair actions; spawning is, since it is a system call.

`HostFairSpec` of `Compositions` asks that the request's coroutine goes on. A call
it waits for returns or raises: `ManagedToolsetRuntime.call_tool` bounds it.

### The refinements

* `ScopesAsPromised`: `Lifecycle` implements `ScopeRegistry` under the mapping that
  keeps of each record its policy and its two scope sets. A step of the program
  is a grant, a regain, a drop, a registration, a removal, a reboot, or changes
  no scope. It is not obvious because requests write back record copies they read
  before an await: the mapping fails as soon as one of them overwrites a scope it
  did not see.
* `ServedAsPromised`: `RuntimeActor` implements `CommandChannel`. The line is the
  command in progress and the queue; a command's fate is its future. The channel
  may break at any time and still accept commands, which is what the actor does
  while it unwinds; when it ends it fails what waits, except perhaps the command
  it had in hand (finding 3).
* `AuditAsPromised`: `StateStore` implements `AuditLog`, though every write of
  anything else rewrites the log, and retention cuts it while numbers go on.
* `BothCompose`: `BatchRun` and `ProgramRun` implement `Composition`, a batch with
  one call per step and the tolerance its host asked for, a program with its
  budget and none.

## Findings

1. `refresh_beside_calls`. Refresh mounts the new runtime and awaits the close
   of the old one. A call in progress on the old runtime fails; its handler
   disconnects the namespace, which by now is the new runtime, and records a
   failure; then refresh stores `connected`, not stale. Nothing is mounted, and
   with default arguments activate answers `already_active` and refresh
   `not_stale`.
2. `unregister_race`. Unregistration removes the lock it holds from
   `_namespace_locks`. Requests that wait for that lock and requests that come
   later no longer exclude each other.
3. `ended_runtime`. When an actor is cancelled or its transport fails while it
   handles a call, that call's future is dropped by the inner `finally` before
   the code that should fail it runs. The caller waits until its own timeout,
   counted as in flight; the wait is bounded, which is why `EveryRequestEnds`
   holds.

### Observed while modelling, not kept as runs

The models also show the following. The repository states nothing that these
contradict in so many words, so there is no run for them; the properties above
say what holds in spite of them.

* A second cancellation of an actor that shuts its process down ends
  `_shutdown_process` early (`transport_manager.py:138`): two waiters that time
  out, or a waiter that is cancelled while it drains, may leave a process behind
  that ignores the end of its input. `UndisturbedReaps` is about the shutdowns
  that nothing interrupts.
* A request cancelled in `open_runtime` leaves the actor to itself
  (`transport_manager.py:177`): the bootstrap future is cancelled, and the actor
  ends only when its server has answered or failed.
* A crash between truncating and filling the key file leaves a key of the wrong
  length, and the next start halts until someone removes it
  (`transport_secrets.py:142`). `HaltsOnTornKeyOnly` says that nothing else halts
  a start.
* A crash between the record and its snapshot leaves a record whose hash names
  another contract than the cached one, or one where none is cached
  (`service.py:1236`, `725`, `1347`). `HashesNameSnapshots` says that nothing else
  takes them apart and that the next completed refresh brings both hashes back
  together with their snapshots; `MountedIsNamed`, that by the time anything is
  mounted the record's hash names what is cached. An activation or a restore does
  not repair the previous hash, which it takes from the record.
* A cancelled call may leave the in-flight counter too high
  (`service.py:1576`), and then every unregistration and every deactivation
  without force is refused until the process restarts; it is never too low
  (`NeverUndercounted`).
* A cancelled activation leaves `connecting` in its record (`service.py:1256`); a
  cancelled refresh, and a close that raises in a swap or a deactivation
  (`transport_manager.py:203`, `service.py:1453`), leave what is mounted and what
  is cached apart. Nothing stays held, however (`NothingHeld`).
* The contract surface of a mounted toolset without tools has no hash
  (`service.py:1736`), the one of a cached toolset without tools has.

## Proofs

TLAPS checks each theorem for every value of the constants that satisfies the
named assumptions: any number of namespaces, requests, locks and runtimes, any
policies and inventories, callers and closers, namespaces on disk, crashes,
retention limit, budgets, programs and batches. TLC evaluates the assumptions in
the runs. They say what the constants are (`InventoryAssumption`,
`PolicyAssumption`, `OpAssumption`, `SeededAssumption`, `IdAssumption`,
`WaiterAssumption`, `BatchesAssumption`, `ContractsAssumption`), that numbers are
numbers (`BudgetsAssumption`, `BoundAssumption`, and `RetentionAssumption`: at
least one event is kept), that the requests in progress are finitely many
(`TaskAssumption`: a counter counts them), and that "nothing" is different from
the things it is told apart from (`NoneAssumption`, `NoneIsNothing`,
`EntryAssumption`, `ContentAssumption`).

Each theorem about a machine has the same outline. The property is not inductive,
so an invariant that implies it is: it holds in `Init`, and each action keeps it.
The candidates for these invariants were model-checked before they were proved.
Action properties and refinements then follow step by step, under the invariant.

### The lifecycle

The theorems of this section are about `Spec` of `Lifecycle`: every request, every
fault and every death of the process. Those of the next are about requests that the host cancels.

| Theorem | Property | Needs |
|---|---|---|
| `TypeCorrect` | `TypeOK` | |
| `StoreAlwaysLoadable` | `StoreLoadable` | |
| `CounterIsExact` | `InFlightExact` | |
| `UnloadsAreSafe` | `SafeUnload` | |
| `NoRuntimeLost` | `RuntimesOwned` | |
| `CallsAreRouted` | `CallRouted` | |
| `BootIsBounded` | `BootWidensNothing` | |
| `RestartsKeep` | `RestartKeepsRestorable` | nobody unregisters, or no death between two writes |
| `SectionsExclude` | `MutualExclusion` | nobody unregisters |
| `HashesName` | `HashesNameSnapshots` | nobody unregisters |
| `MountedHasName` | `MountedIsNamed` | nobody unregisters |
| `MountedIsLoaded` | `MountedMeansLoaded` | nobody unregisters |
| `ScopesKeepPromise` | `ScopesAsPromised` | nobody unregisters |
| `ContractsMatch` | `MountedMatchesCached` | nobody unregisters, no server dies |
| `ConnectedIsMounted` | `ConnectedMeansMounted` | nobody unregisters or calls, no server dies |

"Nobody unregisters" is the hypothesis `"unregister" \notin Op`, and it cannot be
dropped. `MutualExclusion` is false without it (finding 2), and the others
rest on mutual exclusion: a request that writes back the copy it carries would
overwrite what another did inside the same section. "Nobody calls" is
`"call" \notin Op` (without it finding 1 breaks the property), and "no server
dies" is `"death" \notin Fault`: a runtime that stops of itself while a swap or a
deactivation waits for its end makes that request fail halfway (see "Observed").
TLC finds a counterexample to each of the last two properties when any one
hypothesis of its theorem is dropped.

*Types and records* (`LifecycleProofs`). `StoreLoadable` is not
inductive: a request that awaits a new runtime will write its record copy with
further scopes added, so the copy must support them; a refresh or a deactivation
writes back a copy too; and what a coroutine carries depends on where it stands.
`IInv` says so: `FileInv` (the stored records are sound), `LockInv`,
`TransportInv`, and `TaskInv`, whose `TaskOK` ties a coroutine's place to its
locals. One lemma per shared operator (`Put`, `Return`, `Disconnect`, `Open`,
`Install`, ...) shows that it keeps its part; `SectionKeeps`, `CallKeeps`,
`ActorKeeps`, `BeginKeeps` and `RestartKeeps` treat the actions one by one, the
last of them every death of the process (`CutSound`: what `InstallCut` stores is
a sound record).

The lemmas about steps are used again beside cancellation, so the type of a
coroutine here, `Coroutine`, admits the marks that a cancelled request bears,
which `TypeOK` does not. That no step of `Lifecycle` makes them is `Uncancelled`,
proved under `RuntimesInv`; with `IInv` it gives `TypeCorrect`, which is why that
theorem stands in `LifecycleSafetyProofs`.

*Runtimes* (`LifecycleSafetyProofs`). The many actions move runtimes and locks in
a few ways only. `StepShapes` shows that each step has one of these shapes: a
request begins, returns, opens, mounts, takes a runtime out and closes it, asks,
is answered, gives up, counts out; an actor answers or ends; the process is gone
(`ProcessGone`, which `Restart` and `Crash` share).
The invariants are then proved shape by shape. `RuntimesInv` adds to `IInv`:

* `PlaceInv`: a coroutine's fields fit its place in its request;
* `QueueInv`: a queue holds no command twice, the coroutine of a queued command
  waits at that runtime for it, and a queued call names one of its tools;
* `OwnInv`: no runtime is mounted twice, and none that is being closed is mounted
  (`MountedApart`, `ClosingUnmounted`); whoever uses a mounted runtime uses it for
  its own namespace (`UsedAtHome`); a runtime that is not down is mounted or a
  coroutine waits for its end (`AllOwned`); the end of one that broke is
  complete (`DownIsDown`, `RaisedDown`);
* `InFlightExact` and `SafeUnload`, which need each other: a request that finds
  the counter at zero closes a runtime on which nobody waits, because the counter
  counts everyone who does. `CountsFollow` says how a step may count: nobody, one
  call in, one call out, or all forgotten with the process.

`HomeInv` is proved from these: all who wait at one runtime are of one namespace,
one of them at most closes it, and a runtime whose caller gave up (`GaveUp`: timed
out or cancelled) is cancelled or down.

*Locks*. `SectionInv` has two parts. `LinesInv`: a task stands in the queue of one
lock at most, once, and whoever is inside a section is at the head of its queue.
`InOwnLine`: that lock is the one its namespace maps to. Only `InOwnLine` needs
that nobody unregisters. A step moves one task in one of three ways (`LineMove`):
it joins the end of a queue, leaves the head of one, or stays. Two requests inside
one section would both be the head of one queue.

*Records* (`LifecycleRecordsProofs`). The difficulty is the copy of a record that a
request reads before an await and writes back after it. `RecordShapes` says what
a step does to the stored records and to the copies: registers, forgets, grants,
regains, drops or installs, makes a copy, drops one, marks, or reboots on the
records it `Finds`: those stored, or one of them replaced by the one that an
installation had written. Three invariants say how copies relate to what is stored:

* `RecordedInv`: a loaded scope that may be restored is recoverable, in records and
  in copies. `RestartsKeep` follows, for a death between two writes with `LinkInv`:
  the record that an installation leaves has at least the scopes of the one it
  replaced;
* `BootInv`: until the startup restore is over it is the only coroutine, and its
  copy has the scopes of the stored record, under a policy that lets startup ask.
  `BootIsBounded` follows;
* `LinkInv`, by way of `SectionInv`: the copy a request carries has the scopes
  and hashes of the stored record (`SwapFits`), or those and one scope less
  (`DropFits`); what is mounted is loaded; and while a scope is loaded, something
  is cached and the record's hash names it. That hash and cache always agree is
  no invariant, because the process may die between the two writes; but whoever
  starts after it finds no scope loaded, and none is loaded again before both
  writes are done. `MountedHasName` and `MountedIsLoaded` follow, and
  `ScopesKeepPromise`: each record shape maps to a step of `ScopeRegistry` or to a
  stutter. `HashesName` is proved step by step (`NamesStep`): what named its
  snapshots still does, and a refresh, which takes the old hash from the cache,
  needs nothing to be right before it.

Two more say how what is mounted relates to what is recorded. The properties hold
between requests, so the invariants say what is so in the middle of one:

* `MatchInv`: where the mounted tools differ from the cached contract, a swap that
  will cache them waits for the end of the old runtime, or the namespace is
  `Doomed`: a call there has failed and is about to take the mounted runtime down.
  `SwapOK` is what makes this inductive. A runtime that a swap is closing is
  aborted only by a call that timed out in it, so when the close raises and the
  swap gives up with the new runtime mounted and nothing cached, that call is
  still to fail, and will disconnect what is mounted by then. `ContractsMatch`
  follows, since the call and the swap are requests on the namespace;
* `ConnectedInv`: a record says "connected" while its runtime is mounted, or while
  a deactivation or a failed probe waits for the end of the one it unmounted; and
  that wait does not raise (`CloseOK`), because without calls nobody else can abort
  a runtime that is being closed. `ConnectedIsMounted` follows.

### Cancellation

`CancellationProofs` is about `CancellableSpec`: all that `Lifecycle` does, and
requests of any of the `Cancellable` operations cancelled at any await, for any
`MaxInFlight`.

| Theorem | Property | Needs |
|---|---|---|
| `CountsAreEnough` | `NeverUndercounted` | |
| `NothingStaysHeld` | `NothingHeld` | |
| `CancelledUnloadsAreSafe` | `SafeUnload` | |
| `NoRuntimeAbandoned` | `RuntimesOwned` | |
| `CancelledStoreLoads` | `StoreLoadable` | |
| `CancelledSectionsExclude` | `MutualExclusion` | nobody unregisters |

`CancelInv` is `IInv`, `PlaceInv`, `QueueInv`, `OwnInv` and `LinesInv` with
`NeverUndercounted` and `SafeUnload`. The first five are those of `Lifecycle`:
they are stated so that they hold of cancelled requests too, for instance a queue
may hold the command of a request that has left (`Departed`), and the lemmas of
`LifecycleSafetyProofs` keep them over every step of `Lifecycle`. What is left is
the steps of `Cancellation`, which `CancelShapes` sorts into four:

* `Departs`: the request leaves; it is taken out of the middle of the queue it
  waits in (`RemovedQueue`: the others keep their order, and the head stays the
  head), or hands on the lock it holds, or is in no queue;
* `GivesUp`: the caller cancels its actor and goes on waiting for the end of it;
* `DropsCommand`: an actor drops the command of a request that has left;
* `ForgetsTask`: no queue holds anything of that request any more.

`InFlightExact` is false here: a cancelled call may never be counted out. So the
argument of `SafeUnload` is made again with a counter that is not less than the
calls (`Guarded`, `EnoughGuards`): at zero there is still nobody to protect.
`CountsFollow` serves both: what keeps an exact count exact keeps one that is
high enough high enough, and a cancelled call that is counted out was counted.

`NothingHeld` follows without an invariant of its own: whoever is in a queue has a
request under way (`Line`), and a runtime that is neither down nor mounted has a
coroutine that waits for its end (`AllOwned`).

The properties of hashes, snapshots and connection states are not stated of
cancelled requests: a cancellation between two writes leaves what is stored
apart from what is mounted, as the code lets it (see "Observed").

### One actor

`RuntimeActorProofs`: `Types` (`TypeOK`), `StopsInTime` (`StoppedWhenTimedOut`),
`ShutdownReaps` (`UndisturbedReaps`) and `ActorKeepsPromise` (`ServedAsPromised`).
`IInv` adds to the types and to `StoppedWhenTimedOut` that the actor has a command
in hand exactly while it serves, that a command not yet asked has no outcome, and
that the process has exited when the streams are closed at the end of a shutdown.
The refinement goes through the actions of the actor and of its users: which of
`Accept`, `Answer`, `GiveUp`, `Break` and `Finish` each is, or that it changes
neither line nor fate.

### The files

`StateStoreProofs`: `Types` (`TypeOK`), `SealsOpen` (`SealedHasKey`),
`NothingInPlainText` (`NothingPlain`), `SnapshotsAreOwned` (`SnapshotsOwned`),
`Restartable` (`HaltsOnTornKeyOnly`), `EventsComeAfter` (`EventsFollowEffects`) and
`LogKeepsPromise` (`AuditAsPromised`).

`IInv == FileInv /\ StepInv /\ DraftInv`. The state file is sound whenever there is
one. Most properties are about what a row of operations leaves between any two of
them, so the invariant follows the row: what is left of it (`todo`) fits the
document it will be done to (`Fits`), the file while the process loads and the
draft while it writes. For instance, an `unregister` event is left to log only
behind a document without the toolset and its snapshots. `Follows` says that the
log of a draft is that of the file, or has one event more, which tells the truth
about the draft; so the replacement of the file is one step of `AuditLog`, or none.
`UsesKey` of file and draft is tied to the key on disk by the step that is next:
that is where `Restartable` comes from. An absent key under a sealed file would
halt a start too, after the load had created a key that opens nothing; the
invariant says that no load ever begins there, so a halted process has met a torn
key.

### Contracts

`ContractsProofs`: `ContractsTyped` (`TypeOK`), `DiffsAreRight` (`DiffsTurn`),
`PreviousIsNamed` (`PreviousNamed`), `ReportsStand` (`ReportStands`) and
`HealthIsOfThisContract` (`HealthOfThisContract`).

They rest on what the model takes for granted: requests on the toolset are
serialised by its lock (finding 2 is the exception), SHA-256 is injective, and the
process does not die between the write of a record and that of its snapshot:
`Lifecycle` says what such a death leaves (`HashesNameSnapshots`).
`PreviousNamed` relates two copies of the old contract that are taken from
different places, the record in an activation, the cache in a refresh. `IInv`
therefore adds `Consistent`: record and cache agree while nothing is installed,
there is no previous snapshot without a cached one, an opening has seen the
contract that is still cached, and a reported refresh is the installed one.
`DiffIsRight` and `ListingIsInventory` are about the operators alone, and
`DiffsAreRight` needs the first and the types only, so no run repeats it: a diff of
two inventories turns one into the other and is empty only between equal ones; a
listing without duplicates stands for an inventory.

### Compositions

`CompositionsProofs`: `BudgetsHold` (`WithinBudgets`), `ArgumentsAreProven`
(`ProvenArguments`), `RepliesAreHonest` (`HonestReply`) and `CompositionsKeepPromise`
(`BothCompose`), all about `HostSpec`: one request of either kind.

* `ProgramInv`: the calls made are those traced, plus the one that is out; the
  passes begun are at most those counted; an expression that raised has ended the
  program. The control stack needs no invariant: no budget depends on it.
* `BatchInv`: the results are those of the first steps, in order; a batch that goes
  on is valid, has steps left, and has no failure it was not asked to tolerate.
* `CallInv`: the arguments of the call that is out come from earlier results that
  did not fail. The operator that follows a path is a fold; for the paths of at
  most two tokens that `BatchRun` has, `FollowNone`, `FollowOne` and `FollowTwo`
  compute it.

### Only model-checked

* Liveness: `EveryRequestEnds`, `ClosedRuntimesEnd`, `EveryWaiterReturns`,
  `EveryCompositionEnds`. Fairness and `ENABLED` are beyond TLAPS as used here.
* `RunsAsWritten`: it compares the interpreter with a recursive definition of what
  running a program means, and a proof would be an induction over programs.

## Not modelled

* `shutdown()`: a loop of disconnects that writes nothing; what follows it is a
  `Restart`.
* The values of expressions in programs, and how long evaluating one takes
  (`range()` and other builtins are outside the iteration budget).
* Shape summaries of schemas, descriptions of mounted tools, search and its
  scores, listing, redaction and previews of arguments: read-only, and their
  wording is the point of them.
* The ciphers and DPAPI, and durability below `os.replace` (no power loss).
* Two Toolbox processes on one state file: the code has no lock for that.
* The filters of `list_audit_events`, and notifications of a changed tool list:
  what the host has seen is outside the program.
* Configuration and the fake managed server: paths, and a test double whose
  behaviour is among those of `Serve` and `Die`.

## Plan

The plan is done: each safety and action property and each refinement that a run
checks is a theorem, but for `RunsAsWritten`. What is left, liveness and
`RunsAsWritten`, is out of the prover's reach and stays with TLC (see "Only
model-checked"); of the program, what "Not modelled" lists.
