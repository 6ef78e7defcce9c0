# TLA+ models of the Stoner Graphics Lab runtime

This directory models and proves the parts of the repository where several
threads, processes or a device share something: the runtime asset manager under
`Source/Asset`, the cooked data that cookers and runtimes share through the file
system, and the frames that the host shares with the Vulkan device. One sequential part
is added because long sequences of its calls are hard to test: the scene world. It holds TLA+
modules, the TLC configurations that check them on small instances, and TLAPS proofs.
`PROJECT.json` lists the runs, the mutants, the map from definitions to source
lines, the hazards of the code and the findings.

Run a model with `tlc -workers 2 -config AssetManager_safety.cfg MCAssetManager`
and a proof with `tlapm AssetManager_proofs.tla`.

## 1. Inventory of the system

The repository is a C++ graphics engine. Paths are relative to its root.

| Component | State | Operations | Hard because |
|---|---|---|---|
| Runtime asset manager (`FAssetManager`, `FAssetRequestTable`, `FAssetLoadOperationTable`, `FAssetWorkerExecutor`, `FAssetCompletionQueue`) | request slots with generations, request controls, shared operations, work queue, completion queue with reservations, completion sequence | Request, Cancel, ReleaseRequest, GetResult, PumpCompletions, Shutdown; worker threads | five mutexes, calls between them outside any lock, callbacks, cancellation, shutdown at any point |
| Runtime cache (`FAssetRuntimeCache`) | entries with three retention counts, payload bytes | Publish, Acquire/ReleaseRequest, AcquireExternal, release by the last handle copy, clear | counts across dependencies, cascading erasure, limits |
| Shared node loads (`FAssetNodeLoadCoordinator`, `FAssetCancellationToken`) | entries with interests, linked tokens | Load (owner, waiter), Release | several closures share a load, cancellations and deadlines of each |
| Dependency scheduler (`FAssetDependencyScheduler`) | visited nodes of one closure | LoadClosure | recursion, limits, cycles, soft dependencies |
| Loading strategies, codecs, importers | none | Load, Import, Parse | byte formats |
| Publisher and readers (`FCookedGenerationPublisher`, `FBoundCookedGeneration`, `FGenerationReaderLease`) | generation directories, `Current.json`, leases | Publish, Bind | crashes between steps, concurrent processes |
| Derived data store (`FDerivedDataStore`) | entry, staging and quarantine directories, lease files | Lookup, Install, Quarantine | several processes, timeouts, crashes |
| File leases (`FPlatformFileLease`) | process registry, file locks | Acquire, Release | two levels of locks, timeouts |
| Cook scheduler and runner | results of a cook graph | Execute | waves of asynchronous nodes |
| Native Vulkan context (`FVulkanNativeContext`) | frame slots with fences and semaphores, the acquired image, the swapchain | prepare, recreate, acquire, record, submit, present, abandon, shut down | the device and the presentation engine run behind the host; failures in the middle of a frame |
| Fallback Vulkan objects (`FVulkanQueue`, fences, semaphores, command buffers, swapchain) | object states, generations | record, submit, observe, acquire, present, recreate, invalidate | long legal call sequences |
| Scene world (`FWorld`, with `FTransform`) | entity slots with generations, parents, children, roots, local transforms, world id | create, destroy a subtree, set and remove transforms, SetParent, Unparent, Reset | handles outlive entities and worlds; links in both directions; products of transforms that no transform expresses |
| Render graph, renderers, window and input, logging, demo | per-frame data | compile, execute, events | sequential |

How the asset components interact: a client thread calls `Request`, which takes
a slot and a completion reservation, asks the cache, attaches to the operation
of the key or creates it and submits it to the worker executor. A worker loads
the closure through the dependency scheduler, which loads dependencies through
the node coordinator, publishes the result into the cache for the requests that
still wait, completes each of them and queues its callback. `PumpCompletions`
calls the callbacks on whatever thread calls it. Typed handles hold a retention
in the cache beyond the life of the manager. `Shutdown` closes admission,
cancels, stops and joins the workers, then clears.

How the cooked data is shared: `FAssetCookRunner` cooks each asset through the derived
data store (`Lookup`, then `Quarantine` or `Install`, both under a file lease of the
key), builds a generation in a scratch directory and calls `Publish`, which under the
lease `.publish.lock` copies it to a stage, validates, checks the sources again,
moves the stage to `Generations/<id>` and replaces `Current.json`. A runtime in strict
cooked mode binds: it reads `Current.json`, takes a shared lease on the generation and
validates it. Cookers and runtimes are processes, with threads, that may end anywhere.

How a frame is shared: `AcquireVisibleFrame` waits for the fence of its slot and gets
an image, `SubmitAndPresentVisibleFrame` hands both to the device, which signals the
fence and the semaphores when it likes; `AbandonAcquiredVisibleFrame` returns an
image that was not rendered to.

What makes each correct: section 3 lists the properties per module,
`PROJECT.json` the hazards per source line, also of the components that have no
model.

## 2. Order of work

1. `AssetHandles`, `AssetRequests` (abstract), `AssetManager`, with proofs.
2. `RuntimeCache`: the dependency counts that `AssetManager` leaves out, with proofs.
3. `NodeLoads`: the sharing of dependency loads that it leaves out, with proofs.
4. `Lease` (abstract) and `FileLease`, which implements it, with proofs.
5. `DerivedDataStore` and `GenerationPublisher`, both on top of `Lease`, with proofs.
6. `VisibleFrames`, with proofs.
7. `Transforms` and `SceneWorld`, with proofs.

What would come next: the recursive visit of `FAssetDependencyScheduler` against a
reference closure, and the order and lifetimes that `FRenderGraphCompiler` computes;
both are sequential algorithms.

## 3. Modules

### AssetHandles, AssetManager, MCAssetManager

A step of `AssetManager` is one critical section of `StateMutex`, or one call of
a helper with a mutex of its own made outside `StateMutex`. A helper called
while `StateMutex` is held is part of that step.

| State | Code |
|---|---|
| `slot` | `FAssetRequestTable::FImpl::Slots` with state, generation, sequence |
| `control` | `RequestControls` by handle; `completion` joins `bCompletionReserved` and `bCompletionQueued` |
| `op`, `table` | the `FSharedAssetLoadOperation` objects, named by the handle that created them, and those that `Attach` finds |
| `workQueue`, `worker` | `FAssetWorkerExecutor`: queue and threads |
| `cacheReq`, `cacheExt`, `held` | the retention counts of a key and the typed handles of callers |
| `completions`, `reservations`, `dispatch`, `pumping` | `FAssetCompletionQueue`; `dispatch` is the batch a running `Pump` moved out |
| `client`, `shutdown` | where each thread is |
| `started`, `reported` | the bound on requests, and which callbacks ran |

`RequestUntyped` is the chain `StartRequest`, `Reserve`, `Allocate` (or
`Unreserve`), `AdmitHit`/`AdmitCreate`/`AdmitJoin`/`AdmitRejected`, then
`CommitJoined`, `Complete`, `Submit`, `Rollback`, `Unslot`. The worker's lambda is
`Take`, `BeginLoad`, `FinishLoad`, `CommitLoad`, `Notify`, `Exit`; `Pump` is
`PumpTake`, `PumpCall`, `PumpEnd`; `Shutdown` is `BeginShutdown`, `RequestStop`,
`Join`, `ClearControls`, `DropOwnership`. A second client of the model runs any of these
between any two steps. What a load returns is any result the code allows. Closures
hold one asset; the `violations` counter is the one the code keeps for refused
completions.

`AssetRequests` is the promise to a caller, per handle: given out once, terminal
at most once and then unchanged until released, the callback at most once, after
the request is terminal and with its result. `ImplementsAssetRequests` maps the
slots, controls and callbacks of `AssetManager` to it.

### RuntimeCache

One step per call, since each call holds the cache's mutex throughout. A load is
a set of assets, each in a version: sources change between loads, with them the
required dependencies and sizes (`Required`, `Bytes`). `LoadsOf` gives each root the
loads that `LoadClosure` can return: its required closure in those versions,
acyclic, plus anything else the imports emit. `Swept` is the `while` loop of
`Sweep`. The caller's side (`interests`, `handles`) is what the manager and the typed
handles hold, and the counts are compared with it. After
`ClearManagerOwnership` handles may still go: they find no entry.

### Transforms, SceneWorld

A step of `SceneWorld` is one call of `FWorld` that succeeds; a refused call changes only
the diagnostics.

| State | Code |
|---|---|
| `slot` | `FWorld::Slots`: generation, liveness, `Parent`, `Children`, the local transform; those beyond the end of the vector are dead ones of generation 1 |
| `roots` | `RootEntities` |
| `worldId` | `WorldId`, drawn anew by every `Reset` |
| `issued` | history: the handles that `CreateEntity` has returned in this world, and any of earlier ones |

An entity is its handle: slot, generation, world. `CreateEntity`, `DestroyEntity` (with all
below it), `AddTransform`, `ReplaceTransform`, `RemoveTransform`, `SetParent` and `Unparent` with
either preservation, `Reset`. Free slots, roots and children are sets, their order being of no
consequence here. `Ancestors` and `Subtree` are the walks along the links, as the smallest sets
closed under them.

A transform (`Transforms`) is a turn by a multiple of 45 degrees after a stretch of one axis by a
power of 2. That is the least in which two transforms compose, or compose only to a shear, which
`TryDecomposeTRS` refuses, depending on both. What never shears is left out: translation,
uniform scale, the third axis. So are zero scales and the tolerance of floating point.

`HierarchyIsForest`: parents, children and roots, which are kept apart, describe one forest of
live entities. `StaleStayStale`: a handle that is no longer valid never names an
entity again, also across `Reset`, which starts generations anew under another id.
`WorldIsPreserved`: a move that preserves the world transform of an entity leaves everything
below it in place; it is stated of moves to where somebody above has a transform and to
the root. `ReparentKeepsWorld`, without that condition, is what the contract says and the
code does not do (section 6).

### MCCallSequences

`RuntimeCache` and `SceneWorld`, whose calls come one at a time; they share no state, and a run
takes one of them as its `workload`.

### NodeLoads, MCNodeLoads

Each loader runs an operation whose closure has the dependencies `Closure[w]`,
visited in any order. `Own`, `Join`, `Complete` and `Waited` are the critical
sections of `FAssetNodeLoadCoordinator::Load`; `LoadReturns` is `Strategy.Load`,
which returns `Cancelled` only when it finds its context stopped.
`RequestCancellation` and `Expire` come from outside at any point. `IsCancelled` is the
linked token: cancelled when all tokens linked so far are. An entry is an object
that is reused once no pointer holds it.

### Lease, FileLease

`Lease` is what a file lease promises: `lease` is the set of who holds which path in
which mode, `Acquire`, `Release`, and the end of a process. The two modules below
extend it and use its actions, so that a lease is taken and given back there in one step.

`FileLease` is how the promise is kept. An object first locks a `shared_timed_mutex` that
its process keeps per path, by a weak pointer, then the file.

| State | Code |
|---|---|
| `phase`, `path`, `mode` | where an object is in `Acquire` or `Release`, and its arguments |
| `mutex`, `registry` | `FImpl::ProcessMutex`, `GLeaseRegistry`; a mutex is named by the object that created it |
| `guarded` | objects whose `ExclusiveProcessLock` or `SharedProcessLock` is locked |
| `locked` | objects whose descriptor has the `flock` |

Actions follow the code: `GetProcessLeaseMutex`, `LockProcess` or `ProcessTimeout`,
`LockNative` or `NativeFails`, `WriteMetadata` (for exclusive holders, may fail), `Unlock`,
`DropImpl`, and `HostEnds`. Failures before the descriptor is closed pass through
"unlocked", because the candidate, with the mutex, goes only when `Acquire` returns:
an object may have a mutex and no file lock, never the reverse. `ImplementsLease` maps
the holders in phase "held" to `lease`; `OneMutexPerPath` is why the weak pointers are enough.

### DerivedDataStore

Cook threads of several processes and the entry of one key; keys share nothing.

| State | Code |
|---|---|
| `entry` | the two files of the entry directory |
| `evidence` | which directories `Quarantine/<key>/<digest>` exist; the digest is a function of the reason |
| `site`, `reading` | where a cook is: the call of the store, and inside `Lookup` |
| `found`, `seen` | what `Lookup` returns: status, reason and payload |
| `policy`, `product`, `retried` | the policy of the cook, what the cooker produced, and whether it installs again |
| `corruptions`, `fresh` | history: how often something damaged the entry, and which lookups have read its metadata since it was last damaged or moved to `Quarantine` |

`Lookup` takes no lease and is three steps (`ReadExists`, `ReadMetadata`, `ReadPayload`)
between which directories may move. `Quarantine` is `LeaseForQuarantine`, `Requery`,
`FindCollision` or `MoveToEvidence`, `RecordFailure`, and `ResolveQuarantineRace` after a
lease timeout or a failed move; `Install` is `LeaseForInstall`, `FindWinner`,
`MoveToEntry`, `CheckInstalled`. Each file operation may fail, a move also after it has
taken effect, a read also on an intact file. `Lookup` answers then as it does for a damaged
entry, and also when the extensions or the limits of the request are not those of the entry,
which the key does not cover: a good entry can be quarantined and replaced. Around the store is
the cook of one asset in `FAssetCookRunner`. `Corrupt` damages a file from outside,
`MaxCorruptions` times.

`OnlyRejectedEntriesGo` says how a valid entry may go: as a whole, to the evidence, by the cook
that holds the lease and has itself rejected this entry there (it is in `fresh`), not by one that
trusts what it found before the lease, when there may have been another entry. `CooksAgree`:
cooks that have succeeded with an entry that was neither damaged nor quarantined since return the same
payload, although cookers may be nondeterministic. A lookup that read the metadata before
such an event counts no more, since it may pair it with the payload of the next
entry and still find them equal.

### GenerationPublisher

Publishers, readers and maintenance on one publication root.

| State | Code |
|---|---|
| `source` | the state of the source files, `History` version by version, external |
| `step`, `cooked`, `stage` | where a publisher is in `Publish`, its generation, its stage |
| `generations` | each directory of `Generations`: absent, whole, or broken |
| `next`, `current` | what `Current.next` and `Current.json` hold |
| `verified`, `currentVersion` | history: the version of the source that `RevalidateInputs` saw |
| `reader`, `chosen` | where a reader is in `Bind`, and what its pointer names |
| `sweep`, `doomed` | maintenance |

The steps of `Publish` are its file operations: lease, copy, validation, revalidation,
comparison, move, the recheck after a failed move, truncation, write and reread of
`Current.next`, replacement, audit. Any may fail, a move and a replacement also after they
took effect, and `Crash` ends a process between any two. Initially there may
be broken and whole directories of earlier runs. `Bind` reads the pointer, leases
and validates; `Unbind` is any failure or `Reset`.

Maintenance is not in the repository: `BeginSweep` to `EndSweep` follow
`contracts/generation-reader-lease.md` (exclusive lease on the generation, check that it
is not current) and hold the publication lease as well. That is an assumption, and a
needed one: without it TLC finds a publisher that has compared its generation with an
installed one, maintenance that removes it as not current, and then a
`Current.json` that names nothing. The contract does not mention the publication lease.

`CurrentIsComplete`, `BoundIsComplete` and `PublicationsAreOrdered` are about pointers that
outlive what they were checked against.

### VisibleFrames

The host (`HostStep`) runs the frame loop of `FVulkanNativeContext` as its callers do, the
device and the presentation engine (`Driver`, external, from the rules of the calls made)
run by themselves.

| State | Code |
|---|---|
| `loop` | where the host is; "undefined" after a call the rules of Vulkan forbid |
| `slot`, `image`, `suboptimal` | `CurrentFrameSlot`, `AcquiredImageIndex` with `bFrameAcquired`, `bAcquiredSuboptimal` |
| `fence` | `VisibleFences` |
| `semaphore` | `VisibleImageAvailable` by slot, `VisibleRenderFinished` by image |
| `pending` | the submission of a slot that has not completed |
| `owner`, `present` | who has an image, and what its queued present waits for |
| `refused` | history: what a present that was refused was to wait for |

`Prepare`, `WaitForFence`, `AcquireFrame` or `AcquireFails`, `Record` or `RecordFails`, `Submit`
or `SubmitFails`, `Present`, `Shutdown`; `AbandonFrame` is part of the failing steps.
Any present may be refused. The code ignores the result when it abandons a frame, and goes on with the
other slot; after a refused present in `Present` the frame has failed and the caller may
draw again, too. The image then stays with the host until the presentation is created anew.

The fence of a slot tells that its submission has completed, not that a present has. When a
frame was abandoned its present waits for the acquire semaphore and no fence covers that
wait, and when that present was refused nothing will ever wait for the semaphore: the
next acquisition with that slot may hand out a semaphore still in use. The model
shows both cases as "undefined" and `SlotIsIdle` states that there are no others.
`ImageIsIdle` is why one render-finished semaphore per image is enough. `WaitsEnd`: each fence and
semaphore waited for comes, also after failed submissions, and the host keeps no image but those
whose present was refused. If these were all, an acquisition would wait for ever.

### MCResources

The four modules above share no state. A run takes one of them at a time as its `workload`, so
that it explores the sum of their states. The invariants of all are checked together: those
of the idle ones hold in their initial states.

## 4. Runs

| Run | Shows | Instance |
|---|---|---|
| safety | types, ownership of interests, soundness of the operation table, exact retention, Ready payloads retained, ordered completions, no worker after Join; no load lost or worked on twice; a cancellation reaches only its own request; each request lives the life `AssetRequests` promises | 2 clients, 2 workers, 1 key, 2 slots, 2 requests, queue of 1 |
| reuse | reservations are exact, no completion is refused | 1 slot used 3 times, 1 reservation |
| liveness | queued loads settle, callbacks run, Shutdown returns; accepted work is committed | 1 client, 1 worker, fair |
| calls | cache: bytes, dependency counts, closures, retention, reclamation; scene: a forest, stale handles stay stale, preserving moves preserve | cache: 3 assets, 2 versions, 2 retentions of a class, limit 5 of 6 bytes; scene: 3 slots, 2 generations, 2 worlds, stretches of 1/2 to 2, callers set a stretch or a turn |
| nodes | exact interests, one load per key, cancellation only together, waiters return | 3 loaders, 2 keys, fair |
| resources | leases exclude and keep nothing on early returns; only a cook that rejects a valid entry under the lease moves it, cooks agree; current and bound generations stay whole, publications keep the order of the source; frames reuse nothing in use unless one was abandoned, and wait for nothing in vain | leases: 3 objects, 2 processes; store: 2 cookers, 2 payloads, 1 corruption, any number of failed reads; publication: 2 publishers, 1 reader, maintenance, 2 generations, a source with 3 versions; frames: 2 slots, 3 images |
| shutdown, oneload, callback, cancelled, rebuilt, reparent | one disagreement each, see section 6 | as their cfg says |

Why these bounds are enough to make the interesting cases happen: two requests
of one key give every pair of creator, joiner, canceller and releaser; a queue of
one makes `Submit` fail while another request has joined; one slot with three
generations makes each late event meet a later request; two workers run two
loads of one key; a limit between the sizes of the sets of versions makes `Publish` fail and
succeed on the same keys; three loaders give an owner, a waiter that leaves and
one that comes when the load has ended. `MaxGeneration`, `MaxStarts`, `MaxHeld`,
`MaxRetentions`, `MaxOperations`, `MaxWorlds` and `MaxStretch` are bounds of the model; the rest are limits the
code has. In "resources", two objects of one process and one of another
reach both levels of the lease; a corruption and failed reads give a repair and a second quarantine,
and a payload of another cooker in between; a source that changes and comes back makes a
snapshot of an old version equal to a newer one; three images and two slots
let an image come back on the other slot. In "calls", three entities are a chain whose middle
or end moves; the two transforms that callers set shear in one order and not in the other. Two
generations let a slot be used twice, and two worlds let generation 1 come twice; the bound on
generations is a guard of `DestroyEntity`, that on stretches one of `SetParent` and `Unparent`.
Symmetry is used on clients and workers in the runs of `AssetManager`
without liveness, and on entity slots.
Deadlock is checked in every run: the states in which everything is finished step to
themselves (`Quiescent`, `Finished`); the workloads of "resources" never end, nor does the scene world.

Fairness. In `AssetManager` a call, a load, a pump and a shutdown that have begun
go on: threads are scheduled and the code between two steps does not block. No
client has to call anything, except that a callback runs only if somebody pumps:
`CallbacksRun` assumes that somebody keeps calling `PumpCompletions`. In `NodeLoads` the steps of a loader are fair, including the return of
`Strategy.Load`, which the code cannot force on an extension; deadlines need not
pass and nobody has to cancel, so the answer to a waiter comes from its owner.

The modules of "resources" state no fairness: their waits have deadlines, except the
acquisition of an image, and any process may end. `WaitsEnd` is the safety part of progress:
what is waited for is under way.

Each property of a passing run has a mutant in `PROJECT.json`: a plausible bug,
written next to the definition it replaces, under which TLC finds the property
violated. The type invariants of `NodeLoads`, `RuntimeCache`, `DerivedDataStore`,
`GenerationPublisher` and `SceneWorld` are in no run: they are proved (section 5).

## 5. Proofs

`AssetManager_proofs` proves, for any sets of clients, workers and keys and any
values of the limits that satisfy the named assumptions:

* `TypeCorrect`: `Spec => []TypeOK`. `TypeOK` is not inductive: a step may read
  the handle a client or worker holds, or an operation of the table, and needs it
  to be a real one. The inductive invariant `TypeInv` adds `ClientHandles` (a
  client in the middle of a request holds a handle and a key), `WorkerHandles` (a
  busy worker holds an operation) and `TableOps` (operations of the table have a
  key). There is one lemma per group of actions, and lemmas on updates of a single field.
* `WorkersAreGoneAlways`: `Spec => []WorkersAreGone`: once `Join` has returned no
  worker thread runs and no work is queued, ever. The inductive invariant
  `Drained` adds that an exited worker implies a stop request and an empty queue.
  The lemma `ClientsLeaveStoppedQueue` carries it: after the stop request no client
  adds work, which is what `Submit`'s check under the executor's mutex ensures.
* `CallbacksAreOrdered`: `Spec => []CompletionsAreOrdered`. The inductive invariant
  `InSequence` adds that every record has a number below the next one, and that nothing
  is left of an earlier pump when one takes records.
* `ReservationsStayExact` and `CompletionsFindTheirPlace`: `Spec => []ReservationsAreExact` and
  `Spec => []CompletionsNeverRefused`. The inductive invariant `ReservationInv` adds
  `ControlsAreGiven` (a control is made once, by the client that was given the handle),
  `CallbacksReserve` and `Balanced`: the reservations are the queued records, the calls
  being admitted and the controls that wait, and never more than `MaxCompletions`. A completion
  that has a reservation therefore finds room.
* `InterestsStayOwned`: `Spec => []InterestsAreOwned`. The inductive invariant `Ownership`, which
  holds until `Shutdown` clears the controls, has eight more parts; those that are not
  bookkeeping are `AdmitsAreAlone` (a handle in `RequestUntyped` is not known to anybody else),
  `CreatorsWait` (the operation of a creator that has not submitted it is still `Created`),
  `JoinersCommit` (a joiner that meets a terminal operation is about to commit its own request)
  and `RetainersAreReady` (a control that retains the cache has a Ready request).
* `RetentionStaysExact`, `ReadyStaysRetained` and `TableStaysSound`. The inductive
  invariant `RetentionInv` adds to `Ownership` that an operation in the table is wanted and is
  the only one of its key (`TableIsWanted`), that `cacheReq` is the cardinality of the controls that
  retain (`RequestsRetain`), and that `cacheExt` is what callers hold (`HoldersRetain`).
* `NobodyElseCancels`: `Spec => CancelledOnlyByItself`, an action property. `OnlyTheUnwanted`
  says that until `Shutdown` begins a cancelled load is one nobody waits for; a
  joiner only meets operations of the table, which are wanted.
* `RequestsAreKept`: `Spec => ImplementsAssetRequests`, the refinement. `LifeMoves` lists what a
  step can do to the lives of the handles: begin one, settle the pending ones of a set, end
  one, or nothing; `EveryStepMoves` proves it action by action. The inductive
  invariant `RefinementInv` adds `ResultsAreSettled` (what a record, a callback, a client or a worker
  says of a request is its terminal state, or the request is gone), `CommittersAreAlone` (a joiner
  that takes over a failure still has a pending request that nobody else names, also during
  `Shutdown`) and `RecordsAreOnce` (no handle has two records, or one that was called already;
  one with a reservation has none). `PumpCall` is then `Report`, and every other step `Accept`,
  `Settle`, `Drop` or a stutter.

`AssetManagerWork_proofs` proves what the liveness of loads rests on: `LoadsStayUnderWay` and
`WorkIsFinished`. `LoadsAreUnderWay` is inductive on top of the invariants above: what `Submit` queues is
nowhere in the workers' hands yet (`CreatorsWait`), so no operation is worked on twice, the commit of one
leaves all others alone, and a load that returns can be committed. What is left to fairness is that
threads go on. A request that joined an operation whose creator was refused by `Submit` and rolled back is
what the invariant leaves out (section 6, `shutdown`).

`FileLease_proofs`, for any objects, processes and paths. The inductive invariant `LeaseInv` adds to
`FileLeaseTypeOK` that an object outside "out" has a path, a mode and a mutex, that the registry
of a process names the mutex of each of its objects on a path, and that the file
locks exclude each other. `TypeCorrect`, `MutexIsShared`, and `LeaseIsKept`: the refinement, a step of
`LockNative` or `WriteMetadata` being `Acquire`, `Unlock` being `Release`, the rest stutters.

`CookedStores_proofs`, on what relies on leases, has three parts:

* `ExclusionHolds`, from the fact that `Acquire` is refused to whom somebody is in the way; the
  lemmas `Alone`, `HoldsAfter` and `LeaseKept` are what the users of `Lease` need.
* `StoreTypeCorrect`, `RejectedGo`, `CooksDoAgree`, for any cookers and payloads and number of
  corruptions. The inductive invariant `StoreInv` adds that a cook inside the leased part has
  the lease; `QuarantineIsDue`: of a cook that is about to move the entry away, that it holds the lease and
  either has rejected what is there now or what is there is not valid, which only an
  install could change; and `HitsAreEntries`: what a lookup in `fresh` has seen is what the
  entry holds, if it was valid, since nothing else takes it away.
* `PublishTypeCorrect`, `CurrentStaysComplete`, `BoundStaysComplete`, `PublicationsStayOrdered`. The
  inductive invariant adds what each step of `Publish` has established under its lease: from
  "truncate" on the generation is whole, from "reread" on `Current.next` is its own, the version it
  verified is not older than the one published; and that maintenance removes only what has
  no reader and is not current.

`VisibleFrames_proofs`: `FramesTypeCorrect`, `SlotsAreIdle`, `ImagesAreIdle`, `NothingWaitsInVain`, for
any number of images. The inductive invariant `FramesInv` adds `FencesTell` (a fence is
unsignaled exactly while its submission is pending), `AcquiresAreUsed` and
`PresentsWait` (who uses which semaphore), `RefusedAreKept` (an image whose present was refused is the
host's, and not the acquired one), and `ImagesAreOwned`.

`RuntimeCache_proofs`, for any finite set of keys, any versions, sizes and required dependencies and any
limit: `CacheTypeCorrect`, `BytesStayExact`, `DependenciesStayExact`, `ClosureStaysCached`,
`CachedRetentionStaysExact`, `ReleasesReclaim`. The inductive invariant `CacheInv` adds `Sound`, which
also holds of the entries between the passes of `Sweep`: what is absent counts nothing, an entry
counts the present ones that require it, what those require is present, and no entry requires
itself through others. The passes of `Sweep` end with every count above zero
(`SweptIsSound`). What is then neither held nor required by what is held would be a set in which each
entry is required by another one of it, which a graph without cycles does not have; so nothing
of the kind is left (`SweptAreRetained`). `Swept` and `Size` are recursive functions. That a
function with their equation exists, and what it computes, is shown by a least counterexample:
among any subsets of a finite set one has no other below it (`LeastSubset`, from the well-foundedness of
strict inclusion), and the equation takes it to a smaller one. `Sum` and its lemmas state once
what a sum over a finite set does when elements change, go or come, from which the differences
that `Publish` and `Sweep` add to the byte count follow (`PublishedSize`, `KeptSize`).

`NodeLoads_proofs`: `LoadsTypeCorrect`, `InterestsStayExact`, `OneLoadAtATime`,
`NobodyIsCancelledAlong`, for any loaders, keys, entries and operations. The inductive invariant
`LoadsInv` adds `HoldersLoad` (what a loader inside `Load` holds is in the table, is of its key and is
linked to its token), `OwnersLoad` (the owner of an incomplete entry is in its load),
`OneEntryPerKey`, and `Counted` (an entry's count is the number of its holders, which the
theorems on cardinality carry over a join and a release).

`SceneWorld_proofs`: `SceneTypeCorrect`, `HierarchyStaysForest`, `StaleHandlesStayStale`, for any slots,
generations, worlds and transforms, and `RelativeIsExact`: what `TryRelativeTo` finds composes
to the transform it was taken from. The inductive invariants are `SceneTypeOK` with
`HierarchyIsForest`, and `IssuedAreCounted`: a handle that was given out is valid, or of an earlier
world or generation, from where `OutdatedStaysSo` finds no way back. Without recursion, `Ancestors` and `Subtree` are
intersections of closed sets, so that a proof exhibits a closed set: `Subtree(e)` is closed under
children, so a destruction leaves no link into it; for `SetParent`, a set of entities in
which everyone has its parent inside would be one before the move, once the ancestors
of the new parent are taken away from it, and `WouldCreateCycle` says that the child is none of
them. The lemmas `MovedLinks`, `UnparentedLinks` and `RetiredAreGone` say what the moves and a
destruction do to handles and links.

`WorldStaysPreserved` is about `HierarchyWorld`, a recursive function over the forest. `WorldsSolve`:
it solves its equation. Sets of entities that have the parent of each of theirs have one
solution each, two of them agree where both are defined since a least disagreement would be
at an entity whose parent is one (`StandingsAgree`), and so the solutions of all chains of
ancestors make a whole one. A preserving move then changes the equation at the moved entity
only: outside its subtree nothing moves, the entity itself stays by `RelativeIsExact`, and
what hangs below it follows (`PlacesStay`, `MovedInPlace`).

Every safety and action property of the passing runs, and both refinements, are proved. Only
model-checked: the liveness of `AssetManager` (`QueuedLoadsSettle`, `CallbacksRun`,
`ShutdownReturns`) and `WaitersReturn` of `NodeLoads`. Liveness under fairness needs `ENABLED`,
which is out of reach of the installed provers. The runs that expect a violation show what
does not hold, so there is nothing to prove.

## 6. Where code and documents disagree

* `shutdown`: when `Submit` fails, only the creator of an operation is rolled back.
  A request that joined in between waits for ever, through `Shutdown`.
* `oneload`: a load whose last interest leaves is forgotten while it runs; the next
  request starts it a second time.
* `callback`: a record that `Pump` has already moved out is called back after
  `ReleaseRequest` has returned.
* `cancelled`: a loader is answered `Cancelled` because the owner of the shared load
  was cancelled or ran out of time.
* `rebuilt`: an entry that is damaged when the key has been quarantined for the same reason before
  cannot be quarantined, because the evidence directory is named by the reason and is there already;
  every cook of the key fails from then on.

* `reparent`: an entity that is to keep its world transform keeps its local one instead when
  it is moved under a parent with no transform in its hierarchy, and jumps.

`PROJECT.json` quotes the documents and lines. Three more are noted without a run: `SetParent` looks
for shear only at the entity that moves and only if it has a transform, not at what hangs below
it, where FR-007 of `specs/017-scene-graph-ecs/spec.md` has unrepresentable changes refused; `Publish` leaves
siblings and optional dependencies cached with no retention until a later release
sweeps them, where `request-lifecycle.md` says that they go at once; and
`publication-protocol.md` says that after a failure before the replacement the previous pointer
remains, where a replacement that is reported as failed may have happened
(`ReplacePointer` with "return").

## 7. Not modelled

* In `AssetManager`: closures of several assets (see `RuntimeCache` and `NodeLoads`),
  diagnostics, `Inspect`, the wrap of generations after 2^32 - 1 uses, and concurrent
  calls of `Shutdown`. `CancelledOnlyByItself` is therefore about requests that share an
  operation; sharing through a dependency is `NodeLoads`, where the like does not hold.
* In `RuntimeCache`: the saturation of the 64-bit counts.
* In `NodeLoads`: the load of a closure's root, which does not go through the
  coordinator, and the dependency limits of `Visit`.
* In `FileLease`: the checks of arguments and paths, and Windows, whose `LockFileEx` is used
  in the same places.
* In `DerivedDataStore`: parsing, and what extensions and limits a request has (its not fitting is a
  read that fails); of the reasons that `Lookup` distinguishes, all but one for each file; the
  contents of the evidence; and unique stages, which nobody shares.
* In `GenerationPublisher`: loss of power. A process may end anywhere and what it wrote stays;
  which unsynchronized writes would survive is not distinguished. The request image lies in a
  scratch directory of its own and is only validated. The test hooks (`Injected`) fail where
  real calls do.
* In `VisibleFrames`: creation of instance, device and pipeline, and the contents of command
  buffers.
* The fallback Vulkan objects, resources and device: state machines without concurrency that
  complete their work in the call.
* The recursive closure of the dependency scheduler, the cook graph and its scheduler, whose
  waves join before anything reads their results, and the render graph: sequential algorithms.
* In `SceneWorld`: meshes, lights and cameras, the orders of roots, siblings and free slots, creation
  order, diagnostics, the render summary, numbers (see above), and the wrap of a slot's
  generation after 2^32 - 1 uses. Writes through `GetMutableTransform` are `ReplaceTransform`;
  that the pointer itself outlives neither the entity nor the next creation is up to callers.
* Codecs, importers, the encoder sandbox, registries, renderers, window, input and the
  demo: byte formats, external code, one critical section per call, or sequential
  construction of data.
* Vendored code under `ThirdParty`, which is most of the repository's lines.
