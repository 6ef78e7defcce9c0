---------------------------- MODULE AssetManager ----------------------------
(***************************************************************************)
(* The runtime asset manager: client threads that request, cancel, release *)
(* and read assets, worker threads that load them, the shared load         *)
(* operations that coalesce equal requests, the bounded completion queue,  *)
(* the retention counts of the cache and the shutdown of the manager.      *)
(*                                                                         *)
(* A step is one critical section of StateMutex, or one call of a helper   *)
(* that has a mutex of its own (FAssetRequestTable, FAssetWorkerExecutor,  *)
(* FAssetCompletionQueue, FAssetRuntimeCache) made outside StateMutex.     *)
(* Closures hold one asset here: RuntimeCache.tla has the dependencies.    *)
(***************************************************************************)
EXTENDS Integers, Sequences, FiniteSets, AssetHandles

CONSTANTS
    Clients,         \* threads that call the manager
    Workers,         \* threads of FAssetWorkerExecutor
    Keys,            \* complete load keys (asset, type, mode, target, generation)
    NoKey,           \* not a key
    MaxQueuedWork,   \* Limits.MaxQueuedWork
    MaxCompletions,  \* Limits.MaxCompletions
    MaxStarts,       \* bound: calls of Request in a behaviour
    MaxHeld,         \* bound: typed handles of a key held at once
    WithShutdown     \* whether the owner calls Shutdown

ASSUME ManagerAssumption ==
    /\ Workers # {} /\ IsFiniteSet(Clients)
    /\ NoKey \notin Keys
    /\ MaxStarts \in Nat
    /\ MaxQueuedWork \in Nat \ {0}
    /\ MaxCompletions \in Nat \ {0}
    /\ MaxHeld \in Nat
    /\ WithShutdown \in BOOLEAN

VARIABLES
    slot,          \* FAssetRequestTable::FSlot of each slot
    control,       \* RequestControls, by handle
    op,            \* FSharedAssetLoadOperation, named by the handle that created it
    table,         \* Operations_: the operations later requests can attach to
    workQueue,     \* Queue of FAssetWorkerExecutor
    worker,        \* where each worker thread is
    cacheReq,      \* Retentions.RequestInterests of each key's cache entry
    cacheExt,      \* Retentions.ExternalHandles of each key's cache entry
    held,          \* typed handles that callers hold
    completions,   \* Queue of FAssetCompletionQueue
    reservations,  \* Reservations of FAssetCompletionQueue
    dispatch,      \* records a running Pump took and has not called yet
    pumping,       \* bPumping
    nextSequence,  \* NextCompletionSequence
    violations,    \* CompletionContractViolations
    client,        \* where each client thread is
    shutdown,      \* how far Shutdown has come
    started,       \* calls of Request so far, bounded by MaxStarts
    reported       \* history: the result each handle's callback was called with

vars == <<slot, control, op, table, workQueue, worker, cacheReq, cacheExt, held,
          completions, reservations, dispatch, pumping, nextSequence, violations, client,
          shutdown, started, reported>>

managerVars == <<slot, control, op, table, cacheReq, cacheExt>>
cacheVars   == <<cacheReq, cacheExt>>
workVars    == <<workQueue, worker>>
pumpVars    == <<dispatch, pumping, reported>>

-----------------------------------------------------------------------------
(* Where the threads are, and the values of an idle one.                   *)

\* Positions of a client inside RequestUntyped once it has a handle: until the
\* call returns, no other thread knows the handle unless its callback ran.
Admitting == {"admit", "wait", "commit", "complete", "submit", "rollback", "discard"}

ClientPcs == {"idle", "reserve", "allocate", "unreserve", "cancelled", "unslot",
              "acquire"} \cup Admitting

WorkerPcs == {"idle", "begin", "loading", "loaded", "notify", "exited"}

ShutdownPcs == {"up", "stopping", "joining", "clearing", "dropping", "down"}

ShuttingDown  == shutdown # "up"
StopRequested == shutdown \notin {"up", "stopping"}
Cleared       == shutdown \in {"dropping", "down"}

OpStates == {"None", "Created"} \cup TerminalStates

\* FRequestControl, and its value once RemoveControl has erased it.  completion
\* is what bCompletionReserved and bCompletionQueued say together.
Controls == [live : BOOLEAN, key : Keys \cup {NoKey}, op : Handles \cup {NoHandle},
             cache : BOOLEAN, completion : {"none", "reserved", "queued"}]

NoControl == [live |-> FALSE, key |-> NoKey, op |-> NoHandle, cache |-> FALSE,
              completion |-> "none"]

\* Mutant: a joined request also claims to retain the cache entry.
NewControlRetaining(k, o, cached, cb) ==
    [live |-> TRUE, key |-> k, op |-> o, cache |-> TRUE,
     completion |-> IF cb THEN "reserved" ELSE "none"]

NewControl(k, o, cached, cb) ==
    [live |-> TRUE, key |-> k, op |-> o, cache |-> cached,
     completion |-> IF cb THEN "reserved" ELSE "none"]

Operations == [key : Keys \cup {NoKey}, interests : SUBSET Handles,
               cancel : BOOLEAN, state : OpStates]

NoOperation == [key |-> NoKey, interests |-> {}, cancel |-> FALSE, state |-> "None"]

\* What a thread is doing: of a client the call's handle, key, whether it has a
\* callback and the result it will report; of a worker the operation, the result
\* of the load and the interests it still has to complete.
ClientRecords == [pc : ClientPcs, h : Handles \cup {NoHandle},
                  key : Keys \cup {NoKey}, cb : BOOLEAN, res : TerminalStates]

IdleClient == [pc |-> "idle", h |-> NoHandle, key |-> NoKey, cb |-> FALSE,
               res |-> "Cancelled"]

WorkerRecords == [pc : WorkerPcs, op : Handles \cup {NoHandle},
                  res : TerminalStates, pending : SUBSET Handles]

Busy(pc, o, res, pending) == [pc |-> pc, op |-> o, res |-> res, pending |-> pending]

IdleWorker == Busy("idle", NoHandle, "Failed", {})

\* FCompletionQueue::FRecord.
CompletionRecords == [h : Handles, seq : Nat, res : TerminalStates]

TypeOK ==
    /\ slot \in [Slots -> SlotRecords]
    /\ control \in [Handles -> Controls]
    /\ op \in [Handles -> Operations]
    /\ table \subseteq Handles
    /\ workQueue \in Seq(Handles)
    /\ worker \in [Workers -> WorkerRecords]
    /\ cacheReq \in [Keys -> Nat]
    /\ cacheExt \in [Keys -> Nat]
    /\ held \in [Keys -> Nat]
    /\ completions \in Seq(CompletionRecords)
    /\ reservations \in Int
    /\ dispatch \in Seq(CompletionRecords)
    /\ pumping \in BOOLEAN
    /\ nextSequence \in Nat \ {0}
    /\ violations \in Nat
    /\ client \in [Clients -> ClientRecords]
    /\ shutdown \in ShutdownPcs
    /\ started \in Nat
    /\ reported \in [Handles -> TerminalStates \cup {"None"}]

Init ==
    /\ slot = [s \in Slots |-> FreeSlot]
    /\ control = [h \in Handles |-> NoControl]
    /\ op = [h \in Handles |-> NoOperation]
    /\ table = {}
    /\ workQueue = <<>>
    /\ worker = [w \in Workers |-> IdleWorker]
    /\ cacheReq = [k \in Keys |-> 0]
    /\ cacheExt = [k \in Keys |-> 0]
    /\ held = [k \in Keys |-> 0]
    /\ completions = <<>>
    /\ reservations = 0
    /\ dispatch = <<>>
    /\ pumping = FALSE
    /\ nextSequence = 1
    /\ violations = 0
    /\ client = [c \in Clients |-> IdleClient]
    /\ shutdown = "up"
    /\ started = 0
    /\ reported = [h \in Handles |-> "None"]

-----------------------------------------------------------------------------
(* Helpers of the critical sections.                                       *)

\* An entry exists as long as something retains it: Sweep removes it at zero.
IsCached(k) == cacheReq[k] > 0 \/ cacheExt[k] > 0

\* Handles that callers may pass in: those a returned call or a callback gave out.
IsKnown(h) ==
    /\ IsLive(slot, h)
    /\ reported[h] # "None" \/ \A c \in Clients : client[c].h = h => client[c].pc \notin Admitting

\* ReleaseReservation does nothing at zero.
Unreserved == IF reservations > 0 THEN reservations - 1 ELSE 0

\* Mutant: any interest that leaves cancels the load.
DetachedOpCancelling(o, h) ==
    IF o = NoHandle THEN op
    ELSE [op EXCEPT ![o] =
            [key |-> op[o].key, interests |-> op[o].interests \ {h},
             cancel |-> TRUE, state |-> op[o].state]]

\* Mutant: an operation nobody wants stays attachable.
DetachedTableKept(o, h) == table

\* FAssetLoadOperationTable::Detach: the last interest to leave cancels a load
\* that is not over and takes the operation out of the table.
DetachedOp(o, h) ==
    IF o = NoHandle THEN op
    ELSE [op EXCEPT ![o] =
            [key |-> op[o].key,
             interests |-> op[o].interests \ {h},
             cancel |-> IF op[o].interests = {h} /\ op[o].state = "Created"
                        THEN TRUE ELSE op[o].cancel,
             state |-> op[o].state]]

DetachedTable(o, h) ==
    IF o # NoHandle /\ op[o].interests = {h} THEN table \ {o} ELSE table

\* FImpl::CompleteRequest: number the completion and queue the callback.  A
\* request without a control (released, or cleared by Shutdown) is not numbered.
CompleteRequest(h, res) ==
    \/ /\ ~control[h].live
       /\ UNCHANGED <<slot, control, completions, reservations, nextSequence, violations>>
    \/ /\ control[h].live
       /\ slot' = Sequenced(slot, h, nextSequence)
       /\ nextSequence' = nextSequence + 1
       /\ \/ /\ control[h].completion # "reserved"
             /\ UNCHANGED <<control, completions, reservations, violations>>
          \/ /\ control[h].completion = "reserved"
             /\ reservations > 0 /\ Len(completions) < MaxCompletions
             /\ control' = [control EXCEPT ![h].completion = "queued"]
             /\ completions' = Append(completions,
                                   [h |-> h, seq |-> nextSequence, res |-> res])
             /\ UNCHANGED <<reservations, violations>>
          \/ /\ control[h].completion = "reserved"
             /\ ~(reservations > 0 /\ Len(completions) < MaxCompletions)
             /\ control' = [control EXCEPT ![h].completion = "none"]
             /\ reservations' = Unreserved
             /\ violations' = violations + 1
             /\ UNCHANGED completions

\* Where a client's call stands, and its next position; a call that returns
\* leaves the client idle.
At(pc, h, k, cb, res) == [pc |-> pc, h |-> h, key |-> k, cb |-> cb, res |-> res]

Goto(c, pc) == client' = [client EXCEPT ![c].pc = pc]

Return(c) == client' = [client EXCEPT ![c] = IdleClient]

-----------------------------------------------------------------------------
(* RequestUntyped.                                                         *)

\* The first look at ShuttingDown; a call that finds it set returns at once.
StartRequest(c, k, cb) ==
    /\ client[c].pc = "idle"
    /\ started < MaxStarts
    /\ ~ShuttingDown
    /\ started' = started + 1
    /\ client' = [client EXCEPT ![c] =
            At(IF cb THEN "reserve" ELSE "allocate", NoHandle, k, cb, "Cancelled")]
    /\ UNCHANGED <<managerVars, workVars, held, completions, reservations, pumpVars,
                   nextSequence, violations, shutdown>>

\* Completions.Reserve, or CapacityExceeded.
Reserve(c) ==
    /\ client[c].pc = "reserve"
    /\ IF reservations < MaxCompletions
       THEN reservations' = reservations + 1 /\ Goto(c, "allocate")
       ELSE UNCHANGED reservations /\ Return(c)
    /\ UNCHANGED <<managerVars, workVars, held, completions, pumpVars, nextSequence,
                   violations, shutdown, started>>

\* Requests.Allocate, or CapacityExceeded after the reservation is given back.
Allocate(c) ==
    /\ client[c].pc = "allocate"
    /\ \/ \E s \in Slots :
            /\ IsFirstFree(slot, s)
            /\ LET g == slot[s].gen + 1 IN
               /\ slot' = [slot EXCEPT ![s] = Allocated(g)]
               /\ client' = [client EXCEPT ![c] =
                        At("admit", <<s, g>>, client[c].key, client[c].cb, "Cancelled")]
       \/ /\ \A s \in Slots : slot[s].occupied
          /\ IF client[c].cb THEN Goto(c, "unreserve") ELSE Return(c)
          /\ UNCHANGED slot
    /\ UNCHANGED <<control, op, table, cacheVars, workVars, held, completions,
                   reservations, pumpVars, nextSequence, violations, shutdown, started>>

\* Mutant: a failed allocation keeps its completion reservation.
UnreserveForgotten(c) ==
    /\ client[c].pc = "unreserve"
    /\ Return(c)
    /\ UNCHANGED <<managerVars, workVars, held, completions, reservations, pumpVars,
                   nextSequence, violations, shutdown, started>>

Unreserve(c) ==
    /\ client[c].pc = "unreserve"
    /\ reservations' = Unreserved
    /\ Return(c)
    /\ UNCHANGED <<managerVars, workVars, held, completions, pumpVars, nextSequence,
                   violations, shutdown, started>>

\* The operation of the table that a request for k attaches to.
Attachable(k) == {o \in table : op[o].key = k}

\* Under StateMutex: the manager closed meanwhile, or the operation is Ready and
\* the cache no longer has its payload (ProcessingFailure).  Nothing stays.
AdmitRejected(c) ==
    LET h == client[c].h
        k == client[c].key
    IN  /\ client[c].pc = "admit"
        /\ \/ ShuttingDown
           \/ ~IsCached(k) /\ \E o \in Attachable(k) : op[o].state = "Ready"
        /\ slot' = Released(slot, h)
        /\ reservations' = IF client[c].cb THEN Unreserved ELSE reservations
        /\ Return(c)
        /\ UNCHANGED <<control, op, table, cacheVars, workVars, held, completions,
                       pumpVars, nextSequence, violations, shutdown, started>>

\* Under StateMutex: a cache hit retains the entry and the request is Ready.
AdmitHit(c) ==
    LET h == client[c].h
        k == client[c].key
    IN  /\ client[c].pc = "admit"
        /\ ~ShuttingDown
        /\ IsCached(k)
        /\ cacheReq' = [cacheReq EXCEPT ![k] = @ + 1]
        /\ control' = [control EXCEPT ![h] = NewControl(k, NoHandle, TRUE, client[c].cb)]
        /\ slot' = Committed(slot, {h}, "Ready")
        /\ client' = [client EXCEPT ![c] = At("complete", h, k, client[c].cb, "Ready")]
        /\ UNCHANGED <<op, table, cacheExt, workVars, held, completions, reservations,
                       pumpVars, nextSequence, violations, shutdown, started>>

\* Under StateMutex: no operation has the key, so the request creates one.
AdmitCreate(c) ==
    LET h == client[c].h
        k == client[c].key
    IN  /\ client[c].pc = "admit"
        /\ ~ShuttingDown
        /\ ~IsCached(k)
        /\ Attachable(k) = {}
        /\ op' = [op EXCEPT ![h] = [key |-> k, interests |-> {h}, cancel |-> FALSE,
                                    state |-> "Created"]]
        /\ table' = table \cup {h}
        /\ control' = [control EXCEPT ![h] = NewControl(k, h, FALSE, client[c].cb)]
        /\ Goto(c, "wait")
        /\ UNCHANGED <<slot, cacheVars, workVars, held, completions, reservations,
                       pumpVars, nextSequence, violations, shutdown, started>>

\* Under StateMutex: join the operation of the key; its failure is this request's.
AdmitJoin(c) ==
    LET h == client[c].h
        k == client[c].key
    IN  /\ client[c].pc = "admit"
        /\ ~ShuttingDown
        /\ ~IsCached(k)
        /\ \E o \in Attachable(k) :
            /\ op[o].state # "Ready"
            /\ op' = [op EXCEPT ![o].interests = @ \cup {h}]
            /\ control' = [control EXCEPT ![h] = NewControl(k, o, FALSE, client[c].cb)]
            /\ IF op[o].state = "Created"
               THEN Goto(c, "wait")
               ELSE client' = [client EXCEPT ![c] =
                                At("commit", h, k, client[c].cb, op[o].state)]
        /\ UNCHANGED <<slot, table, cacheVars, workVars, held, completions, reservations,
                       pumpVars, nextSequence, violations, shutdown, started>>

\* Accepted -> WaitingForDependencies; the creator goes on to Submit, a joiner is done.
Wait(c) ==
    LET h == client[c].h IN
    /\ client[c].pc = "wait"
    /\ slot' = Moved(slot, h, "Accepted", "Waiting")
    /\ IF op[h].state # "None" THEN Goto(c, "submit") ELSE Return(c)
    /\ UNCHANGED <<control, op, table, cacheVars, workVars, held, completions,
                   reservations, pumpVars, nextSequence, violations, shutdown, started>>

\* The request joined a failed operation: CommitTerminal.
CommitJoined(c) ==
    /\ client[c].pc = "commit"
    /\ slot' = Committed(slot, {client[c].h}, client[c].res)
    /\ Goto(c, "complete")
    /\ UNCHANGED <<control, op, table, cacheVars, workVars, held, completions,
                   reservations, pumpVars, nextSequence, violations, shutdown, started>>

\* CompleteRequest of a request terminal at admission, or of a cancelled one.
Complete(c) ==
    /\ client[c].pc \in {"complete", "cancelled"}
    /\ CompleteRequest(client[c].h, client[c].res)
    /\ Return(c)
    /\ UNCHANGED <<op, table, cacheVars, workVars, held, pumpVars, shutdown, started>>

\* Mutant: a stopped executor still accepts work.
SubmitStopped(c) ==
    /\ client[c].pc = "submit"
    /\ IF Len(workQueue) < MaxQueuedWork
       THEN workQueue' = Append(workQueue, client[c].h) /\ Return(c)
       ELSE UNCHANGED workQueue /\ Goto(c, "rollback")
    /\ UNCHANGED <<managerVars, worker, held, completions, reservations, pumpVars,
                   nextSequence, violations, shutdown, started>>

\* Mutant: a full queue drops the work and answers Accepted.
SubmitDropping(c) ==
    /\ client[c].pc = "submit"
    /\ IF ~StopRequested
       THEN /\ workQueue' = IF Len(workQueue) < MaxQueuedWork
                            THEN Append(workQueue, client[c].h) ELSE workQueue
            /\ Return(c)
       ELSE UNCHANGED workQueue /\ Goto(c, "rollback")
    /\ UNCHANGED <<managerVars, worker, held, completions, reservations, pumpVars,
                   nextSequence, violations, shutdown, started>>

\* Workers.Submit: Accepted, or Stopped or QueueFull.
Submit(c) ==
    /\ client[c].pc = "submit"
    /\ IF ~StopRequested /\ Len(workQueue) < MaxQueuedWork
       THEN workQueue' = Append(workQueue, client[c].h) /\ Return(c)
       ELSE UNCHANGED workQueue /\ Goto(c, "rollback")
    /\ UNCHANGED <<managerVars, worker, held, completions, reservations, pumpVars,
                   nextSequence, violations, shutdown, started>>

\* Mutant: the rollback leaves the interest on the operation.
RollbackAttached(c) ==
    LET h == client[c].h IN
    /\ client[c].pc = "rollback"
    /\ reservations' = IF control[h].live /\ control[h].completion = "reserved"
                       THEN Unreserved ELSE reservations
    /\ control' = [control EXCEPT ![h] = NoControl]
    /\ Goto(c, "discard")
    /\ UNCHANGED <<slot, op, table, cacheVars, workVars, held, completions, pumpVars,
                   nextSequence, violations, shutdown, started>>

\* Under StateMutex: take back the interest, the reservation and the control.
Rollback(c) ==
    LET h == client[c].h IN
    /\ client[c].pc = "rollback"
    /\ op' = DetachedOp(h, h)
    /\ table' = DetachedTable(h, h)
    /\ reservations' = IF control[h].live /\ control[h].completion = "reserved"
                       THEN Unreserved ELSE reservations
    /\ control' = [control EXCEPT ![h] = NoControl]
    /\ Goto(c, "discard")
    /\ UNCHANGED <<slot, cacheVars, workVars, held, completions, pumpVars, nextSequence,
                   violations, shutdown, started>>

\* Requests.Release, after a rollback or at the end of ReleaseRequest.
Unslot(c) ==
    /\ client[c].pc \in {"discard", "unslot"}
    /\ slot' = Released(slot, client[c].h)
    /\ Return(c)
    /\ UNCHANGED <<control, op, table, cacheVars, workVars, held, completions,
                   reservations, pumpVars, nextSequence, violations, shutdown, started>>

-----------------------------------------------------------------------------
(* Cancel, ReleaseRequest and GetResultUntyped.                            *)

\* A failed request loses its interest and the call reports Conflict.
Cancel(c, h) ==
    LET o == control[h].op IN
    /\ client[c].pc = "idle"
    /\ IsKnown(h)
    /\ slot[h[1]].state \notin {"Ready", "Cancelled"}
    /\ op' = DetachedOp(o, h)
    /\ table' = DetachedTable(o, h)
    /\ slot' = Committed(slot, {h}, "Cancelled")
    /\ IF CanCommit(slot, h)
       THEN client' = [client EXCEPT ![c] = At("cancelled", h, NoKey, FALSE, "Cancelled")]
       ELSE UNCHANGED client
    /\ UNCHANGED <<control, cacheVars, workVars, held, completions, reservations,
                   pumpVars, nextSequence, violations, shutdown, started>>

\* Mutant: the reservation of a record that a Pump has taken is freed again.
WithdrawCompletionTwice(h) ==
    /\ completions' = SelectSeq(completions, LAMBDA r : r.h # h)
    /\ reservations' = IF control[h].completion # "none" THEN Unreserved ELSE reservations

\* ReleaseRequest gives up the completion of h: Completions.Cancel erases its
\* record and frees the reservation, unless a Pump has taken the record already.
WithdrawCompletion(h) ==
    \/ /\ control[h].completion = "queued"
       /\ \E i \in 1..Len(completions) :
            /\ completions[i].h = h
            /\ \A j \in 1..(i - 1) : completions[j].h # h
            /\ completions' = SubSeq(completions, 1, i - 1)
                                \o SubSeq(completions, i + 1, Len(completions))
       /\ reservations' = Unreserved
    \/ /\ control[h].completion = "queued"
       /\ \A i \in 1..Len(completions) : completions[i].h # h
       /\ UNCHANGED <<completions, reservations>>
    \/ /\ control[h].completion # "queued"
       /\ reservations' = IF control[h].completion = "reserved"
                          THEN Unreserved ELSE reservations
       /\ UNCHANGED completions

\* Mutant: the retention is given back whether or not the request holds one.
ReleaseRequestUnretained(c, h) ==
    LET o == control[h].op
        k == control[h].key
    IN  /\ client[c].pc = "idle"
        /\ IsKnown(h)
        /\ op' = DetachedOp(o, h)
        /\ table' = DetachedTable(o, h)
        /\ cacheReq' = [cacheReq EXCEPT ![k] = @ - 1]
        /\ WithdrawCompletion(h)
        /\ control' = [control EXCEPT ![h] = NoControl]
        /\ client' = [client EXCEPT ![c] = At("unslot", h, NoKey, FALSE, "Cancelled")]
        /\ UNCHANGED <<slot, cacheExt, workVars, held, pumpVars, nextSequence,
                       violations, shutdown, started>>

\* The critical section of ReleaseRequest; Unslot is the rest.
ReleaseRequest(c, h) ==
    LET o == control[h].op
        k == control[h].key
    IN  /\ client[c].pc = "idle"
        /\ IsKnown(h)
        /\ op' = DetachedOp(o, h)
        /\ table' = DetachedTable(o, h)
        /\ cacheReq' = IF control[h].cache /\ cacheReq[k] > 0
                       THEN [cacheReq EXCEPT ![k] = @ - 1] ELSE cacheReq
        /\ WithdrawCompletion(h)
        /\ control' = [control EXCEPT ![h] = NoControl]
        /\ client' = [client EXCEPT ![c] = At("unslot", h, NoKey, FALSE, "Cancelled")]
        /\ UNCHANGED <<slot, cacheExt, workVars, held, pumpVars, nextSequence,
                       violations, shutdown, started>>

\* GetResultUntyped up to the end of its critical section: the request is Ready
\* and has a control, whose key the call keeps.
FindResult(c, h) ==
    /\ client[c].pc = "idle"
    /\ IsKnown(h)
    /\ slot[h[1]].state = "Ready"
    /\ control[h].live
    /\ held[control[h].key] < MaxHeld
    /\ client' = [client EXCEPT ![c] =
            At("acquire", h, control[h].key, FALSE, "Cancelled")]
    /\ UNCHANGED <<managerVars, workVars, held, completions, reservations, pumpVars,
                   nextSequence, violations, shutdown, started>>

\* Cache.AcquireExternal, or NotFound.
AcquireExternal(c) ==
    LET k == client[c].key IN
    /\ client[c].pc = "acquire"
    /\ IF IsCached(k)
       THEN /\ cacheExt' = [cacheExt EXCEPT ![k] = @ + 1]
            /\ held' = [held EXCEPT ![k] = @ + 1]
       ELSE UNCHANGED <<cacheExt, held>>
    /\ Return(c)
    /\ UNCHANGED <<slot, control, op, table, cacheReq, workVars, completions, reservations,
                   pumpVars, nextSequence, violations, shutdown, started>>

\* Mutant: the last external handle takes the entry with it.
DropHandleSweeping(k) ==
    /\ held[k] > 0
    /\ held' = [held EXCEPT ![k] = @ - 1]
    /\ cacheExt' = [cacheExt EXCEPT ![k] = @ - 1]
    /\ cacheReq' = IF cacheExt[k] = 1 THEN [cacheReq EXCEPT ![k] = 0] ELSE cacheReq
    /\ UNCHANGED <<slot, control, op, table, workVars, completions, reservations,
                   pumpVars, nextSequence, violations, client, shutdown, started>>

\* The last copy of a typed handle goes: ReleaseExternal.
DropHandle(k) ==
    /\ held[k] > 0
    /\ held' = [held EXCEPT ![k] = @ - 1]
    /\ cacheExt' = IF cacheExt[k] > 0 THEN [cacheExt EXCEPT ![k] = @ - 1] ELSE cacheExt
    /\ UNCHANGED <<slot, control, op, table, cacheReq, workVars, completions, reservations,
                   pumpVars, nextSequence, violations, client, shutdown, started>>

-----------------------------------------------------------------------------
(* FAssetWorkerExecutor and the work RequestUntyped submits.               *)

\* Mutant: queued work whose token is cancelled is thrown away.
TakeSkipping(w) ==
    /\ worker[w].pc = "idle"
    /\ workQueue # <<>>
    /\ IF op[Head(workQueue)].cancel
       THEN UNCHANGED worker
       ELSE worker' = [worker EXCEPT ![w] = Busy("begin", Head(workQueue), "Failed", {})]
    /\ workQueue' = Tail(workQueue)
    /\ UNCHANGED <<managerVars, held, completions, reservations, pumpVars,
                   nextSequence, violations, client, shutdown, started>>

Take(w) ==
    /\ worker[w].pc = "idle"
    /\ workQueue # <<>>
    /\ worker' = [worker EXCEPT ![w] = Busy("begin", Head(workQueue), "Failed", {})]
    /\ workQueue' = Tail(workQueue)
    /\ UNCHANGED <<managerVars, held, completions, reservations, pumpVars,
                   nextSequence, violations, client, shutdown, started>>

\* Mutant: a stopped worker leaves the queue as it is.
ExitUndrained(w) ==
    /\ worker[w].pc = "idle"
    /\ StopRequested
    /\ worker' = [worker EXCEPT ![w].pc = "exited"]
    /\ UNCHANGED <<managerVars, workQueue, held, completions, reservations, pumpVars,
                   nextSequence, violations, client, shutdown, started>>

\* Mutant: a worker looks at the stop flag only when it is woken by work.
ExitOnWork(w) ==
    /\ worker[w].pc = "idle"
    /\ workQueue # <<>>
    /\ StopRequested
    /\ worker' = [worker EXCEPT ![w].pc = "exited"]
    /\ UNCHANGED <<managerVars, workQueue, held, completions, reservations, pumpVars,
                   nextSequence, violations, client, shutdown, started>>

\* A stopped executor drains its queue before its threads return.
Exit(w) ==
    /\ worker[w].pc = "idle"
    /\ workQueue = <<>>
    /\ StopRequested
    /\ worker' = [worker EXCEPT ![w].pc = "exited"]
    /\ UNCHANGED <<managerVars, workQueue, held, completions, reservations, pumpVars,
                   nextSequence, violations, client, shutdown, started>>

\* Under StateMutex: the interests that wait are Loading.
BeginLoad(w) ==
    LET o == worker[w].op IN
    /\ worker[w].pc = "begin"
    /\ slot' = [s \in Slots |->
                    IF /\ slot[s].state = "Waiting"
                       /\ \E h \in op[o].interests : h[1] = s /\ IsLive(slot, h)
                    THEN [slot[s] EXCEPT !.state = "Loading"]
                    ELSE slot[s]]
    /\ worker' = [worker EXCEPT ![w].pc = "loading"]
    /\ UNCHANGED <<control, op, table, cacheVars, workQueue, held, completions,
                   reservations, pumpVars, nextSequence, violations, client,
                   shutdown, started>>

\* LoadClosure returns: the payload, an error, or Cancelled once the token is.
\* A load that does not look at its token may still succeed.
FinishLoad(w) ==
    /\ worker[w].pc = "loading"
    /\ \E res \in {"Ready", "Failed"} \cup
                  (IF op[worker[w].op].cancel THEN {"Cancelled"} ELSE {}) :
            worker' = [worker EXCEPT ![w] = Busy("loaded", worker[w].op, res, {})]
    /\ UNCHANGED <<managerVars, workQueue, held, completions, reservations, pumpVars,
                   nextSequence, violations, client, shutdown, started>>

\* The result that is committed: a payload nobody waits for is not published.
CommittedState(w) ==
    IF worker[w].res = "Ready" /\ op[worker[w].op].interests = {}
    THEN "Failed" ELSE worker[w].res

\* Under StateMutex: publish the payload once for all interests, give the
\* operation and each interest its terminal state, reclaim the operation if
\* nobody is interested.  Publish itself can fail: then the load has failed.
CommitLoad(w) ==
    LET o == worker[w].op
        interests == op[o].interests
        state == CommittedState(w)
        k == op[o].key
        committed == {h \in interests : CanCommit(slot, h)}
    IN
    /\ worker[w].pc = "loaded"
    /\ op[o].state = "Created"
    /\ IF state = "Ready"
       THEN /\ cacheReq' = [cacheReq EXCEPT ![k] = @ + Cardinality(interests)]
            /\ control' = [h \in Handles |->
                    IF h \in interests /\ control[h].live
                    THEN [control[h] EXCEPT !.cache = TRUE] ELSE control[h]]
       ELSE UNCHANGED <<cacheReq, control>>
    /\ op' = [op EXCEPT ![o].state = state]
    /\ slot' = Committed(slot, interests, state)
    /\ table' = IF interests = {} THEN table \ {o} ELSE table
    /\ worker' = [worker EXCEPT ![w] =
            IF committed = {} THEN IdleWorker
            ELSE Busy("notify", o, state, committed)]
    /\ UNCHANGED <<cacheExt, workQueue, held, completions, reservations, pumpVars,
                   nextSequence, violations, client, shutdown, started>>

\* CompleteRequest for each interest the worker committed.
Notify(w) ==
    /\ worker[w].pc = "notify"
    /\ \E h \in worker[w].pending :
        /\ CompleteRequest(h, worker[w].res)
        /\ worker' = [worker EXCEPT ![w] =
                IF @.pending = {h} THEN IdleWorker
                ELSE Busy("notify", @.op, @.res, @.pending \ {h})]
    /\ UNCHANGED <<op, table, cacheVars, workQueue, held, pumpVars, client, shutdown, started>>

-----------------------------------------------------------------------------
(* Completions.Pump.  A Pump during another one (from a callback or from   *)
(* another thread) returns ReentrantPump and changes nothing, so one pump  *)
(* stands for all threads that pump.  A callback may call the manager: its *)
(* calls are those any client makes between two dispatches.                *)

\* Mutant: the newest records are taken first.
PumpTakeNewest ==
    /\ ~pumping
    /\ \E n \in 1..Len(completions) :
        /\ dispatch' = SubSeq(completions, Len(completions) - n + 1, Len(completions))
        /\ completions' = SubSeq(completions, 1, Len(completions) - n)
        /\ reservations' = reservations - n
    /\ pumping' = TRUE
    /\ UNCHANGED <<managerVars, workVars, held, nextSequence, violations, client,
                   shutdown, started, reported>>

PumpTake ==
    /\ ~pumping
    /\ \E n \in 1..Len(completions) :
        /\ dispatch' = SubSeq(completions, 1, n)
        /\ completions' = SubSeq(completions, n + 1, Len(completions))
        /\ reservations' = reservations - n
    /\ pumping' = TRUE
    /\ UNCHANGED <<managerVars, workVars, held, nextSequence, violations, client,
                   shutdown, started, reported>>

PumpCall ==
    /\ dispatch # <<>>
    /\ reported' = [reported EXCEPT ![Head(dispatch).h] = Head(dispatch).res]
    /\ dispatch' = Tail(dispatch)
    /\ UNCHANGED <<managerVars, workVars, held, completions, reservations, pumping,
                   nextSequence, violations, client, shutdown, started>>

PumpEnd ==
    /\ pumping
    /\ dispatch = <<>>
    /\ pumping' = FALSE
    /\ UNCHANGED <<managerVars, workVars, held, completions, reservations, dispatch,
                   nextSequence, violations, client, shutdown, started, reported>>

-----------------------------------------------------------------------------
(* Shutdown.                                                               *)

\* Under StateMutex: close admission and cancel the operation of each request.
BeginShutdown ==
    /\ WithShutdown
    /\ shutdown = "up"
    /\ shutdown' = "stopping"
    /\ op' = [o \in Handles |->
                IF \E h \in Handles : control[h].live /\ control[h].op = o
                THEN [op[o] EXCEPT !.cancel = TRUE] ELSE op[o]]
    /\ UNCHANGED <<slot, control, table, cacheVars, workVars, held, completions,
                   reservations, pumpVars, nextSequence, violations, client, started>>

RequestStop ==
    /\ shutdown = "stopping"
    /\ shutdown' = "joining"
    /\ UNCHANGED <<managerVars, workVars, held, completions, reservations, pumpVars,
                   nextSequence, violations, client, started>>

Join ==
    /\ shutdown = "joining"
    /\ \A w \in Workers : worker[w].pc = "exited"
    /\ shutdown' = "clearing"
    /\ UNCHANGED <<managerVars, workVars, held, completions, reservations, pumpVars,
                   nextSequence, violations, client, started>>

\* Mutant: the queued callbacks go with the controls.
ClearControlsAndCallbacks ==
    /\ shutdown = "clearing"
    /\ shutdown' = "dropping"
    /\ table' = {}
    /\ control' = [h \in Handles |-> NoControl]
    /\ completions' = <<>>
    /\ reservations' = reservations - Len(completions)
    /\ UNCHANGED <<slot, op, cacheVars, workVars, held, pumpVars, nextSequence, violations,
                   client, started>>

\* Under StateMutex: the controls and operations go, their queued callbacks stay.
ClearControls ==
    /\ shutdown = "clearing"
    /\ shutdown' = "dropping"
    /\ table' = {}
    /\ control' = [h \in Handles |-> NoControl]
    /\ UNCHANGED <<slot, op, cacheVars, workVars, held, completions, reservations,
                   pumpVars, nextSequence, violations, client, started>>

\* Requests.DropPayloads, Cache.ClearManagerOwnership, BoundGeneration.Reset.
DropOwnership ==
    /\ shutdown = "dropping"
    /\ shutdown' = "down"
    /\ cacheReq' = [k \in Keys |-> 0]
    /\ cacheExt' = [k \in Keys |-> 0]
    /\ UNCHANGED <<slot, control, op, table, workVars, held, completions,
                   reservations, pumpVars, nextSequence, violations, client, started>>

-----------------------------------------------------------------------------
\* Nothing is under way: only a new call would change anything.
Quiescent ==
    /\ \A c \in Clients : client[c].pc = "idle"
    /\ \A w \in Workers : worker[w].pc \in {"idle", "exited"}
    /\ workQueue = <<>>
    /\ completions = <<>>
    /\ shutdown \in {"up", "down"}
    /\ UNCHANGED vars

Request(c) ==
    \/ Reserve(c) \/ Allocate(c) \/ Unreserve(c)
    \/ AdmitRejected(c) \/ AdmitHit(c) \/ AdmitCreate(c) \/ AdmitJoin(c)
    \/ Wait(c) \/ CommitJoined(c) \/ Complete(c) \/ Submit(c)
    \/ Rollback(c) \/ Unslot(c) \/ AcquireExternal(c)

Call(c) ==
    \/ \E k \in Keys, cb \in BOOLEAN : StartRequest(c, k, cb)
    \/ \E h \in Handles : Cancel(c, h) \/ ReleaseRequest(c, h) \/ FindResult(c, h)

Work(w) ==
    Take(w) \/ Exit(w) \/ BeginLoad(w) \/ FinishLoad(w) \/ CommitLoad(w) \/ Notify(w)

Pump == PumpTake \/ PumpCall \/ PumpEnd

Shutdown == BeginShutdown \/ RequestStop \/ Join \/ ClearControls \/ DropOwnership

Next ==
    \/ \E c \in Clients : Call(c) \/ Request(c)
    \/ \E w \in Workers : Work(w)
    \/ \E k \in Keys : DropHandle(k)
    \/ Pump
    \/ Shutdown
    \/ Quiescent

Spec == Init /\ [][Next]_vars

\* A call that has begun, a worker with work, a pump that took records and a
\* Shutdown that has begun go on; no caller has to call anything.
FairSpec ==
    /\ Spec
    /\ \A c \in Clients : WF_vars(Request(c))
    /\ \A w \in Workers : WF_vars(Work(w))
    /\ WF_vars(Pump)
    /\ WF_vars(RequestStop \/ Join \/ ClearControls \/ DropOwnership)

-----------------------------------------------------------------------------
(* Safety.                                                                 *)

\* Every interest of an operation belongs to a request that still has its
\* control and slot and waits on that operation under the same key; as long as
\* the operation runs the request is not terminal.  (RequestUntyped, Cancel,
\* ReleaseRequest and the rollback keep the three tables in step.)
InterestsAreOwned ==
    ~Cleared =>
        \A o \in Handles : \A h \in op[o].interests :
            /\ control[h].live /\ control[h].op = o /\ control[h].key = op[o].key
            /\ IsLive(slot, h)
            /\ op[o].state = "Created" => slot[h[1]].state \notin TerminalStates

\* Attach finds at most one operation of a key, each still wanted by someone; the
\* payload of a Ready one is in the cache, so a request that misses the cache
\* never meets a Ready operation.
TableIsSound ==
    \A o \in table :
        /\ op[o].interests # {} /\ op[o].state # "None"
        /\ Attachable(op[o].key) = {o}
        /\ op[o].state = "Ready" /\ ~Cleared => IsCached(op[o].key)

\* The cache counts each retention once: a request interest for each control that
\* holds one, an external handle for each typed handle a caller holds.
RetentionIsExact ==
    ~Cleared =>
        \A k \in Keys :
            /\ cacheReq[k] = Cardinality({h \in Handles :
                                    control[h].cache /\ control[h].key = k})
            /\ cacheExt[k] = held[k]

\* GetResult finds the payload of every Ready request that is not released.
ReadyIsRetained ==
    ~Cleared =>
        \A h \in Handles :
            control[h].live /\ IsLive(slot, h) /\ slot[h[1]].state = "Ready"
                => IsCached(control[h].key)

\* A completion reservation is held by a queued record, by a control that waits
\* for its completion or by a call that is being admitted, and by nothing else:
\* none is lost and none is given back twice.
Reserving == {c \in Clients : client[c].cb /\ client[c].pc \in
                                {"allocate", "unreserve", "admit"}}

ReservationsAreExact ==
    /\ reservations >= Len(completions)
    /\ ~Cleared => reservations = Len(completions) + Cardinality(Reserving)
                        + Cardinality({h \in Handles : control[h].completion = "reserved"})

\* A terminal commit never finds the completion queue full.
CompletionsNeverRefused == violations = 0

\* Callbacks run in the order in which the requests became complete.
CompletionsAreOrdered ==
    LET records == dispatch \o completions IN
    \A i, j \in 1..Len(records) : i < j => records[i].seq < records[j].seq

\* Once Join returns no worker runs and no work is queued, nor ever will be, so
\* what Shutdown releases next has no other user.
WorkersAreGone ==
    shutdown \in {"clearing", "dropping", "down"} =>
        workQueue = <<>> /\ \A w \in Workers : worker[w].pc = "exited"

\* A request that created its operation has not submitted it, or could not.
Creating(c) == \/ client[c].pc \in {"submit", "rollback"}
               \/ client[c].pc = "wait" /\ op[client[c].h].state # "None"

\* The load of o is queued, or a worker has it and has not committed what it returned.
AtWork(o) == \/ \E i \in 1..Len(workQueue) : workQueue[i] = o
             \/ \E w \in Workers : /\ worker[w].op = o
                                  /\ worker[w].pc \in {"begin", "loading", "loaded"}

\* No operation is submitted twice: it has one place in the queue, or one worker.
WorkIsOnce ==
    /\ \A i, j \in 1..Len(workQueue) : workQueue[i] = workQueue[j] => i = j
    /\ \A v, w \in Workers : worker[v].op = worker[w].op /\ v # w => worker[v].op = NoHandle
    /\ \A i \in 1..Len(workQueue), w \in Workers : workQueue[i] # worker[w].op

\* An operation that is not over is queued or with one worker, which can commit it when
\* its load returns, as long as the request that created it has not been given up; or that
\* request is still to submit it.  So a request that waits does not wait for nothing,
\* unless Submit was refused to another one that had created the operation.
LoadsAreUnderWay ==
    /\ WorkIsOnce
    /\ \A o \in Handles :
        /\ AtWork(o) => op[o].state = "Created"
        /\ op[o].state = "Created" /\ control[o].live =>
                AtWork(o) \/ \E c \in Clients : Creating(c) /\ client[c].h = o

\* Work that was accepted ends with the commit of its operation: nothing else takes it
\* from the queue or a worker, neither a cancellation nor Shutdown.
AcceptedWorkIsCommitted ==
    [][\A o \in Handles : AtWork(o) /\ ~AtWork(o)' => op'[o].state \in TerminalStates]_vars

\* A request is cancelled by a Cancel of its own handle or by Shutdown, never by
\* the cancellation of another request that shares its load.
CancelledOnlyByItself ==
    [][\A h \in Handles :
         (/\ CanCommit(slot, h) /\ IsLive(slot', h) /\ slot'[h[1]].state = "Cancelled")
            => \/ ShuttingDown
               \/ \E c \in Clients : client'[c].pc = "cancelled" /\ client'[c].h = h
                                     /\ client[c].pc = "idle"]_vars

-----------------------------------------------------------------------------
(* Implementation of AssetRequests.                                        *)

RequestOf(h) ==
    IF IsLive(slot, h)
    THEN IF slot[h[1]].state \in TerminalStates THEN slot[h[1]].state ELSE "Pending"
    ELSE IF h[2] <= slot[h[1]].gen THEN "Gone" ELSE "Unused"

Requests == INSTANCE AssetRequests
                WITH request <- [h \in Handles |-> RequestOf(h)],
                     reported <- reported

\* Each handle goes through the life AssetRequests gives it: one terminal state,
\* never changed before release, and at most one callback with that result.
ImplementsAssetRequests == Requests!Spec

-----------------------------------------------------------------------------
(* Liveness.                                                               *)

\* The load the request waits on is queued or running.
IsBeingLoaded(h) ==
    \E o \in Handles :
        /\ h \in op[o].interests
        /\ \/ \E i \in 1..Len(workQueue) : workQueue[i] = o
           \/ \E w \in Workers : worker[w].op = o

\* A request whose load was queued becomes terminal unless it is released first,
\* with or without a Shutdown meanwhile.
QueuedLoadsSettle ==
    \A h \in Handles :
        IsBeingLoaded(h) ~> ~IsLive(slot, h) \/ slot[h[1]].state \in TerminalStates

\* A queued callback runs unless its request is released first; a Shutdown, which forgets
\* the controls, leaves it to be pumped.
CallbacksRun ==
    \A h \in Handles :
        control[h].completion = "queued" ~> reported[h] # "None" \/ ~IsLive(slot, h)

\* Shutdown returns: the workers finish what is queued and exit.
ShutdownReturns == (shutdown = "stopping") ~> (shutdown = "down")

-----------------------------------------------------------------------------
(* What the contracts of the manager state and the code does not do.       *)

\* runtime-manager-api.md: Shutdown makes every accepted request terminal.
ShutdownMakesTerminal ==
    shutdown = "down" /\ (\A c \in Clients : client[c].pc = "idle") =>
        \A s \in Slots : slot[s].occupied => slot[s].state \in TerminalStates

\* request-lifecycle.md: at most one active physical operation per load key.
OneLoadPerKey ==
    \A v, w \in Workers :
        worker[v].pc = "loading" /\ worker[w].pc = "loading" /\ v # w
            => op[worker[v].op].key # op[worker[w].op].key

\* runtime-manager-api.md: ReleaseRequest drops the undelivered-result interest,
\* so no callback runs for a handle that has been released.
NoCallbackAfterRelease ==
    [][PumpCall => IsLive(slot, Head(dispatch).h)]_vars
=============================================================================
