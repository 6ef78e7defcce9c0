------------------------- MODULE AssetManager_proofs -------------------------
(***************************************************************************)
(* Theorems about AssetManager for every value of its constants.           *)
(***************************************************************************)
EXTENDS AssetManager, FiniteSetTheorems, SequenceTheorems, TLAPS

-----------------------------------------------------------------------------
(* Typing.                                                                 *)

\* A client that has been given a handle, or cancels one, names a real handle.
ClientHandles ==
    \A c \in Clients :
        client[c].pc \in Admitting \cup {"cancelled"} => client[c].h \in Handles

\* A worker that is not idle has taken an operation.
WorkerHandles ==
    \A w \in Workers :
        worker[w].pc \notin {"idle", "exited"} => worker[w].op \in Handles

\* An operation in the table has been created.
TableOps == \A o \in table : op[o].state # "None"

TypeInv == TypeOK /\ ClientHandles /\ WorkerHandles /\ TableOps

\* What the slot operators return are slots again.
LEMMA SlotTypes ==
    ASSUME NEW slots \in [Slots -> SlotRecords], NEW h \in Handles \cup {NoHandle}
    PROVE  /\ \A s \in Slots : \A g \in 1..MaxGeneration : Allocated(g) \in SlotRecords
           /\ \A from, to \in RequestStates :
                Moved(slots, h, from, to) \in [Slots -> SlotRecords]
           /\ \A H \in SUBSET Handles, state \in TerminalStates :
                Committed(slots, H, state) \in [Slots -> SlotRecords]
           /\ \A n \in Nat : Sequenced(slots, h, n) \in [Slots -> SlotRecords]
           /\ Released(slots, h) \in [Slots -> SlotRecords]
<1>1. h # NoHandle => h[1] \in Slots /\ h[2] \in 1..MaxGeneration
  BY DEF Handles
<1>2. \A s \in Slots : \A g \in 1..MaxGeneration : Allocated(g) \in SlotRecords
  BY HandleAssumption DEF Allocated, SlotRecords, RequestStates
<1>3. \A from, to \in RequestStates :
         Moved(slots, h, from, to) \in [Slots -> SlotRecords]
  BY DEF Moved, SlotRecords
<1>4. \A H \in SUBSET Handles, state \in TerminalStates :
         Committed(slots, H, state) \in [Slots -> SlotRecords]
  BY DEF Committed, SlotRecords, RequestStates, TerminalStates
<1>5. \A n \in Nat : Sequenced(slots, h, n) \in [Slots -> SlotRecords]
  BY DEF Sequenced, SlotRecords
<1>6. Released(slots, h) \in [Slots -> SlotRecords]
  BY <1>1, HandleAssumption DEF Released, FreeSlot, SlotRecords, RequestStates, IsLive
<1> QED BY <1>2, <1>3, <1>4, <1>5, <1>6

\* Updates of one field.
LEMMA ControlUpdates ==
    ASSUME NEW f \in [Handles -> Controls], NEW h \in Handles
    PROVE  /\ [f[h] EXCEPT !.cache = TRUE] \in Controls
           /\ \A v \in {"none", "reserved", "queued"} :
                [f EXCEPT ![h].completion = v] \in [Handles -> Controls]
<1>1. f[h] \in Controls
  OBVIOUS
<1>2. [f[h] EXCEPT !.cache = TRUE] \in Controls
  BY <1>1 DEF Controls
<1>3. ASSUME NEW v \in {"none", "reserved", "queued"}
      PROVE  [f EXCEPT ![h].completion = v] \in [Handles -> Controls]
  <2>1. [f[h] EXCEPT !.completion = v] \in Controls
    BY <1>1 DEF Controls
  <2> QED BY <2>1
<1> QED BY <1>2, <1>3

LEMMA OperationUpdates ==
    ASSUME NEW f \in [Handles -> Operations], NEW o \in Handles
    PROVE  /\ [f[o] EXCEPT !.cancel = TRUE] \in Operations
           /\ [f[o] EXCEPT !.cancel = TRUE].state = f[o].state
           /\ \A state \in OpStates : [f EXCEPT ![o].state = state] \in [Handles -> Operations]
<1>1. f[o] \in Operations
  OBVIOUS
<1>2. [f[o] EXCEPT !.cancel = TRUE] \in Operations
  BY <1>1 DEF Operations
<1>3. [f[o] EXCEPT !.cancel = TRUE].state = f[o].state
  BY <1>1 DEF Operations
<1>4. ASSUME NEW state \in OpStates
      PROVE  [f EXCEPT ![o].state = state] \in [Handles -> Operations]
  <2>1. [f[o] EXCEPT !.state = state] \in Operations
    BY <1>1 DEF Operations
  <2> QED BY <2>1
<1> QED BY <1>2, <1>3, <1>4

\* CompleteRequest keeps the types of what it writes.
LEMMA CompleteRequestTypes ==
    ASSUME TypeOK, NEW h \in Handles, NEW res \in TerminalStates,
           CompleteRequest(h, res)
    PROVE  /\ slot' \in [Slots -> SlotRecords]
           /\ control' \in [Handles -> Controls]
           /\ completions' \in Seq(CompletionRecords)
           /\ reservations' \in Int
           /\ nextSequence' \in Nat \ {0}
           /\ violations' \in Nat
<1>0. /\ slot \in [Slots -> SlotRecords] /\ control \in [Handles -> Controls]
      /\ completions \in Seq(CompletionRecords) /\ reservations \in Int
      /\ nextSequence \in Nat \ {0} /\ violations \in Nat
  BY DEF TypeOK
<1>1. CASE ~control[h].live
  <2>1. UNCHANGED <<slot, control, completions, reservations, nextSequence, violations>>
    BY <1>1 DEF CompleteRequest
  <2> QED BY <1>0, <2>1
<1>2. CASE control[h].live
  <2>1. slot' \in [Slots -> SlotRecords] /\ nextSequence' \in Nat \ {0}
    <3>1. slot' = Sequenced(slot, h, nextSequence) /\ nextSequence' = nextSequence + 1
      BY <1>2 DEF CompleteRequest
    <3>2. nextSequence \in Nat
      BY <1>0
    <3>3. Sequenced(slot, h, nextSequence) \in [Slots -> SlotRecords]
      BY <1>0, <3>2, SlotTypes
    <3> QED BY <1>0, <3>1, <3>3
  <2>2. CASE control[h].completion # "reserved"
    <3>1. UNCHANGED <<control, completions, reservations, violations>>
      BY <1>2, <2>2 DEF CompleteRequest
    <3> QED BY <1>0, <2>1, <3>1
  <2>3. CASE control[h].completion = "reserved"
    <3>1. CASE reservations > 0 /\ Len(completions) < MaxCompletions
      <4>1. /\ control' = [control EXCEPT ![h].completion = "queued"]
            /\ completions' = Append(completions,
                                  [h |-> h, seq |-> nextSequence, res |-> res])
            /\ UNCHANGED <<reservations, violations>>
        BY <1>2, <2>3, <3>1 DEF CompleteRequest
      <4>2. control' \in [Handles -> Controls]
        BY <1>0, <4>1, ControlUpdates
      <4>3. [h |-> h, seq |-> nextSequence, res |-> res] \in CompletionRecords
        BY <1>0 DEF CompletionRecords
      <4>4. completions' \in Seq(CompletionRecords)
        BY <1>0, <4>1, <4>3
      <4> QED BY <1>0, <2>1, <4>1, <4>2, <4>4
    <3>2. CASE ~(reservations > 0 /\ Len(completions) < MaxCompletions)
      <4>1. /\ control' = [control EXCEPT ![h].completion = "none"]
            /\ completions' = completions
            /\ reservations' = Unreserved
            /\ violations' = violations + 1
        BY <1>2, <2>3, <3>2 DEF CompleteRequest
      <4>2. control' \in [Handles -> Controls]
        BY <1>0, <4>1, ControlUpdates
      <4> QED BY <1>0, <2>1, <4>1, <4>2 DEF Unreserved
    <3> QED BY <3>1, <3>2
  <2> QED BY <2>2, <2>3
<1> QED BY <1>1, <1>2

\* So does Detach.
LEMMA DetachTypes ==
    ASSUME TypeOK, NEW o \in Handles \cup {NoHandle}, NEW h
    PROVE  /\ DetachedOp(o, h) \in [Handles -> Operations]
           /\ DetachedTable(o, h) \subseteq Handles
           /\ TableOps => (op' = DetachedOp(o, h) /\ table' = DetachedTable(o, h) => TableOps')
<1> USE DEF TypeOK
<1>1. DetachedOp(o, h) \in [Handles -> Operations]
  BY DEF DetachedOp, Operations
<1>2. DetachedTable(o, h) \subseteq Handles
  BY DEF DetachedTable
<1>3. ASSUME TableOps, op' = DetachedOp(o, h), table' = DetachedTable(o, h)
      PROVE  TableOps'
  BY <1>3 DEF DetachedOp, DetachedTable, TableOps, Operations
<1> QED BY <1>1, <1>2, <1>3

LEMMA NoControlType == NoControl \in Controls
BY DEF NoControl, Controls

LEMMA WithdrawTypes ==
    ASSUME TypeOK, NEW h \in Handles, WithdrawCompletion(h)
    PROVE  completions' \in Seq(CompletionRecords) /\ reservations' \in Int
<1>1. reservations' = reservations \/ reservations' = Unreserved
  BY DEF WithdrawCompletion
<1>2. CASE completions' = completions
  BY <1>1, <1>2 DEF Unreserved, TypeOK
<1>3. CASE completions' # completions
  <2>1. PICK i \in 1..Len(completions) :
            completions' = SubSeq(completions, 1, i - 1)
                             \o SubSeq(completions, i + 1, Len(completions))
    BY <1>3 DEF WithdrawCompletion
  <2>2. /\ SubSeq(completions, 1, i - 1) \in Seq(CompletionRecords)
        /\ SubSeq(completions, i + 1, Len(completions)) \in Seq(CompletionRecords)
    BY SubSeqProperties DEF TypeOK
  <2>3. completions' \in Seq(CompletionRecords)
    BY <2>1, <2>2, ConcatProperties
  <2> QED BY <1>1, <2>3 DEF Unreserved, TypeOK
<1> QED BY <1>2, <1>3

LEMMA InitTypes == Init => TypeInv
<1> USE HandleAssumption, ManagerAssumption
<1>1. FreeSlot \in SlotRecords
  BY DEF FreeSlot, SlotRecords, RequestStates
<1>2. NoControl \in Controls /\ NoOperation \in Operations
  BY DEF NoControl, Controls, NoOperation, Operations, OpStates
<1>3. IdleWorker \in WorkerRecords
  BY DEF IdleWorker, Busy, WorkerRecords, WorkerPcs, TerminalStates
<1>4. IdleClient \in ClientRecords /\ IdleClient.pc = "idle"
  BY DEF IdleClient, ClientRecords, ClientPcs, TerminalStates
<1>5. ASSUME Init PROVE TypeOK
  <2>1. slot \in [Slots -> SlotRecords]
    BY <1>1, <1>5 DEF Init
  <2>2. control \in [Handles -> Controls] /\ op \in [Handles -> Operations]
    BY <1>2, <1>5 DEF Init
  <2>3. worker \in [Workers -> WorkerRecords] /\ client \in [Clients -> ClientRecords]
    BY <1>3, <1>4, <1>5 DEF Init
  <2>4. workQueue \in Seq(Handles) /\ completions \in Seq(CompletionRecords)
        /\ dispatch \in Seq(CompletionRecords)
    BY <1>5 DEF Init
  <2>5. cacheReq \in [Keys -> Nat] /\ cacheExt \in [Keys -> Nat] /\ held \in [Keys -> Nat]
        /\ reported \in [Handles -> TerminalStates \cup {"None"}]
    BY <1>5 DEF Init
  <2>7. pumping \in BOOLEAN
    BY <1>5 DEF Init
  <2>6. /\ table \subseteq Handles
        /\ reservations \in Int /\ nextSequence \in Nat \ {0} /\ violations \in Nat
        /\ shutdown \in ShutdownPcs /\ started \in Nat
    BY <1>5 DEF Init, ShutdownPcs
  <2> QED BY <2>1, <2>2, <2>3, <2>4, <2>5, <2>6, <2>7 DEF TypeOK
<1>6. Init => ClientHandles
  BY <1>4 DEF Init, ClientHandles, Admitting
<1>7. Init => WorkerHandles /\ TableOps
  BY DEF Init, WorkerHandles, TableOps, IdleWorker, Busy
<1> QED BY <1>5, <1>6, <1>7 DEF TypeInv

\* A client moves to a well typed position, and keeps or gets a real handle.
LEMMA ClientMoves ==
    ASSUME client \in [Clients -> ClientRecords], ClientHandles, NEW c \in Clients
    PROVE  /\ \A r \in ClientRecords :
                /\ client' = [client EXCEPT ![c] = r]
                /\ r.pc \in Admitting \cup {"cancelled"} => r.h \in Handles
                => client' \in [Clients -> ClientRecords] /\ ClientHandles'
           /\ \A pc \in ClientPcs :
                /\ Goto(c, pc)
                /\ pc \in Admitting \cup {"cancelled"} => client[c].h \in Handles
                => client' \in [Clients -> ClientRecords] /\ ClientHandles'
           /\ Return(c) => client' \in [Clients -> ClientRecords] /\ ClientHandles'
           /\ UNCHANGED client => client' \in [Clients -> ClientRecords] /\ ClientHandles'
<1>1. \A r \in ClientRecords :
         /\ client' = [client EXCEPT ![c] = r]
         /\ r.pc \in Admitting \cup {"cancelled"} => r.h \in Handles
         => client' \in [Clients -> ClientRecords] /\ ClientHandles'
  BY DEF ClientHandles
<1>2. \A pc \in ClientPcs :
         /\ Goto(c, pc)
         /\ pc \in Admitting \cup {"cancelled"} => client[c].h \in Handles
         => client' \in [Clients -> ClientRecords] /\ ClientHandles'
  BY DEF Goto, ClientRecords, ClientHandles
<1>3. IdleClient \in ClientRecords /\ IdleClient.pc \notin Admitting \cup {"cancelled"}
  BY DEF IdleClient, ClientRecords, ClientPcs, TerminalStates, Admitting
<1>4. Return(c) => client' \in [Clients -> ClientRecords] /\ ClientHandles'
  BY <1>1, <1>3 DEF Return
<1>5. UNCHANGED client => client' \in [Clients -> ClientRecords] /\ ClientHandles'
  BY DEF ClientHandles
<1> QED BY <1>1, <1>2, <1>4, <1>5

LEMMA AtTypes ==
    ASSUME NEW pc \in ClientPcs, NEW h \in Handles \cup {NoHandle},
           NEW k \in Keys \cup {NoKey}, NEW cb \in BOOLEAN, NEW res \in TerminalStates
    PROVE  /\ At(pc, h, k, cb, res) \in ClientRecords
           /\ At(pc, h, k, cb, res).pc = pc
           /\ At(pc, h, k, cb, res).h = h
BY DEF At, ClientRecords

LEMMA QuietCallTypes ==
    ASSUME NEW pc \in ClientPcs, NEW h \in Handles, NEW k \in Keys \cup {NoKey}
    PROVE  /\ At(pc, h, k, FALSE, "Cancelled") \in ClientRecords
           /\ At(pc, h, k, FALSE, "Cancelled").h = h
BY DEF At, ClientRecords, TerminalStates

\* The same for the workers.
LEMMA WorkerMoves ==
    ASSUME worker \in [Workers -> WorkerRecords], WorkerHandles, NEW w \in Workers,
           NEW o \in Handles \cup {NoHandle}, NEW res \in TerminalStates,
           NEW pending \in SUBSET Handles, NEW pc \in WorkerPcs,
           pc \notin {"idle", "exited"} => o \in Handles,
           worker' = [worker EXCEPT ![w] = Busy(pc, o, res, pending)]
    PROVE  worker' \in [Workers -> WorkerRecords] /\ WorkerHandles'
<1>1. Busy(pc, o, res, pending) \in WorkerRecords
  BY DEF Busy, WorkerRecords
<1>2. Busy(pc, o, res, pending).pc = pc /\ Busy(pc, o, res, pending).op = o
  BY DEF Busy
<1> QED BY <1>1, <1>2 DEF WorkerHandles

LEMMA WorkerSteps ==
    ASSUME worker \in [Workers -> WorkerRecords], WorkerHandles, NEW w \in Workers,
           \/ worker[w].pc = "idle" /\ worker' = [worker EXCEPT ![w].pc = "exited"]
           \/ worker[w].pc = "begin" /\ worker' = [worker EXCEPT ![w].pc = "loading"]
    PROVE  worker' \in [Workers -> WorkerRecords] /\ WorkerHandles'
<1> DEFINE exited  == [worker[w] EXCEPT !.pc = "exited"]
           loading == [worker[w] EXCEPT !.pc = "loading"]
<1>1. worker[w] \in WorkerRecords
  OBVIOUS
<1>2. /\ exited \in WorkerRecords /\ exited.pc = "exited"
      /\ loading \in WorkerRecords /\ loading.pc = "loading" /\ loading.op = worker[w].op
  BY <1>1 DEF WorkerRecords, WorkerPcs
<1>3. \/ worker' = [worker EXCEPT ![w] = exited]
      \/ worker[w].pc = "begin" /\ worker' = [worker EXCEPT ![w] = loading]
  OBVIOUS
<1> HIDE DEF exited, loading
<1>4. worker' \in [Workers -> WorkerRecords]
  BY <1>2, <1>3
<1>5. ASSUME NEW v \in Workers, worker'[v].pc \notin {"idle", "exited"}
      PROVE  worker'[v].op \in Handles
  <2>1. CASE v # w
    BY <1>3, <1>5, <2>1 DEF WorkerHandles
  <2>2. CASE v = w
    <3>1. worker[w].pc = "begin" /\ worker'[w] = loading
      BY <1>2, <1>3, <1>5, <2>2
    <3> QED BY <1>2, <2>2, <3>1 DEF WorkerHandles
  <2> QED BY <2>1, <2>2
<1> QED BY <1>4, <1>5 DEF WorkerHandles

LEMMA WorkerIdles ==
    ASSUME worker \in [Workers -> WorkerRecords], WorkerHandles, NEW w \in Workers,
           worker' = [worker EXCEPT ![w] = IdleWorker]
    PROVE  worker' \in [Workers -> WorkerRecords] /\ WorkerHandles'
<1>1. IdleWorker \in WorkerRecords /\ IdleWorker.pc = "idle"
  BY DEF IdleWorker, Busy, WorkerRecords, WorkerPcs, TerminalStates
<1> QED BY <1>1 DEF WorkerHandles

\* Only the workers' own steps move a worker.
LEMMA ClientsLeaveWorkers ==
    ASSUME NEW c \in Clients, Call(c) \/ Request(c)
    PROVE  UNCHANGED worker
<1>1. ASSUME Call(c) PROVE UNCHANGED worker
  BY <1>1 DEF Call, StartRequest, Cancel, ReleaseRequest, FindResult, workVars
<1>2. ASSUME Request(c) PROVE UNCHANGED worker
  BY <1>2 DEF Request, Reserve, Allocate, Unreserve, AdmitRejected, AdmitHit, AdmitCreate,
              AdmitJoin, Wait, CommitJoined, Complete, Submit, Rollback, Unslot,
              AcquireExternal, workVars
<1> QED BY <1>1, <1>2

LEMMA OthersLeaveWorkers ==
    ASSUME (\E k \in Keys : DropHandle(k)) \/ Pump \/ Shutdown
    PROVE  UNCHANGED worker
BY DEF DropHandle, Pump, PumpTake, PumpCall, PumpEnd, Shutdown, BeginShutdown, RequestStop,
       Join, ClearControls, DropOwnership, workVars

\* Only Shutdown moves the shutdown on.
LEMMA OnlyShutdownShuts ==
    ASSUME [Next]_vars, shutdown' # shutdown
    PROVE  Shutdown
<1>1. ASSUME NEW c \in Clients, Call(c) PROVE FALSE
  BY <1>1 DEF Call, StartRequest, Cancel, ReleaseRequest, FindResult
<1>2. ASSUME NEW c \in Clients, Request(c) PROVE FALSE
  <2>1. CASE Reserve(c) \/ Allocate(c) \/ Unreserve(c) \/ Complete(c) \/ CommitJoined(c)
    BY <2>1 DEF Reserve, Allocate, Unreserve, Complete, CommitJoined
  <2>2. CASE AdmitRejected(c) \/ AdmitHit(c) \/ AdmitCreate(c) \/ AdmitJoin(c) \/ Wait(c)
    BY <2>2 DEF AdmitRejected, AdmitHit, AdmitCreate, AdmitJoin, Wait
  <2>3. CASE Submit(c) \/ Rollback(c) \/ Unslot(c) \/ AcquireExternal(c)
    BY <2>3 DEF Submit, Rollback, Unslot, AcquireExternal
  <2> QED BY <1>2, <2>1, <2>2, <2>3 DEF Request
<1>3. ASSUME NEW w \in Workers, Work(w) PROVE FALSE
  BY <1>3 DEF Work, Take, Exit, BeginLoad, FinishLoad, CommitLoad, Notify
<1>4. ASSUME Pump \/ \E k \in Keys : DropHandle(k) PROVE FALSE
  BY <1>4 DEF Pump, PumpTake, PumpCall, PumpEnd, DropHandle
<1>5. ASSUME UNCHANGED vars PROVE FALSE
  BY <1>5 DEF vars
<1> QED BY <1>1, <1>2, <1>3, <1>4, <1>5 DEF Next, Quiescent

LEMMA HandlesFinite == IsFiniteSet(Handles)
<1>1. IsFiniteSet(Slots) /\ IsFiniteSet(1..MaxGeneration)
  <2>1. 1 \in Int /\ MaxRequests \in Int /\ MaxGeneration \in Int
    BY HandleAssumption
  <2> QED BY <2>1, FS_Interval DEF Slots
<1> QED BY <1>1, FS_Product DEF Handles

LEMMA TypesPreserved == TypeInv /\ [Next]_vars => TypeInv'
<1> SUFFICES ASSUME TypeOK, ClientHandles, WorkerHandles, TableOps, [Next]_vars
             PROVE  TypeOK' /\ ClientHandles' /\ WorkerHandles' /\ TableOps'
  BY DEF TypeInv
<1> USE HandleAssumption, ManagerAssumption
<1>1. ASSUME NEW c \in Clients, NEW k \in Keys, NEW cb \in BOOLEAN, StartRequest(c, k, cb)
      PROVE  TypeOK' /\ ClientHandles' /\ TableOps'
  <2>1. client' \in [Clients -> ClientRecords] /\ ClientHandles'
    <3>1. PICK pc \in {"reserve", "allocate"} :
            client' = [client EXCEPT ![c] = At(pc, NoHandle, k, cb, "Cancelled")]
      BY <1>1 DEF StartRequest
    <3> DEFINE r == At(pc, NoHandle, k, cb, "Cancelled")
    <3>2. pc \in ClientPcs /\ pc \notin Admitting \cup {"cancelled"} /\ "Cancelled" \in TerminalStates
      BY DEF ClientPcs, Admitting, TerminalStates
    <3>3. r \in ClientRecords /\ r.pc = pc
      BY <3>2, AtTypes
    <3>4. client \in [Clients -> ClientRecords] /\ client' = [client EXCEPT ![c] = r]
      BY <3>1 DEF TypeOK
    <3> HIDE DEF r
    <3> QED BY <3>2, <3>3, <3>4, ClientMoves
  <2>2. TypeOK' /\ TableOps'
    BY <1>1, <2>1 DEF TypeOK, TableOps, StartRequest, managerVars, cacheVars, workVars, pumpVars
  <2> QED BY <2>1, <2>2
<1>2. ASSUME NEW c \in Clients, Reserve(c)
      PROVE  TypeOK' /\ ClientHandles' /\ TableOps'
  <2>1. client' \in [Clients -> ClientRecords] /\ ClientHandles'
    BY <1>2, ClientMoves DEF TypeOK, Reserve, ClientPcs, Admitting
  <2>2. TypeOK' /\ TableOps'
    BY <1>2, <2>1 DEF TypeOK, TableOps, Reserve, managerVars, cacheVars, workVars, pumpVars
  <2> QED BY <2>1, <2>2
<1>3. ASSUME NEW c \in Clients, Allocate(c)
      PROVE  TypeOK' /\ ClientHandles' /\ TableOps'
  <2>1. CASE \E s \in Slots :
            /\ IsFirstFree(slot, s)
            /\ LET g == slot[s].gen + 1 IN
               /\ slot' = [slot EXCEPT ![s] = Allocated(g)]
               /\ client' = [client EXCEPT ![c] =
                        At("admit", <<s, g>>, client[c].key, client[c].cb, "Cancelled")]
    <3>1. PICK s \in Slots :
            /\ IsFirstFree(slot, s)
            /\ slot' = [slot EXCEPT ![s] = Allocated(slot[s].gen + 1)]
            /\ client' = [client EXCEPT ![c] = At("admit", <<s, slot[s].gen + 1>>,
                                client[c].key, client[c].cb, "Cancelled")]
      BY <2>1
    <3>2. slot[s].gen + 1 \in 1..MaxGeneration
      BY <3>1 DEF TypeOK, SlotRecords, IsFirstFree
    <3>3. <<s, slot[s].gen + 1>> \in Handles
      BY <3>2 DEF Handles
    <3>4. client' \in [Clients -> ClientRecords] /\ ClientHandles'
      <4>1. client[c].key \in Keys \cup {NoKey} /\ client[c].cb \in BOOLEAN
        BY DEF TypeOK, ClientRecords
      <4> DEFINE r == At("admit", <<s, slot[s].gen + 1>>, client[c].key, client[c].cb,
                         "Cancelled")
      <4>2. "admit" \in ClientPcs /\ "Cancelled" \in TerminalStates
        BY DEF ClientPcs, Admitting, TerminalStates
      <4>3. r \in ClientRecords /\ r.h = <<s, slot[s].gen + 1>>
        BY <3>3, <4>1, <4>2, AtTypes
      <4> QED BY <3>1, <3>3, <4>3, ClientMoves DEF TypeOK
    <3>5. slot' \in [Slots -> SlotRecords]
      BY <3>1, <3>2 DEF TypeOK, SlotRecords, Allocated, RequestStates
    <3> QED BY <1>3, <3>4, <3>5 DEF TypeOK, TableOps, Allocate, managerVars, cacheVars, workVars, pumpVars
  <2>2. CASE /\ \A s \in Slots : slot[s].occupied
             /\ IF client[c].cb THEN Goto(c, "unreserve") ELSE Return(c)
             /\ UNCHANGED slot
    <3>1. client' \in [Clients -> ClientRecords] /\ ClientHandles'
      BY <2>2, ClientMoves DEF TypeOK, ClientPcs, Admitting
    <3> QED BY <1>3, <2>2, <3>1 DEF TypeOK, TableOps, Allocate, managerVars, cacheVars, workVars, pumpVars
  <2> QED BY <1>3, <2>1, <2>2 DEF Allocate
<1>4. ASSUME NEW c \in Clients, Unreserve(c)
      PROVE  TypeOK' /\ ClientHandles' /\ TableOps'
  <2>1. client' \in [Clients -> ClientRecords] /\ ClientHandles'
    BY <1>4, ClientMoves DEF TypeOK, Unreserve
  <2>2. TypeOK' /\ TableOps'
    BY <1>4, <2>1 DEF TypeOK, TableOps, Unreserve, Unreserved, managerVars, cacheVars, workVars, pumpVars
  <2> QED BY <2>1, <2>2
<1>5. ASSUME NEW c \in Clients, AdmitRejected(c)
      PROVE  TypeOK' /\ ClientHandles' /\ TableOps'
  <2>1. client' \in [Clients -> ClientRecords] /\ ClientHandles'
    BY <1>5, ClientMoves DEF TypeOK, AdmitRejected
  <2>2. slot' \in [Slots -> SlotRecords]
    BY <1>5, SlotTypes DEF TypeOK, AdmitRejected, ClientHandles, Admitting
  <2>3. TypeOK' /\ TableOps'
    BY <1>5, <2>1, <2>2 DEF TypeOK, TableOps, AdmitRejected, Unreserved, managerVars, cacheVars, workVars, pumpVars
  <2> QED BY <2>1, <2>3
<1>6. ASSUME NEW c \in Clients, AdmitHit(c)
      PROVE  TypeOK' /\ ClientHandles' /\ TableOps'
  <2> DEFINE h == client[c].h
             k == client[c].key
  <2>1. /\ h \in Handles /\ k \in Keys \cup {NoKey}
        /\ client[c].cb \in BOOLEAN
    BY <1>6 DEF TypeOK, AdmitHit, ClientHandles, Admitting, ClientRecords
  <2>2. client' \in [Clients -> ClientRecords] /\ ClientHandles'
    <3> DEFINE r == At("complete", h, k, client[c].cb, "Ready")
    <3>1. "complete" \in ClientPcs /\ "Ready" \in TerminalStates
      BY DEF ClientPcs, Admitting, TerminalStates
    <3>2. r \in ClientRecords /\ r.h = h
      BY <2>1, <3>1, AtTypes
    <3> QED BY <1>6, <2>1, <3>2, ClientMoves DEF TypeOK, AdmitHit
  <2>3. slot' \in [Slots -> SlotRecords]
    <3>1. slot' = Committed(slot, {h}, "Ready") /\ {h} \in SUBSET Handles
      BY <1>6, <2>1 DEF AdmitHit
    <3> QED BY <2>1, <3>1, SlotTypes DEF TypeOK, TerminalStates
  <2>4. NewControl(k, NoHandle, TRUE, client[c].cb) \in Controls
    BY <2>1 DEF NewControl, Controls
  <2>5. control' \in [Handles -> Controls]
    BY <1>6, <2>4 DEF TypeOK, AdmitHit
  <2>6. cacheReq' \in [Keys -> Nat]
    <3>1. cacheReq' = [cacheReq EXCEPT ![k] = cacheReq[k] + 1]
      BY <1>6 DEF AdmitHit
    <3>2. CASE k \in Keys
      BY <3>1, <3>2 DEF TypeOK
    <3>3. CASE k \notin Keys
      BY <3>1, <3>3 DEF TypeOK
    <3> QED BY <3>2, <3>3
  <2>7. TypeOK' /\ TableOps'
    BY <1>6, <2>2, <2>3, <2>5, <2>6 DEF TypeOK, TableOps, AdmitHit, cacheVars, workVars, pumpVars
  <2> QED BY <2>2, <2>7
<1>7. ASSUME NEW c \in Clients, AdmitCreate(c)
      PROVE  TypeOK' /\ ClientHandles' /\ TableOps'
  <2> DEFINE h == client[c].h
             k == client[c].key
  <2>1. /\ h \in Handles /\ k \in Keys \cup {NoKey}
        /\ client[c].cb \in BOOLEAN
    BY <1>7 DEF TypeOK, AdmitCreate, ClientHandles, Admitting, ClientRecords
  <2>2. client' \in [Clients -> ClientRecords] /\ ClientHandles'
    BY <1>7, <2>1, ClientMoves DEF TypeOK, AdmitCreate, ClientPcs, Admitting
  <2>3. NewControl(k, h, FALSE, client[c].cb) \in Controls
    BY <2>1 DEF NewControl, Controls
  <2>4. control' \in [Handles -> Controls]
    BY <1>7, <2>3 DEF TypeOK, AdmitCreate
  <2>5. [key |-> k, interests |-> {h}, cancel |-> FALSE, state |-> "Created"] \in Operations
    BY <2>1 DEF Operations, OpStates
  <2>6. op' \in [Handles -> Operations] /\ table' \subseteq Handles
    BY <1>7, <2>1, <2>5 DEF TypeOK, AdmitCreate
  <2>7. TypeOK'
    BY <1>7, <2>2, <2>4, <2>6 DEF TypeOK, AdmitCreate, cacheVars, workVars, pumpVars
  <2>8. TableOps'
    BY <1>7, <2>1 DEF TypeOK, TableOps, AdmitCreate
  <2> QED BY <2>2, <2>7, <2>8
<1>8. ASSUME NEW c \in Clients, AdmitJoin(c)
      PROVE  TypeOK' /\ ClientHandles' /\ TableOps'
  <2> DEFINE h == client[c].h
             k == client[c].key
  <2>1. /\ h \in Handles /\ k \in Keys \cup {NoKey}
        /\ client[c].cb \in BOOLEAN
    BY <1>8 DEF TypeOK, AdmitJoin, ClientHandles, Admitting, ClientRecords
  <2>2. PICK o \in Attachable(k) :
            /\ op[o].state # "Ready"
            /\ op' = [op EXCEPT ![o].interests = @ \cup {h}]
            /\ control' = [control EXCEPT ![h] = NewControl(k, o, FALSE, client[c].cb)]
            /\ IF op[o].state = "Created"
               THEN Goto(c, "wait")
               ELSE client' = [client EXCEPT ![c] =
                                At("commit", h, k, client[c].cb, op[o].state)]
    BY <1>8 DEF AdmitJoin
  <2>3. o \in Handles
    BY DEF Attachable, TypeOK
  <2>4. client' \in [Clients -> ClientRecords] /\ ClientHandles'
    <3>1. CASE op[o].state = "Created"
      BY <2>1, <2>2, <3>1, ClientMoves DEF TypeOK, ClientPcs, Admitting
    <3>2. CASE op[o].state # "Created"
      <4> DEFINE r == At("commit", h, k, client[c].cb, op[o].state)
      <4>1. op[o].state \in TerminalStates
        BY <3>2, <2>2, <2>3 DEF TypeOK, TableOps, Operations, OpStates, Attachable
      <4>2. "commit" \in ClientPcs
        BY DEF ClientPcs, Admitting
      <4>3. r \in ClientRecords /\ r.h = h
        BY <2>1, <4>1, <4>2, AtTypes
      <4>4. client' = [client EXCEPT ![c] = r]
        BY <2>2, <3>2
      <4>5. client \in [Clients -> ClientRecords] /\ h \in Handles
        BY <2>1 DEF TypeOK
      <4> HIDE DEF r
      <4> QED BY <4>3, <4>4, <4>5, ClientMoves
    <3> QED BY <3>1, <3>2
  <2>5. NewControl(k, o, FALSE, client[c].cb) \in Controls
    BY <2>1, <2>3 DEF NewControl, Controls
  <2>6. control' \in [Handles -> Controls] /\ op' \in [Handles -> Operations]
    <3>1. control \in [Handles -> Controls] /\ op \in [Handles -> Operations]
      BY DEF TypeOK
    <3>2. [op[o] EXCEPT !.interests = @ \cup {h}] \in Operations
      BY <2>1, <2>3, <3>1 DEF Operations
    <3>3. op' = [op EXCEPT ![o] = [op[o] EXCEPT !.interests = @ \cup {h}]]
      BY <2>2
    <3>4. control' = [control EXCEPT ![h] = NewControl(k, o, FALSE, client[c].cb)]
      BY <2>2
    <3>5. op' \in [Handles -> Operations]
      BY <3>1, <3>2, <3>3
    <3>6. control' \in [Handles -> Controls]
      BY <2>1, <2>5, <3>1, <3>4
    <3> QED BY <3>5, <3>6
  <2>7. TypeOK'
    BY <1>8, <2>4, <2>6 DEF TypeOK, AdmitJoin, cacheVars, workVars, pumpVars
  <2>8. TableOps'
    BY <1>8, <2>1, <2>2, <2>3 DEF TypeOK, Operations, TableOps, AdmitJoin
  <2> QED BY <2>4, <2>7, <2>8
<1>9. ASSUME NEW c \in Clients, Wait(c)
      PROVE  TypeOK' /\ ClientHandles' /\ TableOps'
  <2>1. client[c].h \in Handles
    BY <1>9 DEF Wait, ClientHandles, Admitting
  <2>2. client' \in [Clients -> ClientRecords] /\ ClientHandles'
    BY <1>9, <2>1, ClientMoves DEF TypeOK, Wait, ClientPcs, Admitting
  <2>3. slot' \in [Slots -> SlotRecords]
    <3>1. slot' = Moved(slot, client[c].h, "Accepted", "Waiting")
      BY <1>9 DEF Wait
    <3>2. "Accepted" \in RequestStates /\ "Waiting" \in RequestStates
      BY DEF RequestStates
    <3> QED BY <2>1, <3>1, <3>2, SlotTypes DEF TypeOK
  <2> QED BY <1>9, <2>2, <2>3 DEF TypeOK, TableOps, Wait, cacheVars, workVars, pumpVars
<1>10. ASSUME NEW c \in Clients, CommitJoined(c)
       PROVE  TypeOK' /\ ClientHandles' /\ TableOps'
  <2>1. client[c].h \in Handles /\ client[c].res \in TerminalStates
    BY <1>10 DEF TypeOK, ClientRecords, CommitJoined, ClientHandles, Admitting
  <2>2. client' \in [Clients -> ClientRecords] /\ ClientHandles'
    BY <1>10, <2>1, ClientMoves DEF TypeOK, CommitJoined, ClientPcs, Admitting
  <2>3. slot' \in [Slots -> SlotRecords]
    <3>1. {client[c].h} \in SUBSET Handles
      BY <2>1
    <3> QED BY <1>10, <2>1, <3>1, SlotTypes DEF TypeOK, CommitJoined
  <2> QED BY <1>10, <2>2, <2>3 DEF TypeOK, TableOps, CommitJoined, cacheVars, workVars, pumpVars
<1>11. ASSUME NEW c \in Clients, Complete(c)
       PROVE  TypeOK' /\ ClientHandles' /\ TableOps'
  <2>1. client[c].h \in Handles /\ client[c].res \in TerminalStates
    BY <1>11 DEF TypeOK, ClientRecords, Complete, ClientHandles, Admitting
  <2>2. client' \in [Clients -> ClientRecords] /\ ClientHandles'
    BY <1>11, ClientMoves DEF TypeOK, Complete
  <2>3. CompleteRequest(client[c].h, client[c].res)
    BY <1>11 DEF Complete
  <2>4. /\ slot' \in [Slots -> SlotRecords]
        /\ control' \in [Handles -> Controls]
        /\ completions' \in Seq(CompletionRecords)
        /\ reservations' \in Int
        /\ nextSequence' \in Nat \ {0}
        /\ violations' \in Nat
    BY <2>1, <2>3, CompleteRequestTypes
  <2> QED BY <1>11, <2>2, <2>4 DEF TypeOK, TableOps, Complete, cacheVars, workVars, pumpVars
<1>12. ASSUME NEW c \in Clients, Submit(c)
       PROVE  TypeOK' /\ ClientHandles' /\ TableOps'
  <2>1. client[c].h \in Handles
    BY <1>12 DEF Submit, ClientHandles, Admitting
  <2>2. client' \in [Clients -> ClientRecords] /\ ClientHandles'
    BY <1>12, <2>1, ClientMoves DEF TypeOK, Submit, ClientPcs, Admitting
  <2>3. workQueue' \in Seq(Handles)
    <3>1. workQueue' = workQueue \/ workQueue' = Append(workQueue, client[c].h)
      BY <1>12 DEF Submit
    <3>2. workQueue \in Seq(Handles)
      BY DEF TypeOK
    <3>3. Append(workQueue, client[c].h) \in Seq(Handles)
      BY <2>1, <3>2, AppendProperties
    <3> QED BY <3>1, <3>2, <3>3
  <2> QED BY <1>12, <2>2, <2>3 DEF TypeOK, TableOps, Submit, managerVars, pumpVars
<1>13. ASSUME NEW c \in Clients, Rollback(c)
       PROVE  TypeOK' /\ ClientHandles' /\ TableOps'
  <2> DEFINE h == client[c].h
  <2>1. h \in Handles
    BY <1>13 DEF Rollback, ClientHandles, Admitting
  <2>2. client' \in [Clients -> ClientRecords] /\ ClientHandles'
    BY <1>13, <2>1, ClientMoves DEF TypeOK, Rollback, ClientPcs, Admitting
  <2>3. op' \in [Handles -> Operations] /\ table' \subseteq Handles /\ TableOps'
    BY <1>13, <2>1, DetachTypes DEF Rollback
  <2>4. control' \in [Handles -> Controls]
    BY <1>13, NoControlType DEF TypeOK, Rollback
  <2> QED BY <1>13, <2>2, <2>3, <2>4 DEF TypeOK, Rollback, Unreserved, cacheVars, workVars, pumpVars
<1>14. ASSUME NEW c \in Clients, Unslot(c)
       PROVE  TypeOK' /\ ClientHandles' /\ TableOps'
  <2>1. client[c].h \in Handles \cup {NoHandle}
    BY DEF TypeOK, ClientRecords
  <2>2. client' \in [Clients -> ClientRecords] /\ ClientHandles'
    BY <1>14, ClientMoves DEF TypeOK, Unslot
  <2>3. slot' \in [Slots -> SlotRecords]
    BY <1>14, <2>1, SlotTypes DEF TypeOK, Unslot
  <2> QED BY <1>14, <2>2, <2>3 DEF TypeOK, TableOps, Unslot, cacheVars, workVars, pumpVars
<1>15. ASSUME NEW c \in Clients, NEW h \in Handles, Cancel(c, h)
       PROVE  TypeOK' /\ ClientHandles' /\ TableOps'
  <2>1. control[h].op \in Handles \cup {NoHandle}
    BY DEF TypeOK, Controls
  <2>2. client' \in [Clients -> ClientRecords] /\ ClientHandles'
    <3>1. CASE CanCommit(slot, h)
      <4> DEFINE r == At("cancelled", h, NoKey, FALSE, "Cancelled")
      <4>1. "cancelled" \in ClientPcs /\ "Cancelled" \in TerminalStates
        BY DEF ClientPcs, TerminalStates
      <4>2. NoKey \in Keys \cup {NoKey}
        OBVIOUS
      <4>4. r \in ClientRecords /\ r.h = h
        BY <4>1, <4>2, QuietCallTypes
      <4> QED BY <1>15, <3>1, <4>4, ClientMoves DEF TypeOK, Cancel
    <3>2. CASE ~CanCommit(slot, h)
      BY <1>15, <3>2, ClientMoves DEF TypeOK, Cancel
    <3> QED BY <3>1, <3>2
  <2>3. op' \in [Handles -> Operations] /\ table' \subseteq Handles /\ TableOps'
    BY <1>15, <2>1, DetachTypes DEF Cancel
  <2>4. slot' \in [Slots -> SlotRecords]
    <3>1. {h} \in SUBSET Handles /\ "Cancelled" \in TerminalStates
      BY DEF TerminalStates
    <3> QED BY <1>15, <3>1, SlotTypes DEF TypeOK, Cancel
  <2> QED BY <1>15, <2>2, <2>3, <2>4 DEF TypeOK, Cancel, cacheVars, workVars, pumpVars
<1>16. ASSUME NEW c \in Clients, NEW h \in Handles, ReleaseRequest(c, h)
       PROVE  TypeOK' /\ ClientHandles' /\ TableOps'
  <2> DEFINE k == control[h].key
  <2>1. control[h].op \in Handles \cup {NoHandle}
    BY DEF TypeOK, Controls
  <2>2. client' \in [Clients -> ClientRecords] /\ ClientHandles'
    <3> DEFINE r == At("unslot", h, NoKey, FALSE, "Cancelled")
    <3>1. "unslot" \in ClientPcs /\ "Cancelled" \in TerminalStates
      BY DEF ClientPcs, TerminalStates
    <3>2. NoKey \in Keys \cup {NoKey}
      OBVIOUS
    <3>4. r \in ClientRecords /\ r.h = h
      BY <3>1, <3>2, QuietCallTypes
    <3> QED BY <1>16, <3>4, ClientMoves DEF TypeOK, ReleaseRequest
  <2>3. op' \in [Handles -> Operations] /\ table' \subseteq Handles /\ TableOps'
    BY <1>16, <2>1, DetachTypes DEF ReleaseRequest
  <2>4. control' \in [Handles -> Controls]
    BY <1>16, NoControlType DEF TypeOK, ReleaseRequest
  <2>5. cacheReq' \in [Keys -> Nat]
    <3>1. \/ cacheReq' = cacheReq
          \/ cacheReq[k] > 0 /\ cacheReq' = [cacheReq EXCEPT ![k] = cacheReq[k] - 1]
      BY <1>16 DEF ReleaseRequest
    <3>2. CASE k \in Keys
      <4>1. cacheReq \in [Keys -> Nat] /\ cacheReq[k] \in Nat
        BY <3>2 DEF TypeOK
      <4>2. CASE cacheReq[k] > 0 /\ cacheReq' = [cacheReq EXCEPT ![k] = cacheReq[k] - 1]
        <5>1. cacheReq[k] - 1 \in Nat
          BY <4>1, <4>2
        <5> QED BY <4>1, <4>2, <5>1
      <4> QED BY <3>1, <4>1, <4>2
    <3>3. CASE k \notin Keys
      BY <3>1, <3>3 DEF TypeOK
    <3> QED BY <3>2, <3>3
  <2>6. completions' \in Seq(CompletionRecords) /\ reservations' \in Int
    <3>1. WithdrawCompletion(h)
      BY <1>16 DEF ReleaseRequest
    <3> QED BY <3>1, WithdrawTypes
  <2> QED BY <1>16, <2>2, <2>3, <2>4, <2>5, <2>6 DEF TypeOK, ReleaseRequest, cacheVars, workVars, pumpVars
<1>17. ASSUME NEW c \in Clients, NEW h \in Handles, FindResult(c, h)
       PROVE  TypeOK' /\ ClientHandles' /\ TableOps'
  <2>1. client' \in [Clients -> ClientRecords] /\ ClientHandles'
    <3> DEFINE r == At("acquire", h, control[h].key, FALSE, "Cancelled")
    <3>1. /\ "acquire" \in ClientPcs /\ "Cancelled" \in TerminalStates
          /\ control[h].key \in Keys \cup {NoKey}
      BY DEF ClientPcs, TerminalStates, TypeOK, Controls
    <3>3. r \in ClientRecords /\ r.h = h
      BY <3>1, QuietCallTypes
    <3> QED BY <1>17, <3>3, ClientMoves DEF TypeOK, FindResult
  <2> QED BY <1>17, <2>1 DEF TypeOK, TableOps, FindResult, managerVars, cacheVars, workVars, pumpVars
<1>18. ASSUME NEW c \in Clients, AcquireExternal(c)
       PROVE  TypeOK' /\ ClientHandles' /\ TableOps'
  <2> DEFINE k == client[c].key
  <2>1. client' \in [Clients -> ClientRecords] /\ ClientHandles'
    BY <1>18, ClientMoves DEF TypeOK, AcquireExternal
  <2>2. cacheExt' \in [Keys -> Nat] /\ held' \in [Keys -> Nat]
    <3>1. CASE ~IsCached(k)
      BY <1>18, <3>1 DEF TypeOK, AcquireExternal
    <3>2. CASE IsCached(k)
      <4>1. /\ cacheExt' = [cacheExt EXCEPT ![k] = cacheExt[k] + 1]
            /\ held' = [held EXCEPT ![k] = held[k] + 1]
        BY <1>18, <3>2 DEF AcquireExternal
      <4>2. cacheExt \in [Keys -> Nat] /\ held \in [Keys -> Nat]
        BY DEF TypeOK
      <4> HIDE DEF k
      <4>3. cacheExt' \in [Keys -> Nat]
        <5>1. k \in Keys => cacheExt[k] + 1 \in Nat
          BY <4>2
        <5> QED BY <4>1, <4>2, <5>1
      <4>4. held' \in [Keys -> Nat]
        <5>1. k \in Keys => held[k] + 1 \in Nat
          BY <4>2
        <5> QED BY <4>1, <4>2, <5>1
      <4> QED BY <4>3, <4>4
    <3> QED BY <3>1, <3>2
  <2> QED BY <1>18, <2>1, <2>2 DEF TypeOK, TableOps, AcquireExternal, cacheVars, workVars, pumpVars
<1>19. ASSUME NEW k \in Keys, DropHandle(k)
       PROVE  TypeOK' /\ ClientHandles' /\ TableOps'
  <2>1. cacheExt' \in [Keys -> Nat]
    BY <1>19 DEF TypeOK, DropHandle
  <2>2. held' \in [Keys -> Nat]
    BY <1>19 DEF TypeOK, DropHandle
  <2> QED BY <1>19, <2>1, <2>2 DEF TypeOK, ClientHandles, TableOps, DropHandle, cacheVars, workVars, pumpVars
<1>20. ASSUME NEW w \in Workers, Take(w)
       PROVE  TypeOK' /\ ClientHandles' /\ WorkerHandles' /\ TableOps'
  <2>1. Head(workQueue) \in Handles /\ workQueue' \in Seq(Handles)
    BY <1>20, HeadTailProperties DEF TypeOK, Take
  <2>2. "begin" \in WorkerPcs /\ "Failed" \in TerminalStates /\ {} \in SUBSET Handles
    BY DEF WorkerPcs, TerminalStates
  <2>3. worker' \in [Workers -> WorkerRecords] /\ WorkerHandles'
    BY <1>20, <2>1, <2>2, WorkerMoves DEF TypeOK, Take
  <2> QED BY <1>20, <2>1, <2>3 DEF TypeOK, ClientHandles, TableOps, Take, managerVars, cacheVars, pumpVars
<1>21. ASSUME NEW w \in Workers, Exit(w)
       PROVE  TypeOK' /\ ClientHandles' /\ WorkerHandles' /\ TableOps'
  <2>1. worker' \in [Workers -> WorkerRecords] /\ WorkerHandles'
    BY <1>21, WorkerSteps DEF TypeOK, Exit
  <2> QED BY <1>21, <2>1 DEF TypeOK, ClientHandles, TableOps, Exit, managerVars, cacheVars, pumpVars
<1>22. ASSUME NEW w \in Workers, BeginLoad(w)
       PROVE  TypeOK' /\ ClientHandles' /\ WorkerHandles' /\ TableOps'
  <2>1. worker' \in [Workers -> WorkerRecords] /\ WorkerHandles'
    BY <1>22, WorkerSteps DEF TypeOK, BeginLoad
  <2>2. \A s \in Slots : [slot[s] EXCEPT !.state = "Loading"] \in SlotRecords
    BY DEF TypeOK, SlotRecords, RequestStates
  <2>3. slot' \in [Slots -> SlotRecords]
    BY <1>22, <2>2 DEF TypeOK, BeginLoad
  <2> QED BY <1>22, <2>1, <2>3
          DEF TypeOK, ClientHandles, TableOps, BeginLoad, cacheVars, pumpVars
<1>23. ASSUME NEW w \in Workers, FinishLoad(w)
       PROVE  TypeOK' /\ ClientHandles' /\ WorkerHandles' /\ TableOps'
  <2>1. PICK res \in TerminalStates :
            worker' = [worker EXCEPT ![w] = Busy("loaded", worker[w].op, res, {})]
    BY <1>23 DEF FinishLoad, TerminalStates
  <2>2. worker[w].op \in Handles
    BY <1>23 DEF WorkerHandles, FinishLoad
  <2>3. "loaded" \in WorkerPcs /\ {} \in SUBSET Handles
    BY DEF WorkerPcs
  <2>4. worker' \in [Workers -> WorkerRecords] /\ WorkerHandles'
    BY <2>1, <2>2, <2>3, WorkerMoves DEF TypeOK
  <2> QED BY <1>23, <2>4
          DEF TypeOK, ClientHandles, TableOps, FinishLoad, managerVars, cacheVars, pumpVars
<1>24. ASSUME NEW w \in Workers, CommitLoad(w)
       PROVE  TypeOK' /\ ClientHandles' /\ WorkerHandles' /\ TableOps'
  <2> DEFINE o == worker[w].op
             interests == op[o].interests
             state == CommittedState(w)
             committed == {h \in interests : CanCommit(slot, h)}
  <2>1. /\ o \in Handles
        /\ interests \in SUBSET Handles
        /\ committed \in SUBSET Handles
        /\ state \in TerminalStates
    <3>1. o \in Handles
      BY <1>24 DEF WorkerHandles, CommitLoad
    <3>2. interests \in SUBSET Handles
      BY <3>1 DEF TypeOK, Operations
    <3>3. worker[w].res \in TerminalStates
      BY DEF TypeOK, WorkerRecords
    <3>4. state \in TerminalStates
      BY <3>3 DEF CommittedState, TerminalStates
    <3> QED BY <3>1, <3>2, <3>4
  <2>2. cacheReq' \in [Keys -> Nat]
    <3>1. Cardinality(interests) \in Nat
      BY <2>1, HandlesFinite, FS_Subset, FS_CardinalityType
    <3>2. \/ cacheReq' = cacheReq
          \/ cacheReq' = [cacheReq EXCEPT ![op[o].key] =
                              cacheReq[op[o].key] + Cardinality(interests)]
      BY <1>24 DEF CommitLoad
    <3>3. cacheReq \in [Keys -> Nat]
      BY DEF TypeOK
    <3> DEFINE n == Cardinality(interests)
               k == op[o].key
    <3> HIDE DEF n, k
    <3>4. \/ cacheReq' = cacheReq
          \/ cacheReq' = [cacheReq EXCEPT ![k] = cacheReq[k] + n]
      BY <3>2 DEF n, k
    <3>5. n \in Nat
      BY <3>1 DEF n
    <3> QED BY <3>3, <3>4, <3>5
  <2>3. control' \in [Handles -> Controls]
    <3>1. \/ control' = control
          \/ control' = [h \in Handles |->
                            IF h \in interests /\ control[h].live
                            THEN [control[h] EXCEPT !.cache = TRUE] ELSE control[h]]
      BY <1>24 DEF CommitLoad
    <3>2. control \in [Handles -> Controls]
      BY DEF TypeOK
    <3>3. \A h \in Handles : [control[h] EXCEPT !.cache = TRUE] \in Controls
      BY <3>2, ControlUpdates
    <3> HIDE DEF interests
    <3> QED BY <3>1, <3>2, <3>3
  <2>4. op' = [op EXCEPT ![o].state = state] /\ table' \subseteq table
    BY <1>24 DEF CommitLoad
  <2>5. /\ op' \in [Handles -> Operations]
        /\ TableOps' /\ table' \subseteq Handles
    <3>1. state \in OpStates \ {"None"}
      BY <2>1 DEF OpStates, TerminalStates
    <3> HIDE DEF state
    <3>2. op' \in [Handles -> Operations]
      BY <2>1, <2>4, <3>1, OperationUpdates DEF TypeOK
    <3>3. \A p \in table' : op'[p].state # "None"
      BY <2>1, <2>4, <3>1 DEF TypeOK, TableOps
    <3> QED BY <2>4, <3>2, <3>3 DEF TypeOK, TableOps
  <2>6. slot' \in [Slots -> SlotRecords]
    <3>1. slot' = Committed(slot, interests, state) /\ NoHandle \in Handles \cup {NoHandle}
      BY <1>24 DEF CommitLoad
    <3> QED BY <2>1, <3>1, SlotTypes DEF TypeOK
  <2>7. worker' \in [Workers -> WorkerRecords] /\ WorkerHandles'
    <3>1. \/ worker' = [worker EXCEPT ![w] = IdleWorker]
          \/ worker' = [worker EXCEPT ![w] = Busy("notify", o, state, committed)]
      BY <1>24 DEF CommitLoad
    <3>2. "notify" \in WorkerPcs
      BY DEF WorkerPcs
    <3> QED BY <2>1, <3>1, <3>2, WorkerMoves, WorkerIdles DEF TypeOK
  <2> QED BY <1>24, <2>2, <2>3, <2>5, <2>6, <2>7
          DEF TypeOK, ClientHandles, CommitLoad, pumpVars
<1>25. ASSUME NEW w \in Workers, Notify(w)
       PROVE  TypeOK' /\ ClientHandles' /\ WorkerHandles' /\ TableOps'
  <2> DEFINE rest(h) == Busy("notify", worker[w].op, worker[w].res, worker[w].pending \ {h})
  <2>1. PICK h \in worker[w].pending :
            /\ CompleteRequest(h, worker[w].res)
            /\ \/ worker' = [worker EXCEPT ![w] = IdleWorker]
               \/ worker' = [worker EXCEPT ![w] = rest(h)]
    BY <1>25 DEF Notify
  <2>2. /\ h \in Handles
        /\ worker[w].pending \ {h} \in SUBSET Handles
        /\ worker[w].res \in TerminalStates
        /\ worker[w].op \in Handles
        /\ "notify" \in WorkerPcs
    BY <1>25, <2>1 DEF TypeOK, WorkerRecords, WorkerHandles, Notify, WorkerPcs
  <2>3. worker' \in [Workers -> WorkerRecords] /\ WorkerHandles'
    BY <2>1, <2>2, WorkerMoves, WorkerIdles DEF TypeOK
  <2>4. /\ slot' \in [Slots -> SlotRecords]
        /\ control' \in [Handles -> Controls]
        /\ completions' \in Seq(CompletionRecords)
        /\ reservations' \in Int
        /\ nextSequence' \in Nat \ {0}
        /\ violations' \in Nat
    BY <2>1, <2>2, CompleteRequestTypes
  <2> QED BY <1>25, <2>3, <2>4
          DEF TypeOK, ClientHandles, TableOps, Notify, cacheVars, pumpVars
<1>26. ASSUME PumpTake
       PROVE  TypeOK' /\ ClientHandles' /\ TableOps'
  <2>1. PICK n \in 1..Len(completions) :
            /\ dispatch' = SubSeq(completions, 1, n)
            /\ completions' = SubSeq(completions, n + 1, Len(completions))
            /\ reservations' = reservations - n
    BY <1>26 DEF PumpTake
  <2>2. completions \in Seq(CompletionRecords) /\ Len(completions) \in Nat
    BY DEF TypeOK
  <2>3. dispatch' \in Seq(CompletionRecords) /\ completions' \in Seq(CompletionRecords)
    BY <2>1, <2>2, SubSeqProperties
  <2>4. reservations' \in Int
    BY <2>1, <2>2 DEF TypeOK
  <2>5. pumping' \in BOOLEAN
    BY <1>26 DEF PumpTake
  <2> QED BY <1>26, <2>3, <2>4, <2>5
          DEF TypeOK, ClientHandles, TableOps, PumpTake, managerVars, cacheVars, workVars
<1>27. ASSUME PumpCall
       PROVE  TypeOK' /\ ClientHandles' /\ TableOps'
  <2>1. dispatch' \in Seq(CompletionRecords) /\ Head(dispatch) \in CompletionRecords
    BY <1>27, HeadTailProperties DEF TypeOK, PumpCall
  <2>2. Head(dispatch).res \in TerminalStates
    BY <2>1 DEF CompletionRecords
  <2>3. reported' \in [Handles -> TerminalStates \cup {"None"}]
    BY <1>27, <2>2 DEF TypeOK, PumpCall
  <2> QED BY <1>27, <2>1, <2>3
          DEF TypeOK, ClientHandles, TableOps, PumpCall, managerVars, cacheVars, workVars
<1>28. ASSUME PumpEnd
       PROVE  TypeOK' /\ ClientHandles' /\ TableOps'
  <2>1. pumping' \in BOOLEAN
    BY <1>28 DEF PumpEnd
  <2> QED BY <1>28, <2>1
          DEF TypeOK, ClientHandles, TableOps, PumpEnd, managerVars, cacheVars, workVars
<1>29. ASSUME BeginShutdown
       PROVE  TypeOK' /\ ClientHandles' /\ TableOps'
  <2>1. \A o \in Handles : /\ [op[o] EXCEPT !.cancel = TRUE] \in Operations
                           /\ [op[o] EXCEPT !.cancel = TRUE].state = op[o].state
    <3>1. op \in [Handles -> Operations]
      BY DEF TypeOK
    <3> QED BY <3>1, OperationUpdates
  <2>2. op' \in [Handles -> Operations] /\ \A o \in Handles : op'[o].state = op[o].state
    BY <1>29, <2>1 DEF TypeOK, BeginShutdown
  <2>3. TableOps'
    BY <1>29, <2>2 DEF TypeOK, TableOps, BeginShutdown
  <2> QED BY <1>29, <2>2, <2>3
          DEF TypeOK, ClientHandles, BeginShutdown, ShutdownPcs, cacheVars, workVars, pumpVars
<1>30. ASSUME RequestStop \/ Join
       PROVE  TypeOK' /\ ClientHandles' /\ TableOps'
  BY <1>30 DEF TypeOK, ClientHandles, TableOps, RequestStop, Join, ShutdownPcs,
               managerVars, cacheVars, workVars, pumpVars
<1>31. ASSUME ClearControls
       PROVE  TypeOK' /\ ClientHandles' /\ TableOps'
  <2>1. control' \in [Handles -> Controls]
    BY <1>31, NoControlType DEF ClearControls
  <2> QED BY <1>31, <2>1 DEF TypeOK, ClientHandles, TableOps, ClearControls, ShutdownPcs,
                             cacheVars, workVars, pumpVars
<1>32. ASSUME DropOwnership
       PROVE  TypeOK' /\ ClientHandles' /\ TableOps'
  BY <1>32 DEF TypeOK, ClientHandles, TableOps, DropOwnership, ShutdownPcs, workVars, pumpVars
<1>33. ASSUME UNCHANGED vars
       PROVE  TypeOK' /\ ClientHandles' /\ WorkerHandles' /\ TableOps'
  BY <1>33 DEF TypeOK, ClientHandles, WorkerHandles, TableOps, vars
<1>34. ASSUME NEW c \in Clients, Call(c) \/ Request(c)
       PROVE  TypeOK' /\ ClientHandles' /\ WorkerHandles' /\ TableOps'
  <2>1. TypeOK' /\ ClientHandles' /\ TableOps'
    BY <1>34, <1>1, <1>2, <1>3, <1>4, <1>5, <1>6, <1>7, <1>8, <1>9, <1>10, <1>11, <1>12,
       <1>13, <1>14, <1>15, <1>16, <1>17, <1>18 DEF Call, Request
  <2>2. UNCHANGED worker
    BY <1>34, ClientsLeaveWorkers
  <2> QED BY <2>1, <2>2 DEF WorkerHandles
<1>35. ASSUME (\E k \in Keys : DropHandle(k)) \/ Pump \/ Shutdown
       PROVE  TypeOK' /\ ClientHandles' /\ WorkerHandles' /\ TableOps'
  <2>1. TypeOK' /\ ClientHandles' /\ TableOps'
    BY <1>35, <1>19, <1>26, <1>27, <1>28, <1>29, <1>30, <1>31, <1>32 DEF Pump, Shutdown
  <2>2. UNCHANGED worker
    BY <1>35, OthersLeaveWorkers
  <2> QED BY <2>1, <2>2 DEF WorkerHandles
<1>36. ASSUME NEW w \in Workers, Work(w)
       PROVE  TypeOK' /\ ClientHandles' /\ WorkerHandles' /\ TableOps'
  BY <1>36, <1>20, <1>21, <1>22, <1>23, <1>24, <1>25 DEF Work
<1> QED BY <1>33, <1>34, <1>35, <1>36 DEF Next, Quiescent

\* Every reachable state is well typed.
THEOREM TypeCorrect == Spec => []TypeOK
<1>1. TypeInv => TypeOK
  BY DEF TypeInv
<1> QED BY InitTypes, TypesPreserved, <1>1, PTL DEF Spec

-----------------------------------------------------------------------------
(* Shutdown.                                                               *)

\* WorkersAreGone is not inductive: a thread exits while others still run, and it
\* is the queue, empty and closed from then on, that keeps them from new work.
Drained ==
    /\ \A w \in Workers : worker[w].pc = "exited" => StopRequested /\ workQueue = <<>>
    /\ shutdown \in {"clearing", "dropping", "down"} =>
            \A w \in Workers : worker[w].pc = "exited"

LEMMA DrainedImpliesGone == Drained => WorkersAreGone
BY ManagerAssumption DEF Drained, WorkersAreGone

LEMMA DrainedInit == Init => Drained
BY DEF Init, Drained, IdleWorker, Busy

\* The queue of a stopped executor only shrinks.
LEMMA ClientsLeaveStoppedQueue ==
    ASSUME NEW c \in Clients, Call(c) \/ Request(c)
    PROVE  UNCHANGED shutdown /\ (StopRequested => UNCHANGED workQueue)
<1>1. ASSUME Call(c) PROVE UNCHANGED <<shutdown, workQueue>>
  BY <1>1 DEF Call, StartRequest, Cancel, ReleaseRequest, FindResult, workVars
<1>2. ASSUME Submit(c)
      PROVE  UNCHANGED shutdown /\ (StopRequested => UNCHANGED workQueue)
  BY <1>2 DEF Submit
<1>3. ASSUME Request(c), ~Submit(c) PROVE UNCHANGED <<shutdown, workQueue>>
  BY <1>3 DEF Request, Reserve, Allocate, Unreserve, AdmitRejected, AdmitHit, AdmitCreate,
              AdmitJoin, Wait, CommitJoined, Complete, Rollback, Unslot, AcquireExternal,
              workVars
<1> QED BY <1>1, <1>2, <1>3

LEMMA DrainedPreserved == TypeInv /\ Drained /\ [Next]_vars => Drained'
<1> SUFFICES ASSUME TypeInv, Drained, [Next]_vars
             PROVE  Drained'
  OBVIOUS
<1>1. worker \in [Workers -> WorkerRecords]
  BY DEF TypeInv, TypeOK
<1>2. ASSUME NEW c \in Clients, Call(c) \/ Request(c)
      PROVE  Drained'
  BY <1>2, ClientsLeaveWorkers, ClientsLeaveStoppedQueue DEF Drained, StopRequested
<1>3. ASSUME NEW w \in Workers, Work(w)
      PROVE  Drained'
  <2>1. ASSUME Take(w) PROVE Drained'
    <3>1. \A v \in Workers : worker[v].pc # "exited"
      BY <2>1 DEF Drained, Take
    <3>2. \A v \in Workers : worker'[v].pc # "exited"
      BY <1>1, <2>1, <3>1 DEF Take, Busy
    <3>3. shutdown' \notin {"clearing", "dropping", "down"}
      BY <2>1, <3>1 DEF Drained, Take
    <3> QED BY <3>2, <3>3 DEF Drained
  <2>2. ASSUME Exit(w) PROVE Drained'
    BY <1>1, <2>2 DEF Drained, Exit, StopRequested, WorkerRecords
  <2>3. ASSUME BeginLoad(w) \/ FinishLoad(w) \/ CommitLoad(w) \/ Notify(w)
        PROVE  Drained'
    <3>1. worker[w].pc # "exited" /\ UNCHANGED <<shutdown, workQueue>>
      BY <2>3 DEF BeginLoad, FinishLoad, CommitLoad, Notify
    <3>2. \A v \in Workers \ {w} : worker'[v] = worker[v]
      BY <1>1, <2>3 DEF BeginLoad, FinishLoad, CommitLoad, Notify
    <3>3. worker'[w].pc # "exited"
      <4>1. ASSUME BeginLoad(w) PROVE worker'[w].pc # "exited"
        BY <1>1, <4>1 DEF BeginLoad, WorkerRecords
      <4>2. ASSUME FinishLoad(w) PROVE worker'[w].pc # "exited"
        BY <1>1, <4>2 DEF FinishLoad, Busy
      <4>3. ASSUME CommitLoad(w) PROVE worker'[w].pc # "exited"
        BY <1>1, <4>3 DEF CommitLoad, IdleWorker, Busy
      <4>4. ASSUME Notify(w) PROVE worker'[w].pc # "exited"
        BY <1>1, <4>4 DEF Notify, IdleWorker, Busy
      <4> QED BY <2>3, <4>1, <4>2, <4>3, <4>4
    <3> QED BY <3>1, <3>2, <3>3 DEF Drained, StopRequested
  <2> QED BY <1>3, <2>1, <2>2, <2>3 DEF Work
<1>4. ASSUME NEW k \in Keys, DropHandle(k)
      PROVE  Drained'
  BY <1>4 DEF Drained, DropHandle, StopRequested, workVars
<1>5. ASSUME Pump
      PROVE  Drained'
  BY <1>5 DEF Drained, Pump, PumpTake, PumpCall, PumpEnd, StopRequested, workVars
<1>6. ASSUME Shutdown
      PROVE  Drained'
  BY <1>6 DEF Drained, Shutdown, BeginShutdown, RequestStop, Join, ClearControls,
              DropOwnership, StopRequested, workVars
<1>7. ASSUME UNCHANGED vars
      PROVE  Drained'
  BY <1>7 DEF Drained, vars, StopRequested
<1> QED BY <1>2, <1>3, <1>4, <1>5, <1>6, <1>7 DEF Next, Quiescent

\* When Shutdown drops the payloads, the cache and the generation lease, no worker
\* thread and no queued work is left to use them.
THEOREM WorkersAreGoneAlways == Spec => []WorkersAreGone
BY InitTypes, TypesPreserved, DrainedInit, DrainedPreserved, DrainedImpliesGone, PTL DEF Spec

-----------------------------------------------------------------------------
(* The order of the callbacks.                                             *)

Increasing(s) == \A i, j \in 1..Len(s) : i < j => s[i].seq < s[j].seq

\* All that was taken comes before all that is queued, and all of it before the next number.
\* A pump takes only when the one before has called everything it took.
InSequence ==
    /\ Increasing(dispatch) /\ Increasing(completions)
    /\ \A i \in 1..Len(dispatch), j \in 1..Len(completions) :
            dispatch[i].seq < completions[j].seq
    /\ \A i \in 1..Len(dispatch) : dispatch[i].seq < nextSequence
    /\ \A j \in 1..Len(completions) : completions[j].seq < nextSequence
    /\ ~pumping => dispatch = <<>>

LEMMA InSequenceInit == Init => InSequence
BY DEF Init, InSequence, Increasing

LEMMA InSequenceImpliesOrdered == TypeOK /\ InSequence => CompletionsAreOrdered
<1> SUFFICES ASSUME TypeOK, InSequence,
                    NEW i \in 1..Len(dispatch \o completions),
                    NEW j \in 1..Len(dispatch \o completions), i < j
             PROVE  (dispatch \o completions)[i].seq < (dispatch \o completions)[j].seq
  BY DEF CompletionsAreOrdered
<1>1. dispatch \in Seq(CompletionRecords) /\ completions \in Seq(CompletionRecords)
  BY DEF TypeOK
<1>2. /\ Len(dispatch) \in Nat /\ Len(completions) \in Nat
      /\ Len(dispatch \o completions) = Len(dispatch) + Len(completions)
      /\ \A n \in 1..(Len(dispatch) + Len(completions)) :
            (dispatch \o completions)[n] =
                IF n <= Len(dispatch) THEN dispatch[n] ELSE completions[n - Len(dispatch)]
  BY <1>1
<1>3. CASE j <= Len(dispatch)
  BY <1>2, <1>3 DEF InSequence, Increasing
<1>4. CASE i <= Len(dispatch) /\ j > Len(dispatch)
  BY <1>2, <1>4 DEF InSequence
<1>5. CASE i > Len(dispatch)
  <2>1. i - Len(dispatch) \in 1..Len(completions) /\ j - Len(dispatch) \in 1..Len(completions)
    BY <1>2, <1>5
  <2> QED BY <1>2, <1>5, <2>1 DEF InSequence, Increasing
<1> QED BY <1>2, <1>3, <1>4, <1>5

LEMMA RecordTypes ==
    ASSUME NEW s \in Seq(CompletionRecords)
    PROVE  Len(s) \in Nat /\ \A i \in 1..Len(s) : s[i] \in CompletionRecords /\ s[i].seq \in Nat
<1>1. \A i \in 1..Len(s) : s[i] \in CompletionRecords
  OBVIOUS
<1>2. \A r \in CompletionRecords : r.seq \in Nat
  BY DEF CompletionRecords
<1> QED BY <1>1, <1>2

\* A number is drawn for each completion, and the record goes to the end of the queue.
LEMMA CompleteInSequence ==
    ASSUME TypeOK, InSequence, NEW h \in Handles, NEW res \in TerminalStates,
           CompleteRequest(h, res), UNCHANGED <<dispatch, pumping>>
    PROVE  InSequence'
<1>1. nextSequence \in Nat /\ Len(dispatch) \in Nat /\ \A j \in 1..Len(dispatch) : dispatch[j].seq \in Nat
  BY RecordTypes DEF TypeOK
<1>2. /\ completions \in Seq(CompletionRecords) /\ Len(completions) \in Nat
      /\ \A j \in 1..Len(completions) : completions[j].seq \in Nat
  BY RecordTypes DEF TypeOK
<1>3. CASE completions' = completions /\ nextSequence' \in {nextSequence, nextSequence + 1}
  <2>1. \A n \in Nat : n < nextSequence => n < nextSequence'
    BY <1>1, <1>3
  <2> QED BY <1>1, <1>2, <1>3, <2>1 DEF InSequence, Increasing
<1>4. CASE /\ completions' = Append(completions, [h |-> h, seq |-> nextSequence, res |-> res])
           /\ nextSequence' = nextSequence + 1
  <2> DEFINE last == [h |-> h, seq |-> nextSequence, res |-> res]
  <2>1. /\ Len(completions) \in Nat /\ Len(completions') = Len(completions) + 1
        /\ \A j \in 1..Len(completions) : completions'[j] = completions[j]
        /\ completions'[Len(completions) + 1].seq = nextSequence
    <3>1. last.seq = nextSequence
      OBVIOUS
    <3> HIDE DEF last
    <3> QED BY <1>2, <1>4, <3>1 DEF last
  <2>2. \A j \in 1..Len(completions') : j \in 1..Len(completions) \/ j = Len(completions) + 1
    BY <2>1
  <2> QED BY <1>1, <1>2, <1>4, <2>1, <2>2 DEF InSequence, Increasing
<1> QED BY <1>3, <1>4 DEF CompleteRequest

\* A withdrawn record leaves the others in their order.
LEMMA WithdrawInSequence ==
    ASSUME TypeOK, InSequence, NEW h \in Handles, WithdrawCompletion(h),
           UNCHANGED <<dispatch, pumping, nextSequence>>
    PROVE  InSequence'
<1>1. CASE completions' = completions
  BY <1>1 DEF InSequence, Increasing
<1>2. CASE completions' # completions
  <2>1. PICK i \in 1..Len(completions) :
            completions' = SubSeq(completions, 1, i - 1)
                             \o SubSeq(completions, i + 1, Len(completions))
    BY <1>2 DEF WithdrawCompletion
  <2>2. completions \in Seq(CompletionRecords) /\ Len(completions) \in Nat /\ i \in Nat
    BY DEF TypeOK
  <2> DEFINE front == SubSeq(completions, 1, i - 1)
             back == SubSeq(completions, i + 1, Len(completions))
  <2>3. /\ front \in Seq(CompletionRecords) /\ Len(front) = i - 1
        /\ \A j \in 1..(i - 1) : front[j] = completions[j]
    BY <2>2, SubSeqProperties
  <2>4. /\ back \in Seq(CompletionRecords) /\ Len(back) = Len(completions) - i
        /\ \A j \in 1..(Len(completions) - i) : back[j] = completions[i + j]
    BY <2>2, SubSeqProperties
  <2>5. completions' = front \o back
    BY <2>1
  <2> HIDE DEF front, back
  <2>6. /\ Len(completions') = Len(completions) - 1
        /\ \A j \in 1..(Len(completions) - 1) :
                completions'[j] = IF j < i THEN completions[j] ELSE completions[j + 1]
    <3>1. /\ Len(completions') = Len(front) + Len(back)
          /\ \A j \in 1..(Len(front) + Len(back)) :
                completions'[j] = IF j <= Len(front) THEN front[j] ELSE back[j - Len(front)]
      BY <2>3, <2>4, <2>5, ConcatProperties
    <3>2. Len(front) + Len(back) = Len(completions) - 1
      BY <2>2, <2>3, <2>4
    <3>3. ASSUME NEW j \in 1..(Len(completions) - 1)
          PROVE  completions'[j] = IF j < i THEN completions[j] ELSE completions[j + 1]
      <4>1. CASE j < i
        <5>1. j \in 1..(i - 1) /\ j <= Len(front)
          BY <2>2, <2>3, <4>1
        <5> QED BY <2>3, <3>1, <3>2, <4>1, <5>1
      <4>2. CASE ~(j < i)
        <5>1. j - Len(front) \in 1..(Len(completions) - i) /\ ~(j <= Len(front))
          BY <2>2, <2>3, <4>2
        <5>2. i + (j - Len(front)) = j + 1
          BY <2>2, <2>3
        <5> QED BY <2>4, <3>1, <3>2, <4>2, <5>1, <5>2
      <4> QED BY <4>1, <4>2
    <3> QED BY <3>1, <3>2, <3>3
  <2> DEFINE at(j) == IF j < i THEN j ELSE j + 1
  <2>7. \A j \in 1..Len(completions') : at(j) \in 1..Len(completions) /\ completions'[j] = completions[at(j)]
    BY <2>2, <2>6
  <2>8. \A j, k \in 1..Len(completions') : j < k => at(j) < at(k)
    BY <2>2, <2>6
  <2> HIDE DEF at
  <2> QED BY <2>7, <2>8 DEF InSequence, Increasing
<1> QED BY <1>1, <1>2

LEMMA PumpInSequence == TypeOK /\ InSequence /\ Pump => InSequence'
<1> SUFFICES ASSUME TypeOK, InSequence, Pump PROVE InSequence'
  OBVIOUS
<1>1. /\ dispatch \in Seq(CompletionRecords) /\ completions \in Seq(CompletionRecords)
      /\ Len(dispatch) \in Nat /\ Len(completions) \in Nat
  BY DEF TypeOK
<1>2. CASE PumpTake
  <2>1. PICK n \in 1..Len(completions) :
            /\ dispatch' = SubSeq(completions, 1, n)
            /\ completions' = SubSeq(completions, n + 1, Len(completions))
    BY <1>2 DEF PumpTake
  <2>2. /\ Len(dispatch') = n /\ \A i \in 1..n : dispatch'[i] = completions[i]
        /\ Len(completions') = Len(completions) - n
        /\ \A j \in 1..(Len(completions) - n) : completions'[j] = completions[n + j]
    BY <1>1, <2>1
  <2>3. pumping' /\ nextSequence' = nextSequence
    BY <1>2 DEF PumpTake
  <2>4. \A i \in 1..Len(dispatch'), j \in 1..Len(completions') :
          /\ i \in 1..Len(completions) /\ n + j \in 1..Len(completions) /\ i < n + j
          /\ dispatch'[i] = completions[i] /\ completions'[j] = completions[n + j]
    BY <1>1, <2>2
  <2>5. Increasing(dispatch)'
    BY <1>1, <2>2 DEF InSequence, Increasing
  <2>6. Increasing(completions)'
    <3> SUFFICES ASSUME NEW i \in 1..Len(completions'), NEW j \in 1..Len(completions'), i < j
                 PROVE  completions'[i].seq < completions'[j].seq
      BY DEF Increasing
    <3>1. /\ completions'[i] = completions[n + i] /\ completions'[j] = completions[n + j]
          /\ n + i \in 1..Len(completions) /\ n + j \in 1..Len(completions) /\ n + i < n + j
      BY <1>1, <2>2
    <3> QED BY <3>1 DEF InSequence, Increasing
  <2>7. \A i \in 1..Len(dispatch') : dispatch'[i].seq < nextSequence'
    <3>1. \A i \in 1..Len(dispatch') : i \in 1..Len(completions) /\ dispatch'[i] = completions[i]
      BY <1>1, <2>2
    <3> QED BY <2>3, <3>1 DEF InSequence
  <2>8. \A j \in 1..Len(completions') : completions'[j].seq < nextSequence'
    <3>1. \A j \in 1..Len(completions') :
                n + j \in 1..Len(completions) /\ completions'[j] = completions[n + j]
      BY <1>1, <2>2
    <3> QED BY <2>3, <3>1 DEF InSequence
  <2> QED BY <2>3, <2>4, <2>5, <2>6, <2>7, <2>8 DEF InSequence, Increasing
<1>3. CASE PumpCall
  <2>1. dispatch # <<>> /\ dispatch' = Tail(dispatch)
        /\ UNCHANGED <<completions, pumping, nextSequence>>
    BY <1>3 DEF PumpCall
  <2>2. /\ Len(dispatch') = Len(dispatch) - 1
        /\ \A i \in 1..(Len(dispatch) - 1) : dispatch'[i] = dispatch[i + 1]
    BY <1>1, <2>1
  <2>3. pumping'
    BY <2>1 DEF InSequence
  <2> QED BY <1>1, <2>1, <2>2, <2>3 DEF InSequence, Increasing
<1>4. CASE PumpEnd
  BY <1>4 DEF PumpEnd, InSequence, Increasing
<1> QED BY <1>2, <1>3, <1>4 DEF Pump

\* Steps that leave the callbacks alone.
LEMMA QuietInSequence ==
    InSequence /\ UNCHANGED <<dispatch, completions, pumping, nextSequence>> => InSequence'
BY DEF InSequence, Increasing

LEMMA InSequencePreserved == TypeInv /\ InSequence /\ [Next]_vars => InSequence'
<1> SUFFICES ASSUME TypeInv, TypeOK, InSequence, [Next]_vars PROVE InSequence'
  BY DEF TypeInv
<1>1. ASSUME NEW c \in Clients, Complete(c) PROVE InSequence'
  <2>1. client[c].h \in Handles /\ client[c].res \in TerminalStates
    BY <1>1 DEF Complete, TypeInv, TypeOK, ClientHandles, ClientRecords, Admitting
  <2> QED BY <1>1, <2>1, CompleteInSequence DEF Complete, pumpVars
<1>2. ASSUME NEW w \in Workers, Notify(w) PROVE InSequence'
  <2>1. worker[w].pending \in SUBSET Handles /\ worker[w].res \in TerminalStates
    BY DEF TypeOK, WorkerRecords
  <2> QED BY <1>2, <2>1, CompleteInSequence DEF Notify, pumpVars
<1>3. ASSUME NEW c \in Clients, NEW h \in Handles, ReleaseRequest(c, h) PROVE InSequence'
  BY <1>3, WithdrawInSequence DEF ReleaseRequest, pumpVars
<1>4. ASSUME NEW c \in Clients, Call(c), ~\E h \in Handles : ReleaseRequest(c, h)
      PROVE  InSequence'
  BY <1>4, QuietInSequence DEF Call, StartRequest, Cancel, FindResult, pumpVars
<1>5. ASSUME NEW c \in Clients, Request(c), ~Complete(c) PROVE InSequence'
  BY <1>5, QuietInSequence DEF Request, Reserve, Allocate, Unreserve, AdmitRejected, AdmitHit,
       AdmitCreate, AdmitJoin, Wait, CommitJoined, Submit, Rollback, Unslot, AcquireExternal, pumpVars
<1>6. ASSUME NEW w \in Workers, Work(w), ~Notify(w) PROVE InSequence'
  BY <1>6, QuietInSequence DEF Work, Take, Exit, BeginLoad, FinishLoad, CommitLoad, pumpVars
<1>7. ASSUME (\E k \in Keys : DropHandle(k)) \/ Shutdown PROVE InSequence'
  BY <1>7, QuietInSequence DEF DropHandle, Shutdown, BeginShutdown, RequestStop, Join,
       ClearControls, DropOwnership, pumpVars
<1>8. ASSUME UNCHANGED vars PROVE InSequence'
  BY <1>8, QuietInSequence DEF vars
<1> QED BY <1>1, <1>2, <1>3, <1>4, <1>5, <1>6, <1>7, <1>8, PumpInSequence DEF Next, Quiescent

\* Callbacks run in the order of their sequence numbers, whatever is released in between.
THEOREM CallbacksAreOrdered == Spec => []CompletionsAreOrdered
BY InitTypes, TypesPreserved, InSequenceInit, InSequencePreserved, InSequenceImpliesOrdered, PTL
   DEF Spec, TypeInv

-----------------------------------------------------------------------------
(* The places in the completion queue.                                     *)

\* A control is made once for each handle, by the client that got the handle, and not
\* while the manager is closed.
ControlsAreGiven ==
    /\ \A h \in Handles : ~control[h].live => control[h] = NoControl
    /\ \A h \in Handles : slot[h[1]].gen < h[2] => ~control[h].live
    /\ \A c \in Clients : client[c].pc = "admit" =>
            ~control[client[c].h].live /\ client[c].h[2] <= slot[client[c].h[1]].gen
    /\ \A c, d \in Clients : client[c].pc = "admit" /\ client[d].pc = "admit" /\ c # d =>
            client[c].h # client[d].h
    /\ Cleared => \A h \in Handles : ~control[h].live

\* Only a call with a callback reserves a place.
CallbacksReserve ==
    \A c \in Clients : client[c].pc \in {"reserve", "unreserve"} => client[c].cb

Reserved == {h \in Handles : control[h].completion = "reserved"}

\* The reservations cover the queue and those who still wait for a place in it.
Balanced ==
    /\ reservations >= Len(completions) + Cardinality(Reserving)
    /\ ~Cleared =>
         reservations = Len(completions) + Cardinality(Reserving) + Cardinality(Reserved)
    /\ reservations <= MaxCompletions
    /\ violations = 0

ReservationInv == ControlsAreGiven /\ CallbacksReserve /\ Balanced

LEMMA HandlePairs ==
    /\ NoHandle \notin Handles
    /\ \A h \in Handles : h[1] \in Slots /\ h[2] \in 1..MaxGeneration /\ h = <<h[1], h[2]>>
    /\ \A g, h \in Handles : g[1] = h[1] /\ g[2] = h[2] => g = h
BY DEF Handles, NoHandle, Slots

\* No step but Allocate changes the generation of a slot.
LEMMA GenerationsStay ==
    ASSUME TypeOK, NEW h \in Handles, NEW s \in Slots
    PROVE  /\ \A from, to : Moved(slot, h, from, to)[s].gen = slot[s].gen
           /\ \A H, state : Committed(slot, H, state)[s].gen = slot[s].gen
           /\ \A n : Sequenced(slot, h, n)[s].gen = slot[s].gen
           /\ Released(slot, h)[s].gen = slot[s].gen
<1>1. slot \in [Slots -> SlotRecords] /\ slot[s] \in SlotRecords /\ h[1] \in Slots
  BY HandlePairs DEF TypeOK
<1>2. ASSUME NEW from, NEW to PROVE Moved(slot, h, from, to)[s].gen = slot[s].gen
  <2>1. \/ Moved(slot, h, from, to) = slot
        \/ Moved(slot, h, from, to) = [slot EXCEPT ![h[1]].state = to]
    BY DEF Moved
  <2>2. [slot EXCEPT ![h[1]].state = to][s] = slot[s]
        \/ [slot EXCEPT ![h[1]].state = to][s] = [slot[s] EXCEPT !.state = to]
    BY <1>1
  <2> QED BY <1>1, <2>1, <2>2 DEF SlotRecords
<1>3. ASSUME NEW H, NEW state PROVE Committed(slot, H, state)[s].gen = slot[s].gen
  <2>1. Committed(slot, H, state)[s] \in {slot[s], [slot[s] EXCEPT !.state = state]}
    BY DEF Committed
  <2> QED BY <1>1, <2>1 DEF SlotRecords
<1>4. ASSUME NEW n PROVE Sequenced(slot, h, n)[s].gen = slot[s].gen
  <2>1. \/ Sequenced(slot, h, n) = slot
        \/ Sequenced(slot, h, n) = [slot EXCEPT ![h[1]].seq = n]
    BY DEF Sequenced
  <2>2. [slot EXCEPT ![h[1]].seq = n][s] = slot[s]
        \/ [slot EXCEPT ![h[1]].seq = n][s] = [slot[s] EXCEPT !.seq = n]
    BY <1>1
  <2> QED BY <1>1, <2>1, <2>2 DEF SlotRecords
<1>5. Released(slot, h)[s].gen = slot[s].gen
  <2>1. CASE IsLive(slot, h)
    <3>1. slot[h[1]].gen = h[2]
      BY <2>1 DEF IsLive
    <3>2. Released(slot, h)[s] = IF s = h[1]
            THEN [gen |-> h[2], occupied |-> FALSE, state |-> "Invalid", seq |-> 0] ELSE slot[s]
      BY <1>1, <2>1 DEF Released
    <3> QED BY <3>1, <3>2
  <2>2. CASE ~IsLive(slot, h)
    BY <2>2 DEF Released
  <2> QED BY <2>1, <2>2
<1> QED BY <1>2, <1>3, <1>4, <1>5

\* A step that makes no control, and no client that is being admitted.
NoNewcomer ==
    /\ \A s \in Slots : slot'[s].gen = slot[s].gen
    /\ \A h \in Handles : control'[h].live => control[h].live
    /\ \A h \in Handles : ~control'[h].live => control'[h] \in {control[h], NoControl}
    /\ \A c \in Clients : client'[c].pc = "admit" => client[c].pc = "admit" /\ client'[c].h = client[c].h

LEMMA GivenStay ==
    ASSUME TypeInv, ControlsAreGiven, NoNewcomer, Cleared' <=> Cleared
    PROVE  ControlsAreGiven'
<1>1. \A h \in Handles : h[1] \in Slots
  BY HandlePairs
<1>2. \A c \in Clients : client[c].pc = "admit" => client[c].h \in Handles
  BY DEF TypeInv, ClientHandles, Admitting
<1>3. ~NoControl.live
  BY DEF NoControl
<1>4. \A h \in Handles : ~control'[h].live => control'[h] = NoControl
  BY <1>3 DEF NoNewcomer, ControlsAreGiven
<1>5. \A h \in Handles : slot'[h[1]].gen < h[2] => ~control'[h].live
  BY <1>1 DEF NoNewcomer, ControlsAreGiven
<1>6. \A c \in Clients : client'[c].pc = "admit" =>
            ~control'[client'[c].h].live /\ client'[c].h[2] <= slot'[client'[c].h[1]].gen
  BY <1>1, <1>2 DEF NoNewcomer, ControlsAreGiven
<1>7. \A c, d \in Clients : client'[c].pc = "admit" /\ client'[d].pc = "admit" /\ c # d =>
            client'[c].h # client'[d].h
  BY DEF NoNewcomer, ControlsAreGiven
<1>8. Cleared' => \A h \in Handles : ~control'[h].live
  BY DEF NoNewcomer, ControlsAreGiven
<1> QED BY <1>4, <1>5, <1>6, <1>7, <1>8 DEF ControlsAreGiven

\* Numbering a completion makes no control.
LEMMA CompleteMakesNone ==
    ASSUME TypeOK, NEW h \in Handles, NEW res, CompleteRequest(h, res)
    PROVE  /\ \A s \in Slots : slot'[s].gen = slot[s].gen
           /\ \A g \in Handles : control'[g].live = control[g].live
           /\ \A g \in Handles : ~control'[g].live => control'[g] = control[g]
<1>1. control[h] \in Controls
  BY DEF TypeOK
<1>2. \A s \in Slots : slot'[s].gen = slot[s].gen
  BY GenerationsStay DEF CompleteRequest
<1>3. CASE control' = control
  BY <1>2, <1>3
<1>4. CASE control[h].live /\ \E v \in {"none", "queued"} : control' = [control EXCEPT ![h].completion = v]
  <2>1. PICK v \in {"none", "queued"} : control' = [control EXCEPT ![h].completion = v]
    BY <1>4
  <2>2. \A g \in Handles \ {h} : control'[g] = control[g]
    BY <2>1 DEF TypeOK
  <2>3. control'[h] = [control[h] EXCEPT !.completion = v]
    BY <2>1 DEF TypeOK
  <2>4. control'[h].live = control[h].live
    BY <1>1, <2>3 DEF Controls
  <2> QED BY <1>2, <1>4, <2>2, <2>4
<1> QED BY <1>2, <1>3, <1>4 DEF CompleteRequest

\* A client that moves to a position other than "admit".
LEMMA MovesOn ==
    ASSUME client \in [Clients -> ClientRecords], NEW c \in Clients
    PROVE  /\ \A r : client' = [client EXCEPT ![c] = r] =>
                /\ client'[c] = r
                /\ \A d \in Clients \ {c} : client'[d] = client[d]
           /\ \A pc : Goto(c, pc) =>
                /\ client'[c].pc = pc /\ client'[c].h = client[c].h /\ client'[c].cb = client[c].cb
                /\ \A d \in Clients \ {c} : client'[d] = client[d]
<1>1. client[c] \in ClientRecords
  OBVIOUS
<1>2. ASSUME NEW pc, Goto(c, pc)
      PROVE  /\ client'[c].pc = pc /\ client'[c].h = client[c].h /\ client'[c].cb = client[c].cb
             /\ \A d \in Clients \ {c} : client'[d] = client[d]
  <2>1. client'[c] = [client[c] EXCEPT !.pc = pc]
    BY <1>2 DEF Goto
  <2>2. \A d \in Clients \ {c} : client'[d] = client[d]
    BY <1>2 DEF Goto
  <2> QED BY <1>1, <2>1, <2>2 DEF ClientRecords
<1> QED BY <1>2

\* The steps that fill in the control of an admitted request.
LEMMA AdmissionGives ==
    ASSUME TypeInv, ControlsAreGiven, NEW c \in Clients, client[c].pc = "admit", ~ShuttingDown,
           NEW v, v.live, control' = [control EXCEPT ![client[c].h] = v],
           \A s \in Slots : slot'[s].gen = slot[s].gen, UNCHANGED shutdown,
           client'[c].pc # "admit", \A d \in Clients \ {c} : client'[d] = client[d]
    PROVE  ControlsAreGiven'
<1> DEFINE h == client[c].h
<1>1. h \in Handles /\ \A d \in Clients : client[d].pc = "admit" => client[d].h \in Handles
  BY DEF TypeInv, ClientHandles, Admitting
<1>2. \A g \in Handles : g[1] \in Slots /\ g[2] \in Nat
  BY HandlePairs, HandleAssumption
<1>3. \A s \in Slots : slot[s].gen \in Nat
  BY HandleAssumption DEF TypeInv, TypeOK, SlotRecords
<1>4. control'[h] = v /\ \A g \in Handles \ {h} : control'[g] = control[g]
  BY <1>1 DEF TypeInv, TypeOK
<1>5. ~Cleared /\ ~Cleared'
  BY DEF ShuttingDown, Cleared
<1>6. h[2] <= slot[h[1]].gen
  BY DEF ControlsAreGiven
<1>7. \A d \in Clients \ {c} : client[d].pc = "admit" => client[d].h # h
  BY DEF ControlsAreGiven
<1> HIDE DEF h
<1>8. \A g \in Handles : ~control'[g].live => control'[g] = NoControl
  BY <1>4 DEF ControlsAreGiven
<1>9. \A g \in Handles : slot'[g[1]].gen < g[2] => ~control'[g].live
  BY <1>1, <1>2, <1>3, <1>4, <1>6 DEF ControlsAreGiven
<1>10. \A d \in Clients : client'[d].pc = "admit" =>
            ~control'[client'[d].h].live /\ client'[d].h[2] <= slot'[client'[d].h[1]].gen
  BY <1>1, <1>2, <1>4, <1>7 DEF ControlsAreGiven
<1>11. \A d, e \in Clients : client'[d].pc = "admit" /\ client'[e].pc = "admit" /\ d # e =>
            client'[d].h # client'[e].h
  BY DEF ControlsAreGiven
<1> QED BY <1>5, <1>8, <1>9, <1>10, <1>11 DEF ControlsAreGiven

LEMMA ControlsAreGivenInit == Init => ControlsAreGiven
BY HandlePairs DEF Init, ControlsAreGiven, NoControl, IdleClient, Cleared

LEMMA CallGives ==
    ASSUME TypeInv, ControlsAreGiven, NEW c \in Clients, Call(c) PROVE ControlsAreGiven'
<1> USE DEF TypeInv, TypeOK
<1>1. ASSUME NEW k \in Keys, NEW cb \in BOOLEAN, StartRequest(c, k, cb) PROVE ControlsAreGiven'
  <2>1. client'[c].pc # "admit" /\ \A d \in Clients \ {c} : client'[d] = client[d]
    BY <1>1, MovesOn DEF StartRequest, At
  <2>2. NoNewcomer /\ (Cleared' <=> Cleared)
    BY <1>1, <2>1 DEF StartRequest, NoNewcomer, managerVars, Cleared
  <2> QED BY <2>2, GivenStay
<1>2. ASSUME NEW h \in Handles, Cancel(c, h) PROVE ControlsAreGiven'
  <2>1. client'[c].pc # "admit" /\ \A d \in Clients \ {c} : client'[d] = client[d]
    BY <1>2, MovesOn DEF Cancel, At
  <2>2. slot' = Committed(slot, {h}, "Cancelled") /\ UNCHANGED <<control, shutdown>>
    BY <1>2 DEF Cancel
  <2>3. \A s \in Slots : slot'[s].gen = slot[s].gen
    BY <2>2, GenerationsStay
  <2>4. NoNewcomer /\ (Cleared' <=> Cleared)
    BY <2>1, <2>2, <2>3 DEF NoNewcomer, Cleared
  <2> QED BY <2>4, GivenStay
<1>3. ASSUME NEW h \in Handles, ReleaseRequest(c, h) PROVE ControlsAreGiven'
  <2>1. client'[c].pc # "admit" /\ \A d \in Clients \ {c} : client'[d] = client[d]
    BY <1>3, MovesOn DEF ReleaseRequest, At
  <2>2. \A g \in Handles : control'[g] = IF g = h THEN NoControl ELSE control[g]
    BY <1>3 DEF ReleaseRequest
  <2>3. NoNewcomer /\ (Cleared' <=> Cleared)
    BY <1>3, <2>1, <2>2 DEF ReleaseRequest, NoNewcomer, Cleared, NoControl
  <2> QED BY <2>3, GivenStay
<1>4. ASSUME NEW h \in Handles, FindResult(c, h) PROVE ControlsAreGiven'
  <2>1. client'[c].pc # "admit" /\ \A d \in Clients \ {c} : client'[d] = client[d]
    BY <1>4, MovesOn DEF FindResult, At
  <2>2. UNCHANGED <<slot, control, shutdown>>
    BY <1>4 DEF FindResult, managerVars
  <2>3. NoNewcomer /\ (Cleared' <=> Cleared)
    BY <1>4, <2>1, <2>2 DEF FindResult, NoNewcomer, Cleared
  <2> QED BY <2>3, GivenStay
<1> QED BY <1>1, <1>2, <1>3, <1>4 DEF Call

LEMMA AllocateGives ==
    ASSUME TypeInv, ControlsAreGiven, NEW c \in Clients, Allocate(c) PROVE ControlsAreGiven'
<1> USE DEF TypeInv, TypeOK
<1>1. CASE UNCHANGED slot
  <2>1. client'[c].pc # "admit" /\ \A d \in Clients \ {c} : client'[d] = client[d]
    <3>1. slot' = slot => Goto(c, "unreserve") \/ Return(c)
      <4>1. ASSUME NEW s \in Slots, slot' = [slot EXCEPT ![s] = Allocated(slot[s].gen + 1)]
            PROVE  slot' # slot
        BY <4>1 DEF Allocated, SlotRecords
      <4> QED BY <4>1 DEF Allocate
    <3> QED BY <1>1, <3>1, MovesOn DEF Return, IdleClient
  <2>2. NoNewcomer /\ (Cleared' <=> Cleared)
    BY <1>1, <2>1 DEF Allocate, NoNewcomer, Cleared
  <2> QED BY <2>2, GivenStay
<1>2. ASSUME NEW s \in Slots, IsFirstFree(slot, s),
             slot' = [slot EXCEPT ![s] = Allocated(slot[s].gen + 1)],
             client' = [client EXCEPT ![c] =
                At("admit", <<s, slot[s].gen + 1>>, client[c].key, client[c].cb, "Cancelled")]
      PROVE  ControlsAreGiven'
  <2> DEFINE h == <<s, slot[s].gen + 1>>
  <2>1. slot[s].gen \in Nat /\ h \in Handles
    BY <1>2, HandleAssumption DEF IsFirstFree, Handles, SlotRecords
  <2>2. /\ client'[c].pc = "admit" /\ client'[c].h = h
        /\ \A d \in Clients \ {c} : client'[d] = client[d]
    BY <1>2, MovesOn DEF At
  <2>3. \A d \in Clients : client[d].pc = "admit" => client[d].h \in Handles
    BY DEF ClientHandles, Admitting
  <2>4. slot'[s].gen = slot[s].gen + 1 /\ \A t \in Slots \ {s} : slot'[t] = slot[t]
    BY <1>2 DEF Allocated
  <2>5. \A g \in Handles : g[1] \in Slots /\ g[2] \in Nat /\ slot[g[1]].gen \in Nat
    BY HandlePairs, HandleAssumption DEF SlotRecords
  <2>6. h[1] = s /\ h[2] = slot[s].gen + 1
    OBVIOUS
  <2>7. UNCHANGED <<control, shutdown>>
    BY DEF Allocate
  <2> HIDE DEF h
  <2>8. \A g \in Handles : slot'[g[1]].gen >= slot[g[1]].gen /\ slot'[g[1]].gen \in Nat
    <3> SUFFICES ASSUME NEW g \in Handles
                 PROVE  slot'[g[1]].gen >= slot[g[1]].gen /\ slot'[g[1]].gen \in Nat
      OBVIOUS
    <3>1. CASE g[1] = s
      BY <2>1, <2>4, <3>1
    <3>2. CASE g[1] # s
      BY <2>4, <2>5, <3>2
    <3> QED BY <3>1, <3>2
  <2>9. \A g \in Handles : slot'[g[1]].gen < g[2] => ~control'[g].live
    <3> SUFFICES ASSUME NEW g \in Handles, slot'[g[1]].gen < g[2] PROVE ~control'[g].live
      OBVIOUS
    <3>1. slot[g[1]].gen < g[2]
      BY <2>5, <2>8
    <3> QED BY <2>7, <3>1 DEF ControlsAreGiven
  <2>10. ~control[h].live
    BY <2>1, <2>6 DEF ControlsAreGiven
  <2>11. \A d \in Clients : client'[d].pc = "admit" =>
            ~control'[client'[d].h].live /\ client'[d].h[2] <= slot'[client'[d].h[1]].gen
    <3>1. ASSUME NEW d \in Clients \ {c}, client'[d].pc = "admit"
          PROVE  ~control'[client'[d].h].live /\ client'[d].h[2] <= slot'[client'[d].h[1]].gen
      <4>1. client'[d] = client[d] /\ client[d].h \in Handles
        BY <2>2, <2>3, <3>1
      <4>2. client[d].h[2] <= slot[client[d].h[1]].gen
        BY <3>1, <4>1 DEF ControlsAreGiven
      <4>3. slot'[client[d].h[1]].gen >= slot[client[d].h[1]].gen
            /\ slot'[client[d].h[1]].gen \in Nat
        BY <2>8, <4>1
      <4> QED BY <2>5, <2>7, <3>1, <4>1, <4>2, <4>3 DEF ControlsAreGiven
    <3>2. ~control'[h].live /\ h[2] <= slot'[h[1]].gen
      BY <2>1, <2>4, <2>6, <2>7, <2>10
    <3>3. ASSUME NEW d \in Clients, client'[d].pc = "admit"
          PROVE  ~control'[client'[d].h].live /\ client'[d].h[2] <= slot'[client'[d].h[1]].gen
      <4>1. CASE d = c
        BY <2>2, <3>2, <4>1
      <4>2. CASE d # c
        BY <3>1, <3>3, <4>2
      <4> QED BY <4>1, <4>2
    <3> QED BY <3>3
  <2>12. \A d \in Clients \ {c} : client[d].pc = "admit" => client[d].h # h
    BY <2>1, <2>6 DEF ControlsAreGiven
  <2>13. \A d, e \in Clients : client'[d].pc = "admit" /\ client'[e].pc = "admit" /\ d # e =>
            client'[d].h # client'[e].h
    <3> SUFFICES ASSUME NEW d \in Clients, NEW e \in Clients, d # e,
                        client'[d].pc = "admit", client'[e].pc = "admit"
                 PROVE  client'[d].h # client'[e].h
      OBVIOUS
    <3>1. CASE d = c
      <4>1. client'[d].h = h /\ client'[e] = client[e]
        BY <2>2, <3>1
      <4> QED BY <2>12, <3>1, <4>1
    <3>2. CASE e = c
      <4>1. client'[e].h = h /\ client'[d] = client[d]
        BY <2>2, <3>2
      <4> QED BY <2>12, <3>2, <4>1
    <3>3. CASE d # c /\ e # c
      <4>1. client'[e] = client[e] /\ client'[d] = client[d]
        BY <2>2, <3>3
      <4> QED BY <4>1 DEF ControlsAreGiven
    <3> QED BY <3>1, <3>2, <3>3
  <2> QED BY <2>7, <2>9, <2>11, <2>13 DEF ControlsAreGiven, Cleared
<1> QED BY <1>1, <1>2 DEF Allocate

LEMMA RequestGives ==
    ASSUME TypeInv, ControlsAreGiven, NEW c \in Clients, Request(c) PROVE ControlsAreGiven'
<1> USE DEF TypeInv, TypeOK
<1>1. ASSUME AdmitHit(c) \/ AdmitCreate(c) \/ AdmitJoin(c) PROVE ControlsAreGiven'
  <2>1. /\ client[c].pc = "admit" /\ ~ShuttingDown /\ UNCHANGED shutdown
        /\ \E o \in Handles \cup {NoHandle}, cache \in BOOLEAN : control' =
              [control EXCEPT ![client[c].h] = NewControl(client[c].key, o, cache, client[c].cb)]
    <3>1. client[c].pc = "admit" => client[c].h \in Handles
      BY DEF ClientHandles, Admitting
    <3> QED BY <1>1, <3>1 DEF AdmitHit, AdmitCreate, AdmitJoin, Attachable
  <2>2. \A s \in Slots : slot'[s].gen = slot[s].gen
    <3>1. client[c].h \in Handles
      BY <2>1 DEF ClientHandles, Admitting
    <3>2. slot' = slot \/ slot' = Committed(slot, {client[c].h}, "Ready")
      BY <1>1 DEF AdmitHit, AdmitCreate, AdmitJoin
    <3> QED BY <3>1, <3>2, GenerationsStay
  <2>3. client'[c].pc # "admit" /\ \A d \in Clients \ {c} : client'[d] = client[d]
    <3>1. CASE AdmitHit(c)
      BY <3>1, MovesOn DEF AdmitHit, At
    <3>2. CASE AdmitCreate(c)
      BY <3>2, MovesOn DEF AdmitCreate
    <3>3. CASE AdmitJoin(c)
      <4>1. \/ Goto(c, "wait")
            \/ \E state : client' = [client EXCEPT ![c] =
                    At("commit", client[c].h, client[c].key, client[c].cb, state)]
        BY <3>3 DEF AdmitJoin
      <4> QED BY <4>1, MovesOn DEF At
    <3> QED BY <1>1, <3>1, <3>2, <3>3
  <2>4. PICK o \in Handles \cup {NoHandle}, cache \in BOOLEAN : control' =
              [control EXCEPT ![client[c].h] = NewControl(client[c].key, o, cache, client[c].cb)]
    BY <2>1
  <2>5. NewControl(client[c].key, o, cache, client[c].cb).live
    BY DEF NewControl
  <2> HIDE DEF TypeInv, TypeOK
  <2> QED BY <2>1, <2>2, <2>3, <2>4, <2>5, AdmissionGives
<1>2. ASSUME Complete(c) PROVE ControlsAreGiven'
  <2>1. client[c].h \in Handles
    BY <1>2 DEF Complete, ClientHandles, Admitting
  <2>2. client'[c].pc # "admit" /\ \A d \in Clients \ {c} : client'[d] = client[d]
    BY <1>2, MovesOn DEF Complete, Return, IdleClient
  <2>3. NoNewcomer /\ (Cleared' <=> Cleared)
    BY <1>2, <2>1, <2>2, CompleteMakesNone DEF Complete, NoNewcomer, Cleared
  <2> QED BY <2>3, GivenStay
<1>3. ASSUME Reserve(c) \/ Unreserve(c) \/ Submit(c) \/ AcquireExternal(c)
      PROVE  ControlsAreGiven'
  <2>1. client'[c].pc # "admit" /\ \A d \in Clients \ {c} : client'[d] = client[d]
    BY <1>3, MovesOn DEF Reserve, Unreserve, Submit, AcquireExternal, Return, IdleClient
  <2>2. UNCHANGED <<slot, control, shutdown>>
    BY <1>3 DEF Reserve, Unreserve, Submit, AcquireExternal, managerVars
  <2>3. NoNewcomer /\ (Cleared' <=> Cleared)
    BY <2>1, <2>2 DEF NoNewcomer, Cleared
  <2> QED BY <2>3, GivenStay
<1>4. ASSUME AdmitRejected(c) \/ Wait(c) \/ CommitJoined(c) \/ Unslot(c) PROVE ControlsAreGiven'
  <2>1. client'[c].pc # "admit" /\ \A d \in Clients \ {c} : client'[d] = client[d]
    BY <1>4, MovesOn DEF AdmitRejected, Wait, CommitJoined, Unslot, Return, IdleClient
  <2>2. client[c].pc # "unslot" => client[c].h \in Handles
    BY <1>4 DEF AdmitRejected, Wait, CommitJoined, Unslot, ClientHandles, Admitting
  <2>3. client[c].h \in Handles \cup {NoHandle}
    BY DEF ClientRecords
  <2>4. \A s \in Slots : slot'[s].gen = slot[s].gen
    <3>1. CASE client[c].h \in Handles
      BY <1>4, <3>1, GenerationsStay DEF AdmitRejected, Wait, CommitJoined, Unslot
    <3>2. CASE client[c].h = NoHandle
      <4>1. Unslot(c)
        BY <1>4, <2>2, <3>2, HandlePairs DEF AdmitRejected, Wait, CommitJoined
      <4> QED BY <3>2, <4>1 DEF Unslot, Released, IsLive
    <3> QED BY <2>3, <3>1, <3>2
  <2>5. UNCHANGED <<control, shutdown>>
    BY <1>4 DEF AdmitRejected, Wait, CommitJoined, Unslot
  <2>6. NoNewcomer /\ (Cleared' <=> Cleared)
    BY <2>1, <2>4, <2>5 DEF NoNewcomer, Cleared
  <2> QED BY <2>6, GivenStay
<1>5. ASSUME Rollback(c) PROVE ControlsAreGiven'
  <2>1. client'[c].pc # "admit" /\ \A d \in Clients \ {c} : client'[d] = client[d]
    BY <1>5, MovesOn DEF Rollback
  <2>2. \A g \in Handles : control'[g] \in {control[g], NoControl}
    BY <1>5 DEF Rollback
  <2>3. UNCHANGED <<slot, shutdown>> /\ ~NoControl.live
    BY <1>5 DEF Rollback, NoControl
  <2>4. NoNewcomer /\ (Cleared' <=> Cleared)
    BY <2>1, <2>2, <2>3 DEF NoNewcomer, Cleared
  <2> QED BY <2>4, GivenStay
<1> QED BY <1>1, <1>2, <1>3, <1>4, <1>5, AllocateGives DEF Request

LEMMA WorkGives ==
    ASSUME TypeInv, ControlsAreGiven, NEW w \in Workers, Work(w) PROVE ControlsAreGiven'
<1> USE DEF TypeInv, TypeOK
<1>1. ASSUME Take(w) \/ Exit(w) \/ FinishLoad(w) PROVE ControlsAreGiven'
  <2>1. UNCHANGED <<slot, control, client, shutdown>>
    BY <1>1 DEF Take, Exit, FinishLoad, managerVars
  <2>2. NoNewcomer /\ (Cleared' <=> Cleared)
    BY <2>1 DEF NoNewcomer, Cleared
  <2> QED BY <2>2, GivenStay
<1>2. ASSUME BeginLoad(w) PROVE ControlsAreGiven'
  <2>1. UNCHANGED <<control, client, shutdown>>
    BY <1>2 DEF BeginLoad
  <2>2. \A s \in Slots : slot'[s] \in {slot[s], [slot[s] EXCEPT !.state = "Loading"]}
    BY <1>2 DEF BeginLoad
  <2>3. \A s \in Slots : slot'[s].gen = slot[s].gen
    <3> SUFFICES ASSUME NEW s \in Slots PROVE slot'[s].gen = slot[s].gen
      OBVIOUS
    <3>1. slot[s] \in SlotRecords
      OBVIOUS
    <3> QED BY <2>2, <3>1 DEF SlotRecords
  <2>4. NoNewcomer /\ (Cleared' <=> Cleared)
    BY <2>1, <2>3 DEF NoNewcomer, Cleared
  <2> QED BY <2>4, GivenStay
<1>3. ASSUME CommitLoad(w) PROVE ControlsAreGiven'
  <2>1. UNCHANGED <<client, shutdown>>
    BY <1>3 DEF CommitLoad
  <2>2. worker[w].op \in Handles
    BY <1>3 DEF CommitLoad, WorkerHandles
  <2>3. \A s \in Slots : slot'[s].gen = slot[s].gen
    <3>1. \E H, state : slot' = Committed(slot, H, state)
      BY <1>3 DEF CommitLoad
    <3> QED BY <2>2, <3>1, GenerationsStay
  <2>4. \A h \in Handles : \/ control'[h] = control[h]
                           \/ /\ control[h].live
                              /\ control'[h] = [control[h] EXCEPT !.cache = TRUE]
    BY <1>3 DEF CommitLoad
  <2>5. \A h \in Handles : control'[h] = control[h] \/ (control[h].live /\ control'[h].live)
    <3> SUFFICES ASSUME NEW h \in Handles
                 PROVE  control'[h] = control[h] \/ (control[h].live /\ control'[h].live)
      OBVIOUS
    <3>1. control[h] \in Controls
      BY DEF TypeOK
    <3>2. [control[h] EXCEPT !.cache = TRUE].live = control[h].live
      BY <3>1 DEF Controls
    <3> QED BY <2>4, <3>2
  <2>6. NoNewcomer /\ (Cleared' <=> Cleared)
    BY <2>1, <2>3, <2>5 DEF NoNewcomer, Cleared
  <2> QED BY <2>6, GivenStay
<1>4. ASSUME Notify(w) PROVE ControlsAreGiven'
  <2>1. UNCHANGED <<client, shutdown>>
    BY <1>4 DEF Notify
  <2>2. PICK h \in worker[w].pending : CompleteRequest(h, worker[w].res)
    BY <1>4 DEF Notify
  <2>3. h \in Handles
    BY DEF WorkerRecords
  <2>4. NoNewcomer /\ (Cleared' <=> Cleared)
    BY <2>1, <2>2, <2>3, CompleteMakesNone DEF NoNewcomer, Cleared
  <2> QED BY <2>4, GivenStay
<1> QED BY <1>1, <1>2, <1>3, <1>4 DEF Work

LEMMA ControlsAreGivenPreserved == TypeInv /\ ControlsAreGiven /\ [Next]_vars => ControlsAreGiven'
<1> SUFFICES ASSUME TypeInv, ControlsAreGiven, [Next]_vars PROVE ControlsAreGiven'
  OBVIOUS
<1>1. ASSUME (\E k \in Keys : DropHandle(k)) \/ Pump \/ RequestStop \/ Join \/ BeginShutdown
             \/ DropOwnership \/ UNCHANGED vars
      PROVE  ControlsAreGiven'
  <2>1. UNCHANGED <<slot, control, client>>
    BY <1>1 DEF DropHandle, Pump, PumpTake, PumpCall, PumpEnd, RequestStop, Join, BeginShutdown,
                DropOwnership, managerVars, vars
  <2>2. Cleared' <=> Cleared
    BY <1>1 DEF DropHandle, Pump, PumpTake, PumpCall, PumpEnd, RequestStop, Join, BeginShutdown,
                DropOwnership, vars, Cleared
  <2> QED BY <2>1, <2>2, GivenStay DEF NoNewcomer
<1>2. ASSUME ClearControls PROVE ControlsAreGiven'
  <2>1. UNCHANGED <<slot, client>> /\ \A h \in Handles : control'[h] = NoControl
    BY <1>2 DEF ClearControls
  <2>2. \A c \in Clients : client[c].pc = "admit" => client[c].h \in Handles
    BY DEF TypeInv, ClientHandles, Admitting
  <2>3. ~NoControl.live
    BY DEF NoControl
  <2> QED BY <2>1, <2>2, <2>3 DEF ControlsAreGiven
<1>3. ASSUME NEW c \in Clients, Call(c) \/ Request(c) PROVE ControlsAreGiven'
  BY <1>3, CallGives, RequestGives
<1>4. ASSUME NEW w \in Workers, Work(w) PROVE ControlsAreGiven'
  BY <1>4, WorkGives
<1>5. ASSUME Shutdown PROVE ControlsAreGiven'
  BY <1>1, <1>2, <1>5 DEF Shutdown
<1>6. ASSUME UNCHANGED vars PROVE ControlsAreGiven'
  BY <1>1, <1>6
<1>7. ASSUME NEW k \in Keys, DropHandle(k) PROVE ControlsAreGiven'
  BY <1>1, <1>7
<1>8. ASSUME Pump PROVE ControlsAreGiven'
  BY <1>1, <1>8
<1> QED BY <1>3, <1>4, <1>5, <1>6, <1>7, <1>8 DEF Next, Quiescent

-----------------------------------------------------------------------------
(* Counting the places.                                                    *)

LEMMA PlacesAreFinite ==
    /\ IsFiniteSet(Reserving) /\ Cardinality(Reserving) \in Nat
    /\ IsFiniteSet(Reserved) /\ Cardinality(Reserved) \in Nat
<1>1. Reserving \in SUBSET Clients /\ Reserved \in SUBSET Handles
  BY DEF Reserving, Reserved
<1>2. IsFiniteSet(Reserving) /\ IsFiniteSet(Reserved)
  BY <1>1, HandlesFinite, ManagerAssumption, FS_Subset
<1> QED BY <1>2, FS_CardinalityType

\* What a move of a client does to Reserving, and a change of a control to Reserved.
LEMMA ReservingMoves ==
    ASSUME NEW c \in Clients, \A d \in Clients \ {c} : client'[d] = client[d]
    PROVE  /\ c \in Reserving' => Cardinality(Reserving') =
                IF c \in Reserving THEN Cardinality(Reserving) ELSE Cardinality(Reserving) + 1
           /\ c \notin Reserving' => Cardinality(Reserving') =
                IF c \in Reserving THEN Cardinality(Reserving) - 1 ELSE Cardinality(Reserving)
<1>1. Reserving' = IF c \in Reserving' THEN Reserving \cup {c} ELSE Reserving \ {c}
  BY DEF Reserving
<1> QED BY <1>1, PlacesAreFinite, FS_AddElement, FS_RemoveElement

LEMMA ReservedMoves ==
    ASSUME NEW h \in Handles, \A g \in Handles \ {h} : control'[g] = control[g]
    PROVE  /\ h \in Reserved' => Cardinality(Reserved') =
                IF h \in Reserved THEN Cardinality(Reserved) ELSE Cardinality(Reserved) + 1
           /\ h \notin Reserved' => Cardinality(Reserved') =
                IF h \in Reserved THEN Cardinality(Reserved) - 1 ELSE Cardinality(Reserved)
<1>1. Reserved' = IF h \in Reserved' THEN Reserved \cup {h} ELSE Reserved \ {h}
  BY DEF Reserved
<1> QED BY <1>1, PlacesAreFinite, FS_AddElement, FS_RemoveElement

LEMMA ReservedSame ==
    ASSUME \A h \in Handles : control'[h].completion = control[h].completion
    PROVE  Reserved' = Reserved
BY DEF Reserved

LEMMA ReservingSame ==
    ASSUME \A c \in Clients : c \in Reserving' <=> c \in Reserving
    PROVE  Reserving' = Reserving
BY DEF Reserving

\* The numbers that the balance is about.
LEMMA BalanceTypes ==
    ASSUME TypeOK
    PROVE  /\ reservations \in Int /\ Len(completions) \in Nat /\ MaxCompletions \in Nat
           /\ Cardinality(Reserving) \in Nat /\ Cardinality(Reserved) \in Nat
BY PlacesAreFinite, ManagerAssumption DEF TypeOK

LEMMA QuietBalance ==
    ASSUME Balanced, Reserving' = Reserving, Reserved' = Reserved, Cleared' <=> Cleared,
           UNCHANGED <<completions, reservations, violations>>
    PROVE  Balanced'
BY DEF Balanced

\* A call that ends, or goes on, gives a place back or passes it on.
LEMMA CompleteBalance ==
    ASSUME TypeInv, ControlsAreGiven, Balanced, NEW h \in Handles, NEW res \in TerminalStates,
           CompleteRequest(h, res), Reserving' = Reserving, UNCHANGED shutdown
    PROVE  Balanced'
<1>1. control \in [Handles -> Controls] /\ completions \in Seq(CompletionRecords) /\ TypeOK
  BY DEF TypeInv, TypeOK
<1>2. Cleared' <=> Cleared
  BY DEF Cleared
<1>3. CASE UNCHANGED <<control, completions, reservations, violations>>
  BY <1>2, <1>3, QuietBalance, ReservedSame
<1>4. CASE control[h].live /\ control[h].completion = "reserved"
  <2>1. h \in Reserved /\ ~Cleared
    BY <1>4 DEF Reserved, ControlsAreGiven
  <2>2. Cardinality(Reserved) > 0
    BY <2>1, PlacesAreFinite, FS_EmptySet
  <2>3. reservations > 0 /\ Len(completions) < MaxCompletions
    BY <1>1, <2>1, <2>2, BalanceTypes DEF Balanced
  <2>4. /\ control' = [control EXCEPT ![h].completion = "queued"]
        /\ completions' = Append(completions, [h |-> h, seq |-> nextSequence, res |-> res])
        /\ UNCHANGED <<reservations, violations>>
    BY <1>4, <2>3 DEF CompleteRequest
  <2>5. Len(completions') = Len(completions) + 1
    BY <1>1, <2>4
  <2>6. control'[h].completion = "queued" /\ \A g \in Handles \ {h} : control'[g] = control[g]
    BY <1>1, <2>4 DEF Controls
  <2>7. Cardinality(Reserved') = Cardinality(Reserved) - 1
    BY <2>1, <2>6, ReservedMoves DEF Reserved
  <2> QED BY <1>1, <1>2, <2>1, <2>2, <2>4, <2>5, <2>7, BalanceTypes DEF Balanced
<1> QED BY <1>3, <1>4 DEF CompleteRequest

LEMMA WithdrawBalance ==
    ASSUME TypeInv, ControlsAreGiven, Balanced, NEW h \in Handles, WithdrawCompletion(h),
           control' = [control EXCEPT ![h] = NoControl], Reserving' = Reserving,
           UNCHANGED <<violations, shutdown>>
    PROVE  Balanced'
<1>1. control \in [Handles -> Controls] /\ completions \in Seq(CompletionRecords) /\ TypeOK
  BY DEF TypeInv, TypeOK
<1>2. Cleared' <=> Cleared
  BY DEF Cleared
<1>3. h \notin Reserved' /\ \A g \in Handles \ {h} : control'[g] = control[g]
  BY <1>1 DEF Reserved, NoControl
<1>4. Cardinality(Reserved') = IF h \in Reserved THEN Cardinality(Reserved) - 1
                               ELSE Cardinality(Reserved)
  BY <1>3, ReservedMoves
<1>5. CASE control[h].completion = "reserved"
  <2>1. h \in Reserved /\ ~Cleared /\ completions' = completions /\ reservations' = Unreserved
    <3>1. control[h].live
      BY <1>5 DEF ControlsAreGiven, NoControl
    <3> QED BY <1>5, <3>1 DEF Reserved, ControlsAreGiven, WithdrawCompletion
  <2>2. Cardinality(Reserved) > 0
    BY <2>1, PlacesAreFinite, FS_EmptySet
  <2>3. reservations' = reservations - 1
    BY <1>1, <2>1, <2>2, BalanceTypes DEF Balanced, Unreserved
  <2> QED BY <1>1, <1>2, <1>4, <2>1, <2>2, <2>3, BalanceTypes DEF Balanced
<1>6. CASE control[h].completion # "reserved"
  <2>1. Cardinality(Reserved') = Cardinality(Reserved)
    BY <1>4, <1>6 DEF Reserved
  <2>2. CASE UNCHANGED <<completions, reservations>>
    BY <1>2, <2>1, <2>2 DEF Balanced
  <2>3. ASSUME NEW i \in 1..Len(completions), reservations' = Unreserved,
               completions' = SubSeq(completions, 1, i - 1)
                                \o SubSeq(completions, i + 1, Len(completions))
        PROVE  Balanced'
    <3>1. Len(completions) \in Nat /\ i \in Nat
      BY <1>1
    <3> DEFINE front == SubSeq(completions, 1, i - 1)
               back == SubSeq(completions, i + 1, Len(completions))
    <3>2. /\ front \in Seq(CompletionRecords) /\ Len(front) = i - 1
          /\ back \in Seq(CompletionRecords) /\ Len(back) = Len(completions) - i
      BY <1>1, <3>1, SubSeqProperties
    <3>3. completions' = front \o back
      BY <2>3
    <3> HIDE DEF front, back
    <3>4. Len(completions') = Len(completions) - 1
      <4>1. Len(completions') = Len(front) + Len(back)
        BY <3>2, <3>3, ConcatProperties
      <4> QED BY <3>1, <3>2, <4>1
    <3>5. reservations' = reservations - 1
      BY <1>1, <2>3, <3>1, BalanceTypes DEF Balanced, Unreserved
    <3> QED BY <1>1, <1>2, <2>1, <3>4, <3>5, BalanceTypes DEF Balanced
  <2> QED BY <1>6, <2>2, <2>3 DEF WithdrawCompletion
<1> QED BY <1>5, <1>6

\* The calls that neither take nor give back a place.
LEMMA CallBalance ==
    ASSUME TypeInv, ControlsAreGiven, Balanced, NEW c \in Clients, Call(c)
    PROVE  Balanced'
<1>1. client \in [Clients -> ClientRecords]
  BY DEF TypeInv, TypeOK
<1>2. ASSUME NEW k \in Keys, NEW cb \in BOOLEAN, StartRequest(c, k, cb) PROVE Balanced'
  <2>1. /\ client[c].pc = "idle" /\ \A d \in Clients \ {c} : client'[d] = client[d]
        /\ client'[c].cb = cb /\ client'[c].pc = IF cb THEN "reserve" ELSE "allocate"
    BY <1>1, <1>2, MovesOn DEF StartRequest, At
  <2>2. Reserving' = Reserving
    BY <2>1, ReservingSame DEF Reserving
  <2> QED BY <1>2, <2>2, QuietBalance, ReservedSame DEF StartRequest, managerVars, Cleared
<1>3. ASSUME NEW h \in Handles, Cancel(c, h) PROVE Balanced'
  <2>1. /\ client[c].pc = "idle" /\ \A d \in Clients \ {c} : client'[d] = client[d]
        /\ client'[c].pc \in {"idle", "cancelled"}
    BY <1>1, <1>3, MovesOn DEF Cancel, At
  <2>2. Reserving' = Reserving
    BY <2>1, ReservingSame DEF Reserving
  <2> QED BY <1>3, <2>2, QuietBalance, ReservedSame DEF Cancel, Cleared
<1>4. ASSUME NEW h \in Handles, ReleaseRequest(c, h) PROVE Balanced'
  <2>1. /\ client[c].pc = "idle" /\ \A d \in Clients \ {c} : client'[d] = client[d]
        /\ client'[c].pc = "unslot"
    BY <1>1, <1>4, MovesOn DEF ReleaseRequest, At
  <2>2. Reserving' = Reserving
    BY <2>1, ReservingSame DEF Reserving
  <2> QED BY <1>4, <2>2, WithdrawBalance DEF ReleaseRequest
<1>5. ASSUME NEW h \in Handles, FindResult(c, h) PROVE Balanced'
  <2>1. /\ client[c].pc = "idle" /\ \A d \in Clients \ {c} : client'[d] = client[d]
        /\ client'[c].pc = "acquire"
    BY <1>1, <1>5, MovesOn DEF FindResult, At
  <2>2. Reserving' = Reserving
    BY <2>1, ReservingSame DEF Reserving
  <2>3. UNCHANGED <<control, completions, reservations, violations, shutdown>>
    BY <1>5 DEF FindResult, managerVars
  <2> QED BY <2>2, <2>3, QuietBalance, ReservedSame DEF Cleared
<1> QED BY <1>2, <1>3, <1>4, <1>5 DEF Call

\* Taking a place, and giving it back when there is no slot or no admission.
LEMMA PlaceBalance ==
    ASSUME TypeInv, CallbacksReserve, Balanced, NEW c \in Clients,
           Reserve(c) \/ Allocate(c) \/ Unreserve(c) \/ AdmitRejected(c)
    PROVE  Balanced'
<1>1. client \in [Clients -> ClientRecords] /\ client[c].cb \in BOOLEAN /\ TypeOK
  BY DEF TypeInv, TypeOK, ClientRecords
<1>2. UNCHANGED <<control, completions, violations, shutdown>>
  BY DEF Reserve, Allocate, Unreserve, AdmitRejected, managerVars
<1>3. Reserved' = Reserved /\ (Cleared' <=> Cleared)
  BY <1>2, ReservedSame DEF Cleared
<1>4. CASE Reserve(c)
  <2>1. client[c].cb /\ c \notin Reserving
    BY <1>4 DEF Reserve, CallbacksReserve, Reserving
  <2>2. CASE reservations < MaxCompletions
    <3>1. /\ c \in Reserving' /\ \A d \in Clients \ {c} : client'[d] = client[d]
      BY <1>1, <1>4, <2>1, <2>2, MovesOn DEF Reserve, Reserving
    <3>2. Cardinality(Reserving') = Cardinality(Reserving) + 1 /\ reservations' = reservations + 1
      BY <1>4, <2>1, <2>2, <3>1, ReservingMoves DEF Reserve
    <3> QED BY <1>1, <1>2, <1>3, <2>2, <3>2, BalanceTypes DEF Balanced
  <2>3. CASE ~(reservations < MaxCompletions)
    <3>1. c \notin Reserving' /\ \A d \in Clients \ {c} : client'[d] = client[d]
      BY <1>1, <1>4, <2>3, MovesOn DEF Reserve, Reserving, Return, IdleClient
    <3>2. Cardinality(Reserving') = Cardinality(Reserving) /\ reservations' = reservations
      BY <1>4, <2>1, <2>3, <3>1, ReservingMoves DEF Reserve
    <3> QED BY <1>1, <1>2, <1>3, <3>2, BalanceTypes DEF Balanced
  <2> QED BY <2>2, <2>3
<1>5. CASE Allocate(c)
  <2>1. \A d \in Clients \ {c} : client'[d] = client[d]
    BY <1>1, <1>5, MovesOn DEF Allocate, Return
  <2>2. c \in Reserving' <=> c \in Reserving
    <3>1. c \in Reserving <=> client[c].cb
      BY <1>5 DEF Allocate, Reserving
    <3>2. CASE \E s \in Slots : client' = [client EXCEPT ![c] =
                    At("admit", <<s, slot[s].gen + 1>>, client[c].key, client[c].cb, "Cancelled")]
      BY <1>1, <3>1, <3>2, MovesOn DEF Reserving, At
    <3>3. CASE client[c].cb /\ Goto(c, "unreserve")
      BY <1>1, <3>1, <3>3, MovesOn DEF Reserving
    <3>4. CASE ~client[c].cb /\ Return(c)
      BY <1>1, <3>1, <3>4, MovesOn DEF Reserving, Return, IdleClient
    <3> QED BY <1>5, <3>2, <3>3, <3>4 DEF Allocate
  <2>3. Reserving' = Reserving
    BY <2>1, <2>2, ReservingSame DEF Reserving
  <2>4. reservations' = reservations
    BY <1>5 DEF Allocate
  <2> QED BY <1>2, <1>3, <2>3, <2>4, QuietBalance
<1>6. CASE Unreserve(c) \/ AdmitRejected(c)
  <2>1. c \notin Reserving' /\ \A d \in Clients \ {c} : client'[d] = client[d]
    BY <1>1, <1>6, MovesOn DEF Unreserve, AdmitRejected, Reserving, Return, IdleClient
  <2>2. c \in Reserving <=> client[c].cb
    BY <1>6 DEF Unreserve, AdmitRejected, Reserving
  <2>3. reservations' = IF client[c].cb THEN Unreserved ELSE reservations
    BY <1>6 DEF Unreserve, AdmitRejected, CallbacksReserve
  <2>4. c \in Reserving => Cardinality(Reserving) > 0
    BY PlacesAreFinite, FS_EmptySet
  <2>5. Cardinality(Reserving') = IF client[c].cb THEN Cardinality(Reserving) - 1
                                  ELSE Cardinality(Reserving)
    BY <2>1, <2>2, ReservingMoves
  <2>6. client[c].cb => reservations > 0
    BY <1>1, <2>2, <2>4, BalanceTypes DEF Balanced
  <2>7. CASE client[c].cb
    BY <1>1, <1>2, <1>3, <2>2, <2>3, <2>4, <2>5, <2>6, <2>7, BalanceTypes DEF Balanced, Unreserved
  <2>8. CASE ~client[c].cb
    BY <1>2, <1>3, <2>3, <2>5, <2>8 DEF Balanced
  <2> QED BY <2>7, <2>8
<1> QED BY <1>4, <1>5, <1>6

\* An admitted request keeps the place of its call.
LEMMA AdmissionBalance ==
    ASSUME TypeInv, ControlsAreGiven, Balanced, NEW c \in Clients,
           AdmitHit(c) \/ AdmitCreate(c) \/ AdmitJoin(c)
    PROVE  Balanced'
<1> DEFINE h == client[c].h
<1>1. /\ client \in [Clients -> ClientRecords] /\ client[c].cb \in BOOLEAN /\ TypeOK
      /\ client[c].pc = "admit" /\ ~ShuttingDown
  BY DEF TypeInv, TypeOK, ClientRecords, AdmitHit, AdmitCreate, AdmitJoin
<1>2. h \in Handles /\ h \notin Reserved
  BY <1>1 DEF TypeInv, ClientHandles, Admitting, ControlsAreGiven, Reserved, NoControl
<1>3. \E o, cache : control' = [control EXCEPT ![h] = NewControl(client[c].key, o, cache, client[c].cb)]
  BY DEF AdmitHit, AdmitCreate, AdmitJoin
<1>4. /\ client'[c].pc \notin {"admit", "allocate", "unreserve"}
      /\ \A d \in Clients \ {c} : client'[d] = client[d]
  <2>1. CASE AdmitHit(c)
    BY <1>1, <2>1, MovesOn DEF AdmitHit, At
  <2>2. CASE AdmitCreate(c)
    BY <1>1, <2>2, MovesOn DEF AdmitCreate
  <2>3. CASE AdmitJoin(c)
    <3>1. \/ Goto(c, "wait")
          \/ \E state : client' = [client EXCEPT ![c] =
                  At("commit", client[c].h, client[c].key, client[c].cb, state)]
      BY <2>3 DEF AdmitJoin
    <3> QED BY <1>1, <3>1, MovesOn DEF At
  <2> QED BY <2>1, <2>2, <2>3
<1>5. UNCHANGED <<completions, reservations, violations, shutdown>>
  BY DEF AdmitHit, AdmitCreate, AdmitJoin
<1>6. ~Cleared /\ ~Cleared'
  BY <1>1, <1>5 DEF ShuttingDown, Cleared
<1>7. /\ h \in Reserved' <=> client[c].cb
      /\ \A g \in Handles \ {h} : control'[g] = control[g]
  <2>1. control \in [Handles -> Controls]
    BY <1>1 DEF TypeOK
  <2>2. control'[h].completion = IF client[c].cb THEN "reserved" ELSE "none"
    BY <1>2, <1>3, <2>1 DEF NewControl
  <2>3. \A g \in Handles \ {h} : control'[g] = control[g]
    BY <1>2, <1>3, <2>1
  <2> QED BY <1>2, <2>2, <2>3 DEF Reserved
<1>8. c \notin Reserving' /\ (c \in Reserving <=> client[c].cb)
  BY <1>1, <1>4 DEF Reserving
<1> HIDE DEF h
<1>9. Cardinality(Reserving') = IF client[c].cb THEN Cardinality(Reserving) - 1
                                ELSE Cardinality(Reserving)
  BY <1>4, <1>8, ReservingMoves
<1>10. Cardinality(Reserved') = IF client[c].cb THEN Cardinality(Reserved) + 1
                                ELSE Cardinality(Reserved)
  BY <1>2, <1>7, ReservedMoves
<1> QED BY <1>1, <1>5, <1>6, <1>9, <1>10, BalanceTypes DEF Balanced

LEMMA RequestBalance ==
    ASSUME TypeInv, ControlsAreGiven, CallbacksReserve, Balanced, NEW c \in Clients, Request(c)
    PROVE  Balanced'
<1>1. client \in [Clients -> ClientRecords] /\ control \in [Handles -> Controls] /\ TypeOK
  BY DEF TypeInv, TypeOK
<1>2. ASSUME Wait(c) \/ CommitJoined(c) \/ Submit(c) \/ Unslot(c) \/ AcquireExternal(c)
      PROVE  Balanced'
  <2>1. /\ client'[c].pc \notin {"admit", "allocate", "unreserve"}
        /\ \A d \in Clients \ {c} : client'[d] = client[d]
    BY <1>1, <1>2, MovesOn DEF Wait, CommitJoined, Submit, Unslot, AcquireExternal, Return, IdleClient
  <2>2. client[c].pc \notin {"admit", "allocate", "unreserve"}
    BY <1>2 DEF Wait, CommitJoined, Submit, Unslot, AcquireExternal
  <2>3. Reserving' = Reserving
    BY <2>1, <2>2, ReservingSame DEF Reserving
  <2>4. UNCHANGED <<control, completions, reservations, violations, shutdown>>
    BY <1>2 DEF Wait, CommitJoined, Submit, Unslot, AcquireExternal, managerVars
  <2> QED BY <2>3, <2>4, QuietBalance, ReservedSame DEF Cleared
<1>3. ASSUME Complete(c) PROVE Balanced'
  <2>1. client[c].h \in Handles /\ client[c].res \in TerminalStates
    BY <1>1, <1>3 DEF Complete, TypeInv, ClientHandles, ClientRecords, Admitting
  <2>2. client'[c].pc = "idle" /\ \A d \in Clients \ {c} : client'[d] = client[d]
    BY <1>1, <1>3, MovesOn DEF Complete, Return, IdleClient
  <2>3. Reserving' = Reserving
    BY <1>3, <2>2, ReservingSame DEF Reserving, Complete
  <2> QED BY <1>3, <2>1, <2>3, CompleteBalance DEF Complete
<1>4. ASSUME Rollback(c) PROVE Balanced'
  <2> DEFINE h == client[c].h
  <2>1. h \in Handles
    BY <1>4 DEF Rollback, TypeInv, ClientHandles, Admitting
  <2>2. client'[c].pc = "discard" /\ \A d \in Clients \ {c} : client'[d] = client[d]
    BY <1>1, <1>4, MovesOn DEF Rollback
  <2>3. Reserving' = Reserving
    BY <1>4, <2>2, ReservingSame DEF Reserving, Rollback
  <2>4. /\ control' = [control EXCEPT ![h] = NoControl]
        /\ reservations' = IF control[h].live /\ control[h].completion = "reserved"
                           THEN Unreserved ELSE reservations
        /\ UNCHANGED <<completions, violations, shutdown>>
    BY <1>4 DEF Rollback
  <2> HIDE DEF h
  <2>5. h \notin Reserved' /\ \A g \in Handles \ {h} : control'[g] = control[g]
    BY <1>1, <2>4 DEF Reserved, NoControl
  <2>6. h \in Reserved <=> control[h].live /\ control[h].completion = "reserved"
    BY <2>1 DEF Reserved, ControlsAreGiven, NoControl
  <2>7. Cardinality(Reserved') = IF h \in Reserved THEN Cardinality(Reserved) - 1
                                 ELSE Cardinality(Reserved)
    BY <2>1, <2>5, ReservedMoves
  <2>8. h \in Reserved => Cardinality(Reserved) > 0 /\ ~Cleared
    BY <2>1, <2>6, PlacesAreFinite, FS_EmptySet DEF ControlsAreGiven
  <2>9. Cleared' <=> Cleared
    BY <2>4 DEF Cleared
  <2>10. h \in Reserved => reservations' = reservations - 1
    BY <1>1, <2>4, <2>6, <2>8, BalanceTypes DEF Balanced, Unreserved
  <2>11. CASE h \in Reserved
    BY <1>1, <2>3, <2>4, <2>7, <2>8, <2>9, <2>10, <2>11, BalanceTypes DEF Balanced
  <2>12. CASE h \notin Reserved
    BY <2>3, <2>4, <2>6, <2>7, <2>9, <2>12 DEF Balanced
  <2> QED BY <2>11, <2>12
<1> QED BY <1>2, <1>3, <1>4, PlaceBalance, AdmissionBalance DEF Request

LEMMA WorkBalance ==
    ASSUME TypeInv, ControlsAreGiven, Balanced, NEW w \in Workers, Work(w)
    PROVE  Balanced'
<1>1. control \in [Handles -> Controls]
  BY DEF TypeInv, TypeOK
<1>2. UNCHANGED <<client, shutdown>>
  BY DEF Work, Take, Exit, BeginLoad, FinishLoad, CommitLoad, Notify
<1>3. Reserving' = Reserving /\ (Cleared' <=> Cleared)
  BY <1>2, ReservingSame DEF Reserving, Cleared
<1>4. ASSUME Take(w) \/ Exit(w) \/ BeginLoad(w) \/ FinishLoad(w) \/ CommitLoad(w)
      PROVE  Balanced'
  <2>1. UNCHANGED <<completions, reservations, violations>>
    BY <1>4 DEF Take, Exit, BeginLoad, FinishLoad, CommitLoad
  <2>2. \A h \in Handles : control'[h] \in {control[h], [control[h] EXCEPT !.cache = TRUE]}
    BY <1>4 DEF Take, Exit, BeginLoad, FinishLoad, CommitLoad, managerVars
  <2>3. \A h \in Handles : control'[h].completion = control[h].completion
    <3> SUFFICES ASSUME NEW h \in Handles
                 PROVE  control'[h].completion = control[h].completion
      OBVIOUS
    <3>1. control[h] \in Controls
      BY <1>1
    <3> QED BY <2>2, <3>1 DEF Controls
  <2> QED BY <1>3, <2>1, <2>3, QuietBalance, ReservedSame
<1>5. ASSUME Notify(w) PROVE Balanced'
  <2>1. PICK h \in worker[w].pending : CompleteRequest(h, worker[w].res)
    BY <1>5 DEF Notify
  <2>2. h \in Handles /\ worker[w].res \in TerminalStates
    BY DEF TypeInv, TypeOK, WorkerRecords
  <2> QED BY <1>2, <1>3, <2>1, <2>2, CompleteBalance
<1> QED BY <1>4, <1>5 DEF Work

LEMMA BalancePreserved == TypeInv /\ ReservationInv /\ [Next]_vars => Balanced'
<1> SUFFICES ASSUME TypeInv, ReservationInv, ControlsAreGiven, CallbacksReserve, Balanced, [Next]_vars
             PROVE  Balanced'
  BY DEF ReservationInv
<1>1. ASSUME NEW c \in Clients, Call(c) \/ Request(c) PROVE Balanced'
  BY <1>1, CallBalance, RequestBalance
<1>2. ASSUME NEW w \in Workers, Work(w) PROVE Balanced'
  BY <1>2, WorkBalance
<1>3. ASSUME (\E k \in Keys : DropHandle(k)) \/ PumpCall \/ PumpEnd \/ BeginShutdown
             \/ RequestStop \/ Join \/ DropOwnership \/ UNCHANGED vars
      PROVE  Balanced'
  <2>1. UNCHANGED <<control, completions, reservations, violations, client>>
    BY <1>3 DEF DropHandle, PumpCall, PumpEnd, BeginShutdown, RequestStop, Join, DropOwnership,
                managerVars, vars
  <2>2. Cleared' <=> Cleared
    BY <1>3 DEF DropHandle, PumpCall, PumpEnd, BeginShutdown, RequestStop, Join, DropOwnership,
                vars, Cleared
  <2> QED BY <2>1, <2>2, QuietBalance, ReservedSame, ReservingSame DEF Reserving
<1>4. ASSUME PumpTake PROVE Balanced'
  <2>1. PICK n \in 1..Len(completions) :
            /\ completions' = SubSeq(completions, n + 1, Len(completions))
            /\ reservations' = reservations - n
    BY <1>4 DEF PumpTake
  <2>2. completions \in Seq(CompletionRecords) /\ TypeOK
    BY DEF TypeInv, TypeOK
  <2>3. Len(completions') = Len(completions) - n /\ n \in Nat
    BY <2>1, <2>2
  <2>4. UNCHANGED <<control, violations, client, shutdown>>
    BY <1>4 DEF PumpTake, managerVars
  <2>5. Reserving' = Reserving /\ Reserved' = Reserved /\ (Cleared' <=> Cleared)
    BY <2>4, ReservedSame, ReservingSame DEF Reserving, Cleared
  <2> QED BY <2>1, <2>2, <2>3, <2>4, <2>5, BalanceTypes DEF Balanced
<1>5. ASSUME ClearControls PROVE Balanced'
  <2>1. Cleared' /\ UNCHANGED <<completions, reservations, violations, client>>
    BY <1>5 DEF ClearControls, Cleared
  <2>2. Reserving' = Reserving
    BY <2>1, ReservingSame DEF Reserving
  <2> QED BY <2>1, <2>2 DEF Balanced
<1>6. ASSUME Pump \/ Shutdown PROVE Balanced'
  BY <1>3, <1>4, <1>5, <1>6 DEF Pump, Shutdown
<1>7. ASSUME (\E k \in Keys : DropHandle(k)) \/ UNCHANGED vars PROVE Balanced'
  BY <1>3, <1>7
<1> QED BY <1>1, <1>2, <1>6, <1>7 DEF Next, Quiescent

LEMMA CallbacksReservePreserved == TypeInv /\ CallbacksReserve /\ [Next]_vars => CallbacksReserve'
<1> SUFFICES ASSUME TypeInv, CallbacksReserve, [Next]_vars PROVE CallbacksReserve'
  OBVIOUS
<1>1. client \in [Clients -> ClientRecords]
  BY DEF TypeInv, TypeOK
<1>2. ASSUME NEW c \in Clients, \A d \in Clients \ {c} : client'[d] = client[d],
             client'[c].pc \in {"reserve", "unreserve"} => client'[c].cb
      PROVE  CallbacksReserve'
  BY <1>2 DEF CallbacksReserve
<1>3. ASSUME NEW c \in Clients, Call(c) PROVE CallbacksReserve'
  <2>1. ASSUME NEW k \in Keys, NEW cb \in BOOLEAN, StartRequest(c, k, cb) PROVE CallbacksReserve'
    BY <1>1, <1>2, <2>1, MovesOn DEF StartRequest, At
  <2>2. ASSUME NEW h \in Handles, Cancel(c, h) \/ ReleaseRequest(c, h) \/ FindResult(c, h)
        PROVE  CallbacksReserve'
    <3>1. \/ UNCHANGED client
          \/ \E pc \in {"cancelled", "unslot", "acquire"} : \E k :
                client' = [client EXCEPT ![c] = At(pc, h, k, FALSE, "Cancelled")]
      BY <2>2 DEF Cancel, ReleaseRequest, FindResult
    <3>2. CASE UNCHANGED client
      BY <3>2 DEF CallbacksReserve
    <3>3. CASE \E pc \in {"cancelled", "unslot", "acquire"} : \E k :
                client' = [client EXCEPT ![c] = At(pc, h, k, FALSE, "Cancelled")]
      BY <1>1, <1>2, <3>3, MovesOn DEF At
    <3> QED BY <3>1, <3>2, <3>3
  <2> QED BY <1>3, <2>1, <2>2 DEF Call
<1>4. ASSUME NEW c \in Clients, Request(c) PROVE CallbacksReserve'
  <2>1. CASE Allocate(c)
    <3>1. CASE \E s \in Slots : client' = [client EXCEPT ![c] =
                    At("admit", <<s, slot[s].gen + 1>>, client[c].key, client[c].cb, "Cancelled")]
      BY <1>1, <1>2, <3>1, MovesOn DEF At
    <3>2. CASE client[c].cb /\ Goto(c, "unreserve")
      BY <1>1, <1>2, <3>2, MovesOn
    <3>3. CASE Return(c)
      BY <1>1, <1>2, <3>3, MovesOn DEF Return, IdleClient
    <3> QED BY <2>1, <3>1, <3>2, <3>3 DEF Allocate
  <2>2. CASE ~Allocate(c)
    <3>1. \/ Return(c)
          \/ \E pc \in ClientPcs \ {"reserve", "unreserve"} : Goto(c, pc)
          \/ \E pc \in {"complete", "commit"} : \E h : \E k : \E cb : \E res :
                client' = [client EXCEPT ![c] = At(pc, h, k, cb, res)]
      <4>1. CASE AdmitJoin(c)
        BY <4>1 DEF AdmitJoin, ClientPcs, Admitting
      <4>2. CASE AdmitHit(c)
        BY <4>2 DEF AdmitHit
      <4>3. CASE AdmitCreate(c) \/ Wait(c) \/ CommitJoined(c) \/ Submit(c) \/ Rollback(c)
        BY <4>3 DEF AdmitCreate, Wait, CommitJoined, Submit, Rollback, ClientPcs, Admitting
      <4>4. CASE Reserve(c)
        BY <4>4 DEF Reserve, ClientPcs
      <4>5. CASE \/ Unreserve(c) \/ AdmitRejected(c) \/ Complete(c) \/ Unslot(c)
                 \/ AcquireExternal(c)
        BY <4>5 DEF Unreserve, AdmitRejected, Complete, Unslot, AcquireExternal
      <4> QED BY <1>4, <2>2, <4>1, <4>2, <4>3, <4>4, <4>5 DEF Request
    <3> QED BY <1>1, <1>2, <3>1, MovesOn DEF Return, IdleClient, At
  <2> QED BY <2>1, <2>2
<1>5. ASSUME UNCHANGED client PROVE CallbacksReserve'
  BY <1>5 DEF CallbacksReserve
<1>6. ASSUME (\E w \in Workers : Work(w)) \/ (\E k \in Keys : DropHandle(k)) \/ Pump \/ Shutdown
             \/ UNCHANGED vars
      PROVE  CallbacksReserve'
  BY <1>5, <1>6 DEF Work, Take, Exit, BeginLoad, FinishLoad, CommitLoad, Notify, DropHandle, Pump,
     PumpTake, PumpCall, PumpEnd, Shutdown, BeginShutdown, RequestStop, Join, ClearControls,
     DropOwnership, vars
<1> QED BY <1>3, <1>4, <1>6 DEF Next, Quiescent

LEMMA ReservationInit == Init => ReservationInv
<1> SUFFICES ASSUME Init PROVE ReservationInv
  OBVIOUS
<1>1. Reserving = {} /\ Reserved = {}
  BY DEF Init, Reserving, Reserved, IdleClient, NoControl
<1>2. completions = <<>> /\ reservations = 0 /\ violations = 0
  BY DEF Init
<1>3. Balanced
  BY <1>1, <1>2, FS_EmptySet, ManagerAssumption DEF Balanced
<1>4. CallbacksReserve
  BY DEF Init, CallbacksReserve, IdleClient
<1> QED BY <1>3, <1>4, ControlsAreGivenInit DEF ReservationInv

LEMMA ReservationPreserved == TypeInv /\ ReservationInv /\ [Next]_vars => ReservationInv'
BY ControlsAreGivenPreserved, CallbacksReservePreserved, BalancePreserved DEF ReservationInv

LEMMA ReservationImplies ==
    TypeOK /\ ReservationInv => ReservationsAreExact /\ CompletionsNeverRefused
<1> SUFFICES ASSUME TypeOK, ReservationInv PROVE ReservationsAreExact /\ CompletionsNeverRefused
  OBVIOUS
<1>1. Balanced
  BY DEF ReservationInv
<1>2. reservations >= Len(completions)
  BY <1>1, BalanceTypes DEF Balanced
<1> QED BY <1>1, <1>2 DEF Balanced, Reserved, ReservationsAreExact, CompletionsNeverRefused

\* A place of the completion queue is reserved for each queued record, each request whose
\* completion is to come and each call being admitted, and for nothing else.
THEOREM ReservationsStayExact == Spec => []ReservationsAreExact
BY InitTypes, TypesPreserved, ReservationInit, ReservationPreserved, ReservationImplies, PTL
   DEF Spec, TypeInv

\* A completion always finds its place in the queue.
THEOREM CompletionsFindTheirPlace == Spec => []CompletionsNeverRefused
BY InitTypes, TypesPreserved, ReservationInit, ReservationPreserved, ReservationImplies, PTL
   DEF Spec, TypeInv

-----------------------------------------------------------------------------
(* Who has an interest in what.                                            *)

\* Handles that callbacks have told or are about to tell, and operations in the hands of workers.
Told == {h \in Handles : \/ reported[h] # "None"
                         \/ \E i \in 1..Len(completions) : completions[i].h = h
                         \/ \E i \in 1..Len(dispatch) : dispatch[i].h = h}

Submitted == {o \in Handles : \/ \E i \in 1..Len(workQueue) : workQueue[i] = o
                              \/ \E w \in Workers : worker[w].op = o}

\* A handle that is not allocated yet, or whose request is not admitted, has left no trace.
Unheard(h) == h \notin Told /\ h \notin Submitted /\ op[h].state = "None"

HandlesAreNew ==
    /\ \A h \in Handles : slot[h[1]].gen < h[2] => Unheard(h)
    /\ \A c \in Clients : client[c].pc = "admit" => Unheard(client[c].h)

HandlesAreCounted ==
    \A c \in Clients : client[c].h \in Handles => client[c].h[2] <= slot[client[c].h[1]].gen

\* Nobody else knows a handle before its request is admitted.
AdmitsAreAlone ==
    \A c \in Clients : client[c].pc = "admit" =>
        /\ IsLive(slot, client[c].h) /\ slot[client[c].h[1]].state = "Accepted"
        /\ \A d \in Clients \ {c} : client[d].h # client[c].h

CreatorsWait ==
    \A c \in Clients : Creating(c) =>
        /\ op[client[c].h].state = "Created"
        /\ control[client[c].h].live => control[client[c].h].op = client[c].h
        /\ client[c].h \notin Submitted
        /\ \A d \in Clients \ {c} : Creating(d) => client[d].h # client[c].h

JoinersCommit ==
    \A c \in Clients : client[c].pc = "commit" =>
        /\ client[c].res # "Ready"
        /\ control[client[c].h].live =>
                /\ control[client[c].h].op \in Handles
                /\ op[control[client[c].h].op].state \in TerminalStates

LeaversHaveLeft ==
    \A c \in Clients : client[c].pc \in {"discard", "unslot"} =>
        client[c].h \in Handles /\ ~control[client[c].h].live

Owned(o, h) ==
    /\ control[h].live /\ control[h].op = o /\ control[h].key = op[o].key
    /\ IsLive(slot, h)
    /\ op[o].state = "Created" => slot[h[1]].state \notin TerminalStates /\ ~control[h].cache
    /\ op[o].state = "Ready" => control[h].cache

OpsAreOwned == \A o \in Handles : \A h \in op[o].interests : Owned(o, h)

\* Of a request that retains the cache entry the load is over; a Ready request retains it.
RetainersAreReady ==
    \A h \in Handles : control[h].live =>
        /\ control[h].cache /\ control[h].op \in Handles =>
                op[control[h].op].state \in TerminalStates
        /\ IsLive(slot, h) /\ slot[h[1]].state = "Ready" => control[h].cache

Ownership ==
    /\ HandlesAreNew /\ HandlesAreCounted /\ AdmitsAreAlone /\ CreatorsWait /\ JoinersCommit
    /\ LeaversHaveLeft /\ OpsAreOwned /\ RetainersAreReady

\* What the steps below start from.
Before == TypeInv /\ ControlsAreGiven /\ ~Cleared /\ Ownership

LEMMA HandleNumbers ==
    ASSUME TypeInv
    PROVE  /\ \A h \in Handles : h[1] \in Slots /\ h[2] \in Nat /\ slot[h[1]].gen \in Nat
           /\ \A c \in Clients : client[c].h \in Handles \cup {NoHandle}
           /\ \A c \in Clients : client[c].pc \in Admitting \cup {"cancelled"} => client[c].h \in Handles
           /\ NoHandle \notin Handles
           /\ \A o \in Handles : op[o].interests \subseteq Handles
           /\ \A w \in Workers : worker[w].op \in Handles \cup {NoHandle}
<1>1. slot \in [Slots -> SlotRecords] /\ op \in [Handles -> Operations]
      /\ client \in [Clients -> ClientRecords] /\ worker \in [Workers -> WorkerRecords]
  BY DEF TypeInv, TypeOK
<1>2. \A h \in Handles : h[1] \in Slots /\ h[2] \in Nat /\ slot[h[1]].gen \in Nat
  BY <1>1, HandlePairs, HandleAssumption DEF SlotRecords
<1>3. \A c \in Clients : client[c].h \in Handles \cup {NoHandle}
  BY <1>1 DEF ClientRecords
<1>4. \A o \in Handles : op[o].interests \subseteq Handles
  BY <1>1 DEF Operations
<1>5. \A w \in Workers : worker[w].op \in Handles \cup {NoHandle}
  BY <1>1 DEF WorkerRecords
<1> QED BY <1>2, <1>3, <1>4, <1>5, HandlePairs DEF TypeInv, ClientHandles

\* A slot has one live handle.
LEMMA LiveIsOne ==
    ASSUME NEW slots, NEW g \in Handles, NEW h \in Handles,
           g[1] = h[1], IsLive(slots, g), IsLive(slots, h)
    PROVE  g = h
BY HandlePairs DEF IsLive

-----------------------------------------------------------------------------
(* Steps that leave a part of Ownership alone.                             *)

LEMMA NewStay ==
    ASSUME Before,
           \A h \in Handles : slot'[h[1]].gen < h[2] => slot[h[1]].gen < h[2],
           \A c \in Clients : client'[c].pc = "admit" =>
                /\ client'[c].h \in Handles
                /\ \/ client[c].pc = "admit" /\ client'[c].h = client[c].h
                   \/ slot[client'[c].h[1]].gen < client'[c].h[2],
           \A h \in Told' : h \in Told \/ control[h].live,
           \A h \in Submitted' : h \in Submitted \/ \E c \in Clients : Creating(c) /\ client[c].h = h,
           \A h \in Handles : op'[h].state # "None" =>
                op[h].state # "None" \/ \E c \in Clients : /\ client[c].pc = "admit" /\ client[c].h = h
                                                         /\ client'[c].pc # "admit"
    PROVE  HandlesAreNew'
<1> DEFINE Admitted == {c \in Clients : client[c].pc = "admit" /\ client'[c].pc # "admit"}
<1> DEFINE New(h) == \/ slot[h[1]].gen < h[2]
                     \/ \E c \in Clients \ Admitted : client[c].pc = "admit" /\ client[c].h = h
<1>1. ASSUME NEW h \in Handles, New(h) PROVE Unheard(h)'
  <2>1. Unheard(h)
    BY <1>1 DEF Before, Ownership, HandlesAreNew
  <2>2. ~control[h].live
    BY <1>1 DEF Before, ControlsAreGiven
  <2>3. ASSUME NEW c \in Clients, client[c].h = h PROVE c \notin Admitted
    <3>1. CASE slot[h[1]].gen < h[2]
      BY <2>3, <3>1, HandleNumbers DEF Before, Ownership, HandlesAreCounted
    <3>2. CASE \E d \in Clients \ Admitted : client[d].pc = "admit" /\ client[d].h = h
      BY <2>3, <3>2 DEF Before, Ownership, AdmitsAreAlone
    <3> QED BY <1>1, <3>1, <3>2
  <2>4. ~\E c \in Clients : Creating(c) /\ client[c].h = h
    BY <2>1 DEF Before, Ownership, CreatorsWait, Unheard
  <2> QED BY <2>1, <2>2, <2>3, <2>4 DEF Unheard
<1>2. \A c \in Clients : client'[c].pc = "admit" => New(client'[c].h)
  OBVIOUS
<1>3. \A h \in Handles : slot'[h[1]].gen < h[2] => New(h)
  OBVIOUS
<1> HIDE DEF New, Admitted
<1> QED BY <1>1, <1>2, <1>3 DEF HandlesAreNew

LEMMA CountedStay ==
    ASSUME Before,
           \A s \in Slots : slot'[s].gen >= slot[s].gen /\ slot'[s].gen \in Nat,
           \A c \in Clients : client'[c].h \in Handles =>
                client'[c].h = client[c].h \/ client'[c].h[2] <= slot'[client'[c].h[1]].gen
    PROVE  HandlesAreCounted'
BY HandleNumbers DEF Before, Ownership, HandlesAreCounted

LEMMA AdmitsStay ==
    ASSUME Before,
           \A c \in Clients : client'[c].pc = "admit" =>
                /\ client[c].pc = "admit" /\ client'[c].h = client[c].h
                /\ IsLive(slot', client[c].h) /\ slot'[client[c].h[1]].state = "Accepted",
           \A d \in Clients : \/ client'[d].h \in {client[d].h, NoHandle}
                              \/ \A c \in Clients : client[c].pc = "admit" => client[c].h # client'[d].h
    PROVE  AdmitsAreAlone'
BY HandleNumbers DEF Before, Ownership, AdmitsAreAlone, Admitting

LEMMA CreatorsStay ==
    ASSUME Before,
           \A c \in Clients : Creating(c)' =>
                /\ Creating(c) /\ client'[c].h = client[c].h
                /\ op'[client[c].h].state = op[client[c].h].state
                /\ control'[client[c].h].live =>
                        control[client[c].h].live /\ control'[client[c].h].op = control[client[c].h].op
                /\ client[c].h \notin Submitted'
    PROVE  CreatorsWait'
BY DEF Before, Ownership, CreatorsWait

LEMMA JoinersStay ==
    ASSUME Before,
           \A c \in Clients : client'[c].pc = "commit" =>
                /\ client[c].pc = "commit" /\ client'[c] = client[c]
                /\ control'[client[c].h].live =>
                        control[client[c].h].live /\ control'[client[c].h].op = control[client[c].h].op,
           \A o \in Handles : op[o].state \in TerminalStates => op'[o].state = op[o].state
    PROVE  JoinersCommit'
BY DEF Before, Ownership, JoinersCommit

LEMMA LeaversStay ==
    ASSUME Before,
           \A c \in Clients : client'[c].pc \in {"discard", "unslot"} =>
                /\ client[c].pc \in {"discard", "unslot"} /\ client'[c].h = client[c].h
                /\ client[c].h \in Handles /\ control'[client[c].h].live => control[client[c].h].live
    PROVE  LeaversHaveLeft'
BY DEF Before, Ownership, LeaversHaveLeft

\* The parts of a control that a step leaves alone.
SameControl(h) ==
    /\ control'[h].live = control[h].live /\ control'[h].op = control[h].op
    /\ control'[h].key = control[h].key /\ control'[h].cache = control[h].cache

LEMMA OwnedStay ==
    ASSUME Before,
           \A o \in Handles : \A h \in op'[o].interests :
                /\ h \in op[o].interests /\ SameControl(h)
                /\ op'[o].key = op[o].key /\ op'[o].state = op[o].state
                /\ IsLive(slot', h)
                /\ slot'[h[1]].state \in TerminalStates =>
                        slot[h[1]].state \in TerminalStates \/ op[o].state # "Created"
    PROVE  OpsAreOwned'
BY DEF Before, Ownership, OpsAreOwned, Owned, SameControl

LEMMA RetainersStay ==
    ASSUME Before,
           \A h \in Handles : control'[h].live =>
                /\ SameControl(h)
                /\ IsLive(slot', h) /\ slot'[h[1]].state = "Ready" =>
                        IsLive(slot, h) /\ slot[h[1]].state = "Ready",
           \A o \in Handles : op[o].state \in TerminalStates => op'[o].state = op[o].state
    PROVE  RetainersAreReady'
BY DEF Before, Ownership, RetainersAreReady, SameControl

-----------------------------------------------------------------------------
(* The effect of the operators on the handles.                             *)

\* What the operators on slots do to the handles.
LEMMA CommittedEffect ==
    ASSUME slot \in [Slots -> SlotRecords], NEW H \in SUBSET Handles, NEW state,
           slot' = Committed(slot, H, state), NEW g \in Handles
    PROVE  /\ slot'[g[1]].gen = slot[g[1]].gen
           /\ IsLive(slot', g) <=> IsLive(slot, g)
           /\ IsLive(slot, g) =>
                slot'[g[1]].state = IF g \in H /\ slot[g[1]].state \notin TerminalStates
                                    THEN state ELSE slot[g[1]].state
<1>1. /\ g[1] \in Slots /\ slot[g[1]] \in SlotRecords
      /\ slot'[g[1]] = IF \E h \in H : h[1] = g[1] /\ CanCommit(slot, h)
                       THEN [slot[g[1]] EXCEPT !.state = state]
                       ELSE slot[g[1]]
  BY HandlePairs DEF Committed
<1>2. /\ slot'[g[1]].gen = slot[g[1]].gen
      /\ slot'[g[1]].occupied = slot[g[1]].occupied
      /\ slot'[g[1]].state = IF \E h \in H : h[1] = g[1] /\ CanCommit(slot, h)
                             THEN state ELSE slot[g[1]].state
  BY <1>1 DEF SlotRecords
<1>3. IsLive(slot, g) =>
        ((\E h \in H : h[1] = g[1] /\ CanCommit(slot, h))
            <=> g \in H /\ slot[g[1]].state \notin TerminalStates)
  BY LiveIsOne DEF CanCommit
<1> QED BY <1>2, <1>3 DEF IsLive

LEMMA CommittedOneEffect ==
    ASSUME slot \in [Slots -> SlotRecords], NEW h \in Handles, NEW state,
           slot' = Committed(slot, {h}, state), NEW g \in Handles
    PROVE  /\ slot'[g[1]].gen = slot[g[1]].gen
           /\ IsLive(slot', g) <=> IsLive(slot, g)
           /\ IsLive(slot, g) =>
                slot'[g[1]].state = IF g = h /\ slot[g[1]].state \notin TerminalStates
                                    THEN state ELSE slot[g[1]].state
<1> DEFINE H == {h}
<1>1. H \in SUBSET Handles /\ slot' = Committed(slot, H, state) /\ (g \in H <=> g = h)
  OBVIOUS
<1> HIDE DEF H
<1> QED BY <1>1, CommittedEffect

LEMMA MovedEffect ==
    ASSUME slot \in [Slots -> SlotRecords], NEW h \in Handles, NEW from, NEW to,
           slot' = Moved(slot, h, from, to), NEW g \in Handles
    PROVE  /\ slot'[g[1]].gen = slot[g[1]].gen
           /\ IsLive(slot', g) <=> IsLive(slot, g)
           /\ IsLive(slot, g) =>
                slot'[g[1]].state = IF g = h /\ slot[g[1]].state = from
                                    THEN to ELSE slot[g[1]].state
<1>1. g[1] \in Slots /\ h[1] \in Slots
  BY HandlePairs
<1>2. CASE IsLive(slot, h) /\ slot[h[1]].state = from
  <2>1. slot'[g[1]] = IF g[1] = h[1] THEN [slot[g[1]] EXCEPT !.state = to] ELSE slot[g[1]]
    BY <1>1, <1>2 DEF Moved
  <2>2. /\ slot'[g[1]].gen = slot[g[1]].gen /\ slot'[g[1]].occupied = slot[g[1]].occupied
        /\ slot'[g[1]].state = IF g[1] = h[1] THEN to ELSE slot[g[1]].state
    BY <1>1, <2>1 DEF SlotRecords
  <2>3. IsLive(slot, g) => (g[1] = h[1] <=> g = h)
    BY <1>2, LiveIsOne
  <2> QED BY <1>2, <2>2, <2>3 DEF IsLive
<1>3. CASE ~(IsLive(slot, h) /\ slot[h[1]].state = from)
  BY <1>3 DEF Moved
<1> QED BY <1>2, <1>3

LEMMA SequencedEffect ==
    ASSUME slot \in [Slots -> SlotRecords], NEW h \in Handles, NEW n,
           slot' = Sequenced(slot, h, n), NEW g \in Handles
    PROVE  /\ slot'[g[1]].gen = slot[g[1]].gen
           /\ IsLive(slot', g) <=> IsLive(slot, g)
           /\ slot'[g[1]].state = slot[g[1]].state
<1>1. g[1] \in Slots /\ h[1] \in Slots /\ slot[g[1]] \in SlotRecords
  BY HandlePairs
<1>2. slot'[g[1]] = slot[g[1]] \/ slot'[g[1]] = [slot[g[1]] EXCEPT !.seq = n]
  BY <1>1 DEF Sequenced
<1>3. /\ slot'[g[1]].gen = slot[g[1]].gen /\ slot'[g[1]].occupied = slot[g[1]].occupied
      /\ slot'[g[1]].state = slot[g[1]].state
  BY <1>1, <1>2 DEF SlotRecords
<1> QED BY <1>3 DEF IsLive

LEMMA ReleasedEffect ==
    ASSUME slot \in [Slots -> SlotRecords], NEW h \in Handles,
           slot' = Released(slot, h), NEW g \in Handles
    PROVE  /\ slot'[g[1]].gen = slot[g[1]].gen
           /\ IsLive(slot', g) <=> IsLive(slot, g) /\ g # h
           /\ IsLive(slot', g) => slot'[g[1]].state = slot[g[1]].state
<1>1. g[1] \in Slots /\ h[1] \in Slots /\ h # NoHandle
  BY HandlePairs
<1>2. CASE IsLive(slot, h)
  <2>1. slot'[g[1]] = IF g[1] = h[1] THEN [gen |-> h[2], occupied |-> FALSE,
                                          state |-> "Invalid", seq |-> 0]
                      ELSE slot[g[1]]
    BY <1>1, <1>2 DEF Released
  <2>2. slot[h[1]].gen = h[2]
    BY <1>2 DEF IsLive
  <2>3. g[1] # h[1] => slot'[g[1]] = slot[g[1]]
    BY <2>1
  <2>4. g[1] = h[1] => slot'[g[1]].gen = h[2] /\ ~slot'[g[1]].occupied
    BY <2>1
  <2>5. CASE g[1] = h[1]
    BY <1>2, <2>2, <2>4, <2>5, LiveIsOne DEF IsLive
  <2>6. CASE g[1] # h[1]
    BY <2>3, <2>6 DEF IsLive
  <2> QED BY <2>5, <2>6
<1>3. CASE ~IsLive(slot, h)
  BY <1>3 DEF Released
<1> QED BY <1>2, <1>3

LEMMA CompleteEffect ==
    ASSUME TypeOK, NEW h \in Handles, NEW res \in TerminalStates, CompleteRequest(h, res)
    PROVE  /\ \A g \in Handles : /\ slot'[g[1]].gen = slot[g[1]].gen
                                 /\ IsLive(slot', g) <=> IsLive(slot, g)
                                 /\ slot'[g[1]].state = slot[g[1]].state
           /\ \A g \in Handles : SameControl(g)
           /\ UNCHANGED <<reported, dispatch>> => \A g \in Told' : g \in Told \/ control[g].live
<1>1. /\ slot \in [Slots -> SlotRecords] /\ control \in [Handles -> Controls]
      /\ completions \in Seq(CompletionRecords)
  BY DEF TypeOK
<1>2. \A g \in Handles : /\ slot'[g[1]].gen = slot[g[1]].gen
                         /\ IsLive(slot', g) <=> IsLive(slot, g)
                         /\ slot'[g[1]].state = slot[g[1]].state
  BY <1>1, SequencedEffect DEF CompleteRequest
<1>3. ASSUME NEW g \in Handles PROVE SameControl(g)
  <2>1. control[g] \in Controls
    BY <1>1
  <2>2. control'[g] = control[g]
        \/ \E v \in {"none", "queued"} : control'[g] = [control[g] EXCEPT !.completion = v]
    BY <1>1 DEF CompleteRequest
  <2> QED BY <2>1, <2>2 DEF SameControl, Controls
<1>4. ASSUME UNCHANGED <<reported, dispatch>> PROVE \A g \in Told' : g \in Told \/ control[g].live
  <2>1. CASE completions' = completions
    BY <1>4, <2>1 DEF Told
  <2>2. CASE control[h].live /\ completions' = Append(completions,
                                   [h |-> h, seq |-> nextSequence, res |-> res])
    <3>1. Len(completions) \in Nat /\ Len(completions') = Len(completions) + 1
          /\ \A i \in 1..Len(completions') : completions'[i] =
                IF i <= Len(completions) THEN completions[i]
                ELSE [h |-> h, seq |-> nextSequence, res |-> res]
      BY <1>1, <2>2
    <3>2. \A i \in 1..Len(completions') :
            completions'[i].h = h \/ (i \in 1..Len(completions) /\ completions'[i] = completions[i])
      BY <3>1
    <3> QED BY <1>4, <2>2, <3>2 DEF Told
  <2> QED BY <2>1, <2>2 DEF CompleteRequest
<1> QED BY <1>2, <1>3, <1>4

\* A handle that a caller passes in is not one of a request being admitted.
LEMMA KnownIsTold ==
    ASSUME Before, NEW h \in Handles, IsKnown(h)
    PROVE  IsLive(slot, h) /\ \A c \in Clients : client[c].pc = "admit" => client[c].h # h
<1>1. \A c \in Clients : client[c].pc = "admit" => reported[client[c].h] = "None"
  BY HandleNumbers DEF Before, Ownership, HandlesAreNew, Unheard, Told, Admitting
<1> QED BY <1>1 DEF IsKnown, Admitting

\* What an admitted request is known by, to itself alone.
LEMMA AdmittedIsNew ==
    ASSUME Before, NEW c \in Clients, client[c].pc = "admit"
    PROVE  /\ client[c].h \in Handles /\ Unheard(client[c].h) /\ ~control[client[c].h].live
           /\ IsLive(slot, client[c].h) /\ slot[client[c].h[1]].state = "Accepted"
           /\ \A d \in Clients \ {c} : client[d].h # client[c].h
           /\ \A o \in Handles : client[c].h \notin op[o].interests
BY HandleNumbers DEF Before, Ownership, HandlesAreNew, AdmitsAreAlone, ControlsAreGiven, OpsAreOwned,
   Owned, Admitting

\* Positions that Ownership says nothing of.
Free == ClientPcs \ {"admit", "wait", "commit", "submit", "rollback", "discard", "unslot"}

LEMMA QuietOwnership ==
    ASSUME Before, UNCHANGED <<slot, control, op>>,
           \A h \in Told' : h \in Told \/ control[h].live, \A h \in Submitted' : h \in Submitted,
           \A c \in Clients :
                \/ client'[c] = client[c]
                \/ /\ client'[c].pc \in Free
                   /\ client'[c].h \in Handles \ {client[c].h} =>
                        /\ IsLive(slot, client'[c].h)
                        /\ \A d \in Clients : client[d].pc = "admit" => client[d].h # client'[c].h
                   /\ client'[c].h \in Handles \cup {NoHandle}
    PROVE  Ownership'
<1>1. \A c \in Clients : client'[c].pc \notin Free => client'[c] = client[c]
  OBVIOUS
<1>2. HandlesAreNew'
  <2>1. \A c \in Clients : client'[c].pc = "admit" =>
            client[c].pc = "admit" /\ client'[c].h = client[c].h /\ client'[c].h \in Handles
    BY <1>1, AdmittedIsNew DEF Free
  <2> QED BY <2>1, NewStay
<1>3. HandlesAreCounted'
  <2>1. \A h \in Handles : IsLive(slot, h) => h[2] <= slot[h[1]].gen
    BY HandleNumbers DEF Before, IsLive
  <2>2. \A s \in Slots : slot[s].gen \in Nat
    BY HandleAssumption DEF Before, TypeInv, TypeOK, SlotRecords
  <2> QED BY <2>1, <2>2, CountedStay
<1>4. AdmitsAreAlone'
  <2>1. \A c \in Clients : client'[c].pc = "admit" =>
            /\ client[c].pc = "admit" /\ client'[c].h = client[c].h
            /\ IsLive(slot, client[c].h) /\ slot[client[c].h[1]].state = "Accepted"
    BY <1>1, AdmittedIsNew DEF Free
  <2> QED BY <2>1, AdmitsStay
<1>5. CreatorsWait'
  <2>1. ASSUME NEW d \in Clients, Creating(d)'
        PROVE  client'[d] = client[d] /\ Creating(d) /\ client[d].h \notin Submitted
    <3>1. client'[d] = client[d]
      BY <1>1, <2>1 DEF Creating, Free
    <3>2. Creating(d)
      BY <2>1, <3>1 DEF Creating
    <3> QED BY <3>1, <3>2 DEF Before, Ownership, CreatorsWait
  <2> QED BY <2>1, CreatorsStay
<1>6. JoinersCommit'
  BY <1>1, JoinersStay DEF Free
<1>7. LeaversHaveLeft'
  BY <1>1, LeaversStay DEF Free
<1>8. OpsAreOwned'
  BY OwnedStay DEF SameControl, Before, Ownership, OpsAreOwned, Owned
<1>9. RetainersAreReady'
  BY RetainersStay DEF SameControl
<1> QED BY <1>2, <1>3, <1>4, <1>5, <1>6, <1>7, <1>8, <1>9 DEF Ownership

-----------------------------------------------------------------------------
(* Each step keeps Ownership.                                              *)

LEMMA PumpOwnership == ASSUME Before, Pump PROVE Ownership'
<1>1. UNCHANGED <<slot, control, op, client, workQueue, worker>>
  BY DEF Pump, PumpTake, PumpCall, PumpEnd, managerVars, workVars
<1>2. completions \in Seq(CompletionRecords) /\ dispatch \in Seq(CompletionRecords)
      /\ reported \in [Handles -> TerminalStates \cup {"None"}]
  BY DEF Before, TypeInv, TypeOK
<1>3. ASSUME NEW h \in Told' PROVE h \in Told
  <2>1. CASE PumpTake
    <3>1. PICK n \in 1..Len(completions) :
            /\ dispatch' = SubSeq(completions, 1, n)
            /\ completions' = SubSeq(completions, n + 1, Len(completions))
      BY <2>1 DEF PumpTake
    <3>2. /\ \A i \in 1..Len(dispatch') : i \in 1..Len(completions) /\ dispatch'[i] = completions[i]
          /\ \A i \in 1..Len(completions') :
                n + i \in 1..Len(completions) /\ completions'[i] = completions[n + i]
      BY <1>2, <3>1
    <3>3. reported' = reported
      BY <2>1 DEF PumpTake
    <3> QED BY <1>3, <3>2, <3>3 DEF Told
  <2>2. CASE PumpCall
    <3>1. /\ dispatch # <<>> /\ dispatch' = Tail(dispatch) /\ completions' = completions
          /\ reported' = [reported EXCEPT ![Head(dispatch).h] = Head(dispatch).res]
      BY <2>2 DEF PumpCall
    <3>2. /\ 1 \in 1..Len(dispatch) /\ Head(dispatch) = dispatch[1]
          /\ \A i \in 1..Len(dispatch') :
                i + 1 \in 1..Len(dispatch) /\ dispatch'[i] = dispatch[i + 1]
      BY <1>2, <3>1
    <3>3. h # dispatch[1].h => reported'[h] = reported[h]
      BY <1>2, <1>3, <3>1, <3>2 DEF Told
    <3> QED BY <1>3, <3>1, <3>2, <3>3 DEF Told
  <2>3. CASE PumpEnd
    BY <1>3, <2>3 DEF PumpEnd, Told
  <2> QED BY <2>1, <2>2, <2>3 DEF Pump
<1>4. Submitted' = Submitted
  BY <1>1 DEF Submitted
<1> QED BY <1>1, <1>3, <1>4, QuietOwnership

LEMMA SameTold == ASSUME UNCHANGED <<reported, completions, dispatch>> PROVE Told' = Told
BY DEF Told

LEMMA SameSubmitted == ASSUME UNCHANGED <<workQueue, worker>> PROVE Submitted' = Submitted
BY DEF Submitted

\* Steps of nobody's request.
LEMMA OtherOwnership ==
    ASSUME Before, (\E k \in Keys : DropHandle(k)) \/ RequestStop \/ Join \/ UNCHANGED vars
    PROVE  Ownership'
<1>1. UNCHANGED <<slot, control, op, client, workQueue, worker, reported, completions, dispatch>>
  BY DEF DropHandle, RequestStop, Join, managerVars, workVars, pumpVars, vars
<1>2. Told' = Told /\ Submitted' = Submitted
  BY <1>1, SameTold, SameSubmitted
<1> QED BY <1>1, <1>2, QuietOwnership

\* A worker that takes work, or whose load returns.
LEMMA TakeOwnership ==
    ASSUME Before, NEW w \in Workers, Take(w) \/ Exit(w) \/ FinishLoad(w)
    PROVE  Ownership'
<1>1. UNCHANGED <<slot, control, op, client, reported, completions, dispatch>>
  BY DEF Take, Exit, FinishLoad, managerVars, pumpVars
<1>2. workQueue \in Seq(Handles) /\ worker \in [Workers -> WorkerRecords]
  BY DEF Before, TypeInv, TypeOK
<1>3. ASSUME NEW h \in Submitted' PROVE h \in Submitted
  <2>1. CASE Take(w)
    <3>1. /\ 1 \in 1..Len(workQueue) /\ Head(workQueue) = workQueue[1]
          /\ \A i \in 1..Len(workQueue') :
                i + 1 \in 1..Len(workQueue) /\ workQueue'[i] = workQueue[i + 1]
      BY <1>2, <2>1 DEF Take
    <3>2. \A v \in Workers : worker'[v].op = IF v = w THEN workQueue[1] ELSE worker[v].op
      BY <1>2, <2>1, <3>1 DEF Take, Busy
    <3> QED BY <1>3, <3>1, <3>2 DEF Submitted
  <2>2. CASE Exit(w) \/ FinishLoad(w)
    <3>1. workQueue' = workQueue
      BY <2>2 DEF Exit, FinishLoad
    <3>2. \A v \in Workers : worker'[v].op = worker[v].op
      <4>1. CASE Exit(w)
        BY <1>2, <4>1 DEF Exit, WorkerRecords
      <4>2. CASE FinishLoad(w)
        BY <1>2, <4>2 DEF FinishLoad, Busy
      <4> QED BY <2>2, <4>1, <4>2
    <3> QED BY <1>3, <3>1, <3>2 DEF Submitted
  <2> QED BY <2>1, <2>2
<1>4. Told' = Told
  BY <1>1, SameTold
<1> QED BY <1>1, <1>3, <1>4, QuietOwnership

\* A client step outside the positions that Ownership is about.
LEMMA QuietClient ==
    ASSUME Before, NEW c \in Clients, UNCHANGED <<slot, control, op, workQueue, worker>>,
           \A h \in Told' : h \in Told \/ control[h].live,
           \A d \in Clients \ {c} : client'[d] = client[d],
           client'[c].pc \in Free, client'[c].h \in Handles \cup {NoHandle},
           client'[c].h \in Handles \ {client[c].h} =>
                /\ IsLive(slot, client'[c].h)
                /\ \A d \in Clients : client[d].pc = "admit" => client[d].h # client'[c].h
    PROVE  Ownership'
<1>1. Submitted' = Submitted
  BY SameSubmitted
<1>2. \A d \in Clients :
        \/ client'[d] = client[d]
        \/ /\ client'[d].pc \in Free
           /\ client'[d].h \in Handles \ {client[d].h} =>
                /\ IsLive(slot, client'[d].h)
                /\ \A e \in Clients : client[e].pc = "admit" => client[e].h # client'[d].h
           /\ client'[d].h \in Handles \cup {NoHandle}
  OBVIOUS
<1> QED BY <1>1, <1>2, QuietOwnership

LEMMA StartOwnership ==
    ASSUME Before, NEW c \in Clients,
           \/ \E k \in Keys, cb \in BOOLEAN : StartRequest(c, k, cb)
           \/ \E h \in Handles : FindResult(c, h)
           \/ Reserve(c) \/ Unreserve(c) \/ AcquireExternal(c)
           \/ Allocate(c) /\ UNCHANGED slot
    PROVE  Ownership'
<1>1. client \in [Clients -> ClientRecords] /\ NoHandle \notin Handles
      /\ slot \in [Slots -> SlotRecords]
  BY HandlePairs DEF Before, TypeInv, TypeOK
<1>2. UNCHANGED <<slot, control, op, workQueue, worker, reported, completions, dispatch>>
  BY DEF StartRequest, FindResult, Reserve, Unreserve, AcquireExternal, Allocate, managerVars,
         workVars, pumpVars
<1>3. Told' = Told
  BY <1>2, SameTold
<1>4. CASE \E h \in Handles : FindResult(c, h)
  <2>1. PICK h \in Handles : FindResult(c, h)
    BY <1>4
  <2>2. /\ client'[c].pc = "acquire" /\ client'[c].h = h /\ IsKnown(h)
        /\ \A d \in Clients \ {c} : client'[d] = client[d]
    BY <1>1, <2>1, MovesOn DEF FindResult, At
  <2>3. IsLive(slot, h) /\ \A d \in Clients : client[d].pc = "admit" => client[d].h # h
    BY <2>2, KnownIsTold
  <2>4. "acquire" \in Free
    BY DEF Free, ClientPcs
  <2> QED BY <1>2, <1>3, <2>2, <2>3, <2>4, QuietClient
<1>5. CASE ~\E h \in Handles : FindResult(c, h)
  <2>1. /\ client'[c].pc \in {"idle", "reserve", "allocate", "unreserve"}
        /\ client'[c].h \in {client[c].h, NoHandle}
        /\ \A d \in Clients \ {c} : client'[d] = client[d]
    <3>1. CASE \E k \in Keys, cb \in BOOLEAN : StartRequest(c, k, cb)
      BY <1>1, <3>1, MovesOn DEF StartRequest, At
    <3>2. CASE Unreserve(c) \/ AcquireExternal(c)
      BY <1>1, <3>2, MovesOn DEF Unreserve, AcquireExternal, Return, IdleClient
    <3>3. CASE Reserve(c)
      BY <1>1, <3>3, MovesOn DEF Reserve, Return, IdleClient
    <3>4. CASE Allocate(c) /\ UNCHANGED slot
      <4>1. Goto(c, "unreserve") \/ Return(c)
        <5>1. ASSUME NEW t \in Slots, slot' = [slot EXCEPT ![t] = Allocated(slot[t].gen + 1)]
              PROVE  slot' # slot
          BY <1>1, <5>1 DEF Allocated, SlotRecords
        <5> QED BY <3>4, <5>1 DEF Allocate
      <4> QED BY <1>1, <4>1, MovesOn DEF Return, IdleClient
    <3> QED BY <1>5, <3>1, <3>2, <3>3, <3>4
  <2>2. client'[c].h \in Handles \cup {NoHandle} /\ client'[c].pc \in Free
    BY <2>1, HandleNumbers DEF Free, ClientPcs, Before
  <2>3. client'[c].h \notin Handles \ {client[c].h}
    BY <1>1, <2>1
  <2> QED BY <1>2, <1>3, <2>1, <2>2, <2>3, QuietClient
<1> QED BY <1>4, <1>5

\* A fresh handle names a slot that nobody has.
LEMMA AllocateOwnership ==
    ASSUME Before, NEW c \in Clients, NEW s \in Slots, IsFirstFree(slot, s),
           slot' = [slot EXCEPT ![s] = Allocated(slot[s].gen + 1)],
           client' = [client EXCEPT ![c] =
                At("admit", <<s, slot[s].gen + 1>>, client[c].key, client[c].cb, "Cancelled")],
           client[c].pc = "allocate",
           UNCHANGED <<control, op, workQueue, worker, reported, completions, dispatch>>
    PROVE  Ownership'
<1> DEFINE h == <<s, slot[s].gen + 1>>
<1>1. slot \in [Slots -> SlotRecords] /\ client \in [Clients -> ClientRecords]
  BY DEF Before, TypeInv, TypeOK
<1>2. slot[s].gen \in Nat /\ h \in Handles /\ h[1] = s /\ h[2] = slot[s].gen + 1
  BY <1>1, HandleAssumption DEF IsFirstFree, Handles, SlotRecords
<1>3. /\ client'[c].pc = "admit" /\ client'[c].h = h
      /\ \A d \in Clients \ {c} : client'[d] = client[d]
  BY <1>1, MovesOn DEF At
<1>4. /\ slot'[s].gen = slot[s].gen + 1 /\ slot'[s].occupied /\ slot'[s].state = "Accepted"
      /\ \A t \in Slots \ {s} : slot'[t] = slot[t]
  BY <1>1 DEF Allocated
<1>5. ~slot[s].occupied
  BY DEF IsFirstFree
<1> HIDE DEF h
<1>6. \A g \in Handles : IsLive(slot, g) => IsLive(slot', g) /\ slot'[g[1]] = slot[g[1]]
  BY <1>4, <1>5, HandlePairs DEF IsLive
<1>7. \A g \in Handles : slot'[g[1]].gen >= slot[g[1]].gen
  <2> SUFFICES ASSUME NEW g \in Handles PROVE slot'[g[1]].gen >= slot[g[1]].gen
    OBVIOUS
  <2>1. CASE g[1] = s
    BY <1>2, <1>4, <2>1
  <2>2. CASE g[1] # s
    BY <1>4, <2>2, HandleNumbers DEF Before
  <2> QED BY <2>1, <2>2
<1>8. \A s1 \in Slots : slot'[s1].gen >= slot[s1].gen /\ slot'[s1].gen \in Nat
  <2> SUFFICES ASSUME NEW s1 \in Slots PROVE slot'[s1].gen >= slot[s1].gen /\ slot'[s1].gen \in Nat
    OBVIOUS
  <2>1. CASE s1 = s
    BY <1>2, <1>4, <2>1
  <2>2. CASE s1 # s
    BY <1>1, <1>4, <2>2, HandleAssumption DEF SlotRecords
  <2> QED BY <2>1, <2>2
<1>9. \A d \in Clients : client[d].h # h
  BY <1>2, HandleNumbers DEF Before, Ownership, HandlesAreCounted
<1>10. HandlesAreNew'
  <2>1. \A g \in Handles : slot'[g[1]].gen < g[2] => slot[g[1]].gen < g[2]
    BY <1>7, <1>8, HandleNumbers DEF Before
  <2>2. \A d \in Clients : client'[d].pc = "admit" =>
            /\ client'[d].h \in Handles
            /\ \/ client[d].pc = "admit" /\ client'[d].h = client[d].h
               \/ slot[client'[d].h[1]].gen < client'[d].h[2]
    <3>1. slot[h[1]].gen < h[2]
      BY <1>2
    <3> QED BY <1>2, <1>3, <3>1, AdmittedIsNew
  <2>3. Told' = Told /\ Submitted' = Submitted
    BY SameTold, SameSubmitted
  <2> QED BY <2>1, <2>2, <2>3, NewStay
<1>11. HandlesAreCounted'
  <2>1. \A d \in Clients : client'[d].h \in Handles =>
            client'[d].h = client[d].h \/ client'[d].h[2] <= slot'[client'[d].h[1]].gen
    BY <1>2, <1>3, <1>4
  <2> QED BY <1>8, <2>1, CountedStay
<1>12. AdmitsAreAlone'
  <2>1. IsLive(slot', h) /\ slot'[h[1]].state = "Accepted"
    BY <1>2, <1>4, HandlePairs DEF IsLive
  <2>2. \A d \in Clients \ {c} : client[d].pc = "admit" =>
            IsLive(slot', client[d].h) /\ slot'[client[d].h[1]].state = "Accepted"
    BY <1>6, AdmittedIsNew
  <2>3. \A d, e \in Clients : client[d].pc = "admit" /\ d # e => client[e].h # client[d].h
    BY AdmittedIsNew
  <2>4. ASSUME NEW d \in Clients, client'[d].pc = "admit"
        PROVE  /\ IsLive(slot', client'[d].h) /\ slot'[client'[d].h[1]].state = "Accepted"
               /\ \A e \in Clients \ {d} : client'[e].h # client'[d].h
    <3>1. CASE d = c
      <4>1. client'[d].h = h
        BY <1>3, <3>1
      <4>2. \A e \in Clients \ {d} : client'[e] = client[e]
        BY <1>3, <3>1
      <4>3. IsLive(slot', client'[d].h) /\ slot'[client'[d].h[1]].state = "Accepted"
        BY <2>1, <4>1
      <4>4. \A e \in Clients \ {d} : client'[e].h # client'[d].h
        BY <1>9, <4>1, <4>2
      <4> QED BY <4>3, <4>4
    <3>2. CASE d # c
      <4>1. client'[d] = client[d] /\ client[d].pc = "admit"
        BY <1>3, <2>4, <3>2
      <4>2. IsLive(slot', client'[d].h) /\ slot'[client'[d].h[1]].state = "Accepted"
        BY <2>2, <3>2, <4>1
      <4>3. \A e \in Clients \ {d} : client'[e].h # client[d].h
        BY <1>3, <1>9, <2>3, <3>2, <4>1
      <4> QED BY <4>1, <4>2, <4>3
    <3> QED BY <3>1, <3>2
  <2> QED BY <2>4 DEF AdmitsAreAlone
<1>13. CreatorsWait'
  <2>1. Submitted' = Submitted
    BY SameSubmitted
  <2>2. ASSUME NEW d \in Clients, Creating(d)'
        PROVE  client'[d] = client[d] /\ Creating(d) /\ client[d].h \notin Submitted
    <3>1. d # c
      BY <1>3, <2>2 DEF Creating
    <3>2. client'[d] = client[d]
      BY <1>3, <3>1
    <3>3. Creating(d)
      BY <2>2, <3>2 DEF Creating
    <3> QED BY <3>2, <3>3 DEF Before, Ownership, CreatorsWait
  <2> QED BY <2>1, <2>2, CreatorsStay
<1>14. JoinersCommit'
  BY <1>3, JoinersStay
<1>15. LeaversHaveLeft'
  BY <1>3, LeaversStay
<1>16. OpsAreOwned'
  BY <1>6, HandleNumbers, OwnedStay DEF SameControl, Before, Ownership, OpsAreOwned, Owned
<1>17. RetainersAreReady'
  <2>1. \A g \in Handles : IsLive(slot', g) /\ slot'[g[1]].state = "Ready" =>
            IsLive(slot, g) /\ slot[g[1]].state = "Ready"
    BY <1>4, HandlePairs DEF IsLive
  <2> QED BY <2>1, RetainersStay DEF SameControl
<1> QED BY <1>10, <1>11, <1>12, <1>13, <1>14, <1>15, <1>16, <1>17 DEF Ownership

\* The slot goes of a request that leaves no other trace.
LEMMA ReleaseOwnership ==
    ASSUME Before, NEW c \in Clients, client[c].pc \in {"admit", "discard", "unslot"},
           slot' = Released(slot, client[c].h), Return(c),
           UNCHANGED <<control, op, workQueue, worker, reported, completions, dispatch>>
    PROVE  Ownership'
<1> DEFINE h == client[c].h
<1>1. slot \in [Slots -> SlotRecords] /\ client \in [Clients -> ClientRecords]
  BY DEF Before, TypeInv, TypeOK
<1>2. /\ client'[c].pc = "idle" /\ client'[c].h = NoHandle
      /\ \A d \in Clients \ {c} : client'[d] = client[d]
  BY <1>1, MovesOn DEF Return, IdleClient
<1>3. h \in Handles => ~control[h].live
  BY AdmittedIsNew DEF Before, Ownership, LeaversHaveLeft
<1>4. h \in Handles \cup {NoHandle}
  BY HandleNumbers DEF Before
<1>5. CASE h = NoHandle
  <2>1. slot' = slot
    BY <1>5 DEF Released, IsLive
  <2>2. client'[c].pc \in Free
    BY <1>2 DEF Free, ClientPcs
  <2> QED BY <1>2, <2>1, <2>2, QuietClient, SameTold, HandleNumbers DEF Before
<1>6. CASE h \in Handles
  <2>1. \A g \in Handles : /\ slot'[g[1]].gen = slot[g[1]].gen
                           /\ IsLive(slot', g) <=> IsLive(slot, g) /\ g # h
                           /\ IsLive(slot', g) => slot'[g[1]].state = slot[g[1]].state
    BY <1>1, <1>6, ReleasedEffect
  <2>2. \A s \in Slots : slot'[s].gen = slot[s].gen /\ slot[s].gen \in Nat
    <3>1. TypeOK
      BY DEF Before, TypeInv
    <3> QED BY <1>1, <1>6, <3>1, GenerationsStay, HandleAssumption DEF SlotRecords
  <2> HIDE DEF h
  <2>3. HandlesAreNew'
    BY <1>2, <2>1, NewStay, SameTold, SameSubmitted, AdmittedIsNew
  <2>4. HandlesAreCounted'
    BY <1>2, <2>2, CountedStay, HandleNumbers DEF Before
  <2>5. AdmitsAreAlone'
    <3>1. \A d \in Clients : client'[d].pc = "admit" =>
              /\ client[d].pc = "admit" /\ client'[d].h = client[d].h
              /\ IsLive(slot', client[d].h) /\ slot'[client[d].h[1]].state = "Accepted"
      BY <1>2, <2>1, AdmittedIsNew DEF h
    <3> QED BY <1>2, <3>1, AdmitsStay
  <2>6. CreatorsWait'
    BY <1>2, CreatorsStay, SameSubmitted DEF Creating, Before, Ownership, CreatorsWait
  <2>7. JoinersCommit'
    BY <1>2, JoinersStay
  <2>8. LeaversHaveLeft'
    BY <1>2, LeaversStay
  <2>9. OpsAreOwned'
    <3>1. ASSUME NEW o \in Handles, NEW g \in op'[o].interests
          PROVE  /\ g \in op[o].interests /\ g \in Handles /\ IsLive(slot', g)
                 /\ slot'[g[1]].state = slot[g[1]].state
      <4>1. g \in op[o].interests /\ g \in Handles
        BY <3>1, HandleNumbers DEF Before
      <4>2. control[g].live /\ IsLive(slot, g)
        BY <4>1 DEF Before, Ownership, OpsAreOwned, Owned
      <4> QED BY <1>3, <2>1, <4>1, <4>2
    <3> QED BY <3>1, OwnedStay DEF SameControl
  <2>10. RetainersAreReady'
    BY <2>1, RetainersStay DEF SameControl
  <2> QED BY <2>3, <2>4, <2>5, <2>6, <2>7, <2>8, <2>9, <2>10 DEF Ownership
<1> QED BY <1>4, <1>5, <1>6

\* A cache hit: the request is Ready and retains the entry, whoever loaded it.
LEMMA HitOwnership ==
    ASSUME Before, NEW c \in Clients, AdmitHit(c)
    PROVE  Ownership'
<1> DEFINE h == client[c].h
<1>1. /\ slot \in [Slots -> SlotRecords] /\ client \in [Clients -> ClientRecords]
      /\ control \in [Handles -> Controls] /\ TypeOK
  BY DEF Before, TypeInv, TypeOK
<1>2. /\ client[c].pc = "admit" /\ slot' = Committed(slot, {h}, "Ready")
      /\ control' = [control EXCEPT ![h] = NewControl(client[c].key, NoHandle, TRUE, client[c].cb)]
      /\ UNCHANGED <<op, workQueue, worker, reported, completions, dispatch>>
  BY DEF AdmitHit, workVars, pumpVars
<1>3. /\ client'[c].pc = "complete" /\ client'[c].h = h
      /\ \A d \in Clients \ {c} : client'[d] = client[d]
  BY <1>1, MovesOn DEF AdmitHit, At
<1>4. /\ h \in Handles /\ ~control[h].live /\ Unheard(h)
      /\ \A d \in Clients \ {c} : client[d].h # h
      /\ \A o \in Handles : h \notin op[o].interests
  BY <1>2, AdmittedIsNew
<1>5. /\ control'[h].live /\ control'[h].op = NoHandle /\ control'[h].cache
      /\ \A g \in Handles \ {h} : control'[g] = control[g]
  BY <1>1, <1>2, <1>4 DEF NewControl
<1>6. \A g \in Handles : /\ slot'[g[1]].gen = slot[g[1]].gen
                         /\ IsLive(slot', g) <=> IsLive(slot, g)
                         /\ IsLive(slot, g) /\ g # h => slot'[g[1]].state = slot[g[1]].state
  BY <1>1, <1>2, <1>4, CommittedOneEffect
<1>7. \A s \in Slots : slot'[s].gen = slot[s].gen /\ slot[s].gen \in Nat
  BY <1>1, <1>2, <1>4, GenerationsStay, HandleAssumption DEF SlotRecords
<1> HIDE DEF h
<1>8. HandlesAreNew'
  BY <1>2, <1>3, <1>6, NewStay, SameTold, SameSubmitted, AdmittedIsNew
<1>9. HandlesAreCounted'
  BY <1>3, <1>7, CountedStay DEF h
<1>10. AdmitsAreAlone'
  <2>1. \A d \in Clients : client'[d].pc = "admit" =>
            /\ client[d].pc = "admit" /\ client'[d].h = client[d].h
            /\ IsLive(slot', client[d].h) /\ slot'[client[d].h[1]].state = "Accepted"
    BY <1>3, <1>4, <1>6, AdmittedIsNew
  <2> QED BY <1>3, <2>1, AdmitsStay DEF h
<1>11. CreatorsWait'
  <2>1. \A d \in Clients : Creating(d)' => Creating(d) /\ d # c
    BY <1>2, <1>3 DEF Creating
  <2>2. \A d \in Clients : Creating(d) /\ d # c => client[d].h \in Handles \ {h} /\ client'[d] = client[d]
    BY <1>3, <1>4, HandleNumbers DEF Creating, Before, Admitting
  <2> QED BY <1>2, <1>5, <2>1, <2>2, CreatorsStay, SameSubmitted DEF Before, Ownership, CreatorsWait
<1>12. JoinersCommit'
  <2>1. \A d \in Clients : client'[d].pc = "commit" =>
            client[d].pc = "commit" /\ client'[d] = client[d] /\ client[d].h \in Handles \ {h}
    BY <1>3, <1>4, HandleNumbers DEF Before, Admitting
  <2> QED BY <1>2, <1>5, <2>1, JoinersStay
<1>13. LeaversHaveLeft'
  <2>1. \A d \in Clients : client'[d].pc \in {"discard", "unslot"} =>
            /\ client[d].pc \in {"discard", "unslot"} /\ client'[d] = client[d]
            /\ client[d].h # h /\ client[d].h \in Handles \cup {NoHandle}
    BY <1>3, <1>4, HandleNumbers DEF Before
  <2> QED BY <1>5, <2>1, LeaversStay, HandlePairs
<1>14. OpsAreOwned'
  <2>1. \A o \in Handles : \A g \in op[o].interests :
            g \in Handles \ {h} /\ IsLive(slot, g)
    BY <1>4, HandleNumbers DEF Before, Ownership, OpsAreOwned, Owned
  <2> QED BY <1>2, <1>5, <1>6, <2>1, OwnedStay DEF SameControl
<1>15. RetainersAreReady'
  <2>1. ASSUME NEW g \in Handles, control'[g].live
        PROVE  /\ control'[g].cache /\ control'[g].op \in Handles =>
                    op'[control'[g].op].state \in TerminalStates
               /\ IsLive(slot', g) /\ slot'[g[1]].state = "Ready" => control'[g].cache
    <3>1. CASE g = h
      BY <1>5, <3>1, HandlePairs
    <3>2. CASE g # h
      BY <1>2, <1>5, <1>6, <2>1, <3>2 DEF Before, Ownership, RetainersAreReady
    <3> QED BY <3>1, <3>2
  <2> QED BY <2>1 DEF RetainersAreReady
<1> QED BY <1>8, <1>9, <1>10, <1>11, <1>12, <1>13, <1>14, <1>15 DEF Ownership

\* The request creates the operation of its key, under its own handle.
LEMMA CreateOwnership ==
    ASSUME Before, NEW c \in Clients, AdmitCreate(c)
    PROVE  Ownership'
<1>0. PICK h, k : h = client[c].h /\ k = client[c].key
  OBVIOUS
<1>1. /\ client \in [Clients -> ClientRecords] /\ op \in [Handles -> Operations]
      /\ control \in [Handles -> Controls] /\ slot \in [Slots -> SlotRecords]
  BY DEF Before, TypeInv, TypeOK
<1>2. /\ client[c].pc = "admit"
      /\ op' = [op EXCEPT ![h] = [key |-> k, interests |-> {h}, cancel |-> FALSE, state |-> "Created"]]
      /\ control' = [control EXCEPT ![h] = NewControl(k, h, FALSE, client[c].cb)]
      /\ Goto(c, "wait")
      /\ UNCHANGED <<slot, workQueue, worker, reported, completions, dispatch>>
  BY <1>0 DEF AdmitCreate, workVars, pumpVars
<1>3. /\ client'[c].pc = "wait" /\ client'[c].h = h
      /\ \A d \in Clients \ {c} : client'[d] = client[d]
  BY <1>0, <1>1, <1>2, MovesOn
<1>4. /\ h \in Handles /\ ~control[h].live /\ h \notin Told /\ h \notin Submitted
      /\ op[h].state = "None" /\ IsLive(slot, h) /\ slot[h[1]].state = "Accepted"
      /\ \A d \in Clients \ {c} : client[d].h # h
      /\ \A o \in Handles : h \notin op[o].interests
  BY <1>0, <1>2, AdmittedIsNew DEF Unheard
<1>5. /\ control'[h].live /\ control'[h].op = h /\ ~control'[h].cache /\ control'[h].key = k
      /\ \A g \in Handles \ {h} : control'[g] = control[g]
  BY <1>1, <1>2, <1>4 DEF NewControl
<1>6. /\ op'[h].interests = {h} /\ op'[h].state = "Created" /\ op'[h].key = k
      /\ \A g \in Handles \ {h} : op'[g] = op[g]
  BY <1>1, <1>2, <1>4
<1>7. Told' = Told /\ Submitted' = Submitted
  BY <1>2, SameTold, SameSubmitted
<1>8. \A o \in Handles : op[o].state \in TerminalStates => op'[o].state = op[o].state
  BY <1>4, <1>6 DEF TerminalStates
<1>9. \A d \in Clients \ {c} : client[d].h \in Handles => client[d].h \in Handles \ {h}
  BY <1>4
<1>10. HandlesAreNew'
  <2>1. \A g \in Handles : op'[g].state # "None" =>
            op[g].state # "None" \/ \E d \in Clients : /\ client[d].pc = "admit" /\ client[d].h = g
                                                       /\ client'[d].pc # "admit"
    BY <1>0, <1>2, <1>3, <1>6
  <2> QED BY <1>2, <1>3, <1>7, <2>1, NewStay, AdmittedIsNew
<1>11. HandlesAreCounted'
  <2>1. \A s \in Slots : slot[s].gen \in Nat
    BY <1>1, HandleAssumption DEF SlotRecords
  <2> QED BY <1>0, <1>2, <1>3, <2>1, CountedStay
<1>12. AdmitsAreAlone'
  BY <1>0, <1>2, <1>3, AdmittedIsNew, AdmitsStay
<1>13. CreatorsWait'
  <2>1. ASSUME NEW d \in Clients \ {c}, Creating(d)'
        PROVE  /\ op'[client'[d].h].state = "Created"
               /\ control'[client'[d].h].live => control'[client'[d].h].op = client'[d].h
               /\ client'[d].h \notin Submitted' /\ client'[d].h # h
               /\ \A e \in Clients \ {d, c} : Creating(e)' => client'[e].h # client'[d].h
    <3>1. client'[d] = client[d] /\ client[d].h \in Handles \ {h}
      <4>1. client'[d] = client[d]
        BY <1>3
      <4>2. client[d].h \in Handles
        BY <2>1, <4>1, HandleNumbers DEF Creating, Before, Admitting
      <4> QED BY <1>9, <4>1, <4>2
    <3>2. Creating(d)
      BY <1>6, <2>1, <3>1 DEF Creating
    <3>3. ASSUME NEW e \in Clients \ {d, c}, Creating(e)' PROVE client'[e].h # client'[d].h
      <4>1. client'[e] = client[e]
        BY <1>3
      <4>2. client[e].h \in Handles \ {h}
        BY <1>9, <3>3, <4>1, HandleNumbers DEF Creating, Before, Admitting
      <4>3. Creating(e)
        BY <1>6, <3>3, <4>1, <4>2 DEF Creating
      <4> QED BY <3>1, <3>2, <4>1, <4>3 DEF Before, Ownership, CreatorsWait
    <3>4. /\ op[client[d].h].state = "Created" /\ client[d].h \notin Submitted
          /\ control[client[d].h].live => control[client[d].h].op = client[d].h
      BY <3>2 DEF Before, Ownership, CreatorsWait
    <3> QED BY <1>5, <1>6, <1>7, <3>1, <3>3, <3>4
  <2>2. ASSUME NEW d \in Clients, Creating(d)'
        PROVE  /\ op'[client'[d].h].state = "Created"
               /\ control'[client'[d].h].live => control'[client'[d].h].op = client'[d].h
               /\ client'[d].h \notin Submitted'
    <3>1. CASE d = c
      <4>1. client'[d].h = h
        BY <1>3, <3>1
      <4> QED BY <1>4, <1>5, <1>6, <1>7, <4>1
    <3> QED BY <2>1, <2>2, <3>1
  <2>3. ASSUME NEW d \in Clients, NEW e \in Clients \ {d}, Creating(d)', Creating(e)'
        PROVE  client'[e].h # client'[d].h
    <3>1. CASE d = c \/ e = c
      <4>1. \A f \in Clients \ {c} : Creating(f)' => client'[f].h # h
        BY <2>1
      <4> QED BY <1>3, <2>3, <3>1, <4>1
    <3> QED BY <2>1, <2>3, <3>1
  <2> QED BY <2>2, <2>3 DEF CreatorsWait
<1>14. JoinersCommit'
  <2>1. \A d \in Clients : client'[d].pc = "commit" =>
            client[d].pc = "commit" /\ client'[d] = client[d] /\ client[d].h \in Handles \ {h}
    BY <1>3, <1>9, HandleNumbers DEF Before, Admitting
  <2> QED BY <1>5, <1>8, <2>1, JoinersStay
<1>15. LeaversHaveLeft'
  <2>1. \A d \in Clients : client'[d].pc \in {"discard", "unslot"} =>
            /\ client[d].pc \in {"discard", "unslot"} /\ client'[d] = client[d]
            /\ client[d].h \in (Handles \ {h}) \cup {NoHandle}
    BY <1>3, <1>9, HandleNumbers DEF Before
  <2> QED BY <1>5, <2>1, LeaversStay, HandlePairs
<1>16. OpsAreOwned'
  <2>1. ASSUME NEW o \in Handles \ {h}, NEW g \in op'[o].interests PROVE Owned(o, g)'
    <3>1. g \in op[o].interests /\ g \in Handles \ {h} /\ op'[o] = op[o]
      BY <1>4, <1>6, <2>1, HandleNumbers DEF Before
    <3>2. Owned(o, g)
      BY <3>1 DEF Before, Ownership, OpsAreOwned
    <3> QED BY <1>2, <1>5, <3>1, <3>2 DEF Owned
  <2>2. Owned(h, h)'
    BY <1>2, <1>4, <1>5, <1>6 DEF Owned, TerminalStates
  <2> QED BY <1>6, <2>1, <2>2 DEF OpsAreOwned
<1>17. RetainersAreReady'
  <2>1. ASSUME NEW g \in Handles, control'[g].live
        PROVE  /\ control'[g].cache /\ control'[g].op \in Handles =>
                    op'[control'[g].op].state \in TerminalStates
               /\ IsLive(slot', g) /\ slot'[g[1]].state = "Ready" => control'[g].cache
    <3>1. CASE g = h
      BY <1>2, <1>4, <1>5, <3>1
    <3>2. CASE g # h
      BY <1>2, <1>5, <1>8, <2>1, <3>2 DEF Before, Ownership, RetainersAreReady
    <3> QED BY <3>1, <3>2
  <2> QED BY <2>1 DEF RetainersAreReady
<1> QED BY <1>10, <1>11, <1>12, <1>13, <1>14, <1>15, <1>16, <1>17 DEF Ownership

\* The request joins an operation that is running or has failed.
LEMMA JoinOwnership ==
    ASSUME Before, NEW c \in Clients, AdmitJoin(c)
    PROVE  Ownership'
<1>0. PICK h, k : h = client[c].h /\ k = client[c].key
  OBVIOUS
<1>1. /\ client \in [Clients -> ClientRecords] /\ op \in [Handles -> Operations]
      /\ control \in [Handles -> Controls] /\ slot \in [Slots -> SlotRecords]
      /\ table \subseteq Handles /\ \A o1 \in table : op[o1].state # "None"
  BY DEF Before, TypeInv, TypeOK, TableOps
<1>2. /\ client[c].pc = "admit"
      /\ UNCHANGED <<slot, workQueue, worker, reported, completions, dispatch>>
  BY DEF AdmitJoin, workVars, pumpVars
<1>3. PICK o \in Attachable(k) :
        /\ op[o].state # "Ready"
        /\ op' = [op EXCEPT ![o].interests = @ \cup {h}]
        /\ control' = [control EXCEPT ![h] = NewControl(k, o, FALSE, client[c].cb)]
        /\ IF op[o].state = "Created" THEN Goto(c, "wait")
           ELSE client' = [client EXCEPT ![c] = At("commit", h, k, client[c].cb, op[o].state)]
  BY <1>0 DEF AdmitJoin
<1>4. o \in Handles /\ op[o].key = k /\ o \in table
  BY <1>0, <1>1 DEF Attachable
<1>5. /\ h \in Handles /\ ~control[h].live /\ op[h].state = "None"
      /\ IsLive(slot, h) /\ slot[h[1]].state = "Accepted"
      /\ \A d \in Clients \ {c} : client[d].h # h
      /\ \A o1 \in Handles : h \notin op[o1].interests
  BY <1>0, <1>2, AdmittedIsNew DEF Unheard
<1>6. /\ client'[c].h = h /\ \A d \in Clients \ {c} : client'[d] = client[d]
      /\ \/ op[o].state = "Created" /\ client'[c].pc = "wait"
         \/ op[o].state # "Created" /\ client'[c].pc = "commit" /\ client'[c].res = op[o].state
  BY <1>0, <1>1, <1>3, MovesOn DEF At
<1>7. /\ control'[h].live /\ control'[h].op = o /\ ~control'[h].cache /\ control'[h].key = k
      /\ \A g \in Handles \ {h} : control'[g] = control[g]
  BY <1>1, <1>3, <1>5 DEF NewControl
<1>8. /\ op'[o].interests = op[o].interests \cup {h} /\ op'[o].state = op[o].state
      /\ op'[o].key = op[o].key /\ \A g \in Handles \ {o} : op'[g] = op[g]
  <2>1. op'[o] = [op[o] EXCEPT !.interests = @ \cup {h}] /\ op[o] \in Operations
    BY <1>1, <1>3, <1>4
  <2> QED BY <1>1, <1>3, <1>4, <2>1 DEF Operations
<1>9. \A g \in Handles : op'[g].state = op[g].state
  BY <1>4, <1>8
<1>10. Told' = Told /\ Submitted' = Submitted
  BY <1>2, SameTold, SameSubmitted
<1>11. \A d \in Clients \ {c} : client[d].h \in Handles => client[d].h \in Handles \ {h}
  BY <1>5
<1>12. HandlesAreNew'
  BY <1>2, <1>6, <1>9, <1>10, NewStay, AdmittedIsNew
<1>13. HandlesAreCounted'
  <2>1. \A s \in Slots : slot[s].gen \in Nat
    BY <1>1, HandleAssumption DEF SlotRecords
  <2> QED BY <1>0, <1>2, <1>6, <2>1, CountedStay
<1>14. AdmitsAreAlone'
  BY <1>0, <1>2, <1>6, AdmittedIsNew, AdmitsStay
<1>15. CreatorsWait'
  <2>1. ~Creating(c)'
    BY <1>5, <1>6, <1>9 DEF Creating
  <2>2. ASSUME NEW d \in Clients, Creating(d)'
        PROVE  /\ Creating(d) /\ client'[d].h = client[d].h
               /\ op'[client[d].h].state = op[client[d].h].state
               /\ control'[client[d].h].live =>
                    control[client[d].h].live /\ control'[client[d].h].op = control[client[d].h].op
               /\ client[d].h \notin Submitted'
    <3>1. d # c /\ client'[d] = client[d]
      BY <1>6, <2>1, <2>2
    <3>2. client[d].h \in Handles \ {h}
      BY <1>11, <2>2, <3>1, HandleNumbers DEF Creating, Before, Admitting
    <3>3. Creating(d)
      BY <1>9, <2>2, <3>1, <3>2 DEF Creating
    <3> QED BY <1>7, <1>9, <1>10, <3>1, <3>2, <3>3 DEF Before, Ownership, CreatorsWait
  <2> QED BY <2>2, CreatorsStay
<1>16. JoinersCommit'
  <2>1. ASSUME NEW d \in Clients, client'[d].pc = "commit"
        PROVE  /\ client'[d].res # "Ready"
               /\ control'[client'[d].h].live =>
                    /\ control'[client'[d].h].op \in Handles
                    /\ op'[control'[client'[d].h].op].state \in TerminalStates
    <3>1. CASE d = c
      <4>1. /\ client'[d].h = h /\ client'[d].res = op[o].state /\ op[o].state # "Created"
        BY <1>6, <2>1, <3>1
      <4>2. op[o].state \in TerminalStates
        BY <1>1, <1>4, <4>1 DEF Operations, OpStates
      <4>3. control'[client'[d].h].op = o
        BY <1>7, <4>1
      <4>4. op'[o].state = op[o].state
        BY <1>8
      <4> QED BY <1>3, <1>4, <4>1, <4>2, <4>3, <4>4
    <3>2. CASE d # c
      <4>1. client'[d] = client[d] /\ client[d].pc = "commit" /\ client[d].h \in Handles \ {h}
        BY <1>6, <1>11, <2>1, <3>2, HandleNumbers DEF Before, Admitting
      <4> QED BY <1>7, <1>9, <4>1 DEF Before, Ownership, JoinersCommit
    <3> QED BY <3>1, <3>2
  <2> QED BY <2>1 DEF JoinersCommit
<1>17. LeaversHaveLeft'
  <2>1. \A d \in Clients : client'[d].pc \in {"discard", "unslot"} =>
            /\ client[d].pc \in {"discard", "unslot"} /\ client'[d] = client[d]
            /\ client[d].h \in (Handles \ {h}) \cup {NoHandle}
    BY <1>6, <1>11, HandleNumbers DEF Before
  <2> QED BY <1>7, <2>1, LeaversStay, HandlePairs
<1>18. OpsAreOwned'
  <2>1. ASSUME NEW o1 \in Handles, NEW g \in op[o1].interests PROVE Owned(o1, g)'
    <3>1. g \in Handles \ {h} /\ op'[o1].key = op[o1].key
      BY <1>4, <1>5, <1>8, <2>1, HandleNumbers DEF Before
    <3>2. Owned(o1, g)
      BY <2>1 DEF Before, Ownership, OpsAreOwned
    <3> QED BY <1>2, <1>7, <1>9, <3>1, <3>2 DEF Owned
  <2>2. Owned(o, h)'
    BY <1>2, <1>3, <1>4, <1>5, <1>7, <1>8 DEF Owned, TerminalStates
  <2> QED BY <1>8, <2>1, <2>2 DEF OpsAreOwned
<1>19. RetainersAreReady'
  <2>1. ASSUME NEW g \in Handles, control'[g].live
        PROVE  /\ control'[g].cache /\ control'[g].op \in Handles =>
                    op'[control'[g].op].state \in TerminalStates
               /\ IsLive(slot', g) /\ slot'[g[1]].state = "Ready" => control'[g].cache
    <3>1. CASE g = h
      BY <1>2, <1>5, <1>7, <3>1
    <3>2. CASE g # h
      BY <1>2, <1>7, <1>9, <2>1, <3>2 DEF Before, Ownership, RetainersAreReady
    <3> QED BY <3>1, <3>2
  <2> QED BY <2>1 DEF RetainersAreReady
<1> QED BY <1>12, <1>13, <1>14, <1>15, <1>16, <1>17, <1>18, <1>19 DEF Ownership

LEMMA WaitOwnership ==
    ASSUME Before, NEW c \in Clients, Wait(c)
    PROVE  Ownership'
<1>0. PICK h : h = client[c].h
  OBVIOUS
<1>1. /\ slot \in [Slots -> SlotRecords] /\ client \in [Clients -> ClientRecords] /\ TypeOK
  BY DEF Before, TypeInv, TypeOK
<1>2. /\ client[c].pc = "wait" /\ slot' = Moved(slot, h, "Accepted", "Waiting")
      /\ UNCHANGED <<control, op, workQueue, worker, reported, completions, dispatch>>
  BY <1>0 DEF Wait, workVars, pumpVars
<1>3. h \in Handles
  BY <1>0, <1>2, HandleNumbers DEF Before, Admitting
<1>4. /\ \A d \in Clients \ {c} : client'[d] = client[d]
      /\ \/ client'[c].pc = "submit" /\ client'[c].h = h /\ op[h].state # "None"
         \/ client'[c].pc = "idle" /\ client'[c].h = NoHandle
  BY <1>0, <1>1, MovesOn DEF Wait, Return, IdleClient
<1>5. \A g \in Handles : /\ slot'[g[1]].gen = slot[g[1]].gen
                         /\ IsLive(slot', g) <=> IsLive(slot, g)
                         /\ IsLive(slot, g) => slot'[g[1]].state =
                                IF g = h /\ slot[g[1]].state = "Accepted" THEN "Waiting"
                                ELSE slot[g[1]].state
  BY <1>1, <1>2, <1>3, MovedEffect
<1>6. \A s \in Slots : slot'[s].gen = slot[s].gen /\ slot[s].gen \in Nat
  BY <1>1, <1>2, <1>3, GenerationsStay, HandleAssumption DEF SlotRecords
<1>7. Told' = Told /\ Submitted' = Submitted
  BY <1>2, SameTold, SameSubmitted
<1>8. HandlesAreNew'
  BY <1>2, <1>4, <1>5, <1>7, NewStay, AdmittedIsNew
<1>9. HandlesAreCounted'
  BY <1>0, <1>4, <1>6, CountedStay, HandlePairs
<1>10. AdmitsAreAlone'
  <2>1. \A d \in Clients : client'[d].pc = "admit" =>
            /\ client[d].pc = "admit" /\ client'[d].h = client[d].h
            /\ IsLive(slot', client[d].h) /\ slot'[client[d].h[1]].state = "Accepted"
    BY <1>0, <1>2, <1>4, <1>5, AdmittedIsNew
  <2> QED BY <1>0, <1>4, <2>1, AdmitsStay
<1>11. CreatorsWait'
  <2>1. ASSUME NEW d \in Clients, Creating(d)'
        PROVE  client'[d].h = client[d].h /\ Creating(d) /\ client[d].h \notin Submitted
    <3>1. CASE d = c
      <4>1. client'[c].pc = "submit" /\ client'[c].h = h /\ op[h].state # "None"
        BY <1>4, <2>1, <3>1 DEF Creating
      <4>2. Creating(c)
        BY <1>0, <1>2, <4>1 DEF Creating
      <4> QED BY <1>0, <3>1, <4>1, <4>2 DEF Before, Ownership, CreatorsWait
    <3>2. CASE d # c
      <4>1. client'[d] = client[d]
        BY <1>4, <3>2
      <4>2. Creating(d)
        BY <1>2, <2>1, <4>1 DEF Creating
      <4> QED BY <4>1, <4>2 DEF Before, Ownership, CreatorsWait
    <3> QED BY <3>1, <3>2
  <2> QED BY <1>2, <1>7, <2>1, CreatorsStay
<1>12. JoinersCommit'
  BY <1>2, <1>4, JoinersStay
<1>13. LeaversHaveLeft'
  BY <1>2, <1>4, LeaversStay
<1>14. OpsAreOwned'
  <2>1. \A o \in Handles : \A g \in op[o].interests : g \in Handles /\ IsLive(slot, g)
    BY HandleNumbers DEF Before, Ownership, OpsAreOwned, Owned
  <2> QED BY <1>2, <1>5, <2>1, OwnedStay DEF SameControl, TerminalStates
<1>15. RetainersAreReady'
  BY <1>2, <1>5, RetainersStay DEF SameControl
<1> QED BY <1>8, <1>9, <1>10, <1>11, <1>12, <1>13, <1>14, <1>15 DEF Ownership

LEMMA CommitJoinedOwnership ==
    ASSUME Before, NEW c \in Clients, CommitJoined(c)
    PROVE  Ownership'
<1>0. PICK h, res : h = client[c].h /\ res = client[c].res
  OBVIOUS
<1>1. /\ slot \in [Slots -> SlotRecords] /\ client \in [Clients -> ClientRecords] /\ TypeOK
  BY DEF Before, TypeInv, TypeOK
<1>2. /\ client[c].pc = "commit" /\ slot' = Committed(slot, {h}, res)
      /\ UNCHANGED <<control, op, workQueue, worker, reported, completions, dispatch>>
  BY <1>0 DEF CommitJoined, workVars, pumpVars
<1>3. /\ h \in Handles /\ res # "Ready"
      /\ control[h].live => control[h].op \in Handles /\ op[control[h].op].state \in TerminalStates
  BY <1>0, <1>2, HandleNumbers DEF Before, Admitting, Ownership, JoinersCommit
<1>4. /\ \A d \in Clients \ {c} : client'[d] = client[d]
      /\ client'[c].pc = "complete" /\ client'[c].h = h
  BY <1>0, <1>1, MovesOn DEF CommitJoined
<1>5. \A g \in Handles : /\ slot'[g[1]].gen = slot[g[1]].gen
                         /\ IsLive(slot', g) <=> IsLive(slot, g)
                         /\ IsLive(slot, g) => slot'[g[1]].state =
                                IF g = h /\ slot[g[1]].state \notin TerminalStates THEN res
                                ELSE slot[g[1]].state
  BY <1>1, <1>2, <1>3, CommittedOneEffect
<1>6. \A s \in Slots : slot'[s].gen = slot[s].gen /\ slot[s].gen \in Nat
  BY <1>1, <1>2, <1>3, GenerationsStay, HandleAssumption DEF SlotRecords
<1>7. Told' = Told /\ Submitted' = Submitted
  BY <1>2, SameTold, SameSubmitted
<1>8. HandlesAreNew'
  BY <1>2, <1>4, <1>5, <1>7, NewStay, AdmittedIsNew
<1>9. HandlesAreCounted'
  BY <1>0, <1>4, <1>6, CountedStay
<1>10. AdmitsAreAlone'
  <2>1. \A d \in Clients : client'[d].pc = "admit" =>
            /\ client[d].pc = "admit" /\ client'[d].h = client[d].h
            /\ IsLive(slot', client[d].h) /\ slot'[client[d].h[1]].state = "Accepted"
    <3>1. \A d \in Clients : client[d].pc = "admit" =>
            /\ d # c /\ client[d].h \in Handles \ {h}
            /\ IsLive(slot, client[d].h) /\ slot[client[d].h[1]].state = "Accepted"
      BY <1>0, <1>2, AdmittedIsNew
    <3> QED BY <1>4, <1>5, <3>1
  <2> QED BY <1>0, <1>4, <2>1, AdmitsStay
<1>11. CreatorsWait'
  BY <1>0, <1>2, <1>4, <1>7, CreatorsStay DEF Creating, Before, Ownership, CreatorsWait
<1>12. JoinersCommit'
  BY <1>2, <1>4, JoinersStay
<1>13. LeaversHaveLeft'
  BY <1>2, <1>4, LeaversStay
<1>14. OpsAreOwned'
  <2>1. \A o \in Handles : \A g \in op[o].interests :
            g \in Handles /\ IsLive(slot, g) /\ control[g].live /\ control[g].op = o
    BY HandleNumbers DEF Before, Ownership, OpsAreOwned, Owned
  <2>2. \A o \in Handles : \A g \in op[o].interests :
            slot'[g[1]].state \in TerminalStates =>
                slot[g[1]].state \in TerminalStates \/ op[o].state # "Created"
    BY <1>3, <1>5, <2>1 DEF TerminalStates
  <2> QED BY <1>2, <1>5, <2>1, <2>2, OwnedStay DEF SameControl
<1>15. RetainersAreReady'
  BY <1>2, <1>3, <1>5, RetainersStay DEF SameControl
<1> QED BY <1>8, <1>9, <1>10, <1>11, <1>12, <1>13, <1>14, <1>15 DEF Ownership

\* A completion, by a client or by a worker.
LEMMA CompleteOwnership ==
    ASSUME Before, NEW h \in Handles, NEW res \in TerminalStates, CompleteRequest(h, res),
           UNCHANGED <<op, workQueue, reported, dispatch>>, \A g \in Submitted' : g \in Submitted,
           \A c \in Clients :
                client'[c] = client[c] \/ (client'[c].pc = "idle" /\ client'[c].h = NoHandle)
    PROVE  Ownership'
<1>1. TypeOK /\ slot \in [Slots -> SlotRecords]
  BY DEF Before, TypeInv, TypeOK
<1>2. /\ \A g \in Handles : /\ slot'[g[1]].gen = slot[g[1]].gen
                            /\ IsLive(slot', g) <=> IsLive(slot, g)
                            /\ slot'[g[1]].state = slot[g[1]].state
      /\ \A g \in Handles : SameControl(g)
      /\ \A g \in Told' : g \in Told \/ control[g].live
  BY <1>1, CompleteEffect
<1>3. \A s \in Slots : slot'[s].gen = slot[s].gen /\ slot[s].gen \in Nat
  <2>1. \A s \in Slots : slot'[s].gen = slot[s].gen
    BY <1>1, GenerationsStay DEF CompleteRequest
  <2> QED BY <1>1, <2>1, HandleAssumption DEF SlotRecords
<1>4. HandlesAreNew'
  BY <1>2, NewStay, AdmittedIsNew
<1>5. HandlesAreCounted'
  BY <1>3, CountedStay, HandlePairs
<1>6. AdmitsAreAlone'
  BY <1>2, AdmitsStay, AdmittedIsNew
<1>7. CreatorsWait'
  <2>1. \A c \in Clients : Creating(c) => client[c].h \in Handles
    BY HandleNumbers DEF Creating, Before, Admitting
  <2>2. \A c \in Clients : Creating(c)' => Creating(c) /\ client'[c] = client[c]
    BY DEF Creating
  <2> QED BY <1>2, <2>1, <2>2, CreatorsStay DEF SameControl, Before, Ownership, CreatorsWait
<1>8. JoinersCommit'
  <2>1. \A c \in Clients : client'[c].pc = "commit" =>
            client[c].pc = "commit" /\ client'[c] = client[c] /\ client[c].h \in Handles
    BY HandleNumbers DEF Before, Admitting
  <2> QED BY <1>2, <2>1, JoinersStay DEF SameControl
<1>9. LeaversHaveLeft'
  BY <1>2, LeaversStay DEF SameControl
<1>10. OpsAreOwned'
  <2>1. \A o \in Handles : \A g \in op[o].interests : g \in Handles /\ IsLive(slot, g)
    BY HandleNumbers DEF Before, Ownership, OpsAreOwned, Owned
  <2> QED BY <1>2, <2>1, OwnedStay
<1>11. RetainersAreReady'
  BY <1>2, RetainersStay
<1> QED BY <1>4, <1>5, <1>6, <1>7, <1>8, <1>9, <1>10, <1>11 DEF Ownership

\* The creator hands its operation to the workers, or takes it back.
LEMMA SubmitOwnership ==
    ASSUME Before, NEW c \in Clients, Submit(c)
    PROVE  Ownership'
<1>0. PICK h : h = client[c].h
  OBVIOUS
<1>1. client \in [Clients -> ClientRecords] /\ workQueue \in Seq(Handles)
      /\ slot \in [Slots -> SlotRecords]
  BY DEF Before, TypeInv, TypeOK
<1>2. /\ client[c].pc = "submit"
      /\ UNCHANGED <<slot, control, op, worker, reported, completions, dispatch>>
  BY DEF Submit, managerVars, pumpVars
<1>3. h \in Handles /\ Creating(c)
  BY <1>0, <1>2, HandleNumbers DEF Before, Admitting, Creating
<1>4. /\ \A d \in Clients \ {c} : client'[d] = client[d]
      /\ \/ client'[c].pc = "rollback" /\ client'[c].h = h /\ workQueue' = workQueue
         \/ /\ client'[c].pc = "idle" /\ client'[c].h = NoHandle
            /\ workQueue' = Append(workQueue, h)
  BY <1>0, <1>1, MovesOn DEF Submit, Return, IdleClient
<1>5. Told' = Told
  BY <1>2, SameTold
<1>6. \A g \in Submitted' : g \in Submitted \/ (g = h /\ client'[c].pc = "idle")
  <2>1. CASE workQueue' = workQueue
    BY <1>2, <2>1, SameSubmitted
  <2>2. CASE workQueue' = Append(workQueue, h) /\ client'[c].pc = "idle"
    <3>1. \A i \in 1..Len(workQueue') :
            workQueue'[i] = h \/ (i \in 1..Len(workQueue) /\ workQueue'[i] = workQueue[i])
      BY <1>1, <1>3, <2>2
    <3> QED BY <1>2, <2>2, <3>1 DEF Submitted
  <2> QED BY <1>4, <2>1, <2>2
<1>7. HandlesAreNew'
  BY <1>0, <1>2, <1>3, <1>4, <1>5, <1>6, NewStay, AdmittedIsNew
<1>8. HandlesAreCounted'
  <2>1. \A s \in Slots : slot[s].gen \in Nat
    BY <1>1, HandleAssumption DEF SlotRecords
  <2> QED BY <1>0, <1>2, <1>4, <2>1, CountedStay, HandlePairs
<1>9. AdmitsAreAlone'
  BY <1>0, <1>2, <1>4, AdmittedIsNew, AdmitsStay
<1>10. CreatorsWait'
  <2>1. ASSUME NEW d \in Clients, Creating(d)'
        PROVE  Creating(d) /\ client'[d].h = client[d].h /\ client[d].h \notin Submitted'
    <3>1. CASE d = c
      <4>1. client'[c].pc = "rollback" /\ client'[c].h = h
        BY <1>4, <2>1, <3>1 DEF Creating
      <4> QED BY <1>0, <1>3, <1>6, <3>1, <4>1 DEF Before, Ownership, CreatorsWait
    <3>2. CASE d # c
      <4>1. Creating(d) /\ client'[d] = client[d]
        BY <1>2, <1>4, <2>1, <3>2 DEF Creating
      <4>2. client[d].h # h /\ client[d].h \notin Submitted
        BY <1>0, <1>3, <3>2, <4>1 DEF Before, Ownership, CreatorsWait
      <4> QED BY <1>6, <4>1, <4>2
    <3> QED BY <3>1, <3>2
  <2> QED BY <1>2, <2>1, CreatorsStay
<1>11. JoinersCommit'
  BY <1>2, <1>4, JoinersStay
<1>12. LeaversHaveLeft'
  BY <1>2, <1>4, LeaversStay
<1>13. OpsAreOwned'
  BY <1>2, OwnedStay DEF SameControl, Before, Ownership, OpsAreOwned, Owned
<1>14. RetainersAreReady'
  BY <1>2, RetainersStay DEF SameControl
<1> QED BY <1>7, <1>8, <1>9, <1>10, <1>11, <1>12, <1>13, <1>14 DEF Ownership

\* h leaves the operation o, and nothing else changes of what operations are.
Detaches(o, h) ==
    \A p \in Handles : /\ op'[p].interests = IF p = o THEN op[p].interests \ {h}
                                              ELSE op[p].interests
                       /\ op'[p].key = op[p].key /\ op'[p].state = op[p].state

LEMMA DetachEffect ==
    ASSUME op \in [Handles -> Operations], NEW o \in Handles \cup {NoHandle}, NEW h,
           op' = DetachedOp(o, h)
    PROVE  Detaches(o, h)
<1>1. CASE o = NoHandle
  BY <1>1, HandlePairs DEF DetachedOp, Detaches
<1>2. CASE o \in Handles
  <2>1. o # NoHandle
    BY <1>2, HandlePairs
  <2>2. /\ op'[o].interests = op[o].interests \ {h}
        /\ op'[o].key = op[o].key /\ op'[o].state = op[o].state
    BY <1>2, <2>1 DEF DetachedOp
  <2>3. \A p \in Handles \ {o} : op'[p] = op[p]
    BY <1>2, <2>1 DEF DetachedOp
  <2> QED BY <2>2, <2>3 DEF Detaches
<1> QED BY <1>1, <1>2

\* A request gives up its interest and its control: ReleaseRequest, or Rollback.
LEMMA LeaveOwnership ==
    ASSUME Before, NEW c \in Clients, NEW h \in Handles, NEW o \in Handles \cup {NoHandle},
           op' = DetachedOp(o, h), control[h].live => control[h].op = o,
           control' = [control EXCEPT ![h] = NoControl],
           \A d \in Clients : client[d].pc = "admit" => client[d].h # h,
           client'[c].pc \in {"discard", "unslot"}, client'[c].h = h, IsLive(slot, h) \/ client[c].h = h,
           \A d \in Clients \ {c} : client'[d] = client[d],
           \A g \in Told' : g \in Told,
           UNCHANGED <<slot, workQueue, worker>>
    PROVE  Ownership'
<1>1. /\ op \in [Handles -> Operations] /\ control \in [Handles -> Controls]
      /\ slot \in [Slots -> SlotRecords]
  BY DEF Before, TypeInv, TypeOK
<1>2. \A p \in Handles : /\ op'[p].interests = IF p = o THEN op[p].interests \ {h}
                                               ELSE op[p].interests
                         /\ op'[p].key = op[p].key /\ op'[p].state = op[p].state
  <2>1. Detaches(o, h)
    BY <1>1, DetachEffect
  <2> QED BY <2>1 DEF Detaches
<1>3. ~control'[h].live /\ \A g \in Handles \ {h} : control'[g] = control[g]
  BY <1>1 DEF NoControl
<1>4. Submitted' = Submitted
  BY SameSubmitted
<1>5. \A g \in Handles : control'[g].live => SameControl(g) /\ control[g].live
  BY <1>3 DEF SameControl
<1>6. HandlesAreNew'
  <2>1. \A d \in Clients : client'[d].pc = "admit" =>
            client[d].pc = "admit" /\ client'[d].h = client[d].h /\ client[d].h \in Handles
    <3> SUFFICES ASSUME NEW d \in Clients, client'[d].pc = "admit"
                 PROVE  client[d].pc = "admit" /\ client'[d].h = client[d].h
                        /\ client[d].h \in Handles
      OBVIOUS
    <3>1. client'[d] = client[d]
      OBVIOUS
    <3> QED BY <3>1, AdmittedIsNew
  <2>2. \A p \in Handles : op'[p].state # "None" => op[p].state # "None"
    BY <1>2
  <2>3. \A g \in Told' : g \in Told
    OBVIOUS
  <2>4. UNCHANGED slot
    OBVIOUS
  <2> QED BY <1>4, <2>1, <2>2, <2>3, <2>4, NewStay
<1>7. HandlesAreCounted'
  <2>1. \A s \in Slots : slot[s].gen \in Nat
    BY <1>1, HandleAssumption DEF SlotRecords
  <2>2. IsLive(slot, h) => h[2] <= slot[h[1]].gen
    BY HandleNumbers DEF IsLive, Before
  <2>3. h[2] <= slot[h[1]].gen
    BY <2>2 DEF Before, Ownership, HandlesAreCounted
  <2> QED BY <2>1, <2>3, CountedStay
<1>8. AdmitsAreAlone'
  BY AdmittedIsNew, AdmitsStay
<1>9. CreatorsWait'
  <2>1. \A d \in Clients : Creating(d)' => d # c /\ client'[d] = client[d]
    BY DEF Creating
  <2>2. \A d \in Clients : Creating(d)' => client[d].h \in Handles
    BY <2>1, HandleNumbers DEF Creating, Before, Admitting
  <2>3. ASSUME NEW d \in Clients, Creating(d)' PROVE Creating(d)
    <3>1. client'[d] = client[d] /\ client[d].h \in Handles
      BY <2>1, <2>2, <2>3
    <3>2. op'[client[d].h].state = op[client[d].h].state
      BY <1>2, <3>1
    <3> QED BY <2>3, <3>1, <3>2 DEF Creating
  <2>4. ASSUME NEW d \in Clients, Creating(d)'
        PROVE  /\ Creating(d) /\ client'[d].h = client[d].h
               /\ op'[client[d].h].state = op[client[d].h].state
               /\ control'[client[d].h].live =>
                    control[client[d].h].live /\ control'[client[d].h].op = control[client[d].h].op
               /\ client[d].h \notin Submitted'
    <3>1. Creating(d) /\ client[d].h \in Handles /\ client'[d].h = client[d].h
      BY <2>1, <2>2, <2>3, <2>4
    <3>2. client[d].h \notin Submitted
      BY <3>1 DEF Before, Ownership, CreatorsWait
    <3> QED BY <1>2, <1>4, <1>5, <3>1, <3>2 DEF SameControl
  <2> QED BY <2>4, CreatorsStay
<1>10. JoinersCommit'
  <2>1. \A d \in Clients : client'[d].pc = "commit" =>
            client[d].pc = "commit" /\ client'[d] = client[d] /\ client[d].h \in Handles
    BY HandleNumbers DEF Before, Admitting
  <2> QED BY <1>2, <1>5, <2>1, JoinersStay DEF SameControl
<1>11. LeaversHaveLeft'
  <2>1. ASSUME NEW d \in Clients, client'[d].pc \in {"discard", "unslot"}
        PROVE  client'[d].h \in Handles /\ ~control'[client'[d].h].live
    <3>1. CASE d = c
      <4>1. client'[d].h = h
        BY <3>1
      <4> QED BY <1>3, <4>1
    <3>2. CASE d # c
      BY <1>5, <2>1, <3>2 DEF Before, Ownership, LeaversHaveLeft
    <3> QED BY <3>1, <3>2
  <2> QED BY <2>1 DEF LeaversHaveLeft
<1>12. OpsAreOwned'
  <2>1. ASSUME NEW p \in Handles, NEW g \in op'[p].interests
        PROVE  g \in op[p].interests /\ g \in Handles \ {h} /\ IsLive(slot, g)
    <3>1. g \in op[p].interests
      BY <1>2, <2>1
    <3>2. g \in Handles /\ Owned(p, g)
      BY <3>1, HandleNumbers DEF Before, Ownership, OpsAreOwned
    <3>3. ASSUME g = h PROVE FALSE
      <4>1. control[h].live /\ control[h].op = p
        BY <3>2, <3>3 DEF Owned
      <4>2. p = o
        BY <4>1
      <4>3. op'[p].interests = op[p].interests \ {h}
        BY <1>2, <4>2
      <4> QED BY <2>1, <3>3, <4>3
    <3> QED BY <3>1, <3>2, <3>3 DEF Owned
  <2> QED BY <1>2, <1>3, <2>1, OwnedStay DEF SameControl
<1>13. RetainersAreReady'
  BY <1>2, <1>5, RetainersStay
<1> QED BY <1>6, <1>7, <1>8, <1>9, <1>10, <1>11, <1>12, <1>13 DEF Ownership

\* The controls name operations.
LEMMA ControlsNameOps == ASSUME TypeOK, NEW h \in Handles PROVE control[h].op \in Handles \cup {NoHandle}
BY DEF TypeOK, Controls

LEMMA RollbackOwnership == ASSUME Before, NEW c \in Clients, Rollback(c) PROVE Ownership'
<1>0. PICK h : h = client[c].h
  OBVIOUS
<1>1. client \in [Clients -> ClientRecords]
  BY DEF Before, TypeInv, TypeOK
<1>2. /\ client[c].pc = "rollback" /\ op' = DetachedOp(h, h)
      /\ control' = [control EXCEPT ![h] = NoControl]
      /\ UNCHANGED <<slot, workQueue, worker, completions, dispatch, reported>>
  BY <1>0 DEF Rollback, workVars, pumpVars
<1>3. h \in Handles /\ Creating(c)
  BY <1>0, <1>2, HandleNumbers DEF Before, Admitting, Creating
<1>4. control[h].live => control[h].op = h
  BY <1>0, <1>3 DEF Before, Ownership, CreatorsWait
<1>5. /\ \A d \in Clients \ {c} : client'[d] = client[d]
      /\ client'[c].pc = "discard" /\ client'[c].h = h
  BY <1>0, <1>1, MovesOn DEF Rollback
<1>6. \A d \in Clients : client[d].pc = "admit" => client[d].h # h
  BY <1>0, <1>2, AdmittedIsNew
<1>7. Told' = Told
  BY <1>2, SameTold
<1> QED BY <1>0, <1>2, <1>3, <1>4, <1>5, <1>6, <1>7, LeaveOwnership

LEMMA ReleaseRequestOwnership ==
    ASSUME Before, NEW c \in Clients, NEW h \in Handles, ReleaseRequest(c, h)
    PROVE  Ownership'
<1>1. client \in [Clients -> ClientRecords] /\ completions \in Seq(CompletionRecords) /\ TypeOK
  BY DEF Before, TypeInv, TypeOK
<1>2. /\ op' = DetachedOp(control[h].op, h) /\ control' = [control EXCEPT ![h] = NoControl]
      /\ IsKnown(h) /\ WithdrawCompletion(h)
      /\ UNCHANGED <<slot, workQueue, worker, dispatch, reported>>
  BY DEF ReleaseRequest, workVars, pumpVars
<1>3. /\ \A d \in Clients \ {c} : client'[d] = client[d]
      /\ client'[c].pc = "unslot" /\ client'[c].h = h
  BY <1>1, MovesOn DEF ReleaseRequest, At
<1>4. IsLive(slot, h) /\ \A d \in Clients : client[d].pc = "admit" => client[d].h # h
  BY <1>2, KnownIsTold
<1>5. \A g \in Told' : g \in Told
  <2>1. CASE completions' = completions
    BY <1>2, <2>1, SameTold
  <2>2. ASSUME NEW i \in 1..Len(completions),
               completions' = SubSeq(completions, 1, i - 1)
                                \o SubSeq(completions, i + 1, Len(completions))
        PROVE  \A g \in Told' : g \in Told
    <3>1. Len(completions) \in Nat /\ i \in Nat
      BY <1>1
    <3> DEFINE front == SubSeq(completions, 1, i - 1)
               back == SubSeq(completions, i + 1, Len(completions))
    <3>2. /\ front \in Seq(CompletionRecords) /\ Len(front) = i - 1
          /\ \A j \in 1..(i - 1) : front[j] = completions[j]
          /\ back \in Seq(CompletionRecords) /\ Len(back) = Len(completions) - i
          /\ \A j \in 1..(Len(completions) - i) : back[j] = completions[i + j]
      BY <1>1, <3>1, SubSeqProperties
    <3>3. completions' = front \o back
      BY <2>2
    <3> HIDE DEF front, back
    <3>4. \A j \in 1..Len(completions') :
                \E n \in 1..Len(completions) : completions'[j] = completions[n]
      <4>1. /\ Len(completions') = Len(front) + Len(back)
            /\ \A j \in 1..(Len(front) + Len(back)) :
                    completions'[j] = IF j <= Len(front) THEN front[j] ELSE back[j - Len(front)]
        BY <3>2, <3>3, ConcatProperties
      <4>2. ASSUME NEW j \in 1..Len(completions')
            PROVE  \E n \in 1..Len(completions) : completions'[j] = completions[n]
        <5>1. CASE j <= Len(front)
          <6>1. j \in 1..(i - 1) /\ j \in 1..Len(completions)
            BY <3>1, <3>2, <4>1, <5>1
          <6> QED BY <3>1, <3>2, <4>1, <5>1, <6>1
        <5>2. CASE ~(j <= Len(front))
          <6>1. /\ j - Len(front) \in 1..(Len(completions) - i)
                /\ i + (j - Len(front)) \in 1..Len(completions)
            BY <3>1, <3>2, <4>1, <5>2
          <6>2. completions'[j] = completions[i + (j - Len(front))]
            BY <3>2, <4>1, <5>2, <6>1
          <6> QED BY <6>1, <6>2
        <5> QED BY <5>1, <5>2
      <4> QED BY <4>2
    <3> QED BY <1>2, <3>4 DEF Told
  <2> QED BY <1>2, <2>1, <2>2 DEF WithdrawCompletion
<1>6. PICK o \in Handles \cup {NoHandle} : o = control[h].op
  BY <1>1, ControlsNameOps
<1> QED BY <1>2, <1>3, <1>4, <1>5, <1>6, LeaveOwnership

LEMMA CancelOwnership ==
    ASSUME Before, NEW c \in Clients, NEW h \in Handles, Cancel(c, h)
    PROVE  Ownership'
<1>0. PICK o : o = control[h].op
  OBVIOUS
<1>1. /\ client \in [Clients -> ClientRecords] /\ slot \in [Slots -> SlotRecords] /\ TypeOK
      /\ op \in [Handles -> Operations] /\ o \in Handles \cup {NoHandle}
  BY <1>0, ControlsNameOps DEF Before, TypeInv, TypeOK
<1>2. /\ op' = DetachedOp(o, h) /\ slot' = Committed(slot, {h}, "Cancelled") /\ IsKnown(h)
      /\ UNCHANGED <<control, workQueue, worker, completions, dispatch, reported>>
      /\ client[c].pc = "idle"
  BY <1>0 DEF Cancel, workVars, pumpVars
<1>3. \A p \in Handles : /\ op'[p].interests = IF p = o THEN op[p].interests \ {h}
                                               ELSE op[p].interests
                         /\ op'[p].key = op[p].key /\ op'[p].state = op[p].state
  <2>1. Detaches(o, h)
    BY <1>1, <1>2, DetachEffect
  <2> QED BY <2>1 DEF Detaches
<1>4. \A g \in Handles : /\ slot'[g[1]].gen = slot[g[1]].gen
                         /\ IsLive(slot', g) <=> IsLive(slot, g)
                         /\ IsLive(slot, g) => slot'[g[1]].state =
                                IF g = h /\ slot[g[1]].state \notin TerminalStates
                                THEN "Cancelled" ELSE slot[g[1]].state
  BY <1>1, <1>2, CommittedOneEffect
<1>5. \A s \in Slots : slot'[s].gen = slot[s].gen /\ slot[s].gen \in Nat
  BY <1>1, <1>2, GenerationsStay, HandleAssumption DEF SlotRecords
<1>6. IsLive(slot, h) /\ \A d \in Clients : client[d].pc = "admit" => client[d].h # h
  BY <1>2, KnownIsTold
<1>7. /\ \A d \in Clients \ {c} : client'[d] = client[d]
      /\ client'[c] = client[c] \/ (client'[c].pc = "cancelled" /\ client'[c].h = h)
  BY <1>1, MovesOn DEF Cancel, At
<1>8. Told' = Told /\ Submitted' = Submitted
  BY <1>2, SameTold, SameSubmitted
<1>9. HandlesAreNew'
  <2>1. \A d \in Clients : client'[d].pc = "admit" =>
            client[d].pc = "admit" /\ client'[d].h = client[d].h /\ client[d].h \in Handles
    <3> SUFFICES ASSUME NEW d \in Clients, client'[d].pc = "admit"
                 PROVE  client[d].pc = "admit" /\ client'[d].h = client[d].h
                        /\ client[d].h \in Handles
      OBVIOUS
    <3>1. client'[d] = client[d]
      BY <1>7
    <3> QED BY <3>1, AdmittedIsNew
  <2>2. \A p \in Handles : op'[p].state # "None" => op[p].state # "None"
    BY <1>3
  <2>3. \A g \in Handles : slot'[g[1]].gen = slot[g[1]].gen
    BY <1>4
  <2> QED BY <1>8, <2>1, <2>2, <2>3, NewStay
<1>10. HandlesAreCounted'
  <2>1. h[2] <= slot'[h[1]].gen
    BY <1>4, <1>6, HandleNumbers DEF IsLive, Before
  <2> QED BY <1>5, <1>7, <2>1, CountedStay
<1>11. AdmitsAreAlone'
  <2>1. \A d \in Clients : client'[d].pc = "admit" =>
            /\ client[d].pc = "admit" /\ client'[d].h = client[d].h
            /\ IsLive(slot', client[d].h) /\ slot'[client[d].h[1]].state = "Accepted"
    <3>1. \A d \in Clients : client[d].pc = "admit" =>
            /\ client[d].h \in Handles \ {h}
            /\ IsLive(slot, client[d].h) /\ slot[client[d].h[1]].state = "Accepted"
      BY <1>6, AdmittedIsNew
    <3> QED BY <1>4, <1>7, <3>1
  <2> QED BY <1>6, <1>7, <2>1, AdmitsStay
<1>12. CreatorsWait'
  <2>1. \A d \in Clients : Creating(d)' => client'[d] = client[d] /\ client[d].h \in Handles
    BY <1>7, HandleNumbers DEF Creating, Before, Admitting
  <2>2. \A d \in Clients : Creating(d)' => Creating(d)
    BY <1>3, <2>1 DEF Creating
  <2> QED BY <1>2, <1>3, <1>8, <2>1, <2>2, CreatorsStay DEF Before, Ownership, CreatorsWait
<1>13. JoinersCommit'
  BY <1>2, <1>3, <1>7, JoinersStay
<1>14. LeaversHaveLeft'
  BY <1>2, <1>7, LeaversStay
<1>15. OpsAreOwned'
  <2>1. ASSUME NEW p \in Handles, NEW g \in op'[p].interests
        PROVE  g \in op[p].interests /\ g \in Handles \ {h} /\ IsLive(slot, g)
    <3>1. g \in op[p].interests
      BY <1>3, <2>1
    <3>2. g \in Handles /\ Owned(p, g)
      BY <3>1, HandleNumbers DEF Before, Ownership, OpsAreOwned
    <3>3. g # h
      BY <1>0, <1>3, <2>1, <3>2 DEF Owned
    <3> QED BY <3>1, <3>2, <3>3 DEF Owned
  <2>2. \A p \in Handles : op'[p].key = op[p].key /\ op'[p].state = op[p].state
    BY <1>3
  <2>3. \A g \in Handles : SameControl(g)
    BY <1>2 DEF SameControl
  <2>4. \A g \in Handles \ {h} : IsLive(slot, g) =>
            IsLive(slot', g) /\ slot'[g[1]].state = slot[g[1]].state
    BY <1>4
  <2> QED BY <2>1, <2>2, <2>3, <2>4, OwnedStay
<1>16. RetainersAreReady'
  BY <1>2, <1>3, <1>4, RetainersStay DEF SameControl
<1> QED BY <1>9, <1>10, <1>11, <1>12, <1>13, <1>14, <1>15, <1>16 DEF Ownership

\* Work begins on an operation: its waiting requests are Loading.
LEMMA BeginLoadOwnership == ASSUME Before, NEW w \in Workers, BeginLoad(w) PROVE Ownership'
<1>1. /\ slot \in [Slots -> SlotRecords] /\ worker \in [Workers -> WorkerRecords]
  BY DEF Before, TypeInv, TypeOK
<1>2. UNCHANGED <<control, op, workQueue, client, reported, completions, dispatch>>
  BY DEF BeginLoad, pumpVars
<1>3. \A s \in Slots : slot'[s] = slot[s]
                       \/ (slot[s].state = "Waiting" /\ slot'[s] = [slot[s] EXCEPT !.state = "Loading"])
  BY DEF BeginLoad
<1>4. ASSUME NEW s \in Slots
      PROVE  /\ slot'[s].gen = slot[s].gen /\ slot'[s].occupied = slot[s].occupied
             /\ slot'[s].state \in TerminalStates \cup {"Accepted"} =>
                    slot'[s].state = slot[s].state
             /\ slot[s].state = "Accepted" => slot'[s].state = "Accepted"
  <2>1. CASE slot'[s] = slot[s]
    BY <2>1
  <2>2. CASE slot[s].state = "Waiting" /\ slot'[s] = [slot[s] EXCEPT !.state = "Loading"]
    <3>1. slot'[s].gen = slot[s].gen /\ slot'[s].occupied = slot[s].occupied
          /\ slot'[s].state = "Loading"
      BY <1>1, <2>2 DEF SlotRecords
    <3> QED BY <2>2, <3>1 DEF TerminalStates
  <2> QED BY <1>3, <2>1, <2>2
<1>5. \A s \in Slots : slot[s].gen \in Nat
  BY <1>1, HandleAssumption DEF SlotRecords
<1>6. \A h \in Handles : h[1] \in Slots
  BY HandlePairs
<1>7. \A h \in Handles : /\ IsLive(slot', h) <=> IsLive(slot, h)
                         /\ slot'[h[1]].gen = slot[h[1]].gen
  BY <1>4, <1>6 DEF IsLive
<1>8. Told' = Told
  BY <1>2, SameTold
<1>9. Submitted' = Submitted
  <2>1. \A v \in Workers : worker'[v].op = worker[v].op
    BY <1>1 DEF BeginLoad, WorkerRecords
  <2> QED BY <1>2, <2>1 DEF Submitted
<1>10. HandlesAreNew'
  BY <1>2, <1>7, <1>8, <1>9, NewStay, AdmittedIsNew
<1>11. HandlesAreCounted'
  BY <1>2, <1>4, <1>5, CountedStay
<1>12. AdmitsAreAlone'
  <2>1. \A d \in Clients : client[d].pc = "admit" =>
            IsLive(slot', client[d].h) /\ slot'[client[d].h[1]].state = "Accepted"
    BY <1>4, <1>6, <1>7, AdmittedIsNew
  <2> QED BY <1>2, <2>1, AdmitsStay
<1>13. CreatorsWait'
  BY <1>2, <1>9, CreatorsStay DEF Creating, Before, Ownership, CreatorsWait
<1>14. JoinersCommit'
  BY <1>2, JoinersStay
<1>15. LeaversHaveLeft'
  BY <1>2, LeaversStay
<1>16. OpsAreOwned'
  <2>1. \A o \in Handles : \A g \in op[o].interests : g \in Handles /\ IsLive(slot, g)
    BY HandleNumbers DEF Before, Ownership, OpsAreOwned, Owned
  <2> QED BY <1>2, <1>4, <1>6, <1>7, <2>1, OwnedStay DEF SameControl
<1>17. RetainersAreReady'
  BY <1>2, <1>4, <1>6, <1>7, RetainersStay DEF SameControl, TerminalStates
<1> QED BY <1>10, <1>11, <1>12, <1>13, <1>14, <1>15, <1>16, <1>17 DEF Ownership

\* The load is over: its interests are terminal and retain the entry of a Ready one.
LEMMA CommitLoadOwnership == ASSUME Before, NEW w \in Workers, CommitLoad(w) PROVE Ownership'
<1>0. PICK o, state, H : o = worker[w].op /\ state = CommittedState(w) /\ H = op[o].interests
  OBVIOUS
<1>1. /\ slot \in [Slots -> SlotRecords] /\ worker \in [Workers -> WorkerRecords]
      /\ control \in [Handles -> Controls] /\ op \in [Handles -> Operations] /\ TypeOK
  BY DEF Before, TypeInv, TypeOK
<1>2. /\ worker[w].pc = "loaded" /\ op[o].state = "Created"
      /\ op' = [op EXCEPT ![o].state = state] /\ slot' = Committed(slot, H, state)
      /\ control' = IF state = "Ready"
                    THEN [h \in Handles |-> IF h \in H /\ control[h].live
                                            THEN [control[h] EXCEPT !.cache = TRUE] ELSE control[h]]
                    ELSE control
      /\ \E h : h \in {o, NoHandle} /\ \E pc, res, pending :
                worker' = [worker EXCEPT ![w] = Busy(pc, h, res, pending)]
      /\ UNCHANGED <<workQueue, client, reported, completions, dispatch>>
  <2>1. \E h : h \in {o, NoHandle} /\ \E pc, res, pending :
                worker' = [worker EXCEPT ![w] = Busy(pc, h, res, pending)]
    BY <1>0 DEF CommitLoad, IdleWorker
  <2>2. control' = IF state = "Ready"
                   THEN [h \in Handles |-> IF h \in H /\ control[h].live
                                           THEN [control[h] EXCEPT !.cache = TRUE] ELSE control[h]]
                   ELSE control
    BY <1>0 DEF CommitLoad
  <2> QED BY <1>0, <2>1, <2>2 DEF CommitLoad, pumpVars
<1>3. o \in Handles /\ o \in Submitted /\ H \in SUBSET Handles /\ state \in TerminalStates
  <2>1. o \in Handles
    BY <1>0, <1>2 DEF Before, TypeInv, WorkerHandles
  <2>2. H \in SUBSET Handles
    BY <1>0, <2>1, HandleNumbers DEF Before
  <2>3. state \in TerminalStates
    BY <1>0, <1>1 DEF CommittedState, WorkerRecords, TerminalStates
  <2> QED BY <1>0, <2>1, <2>2, <2>3 DEF Submitted
<1>4. \A g \in H : /\ control[g].live /\ control[g].op = o /\ control[g].key = op[o].key
                   /\ IsLive(slot, g) /\ slot[g[1]].state \notin TerminalStates
  BY <1>0, <1>2, <1>3 DEF Before, Ownership, OpsAreOwned, Owned
<1>5. \A p \in Handles : /\ op'[p].interests = op[p].interests /\ op'[p].key = op[p].key
                         /\ op'[p].state = IF p = o THEN state ELSE op[p].state
  <2>1. ASSUME NEW p \in Handles
        PROVE  /\ op'[p].interests = op[p].interests /\ op'[p].key = op[p].key
               /\ op'[p].state = IF p = o THEN state ELSE op[p].state
    <3>1. op[p] \in Operations /\ op'[p] = IF p = o THEN [op[p] EXCEPT !.state = state] ELSE op[p]
      BY <1>1, <1>2, <1>3
    <3> QED BY <3>1 DEF Operations
  <2> QED BY <2>1
<1>6. \A g \in Handles : /\ control'[g].live = control[g].live /\ control'[g].op = control[g].op
                         /\ control'[g].key = control[g].key
                         /\ g \in H /\ state = "Ready" => control'[g].cache
                         /\ g \notin H => control'[g].cache = control[g].cache
  <2>1. ASSUME NEW g \in Handles
        PROVE  /\ control'[g].live = control[g].live /\ control'[g].op = control[g].op
               /\ control'[g].key = control[g].key
               /\ g \in H /\ state = "Ready" => control'[g].cache
               /\ g \notin H => control'[g].cache = control[g].cache
    <3>1. /\ control[g] \in Controls
          /\ control'[g] = IF state = "Ready" /\ g \in H
                           THEN [control[g] EXCEPT !.cache = TRUE] ELSE control[g]
      BY <1>1, <1>2, <1>4
    <3> QED BY <3>1 DEF Controls
  <2> QED BY <2>1
<1>7. \A g \in Handles : /\ slot'[g[1]].gen = slot[g[1]].gen
                         /\ IsLive(slot', g) <=> IsLive(slot, g)
                         /\ IsLive(slot, g) => slot'[g[1]].state =
                                IF g \in H THEN state ELSE slot[g[1]].state
  <2>1. \A g \in Handles : /\ slot'[g[1]].gen = slot[g[1]].gen
                           /\ IsLive(slot', g) <=> IsLive(slot, g)
                           /\ IsLive(slot, g) => slot'[g[1]].state =
                                IF g \in H /\ slot[g[1]].state \notin TerminalStates
                                THEN state ELSE slot[g[1]].state
    BY <1>1, <1>2, <1>3, CommittedEffect
  <2> QED BY <1>4, <2>1
<1>8. \A s \in Slots : slot'[s].gen = slot[s].gen /\ slot[s].gen \in Nat
  <2>1. \A s \in Slots : slot'[s].gen = slot[s].gen
    BY <1>1, <1>2, <1>3, GenerationsStay
  <2> QED BY <1>1, <2>1, HandleAssumption DEF SlotRecords
<1>9. Told' = Told
  BY <1>2, SameTold
<1>10. \A g \in Submitted' : g \in Submitted
  <2>1. \A v \in Workers : worker'[v].op \in {worker[v].op, NoHandle}
    BY <1>0, <1>1, <1>2 DEF Busy
  <2> QED BY <1>2, <2>1, HandlePairs DEF Submitted
<1>11. \A p \in Handles : op[p].state \in TerminalStates => op'[p].state = op[p].state
  BY <1>2, <1>5 DEF TerminalStates
<1>12. HandlesAreNew'
  BY <1>2, <1>5, <1>7, <1>9, <1>10, NewStay, AdmittedIsNew
<1>13. HandlesAreCounted'
  BY <1>2, <1>8, CountedStay
<1>14. AdmitsAreAlone'
  <2>1. \A d \in Clients : client[d].pc = "admit" =>
            IsLive(slot', client[d].h) /\ slot'[client[d].h[1]].state = "Accepted"
    BY <1>0, <1>3, <1>7, AdmittedIsNew
  <2> QED BY <1>2, <2>1, AdmitsStay
<1>15. CreatorsWait'
  <2>1. \A d \in Clients : Creating(d)' => Creating(d) /\ client[d].h \in Handles
    <3>1. \A d \in Clients : Creating(d)' => client[d].h \in Handles
      BY <1>2, HandleNumbers DEF Creating, Before, Admitting
    <3> QED BY <1>2, <1>5, <3>1 DEF Creating
  <2>2. \A d \in Clients : Creating(d) => client[d].h \notin Submitted
    BY DEF Before, Ownership, CreatorsWait
  <2> QED BY <1>2, <1>3, <1>5, <1>6, <1>10, <2>1, <2>2, CreatorsStay
<1>16. JoinersCommit'
  <2>1. \A d \in Clients : client[d].pc = "commit" => client[d].h \in Handles
    BY HandleNumbers DEF Before, Admitting
  <2> QED BY <1>2, <1>6, <1>11, <2>1, JoinersStay
<1>17. LeaversHaveLeft'
  BY <1>2, <1>6 DEF Before, Ownership, LeaversHaveLeft
<1>18. OpsAreOwned'
  <2>1. ASSUME NEW p \in Handles, NEW g \in op[p].interests PROVE Owned(p, g)'
    <3>1. g \in Handles /\ Owned(p, g)
      BY <2>1, HandleNumbers DEF Before, Ownership, OpsAreOwned
    <3>2. CASE p = o
      BY <1>0, <1>3, <1>4, <1>5, <1>6, <1>7, <2>1, <3>1, <3>2 DEF Owned, TerminalStates
    <3>3. CASE p # o
      <4>1. g \notin H
        BY <1>4, <3>1, <3>3 DEF Owned
      <4> QED BY <1>5, <1>6, <1>7, <3>1, <3>3, <4>1 DEF Owned
    <3> QED BY <3>2, <3>3
  <2> QED BY <1>5, <2>1 DEF OpsAreOwned
<1>19. RetainersAreReady'
  <2>1. ASSUME NEW g \in Handles, control'[g].live
        PROVE  /\ control'[g].cache /\ control'[g].op \in Handles =>
                    op'[control'[g].op].state \in TerminalStates
               /\ IsLive(slot', g) /\ slot'[g[1]].state = "Ready" => control'[g].cache
    <3>1. CASE g \in H
      BY <1>3, <1>4, <1>5, <1>6, <1>7, <3>1
    <3>2. CASE g \notin H
      BY <1>6, <1>7, <1>11, <2>1, <3>2 DEF Before, Ownership, RetainersAreReady
    <3> QED BY <3>1, <3>2
  <2> QED BY <2>1 DEF RetainersAreReady
<1> QED BY <1>12, <1>13, <1>14, <1>15, <1>16, <1>17, <1>18, <1>19 DEF Ownership

LEMMA BeginShutdownOwnership == ASSUME Before, BeginShutdown PROVE Ownership'
<1>1. /\ UNCHANGED <<slot, control, workQueue, worker, client, reported, completions, dispatch>>
      /\ op \in [Handles -> Operations] /\ slot \in [Slots -> SlotRecords]
  BY DEF BeginShutdown, workVars, pumpVars, Before, TypeInv, TypeOK
<1>2. ASSUME NEW p \in Handles
      PROVE  /\ op'[p].interests = op[p].interests /\ op'[p].key = op[p].key
             /\ op'[p].state = op[p].state
  <2>1. op'[p] = op[p] \/ op'[p] = [op[p] EXCEPT !.cancel = TRUE]
    BY DEF BeginShutdown
  <2> QED BY <1>1, <2>1 DEF Operations
<1>3. Told' = Told /\ Submitted' = Submitted
  BY <1>1, SameTold, SameSubmitted
<1>4. HandlesAreNew'
  BY <1>1, <1>2, <1>3, NewStay, AdmittedIsNew
<1>5. HandlesAreCounted'
  BY <1>1 DEF Before, Ownership, HandlesAreCounted
<1>6. AdmitsAreAlone'
  BY <1>1 DEF Before, Ownership, AdmitsAreAlone
<1>7. CreatorsWait'
  <2>1. \A d \in Clients : Creating(d)' => client[d].h \in Handles
    BY <1>1, HandleNumbers DEF Creating, Before, Admitting
  <2>2. \A d \in Clients : Creating(d)' => Creating(d)
    BY <1>1, <1>2, <2>1 DEF Creating
  <2> QED BY <1>1, <1>2, <1>3, <2>1, <2>2, CreatorsStay DEF Before, Ownership, CreatorsWait
<1>8. JoinersCommit'
  BY <1>1, <1>2, JoinersStay
<1>9. LeaversHaveLeft'
  BY <1>1 DEF Before, Ownership, LeaversHaveLeft
<1>10. OpsAreOwned'
  BY <1>1, <1>2, OwnedStay DEF SameControl, Before, Ownership, OpsAreOwned, Owned
<1>11. RetainersAreReady'
  BY <1>1, <1>2, RetainersStay DEF SameControl
<1> QED BY <1>4, <1>5, <1>6, <1>7, <1>8, <1>9, <1>10, <1>11 DEF Ownership

LEMMA NotifyOwnership == ASSUME Before, NEW w \in Workers, Notify(w) PROVE Ownership'
<1>1. worker \in [Workers -> WorkerRecords]
  BY DEF Before, TypeInv, TypeOK
<1>2. PICK h \in worker[w].pending :
        /\ CompleteRequest(h, worker[w].res)
        /\ worker' = [worker EXCEPT ![w] =
                IF @.pending = {h} THEN IdleWorker
                ELSE Busy("notify", @.op, @.res, @.pending \ {h})]
  BY DEF Notify
<1>3. h \in Handles /\ worker[w].res \in TerminalStates
  BY <1>1, <1>2 DEF WorkerRecords
<1>4. UNCHANGED <<op, workQueue, reported, dispatch, client>>
  BY DEF Notify, pumpVars
<1>5. \A g \in Submitted' : g \in Submitted
  <2>1. \A v \in Workers : worker'[v].op \in {worker[v].op, NoHandle}
    BY <1>1, <1>2 DEF Busy, IdleWorker
  <2> QED BY <1>4, <2>1, HandlePairs DEF Submitted
<1>6. \A c \in Clients : client'[c] = client[c]
  BY <1>4
<1>7. PICK res \in TerminalStates : res = worker[w].res
  BY <1>3
<1>8. CompleteRequest(h, res)
  BY <1>2, <1>7
<1> QED BY <1>3, <1>4, <1>5, <1>6, <1>8, CompleteOwnership

LEMMA ClientCompleteOwnership == ASSUME Before, NEW c \in Clients, Complete(c) PROVE Ownership'
<1>1. client \in [Clients -> ClientRecords]
  BY DEF Before, TypeInv, TypeOK
<1>2. client[c].h \in Handles /\ client[c].res \in TerminalStates
  BY <1>1, HandleNumbers DEF Complete, Before, Admitting, ClientRecords
<1>3. PICK h \in Handles, res \in TerminalStates : h = client[c].h /\ res = client[c].res
  BY <1>2
<1>4. CompleteRequest(h, res) /\ UNCHANGED <<op, workQueue, worker, reported, dispatch>>
  BY <1>3 DEF Complete, workVars, pumpVars
<1>5. \A d \in Clients :
        client'[d] = client[d] \/ (client'[d].pc = "idle" /\ client'[d].h = NoHandle)
  BY <1>1 DEF Complete, Return, IdleClient
<1> QED BY <1>4, <1>5, SameSubmitted, CompleteOwnership

LEMMA UnslotOwnership ==
    ASSUME Before, NEW c \in Clients, Unslot(c) \/ AdmitRejected(c)
    PROVE  Ownership'
<1>1. /\ client[c].pc \in {"admit", "discard", "unslot"} /\ slot' = Released(slot, client[c].h)
      /\ Return(c) /\ UNCHANGED <<control, op, workQueue, worker, reported, completions, dispatch>>
  BY DEF Unslot, AdmitRejected, workVars, pumpVars
<1> QED BY <1>1, ReleaseOwnership

LEMMA AllocationOwnership == ASSUME Before, NEW c \in Clients, Allocate(c) PROVE Ownership'
<1>1. CASE UNCHANGED slot
  BY <1>1, StartOwnership
<1>2. CASE \E s \in Slots :
            /\ IsFirstFree(slot, s) /\ slot' = [slot EXCEPT ![s] = Allocated(slot[s].gen + 1)]
            /\ client' = [client EXCEPT ![c] =
                    At("admit", <<s, slot[s].gen + 1>>, client[c].key, client[c].cb, "Cancelled")]
  <2>1. /\ client[c].pc = "allocate"
        /\ UNCHANGED <<control, op, workQueue, worker, reported, completions, dispatch>>
    BY DEF Allocate, workVars, pumpVars
  <2> QED BY <1>2, <2>1, AllocateOwnership
<1> QED BY <1>1, <1>2 DEF Allocate

LEMMA OwnershipInit == Init => Ownership
<1> SUFFICES ASSUME Init PROVE Ownership
  OBVIOUS
<1>1. \A h \in Handles : Unheard(h) /\ op[h].interests = {} /\ ~control[h].live
  <2>1. \A h \in Handles : h \notin Told
    BY DEF Init, Told
  <2>2. \A h \in Handles : h \notin Submitted
    BY HandlePairs DEF Init, Submitted, IdleWorker, Busy
  <2> QED BY <2>1, <2>2 DEF Init, Unheard, NoOperation, NoControl
<1>2. \A c \in Clients : client[c].pc = "idle" /\ client[c].h = NoHandle
  BY DEF Init, IdleClient
<1> QED BY <1>1, <1>2, HandlePairs DEF Ownership, HandlesAreNew, HandlesAreCounted, AdmitsAreAlone,
           CreatorsWait, Creating, JoinersCommit, LeaversHaveLeft, OpsAreOwned, RetainersAreReady

\* Once Shutdown has cleared the controls it never uncovers them again.
OwnedUntilCleared == ~Cleared => Ownership

LEMMA OwnershipPreserved ==
    TypeInv /\ ControlsAreGiven /\ OwnedUntilCleared /\ [Next]_vars => OwnedUntilCleared'
<1> SUFFICES ASSUME TypeInv, ControlsAreGiven, OwnedUntilCleared, [Next]_vars, ~Cleared'
             PROVE  Ownership'
  BY DEF OwnedUntilCleared
<1>1. CASE Cleared
  <2>1. shutdown' # shutdown
    BY <1>1 DEF Cleared
  <2>2. Shutdown
    BY <2>1, OnlyShutdownShuts
  <2> QED BY <1>1, <2>2 DEF Shutdown, BeginShutdown, RequestStop, Join, ClearControls,
          DropOwnership, Cleared
<1>2. CASE ~Cleared
  <2>1. Before
    BY <1>2 DEF Before, OwnedUntilCleared
  <2>2. ASSUME NEW c \in Clients, Call(c) PROVE Ownership'
    <3>1. CASE \E h \in Handles : Cancel(c, h)
      BY <2>1, <3>1, CancelOwnership
    <3>2. CASE \E h \in Handles : ReleaseRequest(c, h)
      BY <2>1, <3>2, ReleaseRequestOwnership
    <3>3. CASE (\E k \in Keys, cb \in BOOLEAN : StartRequest(c, k, cb))
               \/ \E h \in Handles : FindResult(c, h)
      BY <2>1, <3>3, StartOwnership
    <3> QED BY <2>2, <3>1, <3>2, <3>3 DEF Call
  <2>3. ASSUME NEW c \in Clients, Request(c) PROVE Ownership'
    <3>1. CASE Reserve(c) \/ Unreserve(c) \/ AcquireExternal(c)
      BY <2>1, <3>1, StartOwnership
    <3>2. CASE Allocate(c)
      BY <2>1, <3>2, AllocationOwnership
    <3>3. CASE AdmitRejected(c) \/ Unslot(c)
      BY <2>1, <3>3, UnslotOwnership
    <3>4. CASE AdmitHit(c) \/ AdmitCreate(c) \/ AdmitJoin(c)
      BY <2>1, <3>4, HitOwnership, CreateOwnership, JoinOwnership
    <3>5. CASE Wait(c) \/ CommitJoined(c) \/ Complete(c)
      BY <2>1, <3>5, WaitOwnership, CommitJoinedOwnership, ClientCompleteOwnership
    <3>6. CASE Submit(c) \/ Rollback(c)
      BY <2>1, <3>6, SubmitOwnership, RollbackOwnership
    <3> QED BY <2>3, <3>1, <3>2, <3>3, <3>4, <3>5, <3>6 DEF Request
  <2>4. ASSUME NEW w \in Workers, Work(w) PROVE Ownership'
    <3>1. CASE Take(w) \/ Exit(w) \/ FinishLoad(w)
      BY <2>1, <3>1, TakeOwnership
    <3>2. CASE BeginLoad(w) \/ CommitLoad(w) \/ Notify(w)
      BY <2>1, <3>2, BeginLoadOwnership, CommitLoadOwnership, NotifyOwnership
    <3> QED BY <2>4, <3>1, <3>2 DEF Work
  <2>5. CASE Shutdown
    <3>1. BeginShutdown \/ RequestStop \/ Join
      BY <2>5 DEF Shutdown, ClearControls, DropOwnership, Cleared
    <3> QED BY <2>1, <3>1, BeginShutdownOwnership, OtherOwnership
  <2>6. CASE (\E k \in Keys : DropHandle(k)) \/ UNCHANGED vars
    BY <2>1, <2>6, OtherOwnership
  <2>7. CASE Pump
    BY <2>1, <2>7, PumpOwnership
  <2> QED BY <2>2, <2>3, <2>4, <2>5, <2>6, <2>7 DEF Next, Quiescent
<1> QED BY <1>1, <1>2

\* Every interest of an operation belongs to a request that waits on it under the same key,
\* and that is not terminal as long as the operation runs.
THEOREM InterestsStayOwned == Spec => []InterestsAreOwned
<1>1. Init => TypeInv /\ ControlsAreGiven /\ OwnedUntilCleared
  BY InitTypes, ControlsAreGivenInit, OwnershipInit DEF OwnedUntilCleared
<1>2. TypeInv /\ ControlsAreGiven /\ OwnedUntilCleared /\ [Next]_vars
        => (TypeInv /\ ControlsAreGiven /\ OwnedUntilCleared)'
  BY TypesPreserved, ControlsAreGivenPreserved, OwnershipPreserved
<1>3. OwnedUntilCleared => InterestsAreOwned
  BY DEF OwnedUntilCleared, Ownership, OpsAreOwned, Owned, InterestsAreOwned
<1> QED BY <1>1, <1>2, <1>3, PTL DEF Spec

-----------------------------------------------------------------------------
(* What retains a cache entry.                                             *)

Retained(k) == {h \in Handles : control[h].cache /\ control[h].key = k}

RequestsRetain == \A k \in Keys : cacheReq[k] = Cardinality(Retained(k))

HoldersRetain == \A k \in Keys : cacheExt[k] = held[k]

LEMMA RetainedIsFinite == ASSUME NEW k PROVE IsFiniteSet(Retained(k)) /\ Cardinality(Retained(k)) \in Nat
BY HandlesFinite, FS_Subset, FS_CardinalityType DEF Retained

\* A step that makes and drops no retention.
LEMMA QuietRetention ==
    ASSUME RequestsRetain, UNCHANGED cacheReq,
           \A h \in Handles : /\ control'[h].cache = control[h].cache
                              /\ control[h].cache => control'[h].key = control[h].key
    PROVE  RequestsRetain'
<1>1. \A k \in Keys : Retained(k)' = Retained(k)
  BY DEF Retained
<1> QED BY <1>1 DEF RequestsRetain

\* A cache hit retains the entry once more.
LEMMA HitRetention == ASSUME Before, RequestsRetain, NEW c \in Clients, AdmitHit(c) PROVE RequestsRetain'
<1>0. PICK h, k : h = client[c].h /\ k = client[c].key
  OBVIOUS
<1>1. /\ control \in [Handles -> Controls] /\ cacheReq \in [Keys -> Nat]
  BY DEF Before, TypeInv, TypeOK
<1>2. /\ h \in Handles /\ control[h] = NoControl /\ cacheReq' = [cacheReq EXCEPT ![k] = @ + 1]
      /\ control' = [control EXCEPT ![h] = NewControl(k, NoHandle, TRUE, client[c].cb)]
  BY <1>0, AdmittedIsNew DEF AdmitHit, Before, ControlsAreGiven
<1>3. /\ control'[h].cache /\ control'[h].key = k /\ ~control[h].cache
      /\ \A g \in Handles \ {h} : control'[g] = control[g]
  BY <1>1, <1>2 DEF NewControl, NoControl
<1>4. ASSUME NEW j \in Keys PROVE cacheReq'[j] = Cardinality(Retained(j)')
  <2>1. cacheReq[j] = Cardinality(Retained(j)) /\ IsFiniteSet(Retained(j))
    BY RetainedIsFinite DEF RequestsRetain
  <2>2. CASE j = k
    <3>1. Retained(j)' = Retained(j) \cup {h} /\ h \notin Retained(j)
      BY <1>2, <1>3, <2>2 DEF Retained
    <3>2. Cardinality(Retained(j) \cup {h}) = Cardinality(Retained(j)) + 1
      BY <2>1, <3>1, FS_AddElement
    <3> QED BY <1>1, <1>2, <2>1, <2>2, <3>1, <3>2
  <2>3. CASE j # k
    <3>1. Retained(j)' = Retained(j)
      BY <1>3, <2>3 DEF Retained
    <3> QED BY <1>1, <1>2, <2>1, <2>3, <3>1
  <2> QED BY <2>2, <2>3
<1> QED BY <1>4 DEF RequestsRetain

\* A Ready load is retained once for each of its interests.
LEMMA CommitRetention ==
    ASSUME Before, RequestsRetain, NEW w \in Workers, CommitLoad(w) PROVE RequestsRetain'
<1>0. PICK o, k, H : o = worker[w].op /\ k = op[o].key /\ H = op[o].interests
  OBVIOUS
<1>1. /\ control \in [Handles -> Controls] /\ cacheReq \in [Keys -> Nat] /\ op[o].state = "Created"
      /\ o \in Handles /\ H \in SUBSET Handles
  BY <1>0, HandleNumbers DEF Before, TypeInv, TypeOK, WorkerHandles, CommitLoad
<1>2. \A g \in H : control[g].live /\ control[g].key = k /\ ~control[g].cache
  BY <1>0, <1>1 DEF Before, Ownership, OpsAreOwned, Owned
<1>3. CASE CommittedState(w) # "Ready"
  <2>1. UNCHANGED <<cacheReq, control>>
    BY <1>3 DEF CommitLoad
  <2> QED BY <2>1, QuietRetention
<1>4. CASE CommittedState(w) = "Ready"
  <2>1. /\ cacheReq' = [cacheReq EXCEPT ![k] = @ + Cardinality(H)]
        /\ control' = [h \in Handles |-> IF h \in H /\ control[h].live
                                         THEN [control[h] EXCEPT !.cache = TRUE] ELSE control[h]]
    BY <1>0, <1>4 DEF CommitLoad
  <2>2. ASSUME NEW h \in Handles
        PROVE  /\ control'[h].key = control[h].key
               /\ control'[h].cache = (h \in H \/ control[h].cache)
    <3>1. /\ control[h] \in Controls
          /\ control'[h] = IF h \in H THEN [control[h] EXCEPT !.cache = TRUE] ELSE control[h]
      BY <1>1, <1>2, <2>1
    <3>2. control[h].cache \in BOOLEAN
      BY <3>1 DEF Controls
    <3>3. CASE h \in H
      <4>1. control'[h].key = control[h].key /\ control'[h].cache = TRUE
        BY <3>1, <3>3 DEF Controls
      <4> QED BY <3>3, <4>1
    <3>4. CASE h \notin H
      BY <3>1, <3>2, <3>4
    <3> QED BY <3>3, <3>4
  <2>3. IsFiniteSet(H) /\ Cardinality(H) \in Nat
    BY <1>1, HandlesFinite, FS_Subset, FS_CardinalityType
  <2>4. ASSUME NEW j \in Keys PROVE cacheReq'[j] = Cardinality(Retained(j)')
    <3>1. /\ cacheReq[j] = Cardinality(Retained(j)) /\ IsFiniteSet(Retained(j))
          /\ Cardinality(Retained(j)) \in Nat
      BY RetainedIsFinite DEF RequestsRetain
    <3>2. CASE j = k
      <4>1. Retained(j)' = Retained(j) \cup H /\ Retained(j) \cap H = {}
        BY <1>1, <1>2, <2>2, <3>2 DEF Retained
      <4>2. Cardinality(Retained(j) \cup H) = Cardinality(Retained(j)) + Cardinality(H) - 0
        BY <2>3, <3>1, <4>1, FS_Union, FS_EmptySet
      <4> QED BY <1>1, <2>1, <2>3, <3>1, <3>2, <4>1, <4>2
    <3>3. CASE j # k
      <4>1. Retained(j)' = Retained(j)
        BY <1>2, <2>2, <3>3 DEF Retained
      <4> QED BY <1>1, <2>1, <3>1, <3>3, <4>1
    <3> QED BY <3>2, <3>3
  <2> QED BY <2>4 DEF RequestsRetain
<1> QED BY <1>3, <1>4

\* A released request gives its retention back, and only if it has one.
LEMMA ReleaseRetention ==
    ASSUME Before, RequestsRetain, NEW c \in Clients, NEW h \in Handles, ReleaseRequest(c, h)
    PROVE  RequestsRetain'
<1>0. PICK k : k = control[h].key
  OBVIOUS
<1>1. /\ control \in [Handles -> Controls] /\ cacheReq \in [Keys -> Nat]
  BY DEF Before, TypeInv, TypeOK
<1>2. /\ cacheReq' = IF control[h].cache /\ cacheReq[k] > 0
                     THEN [cacheReq EXCEPT ![k] = @ - 1] ELSE cacheReq
      /\ control' = [control EXCEPT ![h] = NoControl]
  BY <1>0 DEF ReleaseRequest
<1>3. ~control'[h].cache /\ \A g \in Handles \ {h} : control'[g] = control[g]
  BY <1>1, <1>2 DEF NoControl
<1>4. CASE ~control[h].cache
  <2>1. control[h].cache \in BOOLEAN /\ control'[h].cache = FALSE
    BY <1>1, <1>2 DEF Controls, NoControl
  <2>2. control[h].cache = FALSE
    BY <1>4, <2>1
  <2>3. \A g \in Handles : /\ control'[g].cache = control[g].cache
                           /\ control[g].cache => control'[g].key = control[g].key
    BY <1>3, <2>1, <2>2
  <2>4. cacheReq' = cacheReq
    BY <1>2, <1>4
  <2> QED BY <2>3, <2>4, QuietRetention
<1>5. CASE control[h].cache
  <2>1. ASSUME NEW j \in Keys PROVE cacheReq'[j] = Cardinality(Retained(j)')
    <3>1. /\ cacheReq[j] = Cardinality(Retained(j)) /\ IsFiniteSet(Retained(j))
          /\ Cardinality(Retained(j)) \in Nat
      BY RetainedIsFinite DEF RequestsRetain
    <3>2. CASE j = k
      <4>1. Retained(j)' = Retained(j) \ {h} /\ h \in Retained(j)
        BY <1>0, <1>3, <1>5, <3>2 DEF Retained
      <4>2. Cardinality(Retained(j) \ {h}) = Cardinality(Retained(j)) - 1
        BY <3>1, <4>1, FS_RemoveElement
      <4>3. Cardinality(Retained(j)) # 0
        BY <3>1, <4>1, FS_EmptySet
      <4> QED BY <1>1, <1>2, <1>5, <3>1, <3>2, <4>1, <4>2, <4>3
    <3>3. CASE j # k
      <4>1. Retained(j)' = Retained(j)
        BY <1>0, <1>3, <3>3 DEF Retained
      <4>2. cacheReq'[j] = cacheReq[j]
        BY <1>1, <1>2, <3>3
      <4> QED BY <3>1, <4>1, <4>2
    <3> QED BY <3>2, <3>3
  <2> QED BY <2>1 DEF RequestsRetain
<1> QED BY <1>4, <1>5

\* Requests that are admitted to an operation, or taken back, retain nothing.
LEMMA AdmissionRetention ==
    ASSUME Before, RequestsRetain, NEW c \in Clients, AdmitCreate(c) \/ AdmitJoin(c) \/ Rollback(c)
    PROVE  RequestsRetain'
<1>0. PICK h : h = client[c].h
  OBVIOUS
<1>1. control \in [Handles -> Controls] /\ UNCHANGED cacheReq
  BY DEF Before, TypeInv, TypeOK, AdmitCreate, AdmitJoin, Rollback, cacheVars
<1>2. h \in Handles /\ ~control[h].cache
  <2>1. CASE AdmitCreate(c) \/ AdmitJoin(c)
    <3>1. client[c].pc = "admit"
      BY <2>1 DEF AdmitCreate, AdmitJoin
    <3>2. h \in Handles /\ control[h] = NoControl
      BY <1>0, <3>1, AdmittedIsNew DEF Before, ControlsAreGiven
    <3> QED BY <3>2 DEF NoControl
  <2>2. CASE Rollback(c)
    <3>1. Creating(c) /\ h \in Handles
      BY <1>0, <2>2, HandleNumbers DEF Creating, Rollback, Before, Admitting
    <3>2. op[h].state = "Created" /\ (control[h].live => control[h].op = h)
      BY <1>0, <3>1 DEF Before, Ownership, CreatorsWait
    <3>3. ~control[h].live => control[h] = NoControl
      BY <3>1 DEF Before, ControlsAreGiven
    <3>4. control[h].live => ~control[h].cache
      BY <3>1, <3>2 DEF Before, Ownership, RetainersAreReady, TerminalStates
    <3> QED BY <3>1, <3>3, <3>4 DEF NoControl
  <2> QED BY <2>1, <2>2
<1>3. /\ control'[h].cache = FALSE /\ \A g \in Handles \ {h} : control'[g] = control[g]
  <2>1. CASE AdmitCreate(c)
    <3>1. control' = [control EXCEPT ![h] = NewControl(client[c].key, h, FALSE, client[c].cb)]
      BY <1>0, <2>1 DEF AdmitCreate
    <3>2. NewControl(client[c].key, h, FALSE, client[c].cb).cache = FALSE
      BY DEF NewControl
    <3> QED BY <1>1, <1>2, <3>1, <3>2
  <2>2. CASE AdmitJoin(c)
    <3>1. PICK o : control' = [control EXCEPT ![h] =
                                    NewControl(client[c].key, o, FALSE, client[c].cb)]
      BY <1>0, <2>2 DEF AdmitJoin
    <3>2. NewControl(client[c].key, o, FALSE, client[c].cb).cache = FALSE
      BY DEF NewControl
    <3> QED BY <1>1, <1>2, <3>1, <3>2
  <2>3. CASE Rollback(c)
    <3>1. control' = [control EXCEPT ![h] = NoControl] /\ NoControl.cache = FALSE
      BY <1>0, <2>3 DEF Rollback, NoControl
    <3> QED BY <1>1, <1>2, <3>1
  <2> QED BY <2>1, <2>2, <2>3
<1>4. control[h].cache = FALSE
  <2>1. control[h].cache \in BOOLEAN
    BY <1>1, <1>2 DEF Controls
  <2> QED BY <1>2, <2>1
<1>5. \A g \in Handles : /\ control'[g].cache = control[g].cache
                         /\ control[g].cache => control'[g].key = control[g].key
  BY <1>3, <1>4
<1> QED BY <1>1, <1>5, QuietRetention

\* The callers' handles: what they hold is what the cache counts.
LEMMA HoldersRetainStep ==
    ASSUME TypeOK, HoldersRetain, [Next]_vars, ~Cleared' PROVE HoldersRetain'
<1>1. cacheExt \in [Keys -> Nat] /\ held \in [Keys -> Nat]
  BY DEF TypeOK
<1>2. CASE UNCHANGED <<cacheExt, held>>
  BY <1>2 DEF HoldersRetain
<1>3. ASSUME NEW c \in Clients, AcquireExternal(c) PROVE HoldersRetain'
  BY <1>1, <1>3 DEF AcquireExternal, HoldersRetain
<1>4. ASSUME NEW k \in Keys, DropHandle(k) PROVE HoldersRetain'
  <2>1. cacheExt[k] > 0
    BY <1>1, <1>4 DEF DropHandle, HoldersRetain
  <2>2. held' = [held EXCEPT ![k] = @ - 1] /\ cacheExt' = [cacheExt EXCEPT ![k] = @ - 1]
    BY <1>4, <2>1 DEF DropHandle
  <2> QED BY <1>1, <2>2 DEF HoldersRetain
<1>5. CASE DropOwnership
  BY <1>5 DEF DropOwnership, Cleared
<1>6. ASSUME NEW c \in Clients, Call(c) PROVE UNCHANGED <<cacheExt, held>>
  BY <1>6 DEF Call, StartRequest, Cancel, ReleaseRequest, FindResult, managerVars, cacheVars
<1>7. ASSUME NEW c \in Clients, Request(c) PROVE HoldersRetain'
  BY <1>2, <1>3, <1>7 DEF Request, Reserve, Allocate, Unreserve, AdmitRejected, AdmitHit,
     AdmitCreate, AdmitJoin, Wait, CommitJoined, Complete, Submit, Rollback, Unslot, managerVars,
     cacheVars
<1>8. ASSUME NEW w \in Workers, Work(w) PROVE UNCHANGED <<cacheExt, held>>
  BY <1>8 DEF Work, Take, Exit, BeginLoad, FinishLoad, CommitLoad, Notify, managerVars, cacheVars
<1>9. CASE Pump \/ UNCHANGED vars
  BY <1>2, <1>9 DEF Pump, PumpTake, PumpCall, PumpEnd, managerVars, vars
<1>10. CASE Shutdown
  BY <1>2, <1>5, <1>10 DEF Shutdown, BeginShutdown, RequestStop, Join, ClearControls, managerVars,
     cacheVars
<1> QED BY <1>2, <1>3, <1>4, <1>6, <1>7, <1>8, <1>9, <1>10 DEF Next, Quiescent

LEMMA RequestsRetainStep ==
    ASSUME Before, RequestsRetain, [Next]_vars, ~Cleared' PROVE RequestsRetain'
<1>1. CASE UNCHANGED <<control, cacheReq>>
  BY <1>1, QuietRetention
<1>2. ASSUME NEW h \in Handles, NEW res \in TerminalStates, CompleteRequest(h, res), UNCHANGED cacheReq
      PROVE  RequestsRetain'
  <2>1. \A g \in Handles : SameControl(g)
    BY <1>2, CompleteEffect DEF Before, TypeInv
  <2> QED BY <1>2, <2>1, QuietRetention DEF SameControl
<1>3. ASSUME NEW c \in Clients, Call(c) PROVE RequestsRetain'
  <2>1. CASE \E h \in Handles : ReleaseRequest(c, h)
    BY <2>1, ReleaseRetention
  <2>2. CASE \/ \E k \in Keys, cb \in BOOLEAN : StartRequest(c, k, cb)
             \/ \E h \in Handles : Cancel(c, h) \/ FindResult(c, h)
    BY <1>1, <2>2 DEF StartRequest, Cancel, FindResult, managerVars, cacheVars
  <2> QED BY <1>3, <2>1, <2>2 DEF Call
<1>4. ASSUME NEW c \in Clients, Request(c) PROVE RequestsRetain'
  <2>1. CASE AdmitHit(c)
    BY <2>1, HitRetention
  <2>2. CASE AdmitCreate(c) \/ AdmitJoin(c) \/ Rollback(c)
    BY <2>2, AdmissionRetention
  <2>3. CASE Complete(c)
    <3>1. client \in [Clients -> ClientRecords]
      BY DEF Before, TypeInv, TypeOK
    <3>2. client[c].h \in Handles /\ client[c].res \in TerminalStates
      BY <2>3, <3>1, HandleNumbers DEF Complete, Before, Admitting, ClientRecords
    <3>3. PICK h \in Handles, res \in TerminalStates : h = client[c].h /\ res = client[c].res
      BY <3>2
    <3> QED BY <1>2, <2>3, <3>3 DEF Complete, cacheVars
  <2>4. CASE \/ Reserve(c) \/ Allocate(c) \/ Unreserve(c) \/ AdmitRejected(c) \/ Wait(c)
             \/ CommitJoined(c) \/ Submit(c) \/ Unslot(c) \/ AcquireExternal(c)
    BY <1>1, <2>4 DEF Reserve, Allocate, Unreserve, AdmitRejected, Wait, CommitJoined, Submit,
       Unslot, AcquireExternal, managerVars, cacheVars
  <2> QED BY <1>4, <2>1, <2>2, <2>3, <2>4 DEF Request
<1>5. ASSUME NEW w \in Workers, Work(w) PROVE RequestsRetain'
  <2>1. CASE CommitLoad(w)
    BY <2>1, CommitRetention
  <2>2. CASE Notify(w)
    <3>1. worker \in [Workers -> WorkerRecords]
      BY DEF Before, TypeInv, TypeOK
    <3>2. PICK h \in worker[w].pending : CompleteRequest(h, worker[w].res)
      BY <2>2 DEF Notify
    <3>3. h \in Handles /\ worker[w].res \in TerminalStates
      BY <3>1, <3>2 DEF WorkerRecords
    <3>4. PICK res \in TerminalStates : res = worker[w].res
      BY <3>3
    <3>5. CompleteRequest(h, res)
      BY <3>2, <3>4
    <3> QED BY <1>2, <2>2, <3>3, <3>5 DEF Notify, cacheVars
  <2>3. CASE Take(w) \/ Exit(w) \/ BeginLoad(w) \/ FinishLoad(w)
    BY <1>1, <2>3 DEF Take, Exit, BeginLoad, FinishLoad, managerVars, cacheVars
  <2> QED BY <1>5, <2>1, <2>2, <2>3 DEF Work
<1>6. CASE (\E k \in Keys : DropHandle(k)) \/ Pump \/ UNCHANGED vars
  BY <1>1, <1>6 DEF DropHandle, Pump, PumpTake, PumpCall, PumpEnd, managerVars, vars
<1>7. CASE Shutdown
  <2>1. BeginShutdown \/ RequestStop \/ Join
    BY <1>7 DEF Shutdown, ClearControls, DropOwnership, Cleared
  <2> QED BY <1>1, <2>1 DEF BeginShutdown, RequestStop, Join, managerVars, cacheVars
<1> QED BY <1>3, <1>4, <1>5, <1>6, <1>7 DEF Next, Quiescent

-----------------------------------------------------------------------------
(* The keys of requests, and the table of operations.                      *)

\* A call that is being admitted has a key, and so has the control it makes.
KeysAreGiven ==
    /\ \A c \in Clients : client[c].pc \in {"reserve", "allocate", "admit"} => client[c].key \in Keys
    /\ \A h \in Handles : control[h].live => control[h].key \in Keys

LEMMA KeysPreserved == TypeInv /\ KeysAreGiven /\ [Next]_vars => KeysAreGiven'
<1> SUFFICES ASSUME TypeInv, KeysAreGiven, [Next]_vars PROVE KeysAreGiven'
  OBVIOUS
<1>1. client \in [Clients -> ClientRecords] /\ control \in [Handles -> Controls] /\ TypeOK
  BY DEF TypeInv, TypeOK
<1>2. ASSUME \A h \in Handles : control'[h].live => control[h].live /\ control'[h].key = control[h].key,
             \A c \in Clients : client'[c].pc \in {"reserve", "allocate", "admit"} =>
                client'[c].key \in Keys \/ (/\ client[c].pc \in {"reserve", "allocate", "admit"}
                                            /\ client'[c].key = client[c].key)
      PROVE  KeysAreGiven'
  BY <1>2 DEF KeysAreGiven
<1>3. ASSUME NEW h \in Handles, NEW res \in TerminalStates, CompleteRequest(h, res)
      PROVE  \A g \in Handles : control'[g].live => control[g].live /\ control'[g].key = control[g].key
  BY <1>1, <1>3, CompleteEffect DEF SameControl
<1>4. ASSUME NEW c \in Clients, Call(c) PROVE KeysAreGiven'
  <2>1. CASE \E h \in Handles : ReleaseRequest(c, h)
    <3>1. PICK h \in Handles : ReleaseRequest(c, h)
      BY <2>1
    <3>2. control' = [control EXCEPT ![h] = NoControl]
          /\ client' = [client EXCEPT ![c] = At("unslot", h, NoKey, FALSE, "Cancelled")]
      BY <3>1 DEF ReleaseRequest
    <3>3. \A g \in Handles : control'[g].live => control'[g] = control[g]
      BY <1>1, <3>2 DEF NoControl
    <3>4. \A d \in Clients : client'[d] = client[d] \/ client'[d].pc = "unslot"
      BY <1>1, <3>2 DEF At
    <3> QED BY <1>2, <3>3, <3>4
  <2>2. CASE \E h \in Handles : Cancel(c, h) \/ FindResult(c, h)
    <3>1. control' = control
      BY <2>2 DEF Cancel, FindResult, managerVars
    <3>2. \A d \in Clients : client'[d] = client[d] \/ client'[d].pc \in {"cancelled", "acquire"}
      BY <1>1, <2>2 DEF Cancel, FindResult, At
    <3> QED BY <1>2, <3>1, <3>2
  <2>3. CASE \E k \in Keys, cb \in BOOLEAN : StartRequest(c, k, cb)
    <3>1. control' = control
      BY <2>3 DEF StartRequest, managerVars
    <3>2. \A d \in Clients : client'[d] = client[d] \/ client'[d].key \in Keys
      BY <1>1, <2>3 DEF StartRequest, At
    <3> QED BY <1>2, <3>1, <3>2
  <2> QED BY <1>4, <2>1, <2>2, <2>3 DEF Call
<1>5. ASSUME NEW c \in Clients, Request(c) PROVE KeysAreGiven'
  <2>1. CASE AdmitHit(c) \/ AdmitCreate(c) \/ AdmitJoin(c)
    <3>1. client[c].pc = "admit" /\ client[c].key \in Keys
      BY <2>1 DEF AdmitHit, AdmitCreate, AdmitJoin, KeysAreGiven
    <3>2. PICK h : h = client[c].h
      OBVIOUS
    <3>3. \A g \in Handles : control'[g] = control[g] \/ control'[g].key = client[c].key
      <4>1. \E o, b : control' = [control EXCEPT ![h] = NewControl(client[c].key, o, b, client[c].cb)]
        <5>1. CASE AdmitHit(c)
          <6>1. control' = [control EXCEPT ![h] =
                                NewControl(client[c].key, NoHandle, TRUE, client[c].cb)]
            BY <3>2, <5>1 DEF AdmitHit
          <6> QED BY <6>1
        <5>2. CASE AdmitCreate(c)
          <6>1. control' = [control EXCEPT ![h] = NewControl(client[c].key, h, FALSE, client[c].cb)]
            BY <3>2, <5>2 DEF AdmitCreate
          <6> QED BY <6>1
        <5>3. CASE AdmitJoin(c)
          <6>1. PICK o : control' = [control EXCEPT ![h] =
                                NewControl(client[c].key, o, FALSE, client[c].cb)]
            BY <3>2, <5>3 DEF AdmitJoin
          <6> QED BY <6>1
        <5> QED BY <2>1, <5>1, <5>2, <5>3
      <4>2. PICK o, b : control' = [control EXCEPT ![h] =
                                NewControl(client[c].key, o, b, client[c].cb)]
        BY <4>1
      <4>3. NewControl(client[c].key, o, b, client[c].cb).key = client[c].key
        BY DEF NewControl
      <4> QED BY <1>1, <4>2, <4>3
    <3>4. \A d \in Clients : client'[d] = client[d] \/ client'[d].pc \in {"complete", "wait", "commit"}
      <4>1. \A d \in Clients \ {c} : client'[d] = client[d]
        BY <1>1, <2>1, MovesOn DEF AdmitHit, AdmitCreate, AdmitJoin
      <4>2. CASE AdmitHit(c)
        BY <1>1, <4>1, <4>2 DEF AdmitHit, At
      <4>3. CASE AdmitCreate(c)
        BY <1>1, <4>1, <4>3, MovesOn DEF AdmitCreate
      <4>4. CASE AdmitJoin(c)
        <5>1. Goto(c, "wait") \/ \E h1, k1, b1, r1 : client' = [client EXCEPT ![c] = At("commit", h1, k1, b1, r1)]
          BY <4>4 DEF AdmitJoin
        <5> QED BY <1>1, <4>1, <5>1, MovesOn DEF At
      <4> QED BY <2>1, <4>2, <4>3, <4>4
    <3> QED BY <3>1, <3>3, <3>4 DEF KeysAreGiven
  <2>2. CASE Reserve(c) \/ Allocate(c) \/ Unreserve(c)
    <3>1. control' = control
      BY <2>2 DEF Reserve, Allocate, Unreserve, managerVars
    <3>2. ASSUME NEW d \in Clients, client'[d].pc \in {"reserve", "allocate", "admit"}
          PROVE  client[d].pc \in {"reserve", "allocate", "admit"} /\ client'[d].key = client[d].key
      <4>1. CASE d # c
        BY <1>1, <2>2, <3>2, <4>1 DEF Reserve, Allocate, Unreserve, Goto, Return
      <4>2. CASE d = c
        <5>1. CASE Reserve(c) \/ Unreserve(c)
          BY <1>1, <3>2, <4>2, <5>1 DEF Reserve, Unreserve, Goto, Return, IdleClient, ClientRecords
        <5>2. CASE Allocate(c)
          BY <1>1, <3>2, <4>2, <5>2 DEF Allocate, Goto, Return, IdleClient, At, ClientRecords
        <5> QED BY <2>2, <5>1, <5>2
      <4> QED BY <4>1, <4>2
    <3> QED BY <1>2, <3>1, <3>2
  <2>3. CASE Complete(c)
    <3>1. client[c].h \in Handles /\ client[c].res \in TerminalStates
      BY <1>1, <2>3, HandleNumbers DEF Complete, Admitting, ClientRecords
    <3>2. PICK h \in Handles, res \in TerminalStates : h = client[c].h /\ res = client[c].res
      BY <3>1
    <3>3. CompleteRequest(h, res) /\ Return(c)
      BY <2>3, <3>2 DEF Complete
    <3>4. \A d \in Clients : client'[d] = client[d] \/ client'[d].pc = "idle"
      BY <1>1, <3>3 DEF Return, IdleClient
    <3> QED BY <1>2, <1>3, <3>3, <3>4
  <2>4. CASE AdmitRejected(c) \/ Wait(c) \/ CommitJoined(c) \/ Submit(c) \/ Unslot(c) \/ AcquireExternal(c)
    <3>1. control' = control
      BY <2>4 DEF AdmitRejected, Wait, CommitJoined, Submit, Unslot, AcquireExternal, managerVars
    <3>2. \A d \in Clients : client'[d] = client[d]
                             \/ client'[d].pc \in {"idle", "submit", "complete", "rollback"}
      BY <1>1, <2>4 DEF AdmitRejected, Wait, CommitJoined, Submit, Unslot, AcquireExternal, Goto,
         Return, IdleClient, ClientRecords
    <3> QED BY <1>2, <3>1, <3>2
  <2>5. CASE Rollback(c)
    <3>1. control' = [control EXCEPT ![client[c].h] = NoControl] /\ Goto(c, "discard")
      BY <2>5 DEF Rollback
    <3>2. \A g \in Handles : control'[g].live => control'[g] = control[g]
      BY <1>1, <3>1 DEF NoControl
    <3>3. \A d \in Clients : client'[d] = client[d] \/ client'[d].pc = "discard"
      BY <1>1, <3>1 DEF Goto, ClientRecords
    <3> QED BY <1>2, <3>2, <3>3
  <2> QED BY <1>5, <2>1, <2>2, <2>3, <2>4, <2>5 DEF Request
<1>6. ASSUME NEW w \in Workers, Work(w) PROVE KeysAreGiven'
  <2>1. client' = client
    BY <1>6 DEF Work, Take, Exit, BeginLoad, FinishLoad, CommitLoad, Notify
  <2>2. CASE Notify(w)
    <3>1. worker \in [Workers -> WorkerRecords]
      BY DEF TypeInv, TypeOK
    <3>2. PICK h \in worker[w].pending : CompleteRequest(h, worker[w].res)
      BY <2>2 DEF Notify
    <3>3. h \in Handles /\ worker[w].res \in TerminalStates
      BY <3>1, <3>2 DEF WorkerRecords
    <3>4. PICK res \in TerminalStates : res = worker[w].res
      BY <3>3
    <3>5. CompleteRequest(h, res)
      BY <3>2, <3>4
    <3> QED BY <1>2, <1>3, <2>1, <3>3, <3>5
  <2>3. CASE CommitLoad(w)
    <3>1. CASE control' = control
      BY <1>2, <2>1, <3>1
    <3>2. CASE control' = [h \in Handles |->
                    IF h \in op[worker[w].op].interests /\ control[h].live
                    THEN [control[h] EXCEPT !.cache = TRUE] ELSE control[h]]
      <4>1. ASSUME NEW h \in Handles
            PROVE  control'[h].live = control[h].live /\ control'[h].key = control[h].key
        <5>1. control[h] \in Controls
              /\ \/ control'[h] = control[h]
                 \/ control'[h] = [control[h] EXCEPT !.cache = TRUE]
          BY <1>1, <3>2
        <5> QED BY <5>1 DEF Controls
      <4> QED BY <1>2, <2>1, <4>1
    <3> QED BY <2>3, <3>1, <3>2 DEF CommitLoad
  <2>4. CASE Take(w) \/ Exit(w) \/ BeginLoad(w) \/ FinishLoad(w)
    <3>1. control' = control
      BY <2>4 DEF Take, Exit, BeginLoad, FinishLoad, managerVars
    <3> QED BY <1>2, <2>1, <3>1
  <2> QED BY <1>6, <2>2, <2>3, <2>4 DEF Work
<1>7. CASE (\E k \in Keys : DropHandle(k)) \/ Pump \/ UNCHANGED vars
  <2>1. control' = control /\ client' = client
    BY <1>7 DEF DropHandle, Pump, PumpTake, PumpCall, PumpEnd, managerVars, vars
  <2> QED BY <1>2, <2>1
<1>8. CASE Shutdown
  <2>1. client' = client
    BY <1>8 DEF Shutdown, BeginShutdown, RequestStop, Join, ClearControls, DropOwnership
  <2>2. \A h \in Handles : control'[h] = control[h] \/ ~control'[h].live
    BY <1>8 DEF Shutdown, BeginShutdown, RequestStop, Join, ClearControls, DropOwnership,
       managerVars, NoControl
  <2> QED BY <1>2, <2>1, <2>2
<1> QED BY <1>4, <1>5, <1>6, <1>7, <1>8 DEF Next, Quiescent

-----------------------------------------------------------------------------
\* The operations of the table: wanted, and one for each key.
TableIsWanted ==
    /\ \A o \in table : op[o].interests # {}
    /\ \A o, p \in table : op[o].key = op[p].key => o = p
    /\ Cleared => table = {}

LEMMA TableStay ==
    ASSUME TableIsWanted, \A o \in table' : o \in table, Cleared' => Cleared \/ table' = {},
           \A o \in table' : op'[o].key = op[o].key /\ op'[o].interests # {}
    PROVE  TableIsWanted'
BY DEF TableIsWanted

LEMMA DetachWanted ==
    ASSUME TypeInv, TableIsWanted, NEW o \in Handles \cup {NoHandle}, NEW h,
           op' = DetachedOp(o, h), table' = DetachedTable(o, h), UNCHANGED shutdown
    PROVE  TableIsWanted'
<1>1. op \in [Handles -> Operations] /\ table \subseteq Handles
  BY DEF TypeInv, TypeOK
<1>2. \A p \in Handles : /\ op'[p].interests = IF p = o THEN op[p].interests \ {h}
                                               ELSE op[p].interests
                         /\ op'[p].key = op[p].key
  <2>1. Detaches(o, h)
    BY <1>1, DetachEffect
  <2> QED BY <2>1 DEF Detaches
<1>3. \A p \in table' : p \in table /\ (p = o => op[p].interests # {h})
  BY <1>1, HandlePairs DEF DetachedTable
<1>4. ASSUME NEW p \in table' PROVE op'[p].key = op[p].key /\ op'[p].interests # {}
  <2>1. p \in Handles /\ op[p].interests # {} /\ (p = o => op[p].interests # {h})
    BY <1>1, <1>3 DEF TableIsWanted
  <2> QED BY <1>2, <2>1
<1>5. Cleared' => Cleared
  BY DEF Cleared
<1> QED BY <1>3, <1>4, <1>5, TableStay

LEMMA TablePreserved ==
    TypeInv /\ ControlsAreGiven /\ OwnedUntilCleared /\ TableIsWanted /\ [Next]_vars => TableIsWanted'
<1> SUFFICES ASSUME TypeInv, ControlsAreGiven, OwnedUntilCleared, TableIsWanted, [Next]_vars
             PROVE  TableIsWanted'
  OBVIOUS
<1>1. op \in [Handles -> Operations] /\ table \subseteq Handles /\ TypeOK
  BY DEF TypeInv, TypeOK
<1>2. ASSUME UNCHANGED <<op, table>>, UNCHANGED shutdown \/ shutdown' \in {"stopping", "joining", "clearing"}
                                      \/ shutdown = "dropping"
      PROVE  TableIsWanted'
  BY <1>2, TableStay DEF Cleared, TableIsWanted
<1>3. ASSUME NEW c \in Clients, Call(c) PROVE TableIsWanted'
  <2>1. CASE \E h \in Handles : Cancel(c, h) \/ ReleaseRequest(c, h)
    <3>1. PICK h \in Handles : Cancel(c, h) \/ ReleaseRequest(c, h)
      BY <2>1
    <3>2. PICK o : o = control[h].op
      OBVIOUS
    <3>3. /\ o \in Handles \cup {NoHandle} /\ op' = DetachedOp(o, h)
          /\ table' = DetachedTable(o, h) /\ UNCHANGED shutdown
      BY <1>1, <3>1, <3>2, ControlsNameOps DEF Cancel, ReleaseRequest
    <3> QED BY <3>3, DetachWanted
  <2>2. CASE \/ \E k \in Keys, cb \in BOOLEAN : StartRequest(c, k, cb)
             \/ \E h \in Handles : FindResult(c, h)
    BY <1>2, <2>2 DEF StartRequest, FindResult, managerVars
  <2> QED BY <1>3, <2>1, <2>2 DEF Call
<1>4. ASSUME NEW c \in Clients, AdmitCreate(c) PROVE TableIsWanted'
  <2>0. PICK h, k : h = client[c].h /\ k = client[c].key
    OBVIOUS
  <2>1. /\ op' = [op EXCEPT ![h] = [key |-> k, interests |-> {h}, cancel |-> FALSE, state |-> "Created"]]
        /\ table' = table \cup {h} /\ Attachable(k) = {} /\ client[c].pc = "admit" /\ ~ShuttingDown
        /\ shutdown' = shutdown
    BY <1>4, <2>0 DEF AdmitCreate
  <2>2. Before /\ ~Cleared
    BY <2>1 DEF Before, OwnedUntilCleared, Cleared, ShuttingDown
  <2>3. h \in Handles /\ h \notin table
    BY <2>0, <2>1, <2>2, AdmittedIsNew DEF Unheard, TypeInv, TableOps
  <2>4. op'[h].interests = {h} /\ op'[h].key = k /\ \A o \in table : op'[o] = op[o] /\ op[o].key # k
    BY <1>1, <2>1, <2>3 DEF Attachable
  <2>5. ~Cleared'
    BY <2>1, <2>2 DEF Cleared
  <2> QED BY <2>1, <2>4, <2>5 DEF TableIsWanted
<1>5. ASSUME NEW c \in Clients, AdmitJoin(c) PROVE TableIsWanted'
  <2>1. PICK o \in Attachable(client[c].key) : op' = [op EXCEPT ![o].interests = @ \cup {client[c].h}]
    BY <1>5 DEF AdmitJoin
  <2>2. table' = table /\ shutdown' = shutdown
    BY <1>5 DEF AdmitJoin
  <2>3. ASSUME NEW p \in table PROVE op'[p].key = op[p].key /\ op'[p].interests # {}
    <3>1. CASE p = o
      <4>1. op'[p] = [op[p] EXCEPT !.interests = @ \cup {client[c].h}] /\ op[p] \in Operations
        BY <1>1, <2>1, <3>1
      <4> QED BY <4>1 DEF Operations
    <3>2. CASE p # o
      BY <1>1, <2>1, <3>2 DEF TableIsWanted
    <3> QED BY <3>1, <3>2
  <2>4. Cleared' => Cleared
    BY <2>2 DEF Cleared
  <2> QED BY <2>2, <2>3, <2>4, TableStay
<1>6. ASSUME NEW c \in Clients, Rollback(c) PROVE TableIsWanted'
  <2>1. PICK h : h = client[c].h
    OBVIOUS
  <2>2. /\ h \in Handles /\ op' = DetachedOp(h, h) /\ table' = DetachedTable(h, h)
        /\ UNCHANGED shutdown
    BY <1>6, <2>1, HandleNumbers DEF Rollback, Admitting
  <2> QED BY <2>2, DetachWanted
<1>7. ASSUME NEW c \in Clients, Request(c) PROVE TableIsWanted'
  <2>1. CASE AdmitCreate(c) \/ AdmitJoin(c) \/ Rollback(c)
    BY <1>4, <1>5, <1>6, <2>1
  <2>2. CASE \/ Reserve(c) \/ Allocate(c) \/ Unreserve(c) \/ AdmitRejected(c) \/ AdmitHit(c)
             \/ Wait(c) \/ CommitJoined(c) \/ Complete(c) \/ Submit(c) \/ Unslot(c)
             \/ AcquireExternal(c)
    BY <1>2, <2>2 DEF Reserve, Allocate, Unreserve, AdmitRejected, AdmitHit, Wait, CommitJoined,
       Complete, Submit, Unslot, AcquireExternal, managerVars
  <2> QED BY <1>7, <2>1, <2>2 DEF Request
<1>8. ASSUME NEW w \in Workers, Work(w) PROVE TableIsWanted'
  <2>1. CASE CommitLoad(w)
    <3>1. /\ op' = [op EXCEPT ![worker[w].op].state = CommittedState(w)]
          /\ \A o \in table' : o \in table
          /\ shutdown' = shutdown
      BY <2>1 DEF CommitLoad
    <3>2. ASSUME NEW p \in table' PROVE op'[p].key = op[p].key /\ op'[p].interests # {}
      <4>1. op[p] \in Operations /\ op[p].interests # {}
            /\ \/ op'[p] = op[p]
               \/ op'[p] = [op[p] EXCEPT !.state = CommittedState(w)]
        BY <1>1, <3>1 DEF TableIsWanted
      <4> QED BY <4>1 DEF Operations
    <3>3. Cleared' => Cleared
      BY <3>1 DEF Cleared
    <3> QED BY <3>1, <3>2, <3>3, TableStay
  <2>2. CASE Take(w) \/ Exit(w) \/ BeginLoad(w) \/ FinishLoad(w) \/ Notify(w)
    BY <1>2, <2>2 DEF Take, Exit, BeginLoad, FinishLoad, Notify, managerVars
  <2> QED BY <1>8, <2>1, <2>2 DEF Work
<1>9. CASE (\E k \in Keys : DropHandle(k)) \/ Pump \/ UNCHANGED vars
  BY <1>2, <1>9 DEF DropHandle, Pump, PumpTake, PumpCall, PumpEnd, managerVars, vars
<1>10. CASE Shutdown
  <2>1. CASE BeginShutdown
    <3>1. ASSUME NEW p \in table PROVE op'[p].key = op[p].key /\ op'[p].interests # {}
      <4>1. op[p] \in Operations /\ op[p].interests # {}
            /\ (op'[p] = op[p] \/ op'[p] = [op[p] EXCEPT !.cancel = TRUE])
        BY <1>1, <2>1 DEF BeginShutdown, TableIsWanted
      <4> QED BY <4>1 DEF Operations
    <3>2. table' = table /\ ~Cleared'
      BY <2>1 DEF BeginShutdown, Cleared
    <3> QED BY <3>1, <3>2, TableStay
  <2>2. CASE RequestStop \/ Join \/ DropOwnership
    BY <1>2, <2>2 DEF RequestStop, Join, DropOwnership, managerVars
  <2>3. CASE ClearControls
    BY <2>3 DEF ClearControls, TableIsWanted
  <2> QED BY <1>10, <2>1, <2>2, <2>3 DEF Shutdown
<1> QED BY <1>3, <1>7, <1>8, <1>9, <1>10 DEF Next, Quiescent

-----------------------------------------------------------------------------
(* What the callers and the cache can rely on.                             *)

RetentionInv ==
    /\ ControlsAreGiven /\ OwnedUntilCleared /\ KeysAreGiven /\ TableIsWanted
    /\ ~Cleared => RequestsRetain /\ HoldersRetain

LEMMA RetentionInit == Init => RetentionInv
<1> SUFFICES ASSUME Init PROVE RetentionInv
  OBVIOUS
<1>1. ControlsAreGiven /\ OwnedUntilCleared
  BY ControlsAreGivenInit, OwnershipInit DEF OwnedUntilCleared
<1>2. KeysAreGiven /\ TableIsWanted
  BY DEF Init, KeysAreGiven, TableIsWanted, IdleClient, NoControl
<1>3. \A k : Retained(k) = {}
  BY DEF Init, Retained, NoControl
<1>4. RequestsRetain /\ HoldersRetain
  BY <1>3, FS_EmptySet DEF Init, RequestsRetain, HoldersRetain
<1> QED BY <1>1, <1>2, <1>4 DEF RetentionInv

LEMMA ClearedIsFinal == [Next]_vars /\ Cleared => Cleared'
<1> SUFFICES ASSUME [Next]_vars, Cleared PROVE Cleared'
  OBVIOUS
<1>1. CASE shutdown' = shutdown
  BY <1>1 DEF Cleared
<1>2. CASE shutdown' # shutdown
  <2>1. Shutdown
    BY <1>2, OnlyShutdownShuts
  <2> QED BY <2>1 DEF Shutdown, BeginShutdown, RequestStop, Join, ClearControls, DropOwnership,
          Cleared
<1> QED BY <1>1, <1>2

LEMMA RetentionPreserved == TypeInv /\ RetentionInv /\ [Next]_vars => RetentionInv'
<1> SUFFICES ASSUME TypeInv, RetentionInv, [Next]_vars PROVE RetentionInv'
  OBVIOUS
<1>1. ControlsAreGiven' /\ OwnedUntilCleared' /\ KeysAreGiven' /\ TableIsWanted'
  BY ControlsAreGivenPreserved, OwnershipPreserved, KeysPreserved, TablePreserved DEF RetentionInv
<1>2. ASSUME ~Cleared' PROVE RequestsRetain' /\ HoldersRetain'
  <2>1. ~Cleared
    BY <1>2, ClearedIsFinal
  <2>2. Before /\ RequestsRetain /\ HoldersRetain
    BY <2>1 DEF RetentionInv, Before, OwnedUntilCleared
  <2>3. TypeOK
    BY DEF TypeInv
  <2> QED BY <1>2, <2>2, <2>3, RequestsRetainStep, HoldersRetainStep
<1> QED BY <1>1, <1>2 DEF RetentionInv

\* An entry that a request retains is in the cache.
LEMMA RetainedIsCached ==
    ASSUME TypeInv, RetentionInv, ~Cleared, NEW h \in Handles, control[h].live, control[h].cache
    PROVE  IsCached(control[h].key)
<1>1. control[h].key \in Keys
  BY DEF RetentionInv, KeysAreGiven
<1>2. PICK k \in Keys : k = control[h].key
  BY <1>1
<1>3. h \in Retained(k)
  BY <1>2 DEF Retained
<1>4. cacheReq[k] = Cardinality(Retained(k)) /\ Cardinality(Retained(k)) \in Nat
      /\ IsFiniteSet(Retained(k))
  BY RetainedIsFinite DEF RetentionInv, RequestsRetain
<1>5. Cardinality(Retained(k)) # 0
  BY <1>3, <1>4, FS_EmptySet
<1> QED BY <1>2, <1>4, <1>5 DEF IsCached

LEMMA RetentionImplies ==
    TypeInv /\ RetentionInv => RetentionIsExact /\ ReadyIsRetained /\ TableIsSound
<1> SUFFICES ASSUME TypeInv, RetentionInv PROVE RetentionIsExact /\ ReadyIsRetained /\ TableIsSound
  OBVIOUS
<1>1. RetentionIsExact
  BY DEF RetentionInv, RequestsRetain, HoldersRetain, Retained, RetentionIsExact
<1>2. ReadyIsRetained
  BY RetainedIsCached DEF ReadyIsRetained, RetentionInv, OwnedUntilCleared, Ownership,
     RetainersAreReady
<1>3. ASSUME NEW o \in table
      PROVE  /\ op[o].interests # {} /\ op[o].state # "None"
             /\ Attachable(op[o].key) = {o}
             /\ op[o].state = "Ready" /\ ~Cleared => IsCached(op[o].key)
  <2>1. o \in Handles /\ op[o].interests # {} /\ op[o].state # "None"
    BY DEF TypeInv, TypeOK, TableOps, RetentionInv, TableIsWanted
  <2>2. Attachable(op[o].key) = {o}
    BY DEF Attachable, RetentionInv, TableIsWanted
  <2>3. ASSUME op[o].state = "Ready", ~Cleared PROVE IsCached(op[o].key)
    <3>1. PICK h \in op[o].interests : TRUE
      BY <2>1
    <3>2. h \in Handles /\ Owned(o, h)
      BY <2>1, <2>3, HandleNumbers DEF RetentionInv, OwnedUntilCleared, Ownership, OpsAreOwned
    <3>3. control[h].live /\ control[h].cache /\ control[h].key = op[o].key
      BY <2>3, <3>2 DEF Owned
    <3>4. IsCached(control[h].key)
      BY <2>3, <3>2, <3>3, RetainedIsCached
    <3> QED BY <3>3, <3>4
  <2> QED BY <2>1, <2>2, <2>3
<1> QED BY <1>1, <1>2, <1>3 DEF TableIsSound

\* The cache counts each retention once: one for each request that holds one and one for each
\* typed handle of a caller.
THEOREM RetentionStaysExact == Spec => []RetentionIsExact
BY InitTypes, TypesPreserved, RetentionInit, RetentionPreserved, RetentionImplies, PTL DEF Spec

\* The payload of a Ready request stays in the cache until the request is released.
THEOREM ReadyStaysRetained == Spec => []ReadyIsRetained
BY InitTypes, TypesPreserved, RetentionInit, RetentionPreserved, RetentionImplies, PTL DEF Spec

\* A later request finds at most one operation of its key, one that somebody wants and whose
\* payload, if it has one, is in the cache.
THEOREM TableStaysSound == Spec => []TableIsSound
BY InitTypes, TypesPreserved, RetentionInit, RetentionPreserved, RetentionImplies, PTL DEF Spec

-----------------------------------------------------------------------------
(* Nobody is cancelled by another request.                                 *)

\* Until Shutdown begins, a load that is cancelled is one that nobody waits for.
OnlyTheUnwanted ==
    /\ ~ShuttingDown => \A o \in Handles : op[o].cancel => op[o].interests = {}
    /\ \A o \in Handles : op[o].state = "Cancelled" => op[o].cancel
    /\ \A w \in Workers : worker[w].pc = "loaded" /\ worker[w].res = "Cancelled" =>
            op[worker[w].op].cancel
    /\ \A c \in Clients : client[c].pc = "commit" /\ client[c].res = "Cancelled" => ShuttingDown

LEMMA UnwantedStay ==
    ASSUME TypeInv, OnlyTheUnwanted, ShuttingDown => ShuttingDown',
           \A o \in Handles :
                /\ op[o].cancel => op'[o].cancel
                /\ ~ShuttingDown' => \A h \in op'[o].interests : h \in op[o].interests
                /\ op'[o].cancel /\ ~ShuttingDown' => op[o].cancel \/ op'[o].interests = {}
                /\ op'[o].state = "Cancelled" => op[o].state = "Cancelled" \/ op[o].cancel,
           \A w \in Workers : worker'[w].pc = "loaded" /\ worker'[w].res = "Cancelled" =>
                /\ worker'[w].op = worker[w].op /\ worker[w].op \in Handles
                /\ (worker[w].pc = "loaded" /\ worker[w].res = "Cancelled") \/ op[worker[w].op].cancel,
           \A c \in Clients : client'[c].pc = "commit" /\ client'[c].res = "Cancelled" =>
                client[c] = client'[c]
    PROVE  OnlyTheUnwanted'
<1>1. ASSUME ~ShuttingDown', NEW o \in Handles, op'[o].cancel PROVE op'[o].interests = {}
  BY <1>1 DEF OnlyTheUnwanted
<1> QED BY <1>1 DEF OnlyTheUnwanted

\* Steps that leave operations alone, and put no cancelled load into anyone's hands.
LEMMA QuietUnwanted ==
    ASSUME TypeInv, OnlyTheUnwanted, ShuttingDown => ShuttingDown', UNCHANGED op,
           \A w \in Workers : worker'[w].pc = "loaded" => worker'[w] = worker[w],
           \A c \in Clients : client'[c].pc = "commit" => client'[c] = client[c]
    PROVE  OnlyTheUnwanted'
BY UnwantedStay DEF TypeInv, WorkerHandles

LEMMA DetachUnwanted ==
    ASSUME TypeInv, OnlyTheUnwanted, NEW o \in Handles \cup {NoHandle}, NEW h,
           op' = DetachedOp(o, h), UNCHANGED <<shutdown, worker>>,
           \A c \in Clients : client'[c].pc = "commit" => client'[c] = client[c]
    PROVE  OnlyTheUnwanted'
<1>1. op \in [Handles -> Operations]
  BY DEF TypeInv, TypeOK
<1>2. \A p \in Handles : /\ op'[p].interests = IF p = o THEN op[p].interests \ {h}
                                               ELSE op[p].interests
                         /\ op'[p].state = op[p].state
  <2>1. Detaches(o, h)
    BY <1>1, DetachEffect
  <2> QED BY <2>1 DEF Detaches
<1>3. ASSUME NEW p \in Handles
      PROVE  /\ op[p].cancel => op'[p].cancel
             /\ op'[p].cancel => op[p].cancel \/ op'[p].interests = {}
  <2>1. CASE p = o
    <3>1. op'[p].cancel = IF op[p].interests = {h} /\ op[p].state = "Created"
                          THEN TRUE ELSE op[p].cancel
      BY <1>1, <2>1, HandlePairs DEF DetachedOp
    <3> QED BY <1>2, <2>1, <3>1
  <2>2. CASE p # o
    <3>1. op'[p] = op[p]
      BY <1>1, <2>2 DEF DetachedOp
    <3> QED BY <3>1
  <2> QED BY <2>1, <2>2
<1>4. ShuttingDown => ShuttingDown'
  BY DEF ShuttingDown
<1>5. \A p \in Handles : \A g \in op'[p].interests : g \in op[p].interests
  BY <1>2
<1> QED BY <1>2, <1>3, <1>4, <1>5, UnwantedStay DEF TypeInv, WorkerHandles

LEMMA UnwantedPreserved ==
    TypeInv /\ RetentionInv /\ OnlyTheUnwanted /\ [Next]_vars => OnlyTheUnwanted'
<1> SUFFICES ASSUME TypeInv, RetentionInv, OnlyTheUnwanted, [Next]_vars PROVE OnlyTheUnwanted'
  OBVIOUS
<1>1. /\ client \in [Clients -> ClientRecords] /\ worker \in [Workers -> WorkerRecords]
      /\ op \in [Handles -> Operations] /\ TypeOK /\ table \subseteq Handles
  BY DEF TypeInv, TypeOK
<1>2. ASSUME NEW c \in Clients, Call(c) PROVE OnlyTheUnwanted'
  <2>0. \A d \in Clients : client'[d].pc = "commit" => client'[d] = client[d]
    <3>1. \A d \in Clients \ {c} : client'[d] = client[d]
      BY <1>1, <1>2 DEF Call, StartRequest, Cancel, ReleaseRequest, FindResult
    <3>2. client'[c] = client[c] \/ client'[c].pc # "commit"
      <4>1. CASE \E k \in Keys, cb \in BOOLEAN : StartRequest(c, k, cb)
        BY <1>1, <4>1, MovesOn DEF StartRequest, At
      <4>2. CASE \E h \in Handles : Cancel(c, h)
        BY <1>1, <4>2, MovesOn DEF Cancel, At
      <4>3. CASE \E h \in Handles : ReleaseRequest(c, h) \/ FindResult(c, h)
        BY <1>1, <4>3, MovesOn DEF ReleaseRequest, FindResult, At
      <4> QED BY <1>2, <4>1, <4>2, <4>3 DEF Call
    <3> QED BY <3>1, <3>2
  <2>1. CASE \E h \in Handles : Cancel(c, h) \/ ReleaseRequest(c, h)
    <3>1. PICK h \in Handles : Cancel(c, h) \/ ReleaseRequest(c, h)
      BY <2>1
    <3>2. PICK o : o = control[h].op
      OBVIOUS
    <3>3. /\ o \in Handles \cup {NoHandle} /\ op' = DetachedOp(o, h) /\ UNCHANGED <<shutdown, worker>>
      BY <1>1, <3>1, <3>2, ControlsNameOps DEF Cancel, ReleaseRequest, workVars
    <3> QED BY <2>0, <3>3, DetachUnwanted
  <2>2. CASE \/ \E k \in Keys, cb \in BOOLEAN : StartRequest(c, k, cb)
             \/ \E h \in Handles : FindResult(c, h)
    BY <2>0, <2>2, QuietUnwanted DEF StartRequest, FindResult, managerVars, workVars, ShuttingDown
  <2> QED BY <1>2, <2>1, <2>2 DEF Call
<1>3. ASSUME NEW c \in Clients, AdmitCreate(c) PROVE OnlyTheUnwanted'
  <2>0. PICK h, k : h = client[c].h /\ k = client[c].key
    OBVIOUS
  <2>1. /\ op' = [op EXCEPT ![h] = [key |-> k, interests |-> {h}, cancel |-> FALSE, state |-> "Created"]]
        /\ client[c].pc = "admit" /\ ~ShuttingDown /\ UNCHANGED <<shutdown, worker>> /\ Goto(c, "wait")
    BY <1>3, <2>0 DEF AdmitCreate, workVars
  <2>2. Before
    BY <2>1 DEF Before, RetentionInv, OwnedUntilCleared, Cleared, ShuttingDown
  <2>3. h \in Handles /\ h \notin Submitted
    BY <2>0, <2>1, <2>2, AdmittedIsNew DEF Unheard
  <2>4. /\ ~op'[h].cancel /\ op'[h].state = "Created" /\ \A o \in Handles \ {h} : op'[o] = op[o]
    BY <1>1, <2>1, <2>3
  <2>5. \A w \in Workers : worker[w].op # h
    BY <2>3 DEF Submitted
  <2>6. \A d \in Clients : client'[d].pc = "commit" => client'[d] = client[d]
    BY <1>1, <2>1, MovesOn
  <2>7. \A w \in Workers : worker[w].pc = "loaded" => worker[w].op \in Handles \ {h}
    BY <2>5 DEF TypeInv, WorkerHandles
  <2>8. ShuttingDown' <=> ShuttingDown
    BY <2>1 DEF ShuttingDown
  <2> QED BY <2>1, <2>4, <2>6, <2>7, <2>8 DEF OnlyTheUnwanted
<1>4. ASSUME NEW c \in Clients, AdmitJoin(c) PROVE OnlyTheUnwanted'
  <2>0. PICK h, k : h = client[c].h /\ k = client[c].key
    OBVIOUS
  <2>1. PICK o \in Attachable(k) :
            /\ op' = [op EXCEPT ![o].interests = @ \cup {h}]
            /\ IF op[o].state = "Created" THEN Goto(c, "wait")
               ELSE client' = [client EXCEPT ![c] = At("commit", h, k, client[c].cb, op[o].state)]
    BY <1>4, <2>0 DEF AdmitJoin
  <2>2. ~ShuttingDown /\ UNCHANGED <<shutdown, worker>> /\ o \in table /\ o \in Handles
    BY <1>1, <1>4, <2>0 DEF AdmitJoin, workVars, Attachable
  <2>3. ~op[o].cancel /\ op[o].state # "Cancelled"
    BY <2>2 DEF OnlyTheUnwanted, RetentionInv, TableIsWanted
  <2>4. \A p \in Handles : /\ op'[p].cancel = op[p].cancel /\ op'[p].state = op[p].state
                           /\ p # o => op'[p] = op[p]
    <3>1. op[o] \in Operations /\ op'[o] = [op[o] EXCEPT !.interests = @ \cup {h}]
      BY <1>1, <2>1, <2>2
    <3>2. op'[o].cancel = op[o].cancel /\ op'[o].state = op[o].state
      BY <3>1 DEF Operations
    <3> QED BY <1>1, <2>1, <2>2, <3>2
  <2>5. \A d \in Clients : client'[d].pc = "commit" /\ client'[d].res = "Cancelled" => client'[d] = client[d]
    <3>1. CASE op[o].state = "Created"
      BY <1>1, <2>1, <3>1, MovesOn
    <3>2. CASE op[o].state # "Created"
      BY <1>1, <2>1, <2>3, <3>2, MovesOn DEF At
    <3> QED BY <3>1, <3>2
  <2>6. ShuttingDown' <=> ShuttingDown
    BY <2>2 DEF ShuttingDown
  <2>7. \A w \in Workers : worker[w].pc = "loaded" => worker[w].op \in Handles
    BY DEF TypeInv, WorkerHandles
  <2> QED BY <2>2, <2>3, <2>4, <2>5, <2>6, <2>7 DEF OnlyTheUnwanted
<1>5. ASSUME NEW c \in Clients, Request(c) PROVE OnlyTheUnwanted'
  <2>0. CASE ~AdmitCreate(c) /\ ~AdmitJoin(c)
    <3>1. \A d \in Clients \ {c} : client'[d] = client[d]
      BY <1>1, <1>5, <2>0, MovesOn DEF Request, Reserve, Allocate, Unreserve, AdmitRejected,
         AdmitHit, Wait, CommitJoined, Complete, Submit, Rollback, Unslot, AcquireExternal, Return
    <3>2. client'[c].pc # "commit"
      <4>2. CASE Return(c)
        BY <1>1, <4>2, MovesOn DEF Return, IdleClient
      <4>3. CASE \E pc \in ClientPcs \ {"commit"} : Goto(c, pc)
        BY <1>1, <4>3, MovesOn
      <4>4. CASE Allocate(c) \/ AdmitHit(c)
        <5>1. CASE AdmitHit(c)
          BY <1>1, <5>1, MovesOn DEF AdmitHit, At
        <5>2. CASE Allocate(c)
          <6>1. \/ Return(c) \/ Goto(c, "unreserve")
                \/ \E r : client' = [client EXCEPT ![c] = At("admit", r, client[c].key, client[c].cb, "Cancelled")]
            BY <5>2 DEF Allocate
          <6>2. "unreserve" \in ClientPcs \ {"commit"}
            BY DEF ClientPcs
          <6> QED BY <1>1, <4>2, <4>3, <6>1, <6>2, MovesOn DEF At
        <5> QED BY <4>4, <5>1, <5>2
      <4>5. CASE \/ Reserve(c) \/ Unreserve(c) \/ AdmitRejected(c) \/ Wait(c) \/ CommitJoined(c)
                 \/ Complete(c) \/ Submit(c) \/ Rollback(c) \/ Unslot(c) \/ AcquireExternal(c)
        <5>1. Return(c) \/ \E pc \in ClientPcs \ {"commit"} : Goto(c, pc)
          BY <4>5 DEF Reserve, Unreserve, AdmitRejected, Wait, CommitJoined, Complete, Submit,
             Rollback, Unslot, AcquireExternal, ClientPcs, Admitting
        <5> QED BY <4>2, <4>3, <5>1
      <4> QED BY <1>5, <2>0, <4>4, <4>5 DEF Request
    <3>3. UNCHANGED <<shutdown, worker>>
      BY <1>5, <2>0 DEF Request, Reserve, Allocate, Unreserve, AdmitRejected,
         AdmitHit, Wait, CommitJoined, Complete, Submit, Rollback, Unslot, AcquireExternal, workVars
    <3>4. CASE Rollback(c)
      <4>1. PICK h : h = client[c].h
        OBVIOUS
      <4>2. h \in Handles /\ op' = DetachedOp(h, h)
        BY <3>4, <4>1, HandleNumbers DEF Rollback, Admitting
      <4> QED BY <3>1, <3>2, <3>3, <4>2, DetachUnwanted
    <3>5. CASE ~Rollback(c)
      <4>1. UNCHANGED op
        BY <1>5, <2>0, <3>5 DEF Request, Reserve, Allocate, Unreserve, AdmitRejected,
           AdmitHit, Wait, CommitJoined, Complete, Submit, Unslot, AcquireExternal, managerVars
      <4> QED BY <3>1, <3>2, <3>3, <4>1, QuietUnwanted DEF ShuttingDown
    <3> QED BY <3>4, <3>5
  <2> QED BY <1>3, <1>4, <2>0
<1>6. ASSUME NEW w \in Workers, Work(w) PROVE OnlyTheUnwanted'
  <2>1. UNCHANGED <<client, shutdown>> /\ (ShuttingDown => ShuttingDown')
    BY <1>6 DEF Work, Take, Exit, BeginLoad, FinishLoad, CommitLoad, Notify, ShuttingDown
  <2>2. CASE FinishLoad(w)
    <3>1. PICK res \in {"Ready", "Failed"} \cup (IF op[worker[w].op].cancel THEN {"Cancelled"} ELSE {}) :
            worker' = [worker EXCEPT ![w] = Busy("loaded", worker[w].op, res, {})]
      BY <2>2 DEF FinishLoad
    <3>2. UNCHANGED op /\ worker[w].pc = "loading"
      BY <2>2 DEF FinishLoad, managerVars
    <3>3. worker[w].op \in Handles
      BY <3>2 DEF TypeInv, WorkerHandles
    <3>4. /\ worker'[w].pc = "loaded" /\ worker'[w].op = worker[w].op /\ worker'[w].res = res
          /\ \A v \in Workers \ {w} : worker'[v] = worker[v]
      BY <1>1, <3>1 DEF Busy
    <3> QED BY <2>1, <3>1, <3>2, <3>3, <3>4, UnwantedStay DEF TypeInv, WorkerHandles
  <2>3. CASE CommitLoad(w)
    <3>1. /\ op' = [op EXCEPT ![worker[w].op].state = CommittedState(w)]
          /\ worker[w].pc = "loaded" /\ worker[w].op \in Handles
      BY <2>3 DEF CommitLoad, TypeInv, WorkerHandles
    <3>2. CommittedState(w) = "Cancelled" => op[worker[w].op].cancel
      BY <3>1 DEF CommittedState, OnlyTheUnwanted
    <3>3. ASSUME NEW o \in Handles
          PROVE  /\ op'[o].interests = op[o].interests /\ op'[o].cancel = op[o].cancel
                 /\ op'[o].state = "Cancelled" => op[o].state = "Cancelled" \/ op[o].cancel
      <4>1. op[o] \in Operations
            /\ op'[o] = IF o = worker[w].op THEN [op[o] EXCEPT !.state = CommittedState(w)] ELSE op[o]
        BY <1>1, <3>1
      <4> QED BY <3>2, <4>1 DEF Operations
    <3>4. \A v \in Workers : worker'[v].pc = "loaded" => worker'[v] = worker[v]
      BY <1>1, <2>3 DEF CommitLoad, Busy, IdleWorker
    <3> QED BY <2>1, <3>3, <3>4, UnwantedStay DEF TypeInv, WorkerHandles
  <2>4. CASE Take(w) \/ Exit(w) \/ BeginLoad(w) \/ Notify(w)
    <3>1. UNCHANGED op
      BY <2>4 DEF Take, Exit, BeginLoad, Notify, managerVars
    <3>2. \A v \in Workers \ {w} : worker'[v] = worker[v]
      BY <1>1, <2>4 DEF Take, Exit, BeginLoad, Notify
    <3>3. worker'[w].pc # "loaded"
      <4>1. CASE Take(w)
        BY <1>1, <4>1 DEF Take, Busy
      <4>2. CASE Exit(w) \/ BeginLoad(w)
        BY <1>1, <4>2 DEF Exit, BeginLoad, WorkerRecords
      <4>3. CASE Notify(w)
        <5>1. PICK h : worker' = [worker EXCEPT ![w] =
                IF @.pending = {h} THEN IdleWorker
                ELSE Busy("notify", @.op, @.res, @.pending \ {h})]
          BY <4>3 DEF Notify
        <5>2. worker'[w] = IF worker[w].pending = {h} THEN IdleWorker
                ELSE Busy("notify", worker[w].op, worker[w].res, worker[w].pending \ {h})
          BY <1>1, <5>1
        <5> QED BY <5>2 DEF IdleWorker, Busy
      <4> QED BY <2>4, <4>1, <4>2, <4>3
    <3> QED BY <2>1, <3>1, <3>2, <3>3, QuietUnwanted
  <2> QED BY <1>6, <2>2, <2>3, <2>4 DEF Work
<1>7. CASE (\E k \in Keys : DropHandle(k)) \/ Pump \/ UNCHANGED vars
  <2>1. UNCHANGED <<op, worker, client, shutdown>>
    BY <1>7 DEF DropHandle, Pump, PumpTake, PumpCall, PumpEnd, managerVars, workVars, vars
  <2> QED BY <2>1, QuietUnwanted DEF ShuttingDown
<1>8. CASE Shutdown
  <2>1. UNCHANGED <<worker, client>> /\ ShuttingDown'
    BY <1>8 DEF Shutdown, BeginShutdown, RequestStop, Join, ClearControls, DropOwnership, workVars,
       ShuttingDown
  <2>2. CASE BeginShutdown
    <3>1. ASSUME NEW o \in Handles
          PROVE  /\ op[o].cancel => op'[o].cancel
                 /\ op'[o].state = op[o].state
      <4>1. op[o] \in Operations /\ (op'[o] = op[o] \/ op'[o] = [op[o] EXCEPT !.cancel = TRUE])
        BY <1>1, <2>2 DEF BeginShutdown
      <4> QED BY <4>1 DEF Operations
    <3> QED BY <2>1, <3>1, UnwantedStay DEF TypeInv, WorkerHandles
  <2>3. CASE ~BeginShutdown
    <3>1. UNCHANGED op
      BY <1>8, <2>3 DEF Shutdown, RequestStop, Join, ClearControls, DropOwnership, managerVars
    <3> QED BY <2>1, <3>1, QuietUnwanted
  <2> QED BY <2>2, <2>3
<1> QED BY <1>2, <1>5, <1>6, <1>7, <1>8 DEF Next, Quiescent

\* The step that cancels a request, as CancelledOnlyByItself says it.
CancelledAlone ==
    \A h \in Handles :
        (/\ CanCommit(slot, h) /\ IsLive(slot', h) /\ slot'[h[1]].state = "Cancelled")
            => \/ ShuttingDown
               \/ \E c \in Clients : client'[c].pc = "cancelled" /\ client'[c].h = h
                                     /\ client[c].pc = "idle"

LEMMA CancelsAlone == TypeInv /\ RetentionInv /\ OnlyTheUnwanted /\ [Next]_vars => CancelledAlone
<1> SUFFICES ASSUME TypeInv, RetentionInv, OnlyTheUnwanted, [Next]_vars, ~ShuttingDown,
                    NEW h \in Handles, CanCommit(slot, h), IsLive(slot', h),
                    slot'[h[1]].state = "Cancelled"
             PROVE  \E c \in Clients : client'[c].pc = "cancelled" /\ client'[c].h = h
                                       /\ client[c].pc = "idle"
  BY DEF CancelledAlone
<1>1. /\ client \in [Clients -> ClientRecords] /\ slot \in [Slots -> SlotRecords] /\ TypeOK
      /\ worker \in [Workers -> WorkerRecords]
  BY DEF TypeInv, TypeOK
<1>2. /\ IsLive(slot, h) /\ slot[h[1]].state \notin TerminalStates
      /\ slot'[h[1]].state # slot[h[1]].state /\ h[1] \in Slots
  BY HandlePairs DEF CanCommit, TerminalStates
<1>3. ASSUME NEW g \in Handles, NEW state \in TerminalStates, slot' = Committed(slot, {g}, state)
      PROVE  g = h /\ state = "Cancelled"
  BY <1>1, <1>2, <1>3, CommittedOneEffect
<1>4. ASSUME NEW g \in Handles, NEW n, slot' = Sequenced(slot, g, n) PROVE FALSE
  BY <1>1, <1>2, <1>4, SequencedEffect
<1>5. ASSUME NEW g \in Handles, slot' = Released(slot, g) PROVE FALSE
  BY <1>1, <1>2, <1>5, ReleasedEffect
<1>6. ASSUME NEW c \in Clients, NEW g \in Handles, Cancel(c, g)
      PROVE  client'[c].pc = "cancelled" /\ client'[c].h = h /\ client[c].pc = "idle"
  <2>1. slot' = Committed(slot, {g}, "Cancelled") /\ client[c].pc = "idle"
    BY <1>6 DEF Cancel
  <2>2. g = h
    BY <1>3, <2>1 DEF TerminalStates
  <2>3. client' = [client EXCEPT ![c] = At("cancelled", h, NoKey, FALSE, "Cancelled")]
    BY <1>6, <2>2 DEF Cancel
  <2> QED BY <1>1, <2>1, <2>3, MovesOn DEF At
<1>7. ASSUME NEW c \in Clients, Request(c) PROVE FALSE
  <2>1. CASE Allocate(c)
    <3>1. PICK s \in Slots : ~slot[s].occupied /\ slot' = [slot EXCEPT ![s] = Allocated(slot[s].gen + 1)]
      BY <1>2, <2>1 DEF Allocate, IsFirstFree
    <3> QED BY <1>1, <1>2, <3>1 DEF IsLive
  <2>2. CASE AdmitHit(c) \/ CommitJoined(c)
    <3>1. PICK g \in Handles, state \in TerminalStates :
            /\ slot' = Committed(slot, {g}, state) /\ state # "Cancelled"
      <4>1. client[c].h \in Handles
        BY <2>2, HandleNumbers DEF AdmitHit, CommitJoined, Admitting
      <4>2. CASE AdmitHit(c)
        BY <4>1, <4>2 DEF AdmitHit, TerminalStates
      <4>3. CASE CommitJoined(c)
        <5>1. client[c].res \in TerminalStates /\ client[c].res # "Cancelled"
          BY <1>1, <4>3 DEF ClientRecords, CommitJoined, OnlyTheUnwanted
        <5> QED BY <4>1, <4>3, <5>1 DEF CommitJoined
      <4> QED BY <2>2, <4>2, <4>3
    <3> QED BY <1>3, <3>1
  <2>3. CASE Wait(c)
    <3>1. PICK g \in Handles : slot' = Moved(slot, g, "Accepted", "Waiting")
      BY <2>3, HandleNumbers DEF Wait, Admitting
    <3> QED BY <1>1, <1>2, <3>1, MovedEffect
  <2>4. CASE Complete(c)
    <3>1. PICK g \in Handles : g = client[c].h
      BY <2>4, HandleNumbers DEF Complete, Admitting
    <3>2. slot' = slot \/ slot' = Sequenced(slot, g, nextSequence)
      BY <2>4, <3>1 DEF Complete, CompleteRequest
    <3> QED BY <1>2, <1>4, <3>2
  <2>5. CASE AdmitRejected(c) \/ Unslot(c)
    <3>1. PICK g : g = client[c].h /\ g \in Handles \cup {NoHandle}
      BY HandleNumbers
    <3>2. slot' = Released(slot, g)
      BY <2>5, <3>1 DEF AdmitRejected, Unslot
    <3>3. g = NoHandle => slot' = slot
      BY <3>2 DEF Released, IsLive
    <3> QED BY <1>2, <1>5, <3>1, <3>2, <3>3
  <2>6. CASE \/ Reserve(c) \/ Unreserve(c) \/ AdmitCreate(c) \/ AdmitJoin(c) \/ Submit(c)
             \/ Rollback(c) \/ AcquireExternal(c)
    BY <1>2, <2>6 DEF Reserve, Unreserve, AdmitCreate, AdmitJoin, Submit, Rollback,
       AcquireExternal, managerVars
  <2> QED BY <1>7, <2>1, <2>2, <2>3, <2>4, <2>5, <2>6 DEF Request
<1>8. ASSUME NEW w \in Workers, Work(w) PROVE FALSE
  <2>1. CASE BeginLoad(w)
    <3>1. slot'[h[1]] = slot[h[1]] \/ slot'[h[1]] = [slot[h[1]] EXCEPT !.state = "Loading"]
      BY <1>2, <2>1 DEF BeginLoad
    <3>2. slot[h[1]] \in SlotRecords
      BY <1>1, <1>2
    <3> QED BY <1>2, <3>1, <3>2 DEF SlotRecords
  <2>2. CASE CommitLoad(w)
    <3>1. PICK o, state, H : /\ o = worker[w].op /\ state = CommittedState(w)
                             /\ H = op[o].interests
      OBVIOUS
    <3>2. slot' = Committed(slot, H, state) /\ o \in Handles /\ H \in SUBSET Handles
      BY <2>2, <3>1, HandleNumbers DEF CommitLoad, TypeInv, WorkerHandles
    <3>3. h \in H /\ state = "Cancelled"
      BY <1>1, <1>2, <3>2, CommittedEffect
    <3>4. op[o].cancel
      BY <2>2, <3>1, <3>3 DEF CommitLoad, CommittedState, OnlyTheUnwanted
    <3> QED BY <3>1, <3>2, <3>3, <3>4 DEF OnlyTheUnwanted
  <2>3. CASE Notify(w)
    <3>1. PICK g \in worker[w].pending : CompleteRequest(g, worker[w].res)
      BY <2>3 DEF Notify
    <3>2. g \in Handles
      BY <1>1, <3>1 DEF WorkerRecords
    <3>3. slot' = slot \/ slot' = Sequenced(slot, g, nextSequence)
      BY <3>1 DEF CompleteRequest
    <3> QED BY <1>2, <1>4, <3>2, <3>3
  <2>4. CASE Take(w) \/ Exit(w) \/ FinishLoad(w)
    BY <1>2, <2>4 DEF Take, Exit, FinishLoad, managerVars
  <2> QED BY <1>8, <2>1, <2>2, <2>3, <2>4 DEF Work
<1>9. ASSUME NEW c \in Clients, Call(c), \A g \in Handles : ~Cancel(c, g) PROVE FALSE
  BY <1>2, <1>9 DEF Call, StartRequest, ReleaseRequest, FindResult, managerVars
<1>10. ASSUME (\E k \in Keys : DropHandle(k)) \/ Pump \/ Shutdown \/ UNCHANGED vars PROVE FALSE
  BY <1>2, <1>10 DEF DropHandle, Pump, PumpTake, PumpCall, PumpEnd, Shutdown, BeginShutdown,
     RequestStop, Join, ClearControls, DropOwnership, managerVars, vars
<1> QED BY <1>6, <1>7, <1>8, <1>9, <1>10 DEF Next, Quiescent

LEMMA UnwantedInit == Init => OnlyTheUnwanted
BY DEF Init, OnlyTheUnwanted, ShuttingDown, NoOperation, IdleWorker, Busy, IdleClient

\* A request is cancelled by a Cancel of its own handle or by Shutdown, never by the
\* cancellation of another request that shares its load.
THEOREM NobodyElseCancels == Spec => CancelledOnlyByItself
<1>1. Init => TypeInv /\ RetentionInv /\ OnlyTheUnwanted
  BY InitTypes, RetentionInit, UnwantedInit
<1>2. TypeInv /\ RetentionInv /\ OnlyTheUnwanted /\ [Next]_vars
        => (TypeInv /\ RetentionInv /\ OnlyTheUnwanted)'
  BY TypesPreserved, RetentionPreserved, UnwantedPreserved
<1>3. TypeInv /\ RetentionInv /\ OnlyTheUnwanted /\ [Next]_vars => [CancelledAlone]_vars
  BY CancelsAlone
<1> QED BY <1>1, <1>2, <1>3, PTL DEF Spec, CancelledOnlyByItself, CancelledAlone

-----------------------------------------------------------------------------
(* The life of a handle.                                                   *)

LifeKept == \A g \in Handles : RequestOf(g)' = RequestOf(g)

\* A request that is pending becomes terminal, if it is one of H.
LifeSettles(H, state) ==
    \A g \in Handles : RequestOf(g)' = IF g \in H /\ RequestOf(g) = "Pending"
                                       THEN state ELSE RequestOf(g)

LifeBegins(h) ==
    /\ RequestOf(h) = "Unused" /\ RequestOf(h)' = "Pending"
    /\ \A g \in Handles \ {h} : RequestOf(g)' = RequestOf(g)

LifeEnds(h) ==
    \A g \in Handles : RequestOf(g)' = IF g = h /\ RequestOf(g) # "Unused" THEN "Gone" ELSE RequestOf(g)

\* Every step does one of these to the lives of the handles.
LifeMoves ==
    \/ LifeKept
    \/ \E c \in Clients, H \in SUBSET Handles, state \in TerminalStates :
            /\ H = {client[c].h} /\ client[c].pc \in {"admit", "commit"}
            /\ client'[c].pc = "complete" /\ LifeSettles(H, state)
    \/ \E h \in Handles, H \in SUBSET Handles :
            H = {h} /\ IsKnown(h) /\ LifeSettles(H, "Cancelled")
    \/ \E w \in Workers : /\ CommitLoad(w) /\ CommittedState(w) \in TerminalStates
                          /\ LifeSettles(op[worker[w].op].interests, CommittedState(w))
    \/ \E c \in Clients : /\ client[c].pc \in {"admit", "discard", "unslot"}
                          /\ client[c].h \in Handles /\ LifeEnds(client[c].h)
    \/ \E h \in Handles : LifeBegins(h)

LEMMA LifeValues ==
    ASSUME NEW h \in Handles
    PROVE  /\ RequestOf(h) \in {"Unused", "Pending", "Gone"} \cup TerminalStates
           /\ RequestOf(h) = "Pending" <=> CanCommit(slot, h)
           /\ IsLive(slot, h) /\ slot[h[1]].state \in TerminalStates => RequestOf(h) = slot[h[1]].state
BY DEF RequestOf, CanCommit, TerminalStates

LEMMA KeptLife ==
    ASSUME \A g \in Handles : /\ slot'[g[1]].gen = slot[g[1]].gen
                              /\ IsLive(slot', g) <=> IsLive(slot, g)
                              /\ IsLive(slot, g) =>
                                    \/ slot'[g[1]].state = slot[g[1]].state
                                    \/ /\ slot'[g[1]].state \notin TerminalStates
                                       /\ slot[g[1]].state \notin TerminalStates
    PROVE  LifeKept
BY DEF LifeKept, RequestOf

LEMMA SettledLife ==
    ASSUME slot \in [Slots -> SlotRecords], NEW H \in SUBSET Handles, NEW state \in TerminalStates,
           slot' = Committed(slot, H, state)
    PROVE  LifeSettles(H, state)
<1> SUFFICES ASSUME NEW g \in Handles
             PROVE  RequestOf(g)' = IF g \in H /\ RequestOf(g) = "Pending"
                                    THEN state ELSE RequestOf(g)
  BY DEF LifeSettles
<1>1. /\ slot'[g[1]].gen = slot[g[1]].gen /\ (IsLive(slot', g) <=> IsLive(slot, g))
      /\ IsLive(slot, g) => slot'[g[1]].state =
            IF g \in H /\ slot[g[1]].state \notin TerminalStates THEN state ELSE slot[g[1]].state
  BY CommittedEffect
<1>2. RequestOf(g) = "Pending" <=> CanCommit(slot, g)
  BY LifeValues
<1> QED BY <1>1, <1>2 DEF RequestOf, CanCommit

LEMMA EndedLife ==
    ASSUME TypeInv, NEW h \in Handles, slot' = Released(slot, h)
    PROVE  LifeEnds(h)
<1>1. slot \in [Slots -> SlotRecords]
  BY DEF TypeInv, TypeOK
<1>2. \A g \in Handles : /\ slot'[g[1]].gen = slot[g[1]].gen
                         /\ IsLive(slot', g) <=> IsLive(slot, g) /\ g # h
                         /\ IsLive(slot', g) => slot'[g[1]].state = slot[g[1]].state
  BY <1>1, ReleasedEffect
<1>3. \A g \in Handles \ {h} : RequestOf(g)' = RequestOf(g)
  BY <1>2 DEF RequestOf
<1>4. RequestOf(h)' = IF RequestOf(h) # "Unused" THEN "Gone" ELSE RequestOf(h)
  <2>1. IsLive(slot, h) => h[2] <= slot[h[1]].gen
    BY HandleNumbers DEF IsLive
  <2> QED BY <1>2, <2>1 DEF RequestOf, TerminalStates
<1> QED BY <1>3, <1>4 DEF LifeEnds

LEMMA BegunLife ==
    ASSUME TypeInv, NEW s \in Slots, IsFirstFree(slot, s),
           slot' = [slot EXCEPT ![s] = Allocated(slot[s].gen + 1)]
    PROVE  \E h \in Handles : h = <<s, slot[s].gen + 1>> /\ LifeBegins(h)
<1>1. slot \in [Slots -> SlotRecords] /\ slot[s].gen \in Nat
  BY HandleAssumption DEF TypeInv, TypeOK, SlotRecords
<1>2. PICK h \in Handles : h = <<s, slot[s].gen + 1>> /\ h[1] = s /\ h[2] = slot[s].gen + 1
  <2>1. slot[s].gen < MaxGeneration /\ slot[s].gen + 1 \in 1..MaxGeneration
    BY <1>1, HandleAssumption DEF IsFirstFree
  <2>2. <<s, slot[s].gen + 1>> \in Handles
    BY <2>1 DEF Handles
  <2> QED BY <2>2
<1>3. /\ slot'[s].gen = slot[s].gen + 1 /\ slot'[s].occupied /\ slot'[s].state = "Accepted"
      /\ \A t \in Slots \ {s} : slot'[t] = slot[t]
  BY <1>1 DEF Allocated
<1>4. ~slot[s].occupied
  BY DEF IsFirstFree
<1>5. ~IsLive(slot, h) /\ IsLive(slot', h) /\ slot'[h[1]].state = "Accepted" /\ ~(h[2] <= slot[h[1]].gen)
  BY <1>1, <1>2, <1>3, <1>4, HandlePairs DEF IsLive
<1>6. RequestOf(h) = "Unused" /\ RequestOf(h)' = "Pending"
  BY <1>5 DEF RequestOf, TerminalStates
<1>7. ASSUME NEW g \in Handles \ {h} PROVE RequestOf(g)' = RequestOf(g)
  <2>1. CASE g[1] = s
    <3>1. g[2] # slot[s].gen + 1 /\ g[2] \in Nat
      BY <1>2, <2>1, HandlePairs, HandleNumbers
    <3>2. ~IsLive(slot, g) /\ ~IsLive(slot', g)
      BY <1>3, <1>4, <2>1, <3>1 DEF IsLive
    <3>3. g[2] <= slot[s].gen <=> g[2] <= slot'[s].gen
      BY <1>1, <1>3, <3>1
    <3> QED BY <2>1, <3>2, <3>3 DEF RequestOf
  <2>2. CASE g[1] # s
    <3>1. slot'[g[1]] = slot[g[1]]
      BY <1>3, <2>2, HandlePairs
    <3> QED BY <3>1 DEF RequestOf, IsLive
  <2> QED BY <2>1, <2>2
<1> QED BY <1>2, <1>6, <1>7 DEF LifeBegins

LEMMA NoNames == ASSUME TypeInv, slot' = Released(slot, NoHandle) PROVE LifeKept
BY DEF Released, IsLive, LifeKept, RequestOf

LEMMA CallMoves == ASSUME TypeInv, NEW c \in Clients, Call(c) PROVE LifeMoves
<1>1. slot \in [Slots -> SlotRecords]
  BY DEF TypeInv, TypeOK
<1>2. CASE UNCHANGED slot
  BY <1>2 DEF LifeMoves, LifeKept, RequestOf
<1>3. ASSUME NEW h \in Handles, Cancel(c, h) PROVE LifeMoves
  <2> DEFINE H == {h}
  <2>1. H \in SUBSET Handles /\ slot' = Committed(slot, H, "Cancelled") /\ IsKnown(h)
    BY <1>3 DEF Cancel
  <2>2. H = {h}
    OBVIOUS
  <2> HIDE DEF H
  <2>3. LifeSettles(H, "Cancelled")
    BY <1>1, <2>1, SettledLife DEF TerminalStates
  <2> QED BY <2>1, <2>2, <2>3 DEF LifeMoves
<1> QED BY <1>2, <1>3 DEF Call, StartRequest, ReleaseRequest, FindResult, managerVars

LEMMA RequestMoves == ASSUME TypeInv, NEW c \in Clients, Request(c) PROVE LifeMoves
<1>1. slot \in [Slots -> SlotRecords] /\ client \in [Clients -> ClientRecords]
  BY DEF TypeInv, TypeOK
<1>2. CASE UNCHANGED slot
  BY <1>2 DEF LifeMoves, LifeKept, RequestOf
<1>3. CASE Allocate(c)
  <2>1. CASE \E s \in Slots : IsFirstFree(slot, s) /\ slot' = [slot EXCEPT ![s] = Allocated(slot[s].gen + 1)]
    BY <2>1, BegunLife DEF LifeMoves
  <2> QED BY <1>2, <1>3, <2>1 DEF Allocate
<1>4. CASE AdmitHit(c) \/ CommitJoined(c)
  <2> DEFINE H == {client[c].h}
  <2>1. client[c].pc \in {"admit", "commit"} /\ client[c].h \in Handles
    BY <1>4, HandleNumbers DEF AdmitHit, CommitJoined, Admitting
  <2>2. PICK state \in TerminalStates : slot' = Committed(slot, H, state)
    <3>1. client[c].res \in TerminalStates
      BY <1>1 DEF ClientRecords
    <3>2. CASE AdmitHit(c)
      BY <3>2 DEF AdmitHit, TerminalStates
    <3>3. CASE CommitJoined(c)
      BY <3>1, <3>3 DEF CommitJoined
    <3> QED BY <1>4, <3>2, <3>3
  <2>3. H \in SUBSET Handles /\ H = {client[c].h}
    BY <2>1
  <2>5. client'[c].pc = "complete"
    <3>1. CASE AdmitHit(c)
      BY <1>1, <3>1, MovesOn DEF AdmitHit, At
    <3>2. CASE CommitJoined(c)
      BY <1>1, <3>2, MovesOn DEF CommitJoined
    <3> QED BY <1>4, <3>1, <3>2
  <2> HIDE DEF H
  <2>4. LifeSettles(H, state)
    BY <1>1, <2>2, <2>3, SettledLife
  <2> QED BY <2>1, <2>3, <2>4, <2>5 DEF LifeMoves
<1>5. CASE Wait(c)
  <2>1. PICK h \in Handles : slot' = Moved(slot, h, "Accepted", "Waiting")
    BY <1>5, HandleNumbers DEF Wait, Admitting
  <2> QED BY <1>1, <2>1, MovedEffect, KeptLife DEF LifeMoves, TerminalStates
<1>6. CASE Complete(c)
  <2>1. PICK h \in Handles : h = client[c].h
    BY <1>6, HandleNumbers DEF Complete, Admitting
  <2>2. slot' = slot \/ slot' = Sequenced(slot, h, nextSequence)
    BY <1>6, <2>1 DEF Complete, CompleteRequest
  <2> QED BY <1>1, <1>2, <2>2, SequencedEffect, KeptLife DEF LifeMoves
<1>7. CASE AdmitRejected(c) \/ Unslot(c)
  <2>1. PICK h : h = client[c].h
    OBVIOUS
  <2>2. slot' = Released(slot, h) /\ client[c].pc \in {"admit", "discard", "unslot"}
        /\ h \in Handles \cup {NoHandle}
    BY <1>7, <2>1, HandleNumbers DEF AdmitRejected, Unslot
  <2>3. CASE h \in Handles
    BY <2>1, <2>2, <2>3, EndedLife DEF LifeMoves
  <2>4. CASE h = NoHandle
    BY <2>2, <2>4, NoNames DEF LifeMoves
  <2> QED BY <2>2, <2>3, <2>4
<1>8. CASE \/ Reserve(c) \/ Unreserve(c) \/ AdmitCreate(c) \/ AdmitJoin(c) \/ Submit(c)
           \/ Rollback(c) \/ AcquireExternal(c)
  BY <1>2, <1>8 DEF Reserve, Unreserve, AdmitCreate, AdmitJoin, Submit, Rollback, AcquireExternal,
     managerVars
<1> QED BY <1>3, <1>4, <1>5, <1>6, <1>7, <1>8 DEF Request

LEMMA WorkMoves == ASSUME TypeInv, NEW w \in Workers, Work(w) PROVE LifeMoves
<1>1. slot \in [Slots -> SlotRecords] /\ worker \in [Workers -> WorkerRecords]
  BY DEF TypeInv, TypeOK
<1>2. CASE BeginLoad(w)
  <2>1. ASSUME NEW g \in Handles
        PROVE  /\ slot'[g[1]].gen = slot[g[1]].gen
               /\ IsLive(slot', g) <=> IsLive(slot, g)
               /\ \/ slot'[g[1]].state = slot[g[1]].state
                  \/ slot'[g[1]].state \notin TerminalStates /\ slot[g[1]].state \notin TerminalStates
    <3>1. g[1] \in Slots /\ slot[g[1]] \in SlotRecords
      BY <1>1, HandlePairs
    <3>2. slot'[g[1]] = slot[g[1]]
          \/ (slot[g[1]].state = "Waiting" /\ slot'[g[1]] = [slot[g[1]] EXCEPT !.state = "Loading"])
      BY <1>2, <3>1 DEF BeginLoad
    <3>3. slot'[g[1]].gen = slot[g[1]].gen /\ slot'[g[1]].occupied = slot[g[1]].occupied
          /\ \/ slot'[g[1]].state = slot[g[1]].state
             \/ slot[g[1]].state = "Waiting" /\ slot'[g[1]].state = "Loading"
      BY <3>1, <3>2 DEF SlotRecords
    <3> QED BY <3>3 DEF IsLive, TerminalStates
  <2> QED BY <2>1, KeptLife DEF LifeMoves
<1>3. CASE CommitLoad(w)
  <2>1. PICK H, state : H = op[worker[w].op].interests /\ state = CommittedState(w)
    OBVIOUS
  <2>2. slot' = Committed(slot, H, state) /\ H \in SUBSET Handles /\ state \in TerminalStates
    BY <1>1, <1>3, <2>1, HandleNumbers DEF CommitLoad, TypeInv, WorkerHandles, CommittedState,
       WorkerRecords, TerminalStates
  <2>3. LifeSettles(H, state)
    BY <1>1, <2>2, SettledLife
  <2> QED BY <1>3, <2>1, <2>2, <2>3 DEF LifeMoves
<1>4. CASE Notify(w)
  <2>1. PICK h \in worker[w].pending : CompleteRequest(h, worker[w].res)
    BY <1>4 DEF Notify
  <2>2. h \in Handles /\ (slot' = slot \/ slot' = Sequenced(slot, h, nextSequence))
    BY <1>1, <2>1 DEF WorkerRecords, CompleteRequest
  <2>3. CASE slot' = slot
    BY <2>3 DEF LifeMoves, LifeKept, RequestOf
  <2> QED BY <1>1, <2>2, <2>3, SequencedEffect, KeptLife DEF LifeMoves
<1>5. CASE Take(w) \/ Exit(w) \/ FinishLoad(w)
  BY <1>5 DEF Take, Exit, FinishLoad, managerVars, LifeMoves, LifeKept, RequestOf
<1> QED BY <1>2, <1>3, <1>4, <1>5 DEF Work

LEMMA EveryStepMoves == TypeInv /\ [Next]_vars => LifeMoves
<1> SUFFICES ASSUME TypeInv, [Next]_vars PROVE LifeMoves
  OBVIOUS
<1>1. CASE UNCHANGED slot
  BY <1>1 DEF LifeMoves, LifeKept, RequestOf
<1>2. CASE (\E k \in Keys : DropHandle(k)) \/ Pump \/ Shutdown \/ UNCHANGED vars
  BY <1>1, <1>2 DEF DropHandle, Pump, PumpTake, PumpCall, PumpEnd, Shutdown, BeginShutdown,
     RequestStop, Join, ClearControls, DropOwnership, managerVars, vars
<1> QED BY <1>2, CallMoves, RequestMoves, WorkMoves DEF Next, Quiescent

\* What has become terminal stays so, or is gone.
Settled(h, res) == RequestOf(h) \in {res, "Gone"}

LEMMA SettledStays ==
    ASSUME LifeMoves, NEW h \in Handles, NEW res \in TerminalStates, Settled(h, res)
    PROVE  Settled(h, res)'
<1>1. RequestOf(h) # "Pending" /\ RequestOf(h) # "Unused"
  BY DEF Settled, TerminalStates
<1>2. RequestOf(h)' \in {RequestOf(h), "Gone"}
  BY <1>1 DEF LifeMoves, LifeKept, LifeSettles, LifeBegins, LifeEnds
<1> QED BY <1>2 DEF Settled

-----------------------------------------------------------------------------
(* A callback is called once.                                              *)

\* No handle has two records, none has one left once it was called, and who waits for a
\* completion has none yet.
RecordsAreOnce ==
    /\ \A i, j \in 1..Len(completions) : completions[i].h = completions[j].h => i = j
    /\ \A i, j \in 1..Len(dispatch) : dispatch[i].h = dispatch[j].h => i = j
    /\ \A i \in 1..Len(dispatch), j \in 1..Len(completions) : dispatch[i].h # completions[j].h
    /\ \A i \in 1..Len(completions) : reported[completions[i].h] = "None"
    /\ \A i \in 1..Len(dispatch) : reported[dispatch[i].h] = "None"
    /\ \A h \in Handles : control[h].live /\ control[h].completion = "reserved" => h \notin Told

\* The records of a queue after a step, each from another one before.
ComesFrom(s, t, at) ==
    /\ \A j \in 1..Len(s) : at[j] \in 1..Len(t) /\ s[j] = t[at[j]]
    /\ \A j, k \in 1..Len(s) : at[j] = at[k] => j = k

LEMMA WithdrawnRecords ==
    ASSUME TypeOK, NEW h \in Handles, WithdrawCompletion(h)
    PROVE  \E at : ComesFrom(completions', completions, at)
<1>1. CASE completions' = completions
  <2> DEFINE at == [j \in 1..Len(completions) |-> j]
  <2>1. ComesFrom(completions', completions, at)
    BY <1>1 DEF ComesFrom
  <2> QED BY <2>1
<1>2. CASE completions' # completions
  <2>1. PICK i \in 1..Len(completions) :
            completions' = SubSeq(completions, 1, i - 1)
                             \o SubSeq(completions, i + 1, Len(completions))
    BY <1>2 DEF WithdrawCompletion
  <2>2. completions \in Seq(CompletionRecords) /\ Len(completions) \in Nat /\ i \in Nat
    BY DEF TypeOK
  <2> DEFINE front == SubSeq(completions, 1, i - 1)
             back == SubSeq(completions, i + 1, Len(completions))
  <2>3. /\ front \in Seq(CompletionRecords) /\ Len(front) = i - 1
        /\ \A j \in 1..(i - 1) : front[j] = completions[j]
    BY <2>2, SubSeqProperties
  <2>4. /\ back \in Seq(CompletionRecords) /\ Len(back) = Len(completions) - i
        /\ \A j \in 1..(Len(completions) - i) : back[j] = completions[i + j]
    BY <2>2, SubSeqProperties
  <2>5. completions' = front \o back
    BY <2>1
  <2> HIDE DEF front, back
  <2>6. /\ Len(completions') = Len(front) + Len(back)
        /\ \A j \in 1..(Len(front) + Len(back)) :
              completions'[j] = IF j <= Len(front) THEN front[j] ELSE back[j - Len(front)]
    BY <2>3, <2>4, <2>5, ConcatProperties
  <2>7. Len(completions') = Len(completions) - 1
    BY <2>2, <2>3, <2>4, <2>6
  <2> DEFINE at == [j \in 1..Len(completions') |-> IF j < i THEN j ELSE j + 1]
  <2>8. ASSUME NEW j \in 1..Len(completions')
        PROVE  at[j] \in 1..Len(completions) /\ completions'[j] = completions[at[j]]
    <3>1. CASE j < i
      <4>1. j \in 1..(i - 1) /\ j <= Len(front) /\ j \in 1..Len(completions)
        BY <2>2, <2>3, <2>7, <3>1
      <4> QED BY <2>3, <2>4, <2>6, <3>1, <4>1
    <3>2. CASE ~(j < i)
      <4>1. j - Len(front) \in 1..(Len(completions) - i) /\ ~(j <= Len(front))
            /\ j + 1 \in 1..Len(completions)
        BY <2>2, <2>3, <2>7, <3>2
      <4>2. i + (j - Len(front)) = j + 1
        BY <2>2, <2>3
      <4> QED BY <2>4, <2>6, <3>2, <4>1, <4>2
    <3> QED BY <3>1, <3>2
  <2>9. \A j, k \in 1..Len(completions') : at[j] = at[k] => j = k
    BY <2>2, <2>7
  <2> HIDE DEF at
  <2>10. ComesFrom(completions', completions, at)
    BY <2>8, <2>9 DEF ComesFrom
  <2> QED BY <2>10
<1> QED BY <1>1, <1>2

\* A record is appended for who waits for its completion, and nobody else's wait changes.
LEMMA CompletedRecords ==
    ASSUME TypeOK, NEW h \in Handles, NEW res \in TerminalStates, CompleteRequest(h, res)
    PROVE  \/ /\ completions' = completions
              /\ \A g \in Handles : control'[g].completion = "reserved" =>
                    control[g].live = control'[g].live /\ control[g].completion = "reserved"
           \/ /\ Len(completions') = Len(completions) + 1
              /\ \A j \in 1..Len(completions) : completions'[j] = completions[j]
              /\ completions'[Len(completions) + 1].h = h
              /\ completions'[Len(completions) + 1].res = res
              /\ control[h].live /\ control[h].completion = "reserved"
              /\ control'[h].completion = "queued"
              /\ \A g \in Handles \ {h} : control'[g] = control[g]
<1>1. completions \in Seq(CompletionRecords) /\ control \in [Handles -> Controls]
      /\ control[h] \in Controls
  BY DEF TypeOK
<1>2. CASE UNCHANGED <<completions, control>>
  BY <1>2
<1>3. CASE control' = [control EXCEPT ![h].completion = "none"] /\ completions' = completions
  <2>1. control'[h].completion = "none" /\ \A g \in Handles \ {h} : control'[g] = control[g]
    BY <1>1, <1>3 DEF Controls
  <2> QED BY <1>3, <2>1
<1>4. CASE /\ control[h].live /\ control[h].completion = "reserved"
           /\ control' = [control EXCEPT ![h].completion = "queued"]
           /\ completions' = Append(completions, [h |-> h, seq |-> nextSequence, res |-> res])
  <2>1. control'[h].completion = "queued" /\ \A g \in Handles \ {h} : control'[g] = control[g]
    BY <1>1, <1>4 DEF Controls
  <2> DEFINE r == [h |-> h, seq |-> nextSequence, res |-> res]
  <2>2. r.h = h /\ r.res = res
    OBVIOUS
  <2> HIDE DEF r
  <2>3. /\ Len(completions') = Len(completions) + 1
        /\ \A j \in 1..Len(completions) : completions'[j] = completions[j]
        /\ completions'[Len(completions) + 1] = r
    BY <1>1, <1>4 DEF r
  <2> QED BY <1>4, <2>1, <2>2, <2>3
<1> QED BY <1>2, <1>3, <1>4 DEF CompleteRequest

LEMMA CompleteOnce ==
    ASSUME TypeOK, RecordsAreOnce, NEW h \in Handles, NEW res \in TerminalStates,
           CompleteRequest(h, res), UNCHANGED <<dispatch, reported>>
    PROVE  RecordsAreOnce'
<1>1. Len(completions) \in Nat
  BY RecordTypes DEF TypeOK
<1>2. CASE /\ completions' = completions
           /\ \A g \in Handles : control'[g].completion = "reserved" =>
                    control[g].live = control'[g].live /\ control[g].completion = "reserved"
  <2>1. Told' = Told
    BY <1>2, SameTold
  <2> QED BY <1>2, <2>1 DEF RecordsAreOnce
<1>3. CASE /\ Len(completions') = Len(completions) + 1
           /\ \A j \in 1..Len(completions) : completions'[j] = completions[j]
           /\ completions'[Len(completions) + 1].h = h
           /\ completions'[Len(completions) + 1].res = res
           /\ control[h].live /\ control[h].completion = "reserved"
           /\ control'[h].completion = "queued"
           /\ \A g \in Handles \ {h} : control'[g] = control[g]
  <2>1. h \notin Told
    BY <1>3 DEF RecordsAreOnce
  <2>2. \A j \in 1..Len(completions') :
            \/ j \in 1..Len(completions) /\ completions'[j] = completions[j] /\ completions'[j].h # h
            \/ j = Len(completions) + 1 /\ completions'[j].h = h
    BY <1>1, <1>3, <2>1 DEF Told
  <2>3. \A g \in Told' : g \in Told \/ g = h
    BY <2>2 DEF Told
  <2>4. \A i \in 1..Len(dispatch) : dispatch[i].h # h
    BY <2>1 DEF Told
  <2>5. reported[h] = "None"
    BY <2>1 DEF Told
  <2>6. \A g \in Handles : control'[g].live /\ control'[g].completion = "reserved" => g \notin Told'
    BY <1>3, <2>3 DEF RecordsAreOnce
  <2>7. \A i, j \in 1..Len(completions') : completions'[i].h = completions'[j].h => i = j
    BY <2>2 DEF RecordsAreOnce
  <2>8. \A i \in 1..Len(dispatch), j \in 1..Len(completions') : dispatch[i].h # completions'[j].h
    BY <2>2, <2>4 DEF RecordsAreOnce
  <2>9. \A i \in 1..Len(completions') : reported[completions'[i].h] = "None"
    BY <2>2, <2>5 DEF RecordsAreOnce
  <2> QED BY <2>6, <2>7, <2>8, <2>9 DEF RecordsAreOnce
<1> QED BY <1>2, <1>3, CompletedRecords

\* Steps that record nothing, and let nobody wait who was told.
LEMMA QuietOnce ==
    ASSUME RecordsAreOnce, UNCHANGED <<dispatch, reported>>,
           NEW at, ComesFrom(completions', completions, at),
           \A h \in Handles : control'[h].live /\ control'[h].completion = "reserved" =>
                (control[h].live /\ control[h].completion = "reserved") \/ h \notin Told
    PROVE  RecordsAreOnce'
<1>1. \A j \in 1..Len(completions') : at[j] \in 1..Len(completions) /\ completions'[j] = completions[at[j]]
  BY DEF ComesFrom
<1>2. \A h \in Told' : h \in Told
  BY <1>1 DEF Told
<1>3. \A i, j \in 1..Len(completions') : completions'[i].h = completions'[j].h => i = j
  <2> SUFFICES ASSUME NEW i \in 1..Len(completions'), NEW j \in 1..Len(completions'),
                      completions'[i].h = completions'[j].h
               PROVE  i = j
    OBVIOUS
  <2>1. /\ at[i] \in 1..Len(completions) /\ at[j] \in 1..Len(completions)
        /\ completions[at[i]].h = completions[at[j]].h
    BY <1>1
  <2>2. at[i] = at[j]
    BY <2>1 DEF RecordsAreOnce
  <2> QED BY <2>2 DEF ComesFrom
<1>4. \A i \in 1..Len(completions') : reported[completions'[i].h] = "None"
  BY <1>1 DEF RecordsAreOnce
<1>5. \A i \in 1..Len(dispatch), j \in 1..Len(completions') : dispatch[i].h # completions'[j].h
  BY <1>1 DEF RecordsAreOnce
<1>6. \A h \in Handles : control'[h].live /\ control'[h].completion = "reserved" => h \notin Told'
  BY <1>2 DEF RecordsAreOnce
<1> QED BY <1>3, <1>4, <1>5, <1>6 DEF RecordsAreOnce

LEMMA UnchangedRecords == \E at : ComesFrom(completions, completions, at)
<1> DEFINE at == [j \in 1..Len(completions) |-> j]
<1>1. ComesFrom(completions, completions, at)
  BY DEF ComesFrom
<1> QED BY <1>1

LEMMA SilentOnce ==
    ASSUME RecordsAreOnce, UNCHANGED <<completions, dispatch, reported>>,
           \A h \in Handles : control'[h].live /\ control'[h].completion = "reserved" =>
                (control[h].live /\ control[h].completion = "reserved") \/ h \notin Told
    PROVE  RecordsAreOnce'
<1>1. Told' = Told
  BY SameTold
<1> QED BY <1>1 DEF RecordsAreOnce

LEMMA PumpOnce == TypeOK /\ InSequence /\ RecordsAreOnce /\ Pump => RecordsAreOnce'
<1> SUFFICES ASSUME TypeOK, InSequence, RecordsAreOnce, Pump PROVE RecordsAreOnce'
  OBVIOUS
<1>1. /\ dispatch \in Seq(CompletionRecords) /\ completions \in Seq(CompletionRecords)
      /\ Len(dispatch) \in Nat /\ Len(completions) \in Nat
  BY DEF TypeOK
<1>2. CASE PumpTake
  <2>1. PICK n \in 1..Len(completions) :
            /\ dispatch' = SubSeq(completions, 1, n)
            /\ completions' = SubSeq(completions, n + 1, Len(completions))
    BY <1>2 DEF PumpTake
  <2>2. /\ Len(dispatch') = n /\ \A i \in 1..n : dispatch'[i] = completions[i]
        /\ Len(completions') = Len(completions) - n
        /\ \A j \in 1..(Len(completions) - n) : completions'[j] = completions[n + j]
    BY <1>1, <2>1
  <2>3. UNCHANGED <<reported, control>>
    BY <1>2 DEF PumpTake, managerVars
  <2>4. \A i \in 1..Len(dispatch') : i \in 1..Len(completions) /\ dispatch'[i] = completions[i]
    BY <1>1, <2>2
  <2>5. \A j \in 1..Len(completions') :
            n + j \in 1..Len(completions) /\ completions'[j] = completions[n + j]
    BY <1>1, <2>2
  <2>6. \A h \in Told' : h \in Told
    BY <2>3, <2>4, <2>5 DEF Told
  <2>7. \A i, j \in 1..Len(completions') : completions'[i].h = completions'[j].h => i = j
    <3> TAKE i, j \in 1..Len(completions')
    <3>1. completions'[i].h = completions'[j].h => n + i = n + j
      BY <2>5 DEF RecordsAreOnce
    <3> QED BY <3>1, <2>2
  <2>8. \A i, j \in 1..Len(dispatch') : dispatch'[i].h = dispatch'[j].h => i = j
    BY <2>4 DEF RecordsAreOnce
  <2>9. \A i \in 1..Len(dispatch'), j \in 1..Len(completions') : dispatch'[i].h # completions'[j].h
    <3> TAKE i \in 1..Len(dispatch'), j \in 1..Len(completions')
    <3>1. i \in 1..n /\ j \in 1..(Len(completions) - n)
      BY <2>2
    <3>2. i # n + j
      BY <3>1
    <3>3. /\ i \in 1..Len(completions) /\ dispatch'[i] = completions[i]
          /\ n + j \in 1..Len(completions) /\ completions'[j] = completions[n + j]
      BY <2>4, <2>5
    <3>4. completions[i].h # completions[n + j].h
      BY <3>2, <3>3 DEF RecordsAreOnce
    <3> QED BY <3>3, <3>4
  <2>10. \A i \in 1..Len(completions') : reported'[completions'[i].h] = "None"
    <3> TAKE j \in 1..Len(completions')
    <3>1. n + j \in 1..Len(completions) /\ completions'[j] = completions[n + j]
      BY <2>5
    <3>2. reported[completions[n + j].h] = "None"
      BY <3>1 DEF RecordsAreOnce
    <3> QED BY <2>3, <3>1, <3>2
  <2>11. \A i \in 1..Len(dispatch') : reported'[dispatch'[i].h] = "None"
    BY <2>3, <2>4 DEF RecordsAreOnce
  <2> QED BY <2>11, <2>3, <2>6, <2>7, <2>8, <2>9, <2>10 DEF RecordsAreOnce
<1>3. CASE PumpCall
  <2>1. /\ dispatch # <<>> /\ dispatch' = Tail(dispatch) /\ Head(dispatch) = dispatch[1]
        /\ reported' = [reported EXCEPT ![Head(dispatch).h] = Head(dispatch).res]
        /\ UNCHANGED <<completions, control>>
    BY <1>3 DEF PumpCall, managerVars
  <2>2. /\ Len(dispatch') = Len(dispatch) - 1 /\ 1 \in 1..Len(dispatch)
        /\ \A i \in 1..(Len(dispatch) - 1) : dispatch'[i] = dispatch[i + 1]
    BY <1>1, <2>1
  <2>3. \A i \in 1..Len(dispatch') :
            i + 1 \in 1..Len(dispatch) /\ i + 1 # 1 /\ dispatch'[i] = dispatch[i + 1]
    BY <1>1, <2>2
  <2>4. /\ \A i \in 1..Len(dispatch') : dispatch'[i].h # dispatch[1].h
        /\ \A j \in 1..Len(completions) : completions[j].h # dispatch[1].h
    BY <2>2, <2>3 DEF RecordsAreOnce
  <2>5. \A h : h # dispatch[1].h => reported'[h] = reported[h]
    <3>1. reported \in [Handles -> TerminalStates \cup {"None"}]
      BY DEF TypeOK
    <3>2. DOMAIN reported' = DOMAIN reported
      BY <2>1
    <3> QED BY <2>1, <3>1, <3>2
  <2>6. \A h \in Told' : h \in Told
    <3> SUFFICES ASSUME NEW h \in Told' PROVE h \in Told
      OBVIOUS
    <3>1. CASE h = dispatch[1].h
      BY <2>2, <3>1 DEF Told
    <3>2. CASE h # dispatch[1].h
      BY <2>1, <2>3, <2>5, <3>2 DEF Told
    <3> QED BY <3>1, <3>2
  <2>7. \A i, j \in 1..Len(dispatch') : dispatch'[i].h = dispatch'[j].h => i = j
    <3> TAKE i, j \in 1..Len(dispatch')
    <3>1. dispatch'[i].h = dispatch'[j].h => i + 1 = j + 1
      BY <2>3 DEF RecordsAreOnce
    <3> QED BY <3>1, <2>2
  <2>8. \A i \in 1..Len(dispatch'), j \in 1..Len(completions') : dispatch'[i].h # completions'[j].h
    BY <2>1, <2>3 DEF RecordsAreOnce
  <2>9. (\A i \in 1..Len(completions') : reported'[completions'[i].h] = "None")
         /\ \A i \in 1..Len(dispatch') : reported'[dispatch'[i].h] = "None"
    BY <2>1, <2>3, <2>4, <2>5 DEF RecordsAreOnce
  <2> QED BY <2>1, <2>6, <2>7, <2>8, <2>9 DEF RecordsAreOnce
<1>4. CASE PumpEnd
  BY <1>4, SilentOnce DEF PumpEnd, managerVars
<1> QED BY <1>2, <1>3, <1>4 DEF Pump

LEMMA OnceInit == Init => RecordsAreOnce
BY DEF Init, RecordsAreOnce, NoControl

LEMMA AdmitOnce ==
    ASSUME TypeInv, RetentionInv, RecordsAreOnce, NEW c \in Clients,
           AdmitHit(c) \/ AdmitCreate(c) \/ AdmitJoin(c)
    PROVE  RecordsAreOnce'
<1>1. UNCHANGED <<completions, dispatch, reported>>
  BY DEF AdmitHit, AdmitCreate, AdmitJoin, pumpVars
<1>2. client[c].pc = "admit" /\ ~Cleared
  BY DEF AdmitHit, AdmitCreate, AdmitJoin, ShuttingDown, Cleared
<1>3. Before
  BY <1>2 DEF Before, RetentionInv, OwnedUntilCleared
<1>4. PICK h \in Handles : h = client[c].h /\ h \notin Told
  BY <1>2, <1>3, AdmittedIsNew DEF Unheard
<1>5. \A g \in Handles \ {h} : control'[g] = control[g]
  BY <1>4 DEF AdmitHit, AdmitCreate, AdmitJoin, TypeInv, TypeOK
<1> QED BY <1>1, <1>4, <1>5, SilentOnce

LEMMA ErasedOnce ==
    ASSUME TypeInv, RecordsAreOnce, NEW h \in Handles, control' = [control EXCEPT ![h] = NoControl],
           UNCHANGED <<dispatch, reported>>, \E at : ComesFrom(completions', completions, at)
    PROVE  RecordsAreOnce'
<1>1. ~NoControl.live
  BY DEF NoControl
<1>2. control'[h] = NoControl /\ \A g \in Handles \ {h} : control'[g] = control[g]
  BY DEF TypeInv, TypeOK
<1>3. \A g \in Handles : control'[g].live => control'[g] = control[g]
  BY <1>1, <1>2
<1> QED BY <1>3, QuietOnce

LEMMA OncePreserved ==
    TypeInv /\ InSequence /\ RetentionInv /\ RecordsAreOnce /\ [Next]_vars => RecordsAreOnce'
<1> SUFFICES ASSUME TypeInv, TypeOK, InSequence, RetentionInv, RecordsAreOnce, [Next]_vars
             PROVE  RecordsAreOnce'
  BY DEF TypeInv
<1>1. ASSUME UNCHANGED <<control, completions, dispatch, reported>> PROVE RecordsAreOnce'
  BY <1>1, SilentOnce
<1>2. ASSUME NEW c \in Clients, Call(c) PROVE RecordsAreOnce'
  <2>1. CASE \E h \in Handles : ReleaseRequest(c, h)
    <3>1. PICK h \in Handles : ReleaseRequest(c, h)
      BY <2>1
    <3>2. /\ control' = [control EXCEPT ![h] = NoControl] /\ WithdrawCompletion(h)
          /\ UNCHANGED <<dispatch, reported>>
      BY <3>1 DEF ReleaseRequest, pumpVars
    <3>3. \E at : ComesFrom(completions', completions, at)
      BY <3>2, WithdrawnRecords
    <3> QED BY <3>2, <3>3, ErasedOnce
  <2>2. CASE ~\E h \in Handles : ReleaseRequest(c, h)
    BY <1>1, <1>2, <2>2 DEF Call, StartRequest, Cancel, FindResult, managerVars, pumpVars
  <2> QED BY <2>1, <2>2
<1>3. ASSUME NEW c \in Clients, Request(c) PROVE RecordsAreOnce'
  <2>1. CASE Complete(c)
    <3>1. client[c].h \in Handles /\ client[c].res \in TerminalStates
      BY <2>1 DEF Complete, TypeInv, TypeOK, ClientHandles, ClientRecords, Admitting
    <3> QED BY <2>1, <3>1, CompleteOnce DEF Complete, pumpVars
  <2>2. CASE AdmitHit(c) \/ AdmitCreate(c) \/ AdmitJoin(c)
    BY <2>2, AdmitOnce
  <2>3. CASE Rollback(c)
    <3>1. client[c].h \in Handles /\ control' = [control EXCEPT ![client[c].h] = NoControl]
          /\ UNCHANGED <<completions, dispatch, reported>>
      BY <2>3, HandleNumbers DEF Rollback, Admitting, pumpVars
    <3>2. \E at : ComesFrom(completions', completions, at)
      BY <3>1, UnchangedRecords
    <3> QED BY <3>1, <3>2, ErasedOnce
  <2>4. CASE ~(Complete(c) \/ AdmitHit(c) \/ AdmitCreate(c) \/ AdmitJoin(c) \/ Rollback(c))
    BY <1>1, <1>3, <2>4 DEF Request, Reserve, Allocate, Unreserve, AdmitRejected, Wait, CommitJoined,
       Submit, Unslot, AcquireExternal, managerVars, pumpVars
  <2> QED BY <2>1, <2>2, <2>3, <2>4
<1>4. ASSUME NEW w \in Workers, Work(w) PROVE RecordsAreOnce'
  <2>1. CASE Notify(w)
    <3>1. worker[w].pending \in SUBSET Handles /\ worker[w].res \in TerminalStates
      BY DEF TypeOK, WorkerRecords
    <3> QED BY <2>1, <3>1, CompleteOnce DEF Notify, pumpVars
  <2>2. CASE CommitLoad(w)
    <3>1. UNCHANGED <<completions, dispatch, reported>>
      BY <2>2 DEF CommitLoad, pumpVars
    <3>2. \A g \in Handles : \/ control'[g] = control[g]
                             \/ control'[g] = [control[g] EXCEPT !.cache = TRUE]
      BY <2>2 DEF CommitLoad, TypeOK
    <3>3. \A g \in Handles : control[g] \in Controls
      BY DEF TypeOK
    <3>4. \A g \in Handles : control'[g].live = control[g].live
                             /\ control'[g].completion = control[g].completion
      BY <3>2, <3>3 DEF Controls
    <3> QED BY <3>1, <3>4, SilentOnce
  <2>3. CASE ~(Notify(w) \/ CommitLoad(w))
    BY <1>1, <1>4, <2>3 DEF Work, Take, Exit, BeginLoad, FinishLoad, managerVars, pumpVars
  <2> QED BY <2>1, <2>2, <2>3
<1>5. CASE ClearControls
  <2>1. UNCHANGED <<completions, dispatch, reported>> /\ \A g \in Handles : ~control'[g].live
    BY <1>5 DEF ClearControls, NoControl, pumpVars
  <2> QED BY <2>1, SilentOnce
<1>6. CASE (\E k \in Keys : DropHandle(k)) \/ BeginShutdown \/ RequestStop \/ Join \/ DropOwnership
           \/ UNCHANGED vars
  BY <1>1, <1>6 DEF DropHandle, BeginShutdown, RequestStop, Join, DropOwnership, managerVars, pumpVars,
     vars
<1> QED BY <1>2, <1>3, <1>4, <1>5, <1>6, PumpOnce DEF Next, Quiescent, Shutdown

-----------------------------------------------------------------------------
(* What is said of a request is its terminal state.                        *)

Recorded(h, res) ==
    \/ reported[h] = res
    \/ \E i \in 1..Len(completions) : completions[i].h = h /\ completions[i].res = res
    \/ \E i \in 1..Len(dispatch) : dispatch[i].h = h /\ dispatch[i].res = res

Announced(h, res) ==
    \/ \E c \in Clients : /\ client[c].pc \in {"complete", "cancelled"}
                          /\ client[c].h = h /\ client[c].res = res
    \/ \E w \in Workers : worker[w].pc = "notify" /\ h \in worker[w].pending /\ worker[w].res = res

ResultsAreSettled ==
    \A h \in Handles, res \in TerminalStates : Recorded(h, res) \/ Announced(h, res) => Settled(h, res)

\* Who has joined a failed operation and is about to take over its result is the only one to
\* have the handle, and nothing has happened to it yet.
CommittersAreAlone ==
    \A c \in Clients : client[c].pc = "commit" =>
        /\ RequestOf(client[c].h) = "Pending"
        /\ \A d \in Clients \ {c} : client[d].h # client[c].h

LEMMA SettledStep ==
    ASSUME LifeMoves, ResultsAreSettled,
           \A h \in Handles, res \in TerminalStates :
                /\ Recorded(h, res)' => Recorded(h, res) \/ Announced(h, res) \/ Settled(h, res)'
                /\ Announced(h, res)' => Recorded(h, res) \/ Announced(h, res) \/ Settled(h, res)'
    PROVE  ResultsAreSettled'
BY SettledStays DEF ResultsAreSettled

LEMMA SameRecorded ==
    ASSUME UNCHANGED <<reported, completions, dispatch>>, NEW h, NEW res
    PROVE  Recorded(h, res)' = Recorded(h, res)
BY DEF Recorded

LEMMA SameAnnounced ==
    ASSUME NEW h, NEW res,
           \A c \in Clients : client'[c].pc \in {"complete", "cancelled"} => client'[c] = client[c],
           \A w \in Workers : worker'[w].pc = "notify" =>
                /\ worker[w].pc = "notify" /\ worker'[w].res = worker[w].res
                /\ worker'[w].pending \subseteq worker[w].pending,
           Announced(h, res)'
    PROVE  Announced(h, res)
BY DEF Announced

LEMMA CompleteRecorded ==
    ASSUME TypeOK, NEW h \in Handles, NEW res \in TerminalStates, CompleteRequest(h, res),
           UNCHANGED <<dispatch, reported>>, NEW g \in Handles, NEW r \in TerminalStates,
           Recorded(g, r)'
    PROVE  Recorded(g, r) \/ (g = h /\ r = res)
<1>1. Len(completions) \in Nat
  BY RecordTypes DEF TypeOK
<1>2. CASE completions' = completions
  BY <1>2 DEF Recorded
<1>3. CASE /\ Len(completions') = Len(completions) + 1
           /\ \A j \in 1..Len(completions) : completions'[j] = completions[j]
           /\ completions'[Len(completions) + 1].h = h
           /\ completions'[Len(completions) + 1].res = res
  <2>1. \A j \in 1..Len(completions') :
            \/ j \in 1..Len(completions) /\ completions'[j] = completions[j]
            \/ completions'[j].h = h /\ completions'[j].res = res
    BY <1>1, <1>3
  <2> QED BY <2>1 DEF Recorded
<1> QED BY <1>2, <1>3, CompletedRecords

LEMMA PumpRecorded ==
    ASSUME TypeOK, Pump, NEW g \in Handles, NEW r \in TerminalStates, Recorded(g, r)'
    PROVE  Recorded(g, r)
<1>1. /\ dispatch \in Seq(CompletionRecords) /\ completions \in Seq(CompletionRecords)
      /\ Len(dispatch) \in Nat /\ Len(completions) \in Nat
      /\ reported \in [Handles -> TerminalStates \cup {"None"}]
  BY DEF TypeOK
<1>2. CASE PumpTake
  <2>1. PICK n \in 1..Len(completions) :
            /\ dispatch' = SubSeq(completions, 1, n)
            /\ completions' = SubSeq(completions, n + 1, Len(completions))
    BY <1>2 DEF PumpTake
  <2>2. /\ Len(dispatch') = n /\ \A i \in 1..n : dispatch'[i] = completions[i]
        /\ Len(completions') = Len(completions) - n
        /\ \A j \in 1..(Len(completions) - n) : completions'[j] = completions[n + j]
    BY <1>1, <2>1
  <2>3. UNCHANGED reported
    BY <1>2 DEF PumpTake
  <2>4. \A i \in 1..Len(dispatch') : i \in 1..Len(completions) /\ dispatch'[i] = completions[i]
    BY <1>1, <2>2
  <2>5. \A j \in 1..Len(completions') :
            n + j \in 1..Len(completions) /\ completions'[j] = completions[n + j]
    BY <1>1, <2>2
  <2> QED BY <2>3, <2>4, <2>5 DEF Recorded
<1>3. CASE PumpCall
  <2>1. /\ dispatch # <<>> /\ dispatch' = Tail(dispatch) /\ Head(dispatch) = dispatch[1]
        /\ reported' = [reported EXCEPT ![Head(dispatch).h] = Head(dispatch).res]
        /\ UNCHANGED completions
    BY <1>3 DEF PumpCall
  <2>2. /\ Len(dispatch') = Len(dispatch) - 1 /\ 1 \in 1..Len(dispatch)
        /\ \A i \in 1..(Len(dispatch) - 1) : dispatch'[i] = dispatch[i + 1]
    BY <1>1, <2>1
  <2>3. \A i \in 1..Len(dispatch') : i + 1 \in 1..Len(dispatch) /\ dispatch'[i] = dispatch[i + 1]
    BY <1>1, <2>2
  <2>4. reported'[g] = reported[g] \/ (g = dispatch[1].h /\ reported'[g] = dispatch[1].res)
    BY <1>1, <2>1
  <2> QED BY <2>1, <2>2, <2>3, <2>4 DEF Recorded
<1>4. CASE PumpEnd
  BY <1>4 DEF PumpEnd, Recorded
<1> QED BY <1>2, <1>3, <1>4 DEF Pump

\* A worker that is not gone is one that Shutdown still waits for.
LEMMA WorkersWork ==
    ASSUME Drained, NEW w \in Workers, worker[w].pc # "exited"
    PROVE  ~Cleared
BY DEF Drained, Cleared

\* Of a pending request nothing has been said.
LEMMA PendingIsUnsaid ==
    ASSUME TypeInv, ResultsAreSettled, NEW h \in Handles, RequestOf(h) = "Pending"
    PROVE  reported[h] = "None"
<1>1. reported[h] \in TerminalStates \cup {"None"}
  BY DEF TypeInv, TypeOK
<1>2. ASSUME reported[h] \in TerminalStates PROVE FALSE
  <2>1. Settled(h, reported[h])
    BY <1>2 DEF ResultsAreSettled, Recorded
  <2> QED BY <1>2, <2>1 DEF Settled, TerminalStates
<1> QED BY <1>1, <1>2

\* Whom a step lets a client name, and who comes to commit.
LEMMA ClientNames ==
    ASSUME TypeInv, [Next]_vars, NEW d \in Clients
    PROVE  /\ \/ client'[d].h \in {client[d].h, NoHandle}
              \/ IsKnown(client'[d].h)
              \/ RequestOf(client'[d].h) = "Unused"
           /\ client'[d].pc = "commit" => client'[d] = client[d] \/ AdmitJoin(d)
<1>1. client \in [Clients -> ClientRecords]
  BY DEF TypeInv, TypeOK
<1>2. CASE client'[d] = client[d]
  BY <1>2
<1>3. ASSUME NEW c \in Clients, Call(c) PROVE client'[d] = client[d] \/
            /\ client'[d].pc # "commit"
            /\ client'[d].h = NoHandle \/ IsKnown(client'[d].h)
  <2>1. CASE \E k \in Keys, cb \in BOOLEAN : StartRequest(c, k, cb)
    BY <1>1, <2>1, MovesOn DEF StartRequest, At
  <2>2. ASSUME NEW h \in Handles, Cancel(c, h) \/ ReleaseRequest(c, h) \/ FindResult(c, h)
        PROVE  \/ client' = client
               \/ IsKnown(h) /\ \E pc \in {"cancelled", "unslot", "acquire"} : \E k :
                    client' = [client EXCEPT ![c] = At(pc, h, k, FALSE, "Cancelled")]
    BY <2>2 DEF Cancel, ReleaseRequest, FindResult
  <2>3. ASSUME NEW h \in Handles, Cancel(c, h) \/ ReleaseRequest(c, h) \/ FindResult(c, h)
        PROVE  client'[d] = client[d] \/ (client'[d].pc # "commit" /\ IsKnown(client'[d].h))
    <3>1. CASE client' = client
      BY <3>1
    <3>2. ASSUME IsKnown(h), NEW pc \in {"cancelled", "unslot", "acquire"}, NEW k,
                 client' = [client EXCEPT ![c] = At(pc, h, k, FALSE, "Cancelled")]
          PROVE  client'[d] = client[d] \/ (client'[d].pc # "commit" /\ IsKnown(client'[d].h))
      <4>1. client'[c] = At(pc, h, k, FALSE, "Cancelled") /\ \A e \in Clients \ {c} : client'[e] = client[e]
        BY <1>1, <3>2, MovesOn
      <4>2. At(pc, h, k, FALSE, "Cancelled").pc = pc /\ At(pc, h, k, FALSE, "Cancelled").h = h
        BY DEF At
      <4> QED BY <3>2, <4>1, <4>2
    <3> QED BY <2>2, <2>3, <3>1, <3>2
  <2> QED BY <1>3, <2>1, <2>3 DEF Call
<1>4. ASSUME NEW c \in Clients, Request(c), c # d PROVE client'[d] = client[d]
  BY <1>1, <1>4, MovesOn DEF Request, Reserve, Allocate, Unreserve, AdmitRejected, AdmitHit,
     AdmitCreate, AdmitJoin, Wait, CommitJoined, Complete, Submit, Rollback, Unslot, AcquireExternal,
     Return
<1>5. CASE Allocate(d)
  <2>1. CASE \E s \in Slots : /\ IsFirstFree(slot, s)
                              /\ client' = [client EXCEPT ![d] = At("admit", <<s, slot[s].gen + 1>>,
                                                client[d].key, client[d].cb, "Cancelled")]
    <3>1. PICK s \in Slots : /\ IsFirstFree(slot, s)
                             /\ client' = [client EXCEPT ![d] = At("admit", <<s, slot[s].gen + 1>>,
                                                client[d].key, client[d].cb, "Cancelled")]
      BY <2>1
    <3>2. client'[d].pc = "admit" /\ client'[d].h = <<s, slot[s].gen + 1>>
      BY <1>1, <3>1, MovesOn DEF At
    <3>3. slot[s].gen \in Nat /\ ~slot[s].occupied
      BY <3>1, HandleAssumption DEF TypeInv, TypeOK, SlotRecords, IsFirstFree
    <3>4. RequestOf(client'[d].h) = "Unused"
      BY <3>2, <3>3 DEF RequestOf, IsLive
    <3> QED BY <3>2, <3>4
  <2>2. CASE Goto(d, "unreserve") \/ Return(d)
    BY <1>1, <2>2, MovesOn DEF Return, IdleClient
  <2> QED BY <1>5, <2>1, <2>2 DEF Allocate
<1>6. CASE \/ Reserve(d) \/ Unreserve(d) \/ AdmitRejected(d) \/ AdmitCreate(d) \/ Wait(d)
           \/ CommitJoined(d) \/ Complete(d) \/ Submit(d) \/ Rollback(d) \/ Unslot(d) \/ AcquireExternal(d)
  <2>1. Return(d) \/ \E pc \in ClientPcs \ {"commit"} : Goto(d, pc)
    BY <1>6 DEF Reserve, Unreserve, AdmitRejected, AdmitCreate, Wait, CommitJoined, Complete, Submit,
       Rollback, Unslot, AcquireExternal, ClientPcs, Admitting
  <2> QED BY <1>1, <2>1, MovesOn DEF Return, IdleClient
<1>7. CASE AdmitHit(d)
  BY <1>1, <1>7, MovesOn DEF AdmitHit, At
<1>8. CASE AdmitJoin(d)
  <2>1. client'[d].h = client[d].h
    BY <1>1, <1>8, MovesOn DEF AdmitJoin, At
  <2> QED BY <1>8, <2>1
<1>9. ASSUME NEW w \in Workers, Work(w) PROVE client' = client
  BY <1>9 DEF Work, Take, Exit, BeginLoad, FinishLoad, CommitLoad, Notify
<1>10. CASE (\E k \in Keys : DropHandle(k)) \/ Pump \/ Shutdown \/ UNCHANGED vars
  BY <1>10 DEF DropHandle, Pump, PumpTake, PumpCall, PumpEnd, Shutdown, BeginShutdown,
     RequestStop, Join, ClearControls, DropOwnership, vars
<1>11. CASE \E c \in Clients : Request(c)
  BY <1>2, <1>4, <1>5, <1>6, <1>7, <1>8, <1>11 DEF Request
<1> QED BY <1>2, <1>3, <1>9, <1>10, <1>11 DEF Next, Quiescent

\* Nothing happens to the request of a client that stays about to commit.
LEMMA CommitterIsLeftAlone ==
    ASSUME TypeInv, Drained, RetentionInv, ResultsAreSettled, CommittersAreAlone, LifeMoves,
           NEW c \in Clients, client[c].pc = "commit", client'[c] = client[c],
           NEW h \in Handles, h = client[c].h
    PROVE  RequestOf(h)' = "Pending"
<1>2. RequestOf(h) = "Pending" /\ \A d \in Clients : client[d].h = h => d = c
  BY DEF CommittersAreAlone
<1>3. reported[h] = "None" /\ ~IsKnown(h)
  <2>1. reported[h] = "None"
    BY <1>2, PendingIsUnsaid
  <2> QED BY <2>1 DEF IsKnown, Admitting
<1>4. CASE LifeKept
  BY <1>2, <1>4 DEF LifeKept
<1>5. ASSUME NEW d \in Clients, NEW H \in SUBSET Handles, NEW state \in TerminalStates,
             H = {client[d].h}, client'[d].pc = "complete", LifeSettles(H, state)
      PROVE  RequestOf(h)' = "Pending"
  <2>1. d # c
    BY <1>5
  <2>2. h \notin H
    BY <1>2, <1>5, <2>1
  <2> QED BY <1>2, <1>5, <2>2 DEF LifeSettles
<1>6. ASSUME NEW g \in Handles, NEW H \in SUBSET Handles, H = {g}, IsKnown(g), LifeSettles(H, "Cancelled")
      PROVE  RequestOf(h)' = "Pending"
  BY <1>2, <1>3, <1>6 DEF LifeSettles
<1>7. ASSUME NEW w \in Workers, CommitLoad(w), LifeSettles(op[worker[w].op].interests, CommittedState(w))
      PROVE  RequestOf(h)' = "Pending"
  <2>1. worker[w].pc = "loaded" /\ worker[w].op \in Handles /\ op[worker[w].op].state = "Created"
    BY <1>7 DEF CommitLoad, TypeInv, WorkerHandles
  <2>2. ~Cleared
    BY <2>1, WorkersWork
  <2>3. Ownership
    BY <2>2 DEF RetentionInv, OwnedUntilCleared
  <2>4. ASSUME h \in op[worker[w].op].interests PROVE FALSE
    <3>1. control[h].live /\ control[h].op = worker[w].op
      BY <2>1, <2>3, <2>4 DEF Ownership, OpsAreOwned, Owned
    <3>2. op[control[h].op].state \in TerminalStates
      BY <2>3, <3>1 DEF Ownership, JoinersCommit
    <3> QED BY <2>1, <3>1, <3>2 DEF TerminalStates
  <2> QED BY <1>2, <1>7, <2>4 DEF LifeSettles
<1>8. ASSUME NEW d \in Clients, client[d].pc \in {"admit", "discard", "unslot"}, LifeEnds(client[d].h)
      PROVE  RequestOf(h)' = "Pending"
  <2>1. client[d].h # h
    BY <1>2, <1>8
  <2> QED BY <1>2, <1>8, <2>1 DEF LifeEnds
<1>9. ASSUME NEW g \in Handles, LifeBegins(g) PROVE RequestOf(h)' = "Pending"
  <2>1. g # h
    BY <1>2, <1>9 DEF LifeBegins
  <2> QED BY <1>2, <1>9, <2>1 DEF LifeBegins
<1> QED BY <1>4, <1>5, <1>6, <1>7, <1>8, <1>9 DEF LifeMoves

LEMMA CommittersPreserved ==
    ASSUME TypeInv, Drained, RetentionInv, ResultsAreSettled, CommittersAreAlone, LifeMoves, [Next]_vars
    PROVE  CommittersAreAlone'
<1> SUFFICES ASSUME NEW c \in Clients, client'[c].pc = "commit"
             PROVE  \E h \in Handles : /\ client'[c].h = h /\ RequestOf(h)' = "Pending"
                                       /\ \A d \in Clients \ {c} : client'[d].h # h
  BY DEF CommittersAreAlone, RequestOf
<1>1. ASSUME NEW h \in Handles, RequestOf(h) = "Pending", \A d \in Clients \ {c} : client[d].h # h,
             h = client[c].h, client[c].pc \in Admitting
      PROVE  \A d \in Clients \ {c} : client'[d].h # h
  <2>1. ~IsKnown(h)
    BY <1>1, PendingIsUnsaid DEF IsKnown
  <2>2. h # NoHandle
    BY <1>1, HandlePairs
  <2> QED BY <1>1, <2>1, <2>2, ClientNames
<1>2. CASE client'[c] = client[c]
  <2>1. PICK h \in Handles : h = client[c].h
    BY <1>2, HandleNumbers DEF Admitting
  <2>2. RequestOf(h) = "Pending" /\ \A d \in Clients \ {c} : client[d].h # h
    BY <1>2, <2>1 DEF CommittersAreAlone
  <2>3. \A d \in Clients \ {c} : client'[d].h # h
    BY <1>1, <1>2, <2>1, <2>2 DEF Admitting
  <2>4. RequestOf(h)' = "Pending"
    BY <1>2, <2>1, CommitterIsLeftAlone
  <2> QED BY <1>2, <2>1, <2>3, <2>4
<1>3. CASE AdmitJoin(c)
  <2>1. client[c].pc = "admit" /\ ~Cleared /\ slot' = slot
    BY <1>3 DEF AdmitJoin, ShuttingDown, Cleared
  <2>2. Before
    BY <2>1 DEF Before, RetentionInv, OwnedUntilCleared
  <2>3. PICK h \in Handles : h = client[c].h
    BY <2>1, <2>2, AdmittedIsNew
  <2>4. /\ IsLive(slot, h) /\ slot[h[1]].state = "Accepted"
        /\ \A d \in Clients \ {c} : client[d].h # h
    BY <2>1, <2>2, <2>3, AdmittedIsNew
  <2>5. RequestOf(h) = "Pending"
    BY <2>4 DEF RequestOf, TerminalStates
  <2>6. \A d \in Clients \ {c} : client'[d].h # h
    BY <1>1, <2>1, <2>3, <2>4, <2>5 DEF Admitting
  <2>7. client'[c].h = h
    <3>1. client \in [Clients -> ClientRecords]
      BY DEF TypeInv, TypeOK
    <3> QED BY <1>3, <2>3, <3>1, MovesOn DEF AdmitJoin, At
  <2>8. RequestOf(h)' = "Pending"
    BY <2>1, <2>5 DEF RequestOf
  <2> QED BY <2>6, <2>7, <2>8
<1> QED BY <1>2, <1>3, ClientNames

SettledInv ==
    /\ TypeInv /\ TypeOK /\ Drained /\ RetentionInv /\ ResultsAreSettled /\ CommittersAreAlone

\* Steps that say nothing new of anybody.
LEMMA QuietSettled ==
    ASSUME SettledInv, LifeMoves, UNCHANGED <<reported, completions, dispatch>>,
           \A c \in Clients : client'[c].pc \in {"complete", "cancelled"} => client'[c] = client[c],
           \A w \in Workers : worker'[w].pc = "notify" =>
                /\ worker[w].pc = "notify" /\ worker'[w].res = worker[w].res
                /\ worker'[w].pending \subseteq worker[w].pending
    PROVE  ResultsAreSettled'
<1>1. ASSUME NEW h \in Handles, NEW res \in TerminalStates
      PROVE  (Recorded(h, res)' => Recorded(h, res)) /\ (Announced(h, res)' => Announced(h, res))
  BY SameRecorded, SameAnnounced
<1> QED BY <1>1, SettledStep DEF SettledInv

LEMMA ClientCompleteSettled ==
    ASSUME SettledInv, LifeMoves, NEW c \in Clients, Complete(c)
    PROVE  ResultsAreSettled'
<1>1. client \in [Clients -> ClientRecords]
  BY DEF SettledInv, TypeOK
<1>2. PICK h \in Handles : h = client[c].h
  BY HandleNumbers DEF SettledInv, Complete, Admitting
<1>3. PICK res \in TerminalStates : res = client[c].res
  BY <1>1 DEF ClientRecords
<1>4. CompleteRequest(h, res) /\ UNCHANGED <<reported, dispatch, worker>> /\ Announced(h, res)
  BY <1>2, <1>3 DEF Complete, pumpVars, workVars, Announced
<1>5. client'[c].pc = "idle" /\ \A d \in Clients \ {c} : client'[d] = client[d]
  BY <1>1, MovesOn DEF Complete, Return, IdleClient
<1>6. ASSUME NEW g \in Handles, NEW r \in TerminalStates
      PROVE  /\ Recorded(g, r)' => Recorded(g, r) \/ Announced(g, r)
             /\ Announced(g, r)' => Announced(g, r)
  <2>1. Recorded(g, r)' => Recorded(g, r) \/ Announced(g, r)
    BY <1>4, CompleteRecorded DEF SettledInv
  <2>2. Announced(g, r)' => Announced(g, r)
    BY <1>4, <1>5, SameAnnounced
  <2> QED BY <2>1, <2>2
<1> QED BY <1>6, SettledStep DEF SettledInv

LEMMA NotifySettled ==
    ASSUME SettledInv, LifeMoves, NEW w \in Workers, Notify(w)
    PROVE  ResultsAreSettled'
<1>1. worker \in [Workers -> WorkerRecords]
  BY DEF SettledInv, TypeOK
<1>2. PICK h \in worker[w].pending :
        /\ CompleteRequest(h, worker[w].res)
        /\ worker' = [worker EXCEPT ![w] =
                IF @.pending = {h} THEN IdleWorker
                ELSE Busy("notify", @.op, @.res, @.pending \ {h})]
  BY DEF Notify
<1>3. h \in Handles /\ worker[w].res \in TerminalStates
  BY <1>1, <1>2 DEF WorkerRecords
<1>4. PICK res \in TerminalStates : res = worker[w].res
  BY <1>3
<1>5. CompleteRequest(h, res) /\ UNCHANGED <<reported, dispatch, client>> /\ Announced(h, res)
  BY <1>2, <1>4 DEF Notify, pumpVars, Announced
<1>6. /\ \A v \in Workers \ {w} : worker'[v] = worker[v]
      /\ worker'[w] = IF worker[w].pending = {h} THEN IdleWorker
                      ELSE Busy("notify", worker[w].op, worker[w].res, worker[w].pending \ {h})
  BY <1>1, <1>2
<1>7. worker'[w].pc = "notify" =>
        worker'[w].res = worker[w].res /\ worker'[w].pending \subseteq worker[w].pending
  BY <1>6 DEF IdleWorker, Busy
<1>8. worker[w].pc = "notify"
  BY DEF Notify
<1>9. ASSUME NEW g \in Handles, NEW r \in TerminalStates
      PROVE  /\ Recorded(g, r)' => Recorded(g, r) \/ Announced(g, r)
             /\ Announced(g, r)' => Announced(g, r)
  <2>1. Recorded(g, r)' => Recorded(g, r) \/ Announced(g, r)
    BY <1>3, <1>5, CompleteRecorded DEF SettledInv
  <2>2. \A v \in Workers : worker'[v].pc = "notify" =>
                /\ worker[v].pc = "notify" /\ worker'[v].res = worker[v].res
                /\ worker'[v].pending \subseteq worker[v].pending
    BY <1>6, <1>7, <1>8
  <2>3. Announced(g, r)' => Announced(g, r)
    BY <1>5, <2>2, SameAnnounced
  <2> QED BY <2>1, <2>3
<1> QED BY <1>9, SettledStep DEF SettledInv

LEMMA PumpSettled ==
    ASSUME SettledInv, LifeMoves, Pump
    PROVE  ResultsAreSettled'
<1>1. UNCHANGED <<client, worker>>
  BY DEF Pump, PumpTake, PumpCall, PumpEnd, workVars
<1>2. ASSUME NEW g \in Handles, NEW r \in TerminalStates
      PROVE  (Recorded(g, r)' => Recorded(g, r)) /\ (Announced(g, r)' => Announced(g, r))
  <2>1. Recorded(g, r)' => Recorded(g, r)
    BY PumpRecorded DEF SettledInv
  <2>2. Announced(g, r)' => Announced(g, r)
    BY <1>1, SameAnnounced
  <2> QED BY <2>1, <2>2
<1> QED BY <1>2, SettledStep DEF SettledInv

LEMMA ReleaseSettled ==
    ASSUME SettledInv, LifeMoves, NEW c \in Clients, NEW h \in Handles, ReleaseRequest(c, h)
    PROVE  ResultsAreSettled'
<1>1. client \in [Clients -> ClientRecords]
  BY DEF SettledInv, TypeOK
<1>2. WithdrawCompletion(h) /\ UNCHANGED <<reported, dispatch, worker>>
  BY DEF ReleaseRequest, pumpVars, workVars
<1>3. client'[c].pc = "unslot" /\ \A d \in Clients \ {c} : client'[d] = client[d]
  BY <1>1, MovesOn DEF ReleaseRequest, At
<1>4. PICK at : ComesFrom(completions', completions, at)
  BY <1>2, WithdrawnRecords DEF SettledInv
<1>5. ASSUME NEW g \in Handles, NEW r \in TerminalStates
      PROVE  (Recorded(g, r)' => Recorded(g, r)) /\ (Announced(g, r)' => Announced(g, r))
  <2>1. \A j \in 1..Len(completions') :
            at[j] \in 1..Len(completions) /\ completions'[j] = completions[at[j]]
    BY <1>4 DEF ComesFrom
  <2>2. Recorded(g, r)' => Recorded(g, r)
    BY <1>2, <2>1 DEF Recorded
  <2>3. Announced(g, r)' => Announced(g, r)
    BY <1>2, <1>3, SameAnnounced
  <2> QED BY <2>2, <2>3
<1> QED BY <1>5, SettledStep DEF SettledInv

\* A client that makes a pending request terminal goes on to complete it.
LEMMA ClientSettles ==
    ASSUME SettledInv, LifeMoves, NEW c \in Clients, NEW h \in Handles, NEW res \in TerminalStates,
           NEW H \in SUBSET Handles, h \in H, RequestOf(h) = "Pending", LifeSettles(H, res),
           UNCHANGED <<reported, completions, dispatch, worker>>,
           client'[c].h = h, client'[c].res = res, \A d \in Clients \ {c} : client'[d] = client[d]
    PROVE  ResultsAreSettled'
<1>1. Settled(h, res)'
  BY DEF LifeSettles, Settled
<1>2. ASSUME NEW g \in Handles, NEW r \in TerminalStates
      PROVE  /\ Recorded(g, r)' => Recorded(g, r)
             /\ Announced(g, r)' => Announced(g, r) \/ (g = h /\ r = res)
  <2>1. Recorded(g, r)' => Recorded(g, r)
    BY SameRecorded
  <2>2. Announced(g, r)' => Announced(g, r) \/ (g = h /\ r = res)
    BY DEF Announced
  <2> QED BY <2>1, <2>2
<1>3. \A g \in Handles, r \in TerminalStates :
            g = h /\ r = res => Settled(g, r)'
  BY <1>1
<1> QED BY <1>2, <1>3, SettledStep DEF SettledInv

LEMMA HitSettled ==
    ASSUME SettledInv, LifeMoves, NEW c \in Clients, AdmitHit(c)
    PROVE  ResultsAreSettled'
<1>1. client \in [Clients -> ClientRecords] /\ slot \in [Slots -> SlotRecords]
  BY DEF SettledInv, TypeOK
<1>2. client[c].pc = "admit" /\ ~Cleared
  BY DEF AdmitHit, ShuttingDown, Cleared
<1>3. Before
  BY <1>2 DEF Before, SettledInv, RetentionInv, OwnedUntilCleared
<1>4. PICK h \in Handles : /\ h = client[c].h /\ IsLive(slot, h) /\ slot[h[1]].state = "Accepted"
  BY <1>2, <1>3, AdmittedIsNew
<1>5. RequestOf(h) = "Pending"
  BY <1>4 DEF RequestOf, TerminalStates
<1>6. PICK H \in SUBSET Handles : H = {h}
  OBVIOUS
<1>7. PICK res \in TerminalStates : res = "Ready"
  BY DEF TerminalStates
<1>8. slot' = Committed(slot, H, res) /\ UNCHANGED <<reported, completions, dispatch, worker>>
  BY <1>4, <1>6, <1>7 DEF AdmitHit, pumpVars, workVars
<1>9. LifeSettles(H, res)
  BY <1>1, <1>8, SettledLife
<1>10. client'[c].h = h /\ client'[c].res = res /\ \A d \in Clients \ {c} : client'[d] = client[d]
  BY <1>1, <1>4, <1>7, MovesOn DEF AdmitHit, At
<1> QED BY <1>5, <1>6, <1>8, <1>9, <1>10, ClientSettles

LEMMA CommitJoinedSettled ==
    ASSUME SettledInv, LifeMoves, NEW c \in Clients, CommitJoined(c)
    PROVE  ResultsAreSettled'
<1>1. client \in [Clients -> ClientRecords] /\ slot \in [Slots -> SlotRecords]
  BY DEF SettledInv, TypeOK
<1>2. client[c].pc = "commit"
  BY DEF CommitJoined
<1>3. PICK h \in Handles : h = client[c].h
  BY <1>2, HandleNumbers DEF SettledInv, Admitting
<1>4. RequestOf(h) = "Pending"
  BY <1>2, <1>3 DEF SettledInv, CommittersAreAlone
<1>5. PICK H \in SUBSET Handles : H = {h}
  OBVIOUS
<1>6. PICK res \in TerminalStates : res = client[c].res
  BY <1>1 DEF ClientRecords
<1>7. slot' = Committed(slot, H, res) /\ UNCHANGED <<reported, completions, dispatch, worker>>
  BY <1>3, <1>5, <1>6 DEF CommitJoined, pumpVars, workVars
<1>8. LifeSettles(H, res)
  BY <1>1, <1>7, SettledLife
<1>9. client'[c].h = h /\ client'[c].res = res /\ \A d \in Clients \ {c} : client'[d] = client[d]
  <2>1. client' = [client EXCEPT ![c].pc = "complete"]
    BY DEF CommitJoined, Goto
  <2>2. client'[c] = [client[c] EXCEPT !.pc = "complete"]
        /\ \A d \in Clients \ {c} : client'[d] = client[d]
    BY <1>1, <2>1
  <2>3. client[c] \in ClientRecords
    BY <1>1
  <2> QED BY <1>3, <1>6, <2>2, <2>3 DEF ClientRecords
<1> QED BY <1>4, <1>5, <1>7, <1>8, <1>9, ClientSettles

LEMMA CancelSettled ==
    ASSUME SettledInv, LifeMoves, NEW c \in Clients, NEW h \in Handles, Cancel(c, h)
    PROVE  ResultsAreSettled'
<1>1. client \in [Clients -> ClientRecords] /\ slot \in [Slots -> SlotRecords]
  BY DEF SettledInv, TypeOK
<1>2. UNCHANGED <<reported, completions, dispatch, worker>>
  BY DEF Cancel, pumpVars, workVars
<1>3. CASE CanCommit(slot, h)
  <2>1. RequestOf(h) = "Pending"
    BY <1>3, LifeValues
  <2>2. PICK H \in SUBSET Handles : H = {h}
    OBVIOUS
  <2>3. PICK res \in TerminalStates : res = "Cancelled"
    BY DEF TerminalStates
  <2>4. slot' = Committed(slot, H, res)
    BY <2>2, <2>3 DEF Cancel
  <2>5. LifeSettles(H, res)
    BY <1>1, <2>4, SettledLife
  <2>6. client'[c].h = h /\ client'[c].res = res /\ \A d \in Clients \ {c} : client'[d] = client[d]
    BY <1>1, <1>3, <2>3, MovesOn DEF Cancel, At
  <2> QED BY <1>2, <2>1, <2>2, <2>5, <2>6, ClientSettles
<1>4. CASE ~CanCommit(slot, h)
  BY <1>2, <1>4, QuietSettled DEF Cancel
<1> QED BY <1>3, <1>4

LEMMA CommitLoadSettled ==
    ASSUME SettledInv, LifeMoves, NEW w \in Workers, CommitLoad(w)
    PROVE  ResultsAreSettled'
<1>1. worker \in [Workers -> WorkerRecords] /\ slot \in [Slots -> SlotRecords]
  BY DEF SettledInv, TypeOK
<1>2. PICK o \in Handles : o = worker[w].op
  BY DEF CommitLoad, SettledInv, TypeInv, WorkerHandles
<1>3. PICK H \in SUBSET Handles : H = op[o].interests
  BY HandleNumbers DEF SettledInv
<1>4. PICK res \in TerminalStates : res = CommittedState(w)
  BY <1>1 DEF CommittedState, WorkerRecords, TerminalStates
<1>5. slot' = Committed(slot, H, res) /\ UNCHANGED <<reported, completions, dispatch, client>>
  BY <1>2, <1>3, <1>4 DEF CommitLoad, pumpVars
<1>6. LifeSettles(H, res)
  BY <1>1, <1>5, SettledLife
<1>7. PICK K \in SUBSET Handles : K = {h \in H : CanCommit(slot, h)}
  OBVIOUS
<1>8. \A v \in Workers \ {w} : worker'[v] = worker[v]
  BY <1>1 DEF CommitLoad
<1>9. worker'[w] = IF K = {} THEN IdleWorker ELSE Busy("notify", o, res, K)
  BY <1>1, <1>2, <1>3, <1>4, <1>7 DEF CommitLoad
<1>10. worker'[w].pc = "notify" => worker'[w].res = res /\ worker'[w].pending = K
  BY <1>9 DEF IdleWorker, Busy
<1>11. ASSUME NEW g \in K PROVE Settled(g, res)'
  <2>1. RequestOf(g) = "Pending" /\ g \in H
    BY <1>7, <1>11, LifeValues
  <2> QED BY <1>6, <2>1 DEF LifeSettles, Settled
<1>12. ASSUME NEW g \in Handles, NEW r \in TerminalStates
       PROVE  /\ Recorded(g, r)' => Recorded(g, r)
              /\ Announced(g, r)' => Announced(g, r) \/ (g \in K /\ r = res)
  <2>1. Recorded(g, r)' => Recorded(g, r)
    BY <1>5, SameRecorded
  <2>2. Announced(g, r)' => Announced(g, r) \/ (g \in K /\ r = res)
    BY <1>5, <1>8, <1>10 DEF Announced
  <2> QED BY <2>1, <2>2
<1>13. \A g \in Handles, r \in TerminalStates : g \in K /\ r = res => Settled(g, r)'
  BY <1>11
<1> QED BY <1>12, <1>13, SettledStep DEF SettledInv

LEMMA ResultsPreserved == SettledInv /\ LifeMoves /\ [Next]_vars => ResultsAreSettled'
<1> SUFFICES ASSUME SettledInv, LifeMoves, [Next]_vars PROVE ResultsAreSettled'
  OBVIOUS
<1>1. client \in [Clients -> ClientRecords] /\ worker \in [Workers -> WorkerRecords]
  BY DEF SettledInv, TypeOK
<1>2. ASSUME UNCHANGED <<reported, completions, dispatch, client, worker>> PROVE ResultsAreSettled'
  BY <1>2, QuietSettled
<1>3. ASSUME NEW c \in Clients, UNCHANGED <<reported, completions, dispatch, worker>>,
             client'[c].pc \notin {"complete", "cancelled"},
             \A d \in Clients \ {c} : client'[d] = client[d]
      PROVE  ResultsAreSettled'
  BY <1>3, QuietSettled
<1>4. ASSUME NEW c \in Clients, Call(c) PROVE ResultsAreSettled'
  <2>1. CASE \E k \in Keys, cb \in BOOLEAN : StartRequest(c, k, cb)
    <3>1. PICK k \in Keys, cb \in BOOLEAN : StartRequest(c, k, cb)
      BY <2>1
    <3>2. client'[c].pc \in {"reserve", "allocate"} /\ \A d \in Clients \ {c} : client'[d] = client[d]
      BY <1>1, <3>1, MovesOn DEF StartRequest, At
    <3> QED BY <1>3, <3>1, <3>2 DEF StartRequest, pumpVars, workVars
  <2>2. ASSUME NEW h \in Handles, FindResult(c, h) PROVE ResultsAreSettled'
    <3>1. client'[c].pc = "acquire" /\ \A d \in Clients \ {c} : client'[d] = client[d]
      BY <1>1, <2>2, MovesOn DEF FindResult, At
    <3> QED BY <1>3, <2>2, <3>1 DEF FindResult, pumpVars, workVars
  <2> QED BY <1>4, <2>1, <2>2, CancelSettled, ReleaseSettled DEF Call
<1>5. ASSUME NEW c \in Clients, Request(c) PROVE ResultsAreSettled'
  <2>1. CASE AdmitHit(c) \/ CommitJoined(c) \/ Complete(c)
    BY <2>1, HitSettled, CommitJoinedSettled, ClientCompleteSettled
  <2>2. CASE Allocate(c)
    <3>1. client'[c].pc \in {"admit", "unreserve", "idle"}
          /\ \A d \in Clients \ {c} : client'[d] = client[d]
      <4>1. CASE \E h : client' = [client EXCEPT ![c] =
                              At("admit", h, client[c].key, client[c].cb, "Cancelled")]
        BY <1>1, <4>1, MovesOn DEF At
      <4>2. CASE Goto(c, "unreserve") \/ Return(c)
        BY <1>1, <4>2, MovesOn DEF Return, IdleClient
      <4> QED BY <2>2, <4>1, <4>2 DEF Allocate
    <3> QED BY <1>3, <2>2, <3>1 DEF Allocate, pumpVars, workVars
  <2>3. CASE AdmitJoin(c)
    <3>1. client'[c].pc \in {"wait", "commit"} /\ \A d \in Clients \ {c} : client'[d] = client[d]
      BY <1>1, <2>3, MovesOn DEF AdmitJoin, At
    <3> QED BY <1>3, <2>3, <3>1 DEF AdmitJoin, pumpVars, workVars
  <2>4. CASE \/ Reserve(c) \/ Unreserve(c) \/ AdmitRejected(c) \/ AdmitCreate(c) \/ Wait(c)
             \/ Submit(c) \/ Rollback(c) \/ Unslot(c) \/ AcquireExternal(c)
    <3>1. Return(c) \/ \E pc \in {"allocate", "wait", "submit", "rollback", "discard"} : Goto(c, pc)
      BY <2>4 DEF Reserve, Unreserve, AdmitRejected, AdmitCreate, Wait, Submit, Rollback, Unslot,
         AcquireExternal
    <3>2. client'[c].pc \in {"idle", "allocate", "wait", "submit", "rollback", "discard"}
          /\ \A d \in Clients \ {c} : client'[d] = client[d]
      BY <1>1, <3>1, MovesOn DEF Return, IdleClient
    <3>3. UNCHANGED <<reported, completions, dispatch, worker>>
      BY <2>4 DEF Reserve, Unreserve, AdmitRejected, AdmitCreate, Wait, Submit, Rollback, Unslot,
         AcquireExternal, pumpVars, workVars
    <3> QED BY <1>3, <3>2, <3>3
  <2> QED BY <1>5, <2>1, <2>2, <2>3, <2>4 DEF Request
<1>6. ASSUME NEW w \in Workers, Work(w) PROVE ResultsAreSettled'
  <2>1. CASE Notify(w) \/ CommitLoad(w)
    BY <2>1, NotifySettled, CommitLoadSettled
  <2>2. CASE Take(w) \/ Exit(w) \/ BeginLoad(w) \/ FinishLoad(w)
    <3>1. UNCHANGED <<reported, completions, dispatch, client>>
      BY <2>2 DEF Take, Exit, BeginLoad, FinishLoad, pumpVars
    <3>2. /\ worker'[w].pc # "notify" /\ \A v \in Workers \ {w} : worker'[v] = worker[v]
      <4>1. worker[w] \in WorkerRecords
        BY <1>1
      <4>2. CASE Take(w)
        BY <1>1, <4>2 DEF Take, Busy
      <4>3. CASE Exit(w)
        BY <1>1, <4>1, <4>3 DEF Exit, WorkerRecords
      <4>4. CASE BeginLoad(w)
        BY <1>1, <4>1, <4>4 DEF BeginLoad, WorkerRecords
      <4>5. CASE FinishLoad(w)
        BY <1>1, <4>5 DEF FinishLoad, Busy
      <4> QED BY <2>2, <4>2, <4>3, <4>4, <4>5
    <3> QED BY <3>1, <3>2, QuietSettled
  <2> QED BY <1>6, <2>1, <2>2 DEF Work
<1>7. CASE (\E k \in Keys : DropHandle(k)) \/ Shutdown \/ UNCHANGED vars
  BY <1>2, <1>7 DEF DropHandle, Shutdown, BeginShutdown, RequestStop, Join, ClearControls,
     DropOwnership, workVars, pumpVars, vars
<1> QED BY <1>4, <1>5, <1>6, <1>7, PumpSettled DEF Next, Quiescent

-----------------------------------------------------------------------------
(* The manager implements AssetRequests.                                   *)

RefinementInv == SettledInv /\ InSequence /\ RecordsAreOnce

LEMMA RefinementInit == Init => RefinementInv
<1> SUFFICES ASSUME Init PROVE RefinementInv
  OBVIOUS
<1>1. ResultsAreSettled
  BY DEF Init, ResultsAreSettled, Recorded, Announced, IdleClient, IdleWorker, Busy, TerminalStates
<1>2. CommittersAreAlone
  BY DEF Init, CommittersAreAlone, IdleClient
<1> QED BY <1>1, <1>2, InitTypes, DrainedInit, RetentionInit, InSequenceInit, OnceInit
        DEF RefinementInv, SettledInv, TypeInv

LEMMA RefinementPreserved == RefinementInv /\ [Next]_vars => RefinementInv'
<1> SUFFICES ASSUME RefinementInv, [Next]_vars PROVE RefinementInv'
  OBVIOUS
<1>1. TypeInv /\ Drained /\ RetentionInv /\ InSequence /\ RecordsAreOnce /\ ResultsAreSettled
      /\ CommittersAreAlone /\ SettledInv
  BY DEF RefinementInv, SettledInv
<1>2. LifeMoves
  BY <1>1, EveryStepMoves
<1>3. TypeInv' /\ Drained' /\ RetentionInv' /\ InSequence' /\ RecordsAreOnce'
  BY <1>1, TypesPreserved, DrainedPreserved, RetentionPreserved, InSequencePreserved, OncePreserved
<1>4. ResultsAreSettled' /\ CommittersAreAlone'
  BY <1>1, <1>2, ResultsPreserved, CommittersPreserved
<1> QED BY <1>3, <1>4 DEF RefinementInv, SettledInv, TypeInv

\* The request variable of AssetRequests.
Lives == [h \in Handles |-> RequestOf(h)]

LEMMA LivesAre ==
    /\ \A h \in Handles : Lives[h] = RequestOf(h) /\ Lives'[h] = RequestOf(h)'
    /\ Lives \in [Handles -> {"Unused", "Pending", "Gone"} \cup TerminalStates]
    /\ Lives' \in [Handles -> {"Unused", "Pending", "Gone"} \cup TerminalStates]
<1>1. \A h \in Handles : RequestOf(h) \in {"Unused", "Pending", "Gone"} \cup TerminalStates
  BY LifeValues
<1>2. \A h \in Handles : RequestOf(h)' \in {"Unused", "Pending", "Gone"} \cup TerminalStates
  BY DEF RequestOf, TerminalStates
<1> QED BY <1>1, <1>2 DEF Lives

LEMMA PromisedNames ==
    /\ Requests!Handles = Handles /\ Requests!TerminalStates = TerminalStates
    /\ Requests!LifeStates = {"Unused", "Pending", "Gone"} \cup TerminalStates
BY DEF Requests!Handles, Requests!Slots, Handles, Slots, Requests!TerminalStates, TerminalStates,
   Requests!LifeStates

\* The steps of AssetRequests.
LEMMA KeepsPromise ==
    ASSUME LifeKept, UNCHANGED reported
    PROVE  [Requests!Next]_<<Lives, reported>>
<1>1. Lives' = Lives
  BY LivesAre DEF LifeKept, Lives
<1> QED BY <1>1

LEMMA SettlesAsPromised ==
    ASSUME NEW H \in SUBSET Handles, NEW state \in TerminalStates, LifeSettles(H, state),
           UNCHANGED reported
    PROVE  [Requests!Next]_<<Lives, reported>>
<1>1. \A h \in Handles : Lives'[h] # Lives[h] => Lives[h] = "Pending" /\ Lives'[h] = state
  BY LivesAre DEF LifeSettles
<1>2. Requests!Settle(state)
  BY <1>1, LivesAre, PromisedNames DEF Requests!Settle, Lives
<1> QED BY <1>2, PromisedNames DEF Requests!Next

LEMMA DropsAsPromised ==
    ASSUME NEW h \in Handles, LifeEnds(h), UNCHANGED reported
    PROVE  [Requests!Next]_<<Lives, reported>>
<1>1. CASE RequestOf(h) \in {"Unused", "Gone"}
  <2>1. LifeKept
    BY <1>1 DEF LifeEnds, LifeKept
  <2> QED BY <2>1, KeepsPromise
<1>2. CASE RequestOf(h) \notin {"Unused", "Gone"}
  <2>1. Lives' = [Lives EXCEPT ![h] = "Gone"]
    BY <1>2, LivesAre DEF LifeEnds
  <2>2. Lives[h] \notin {"Unused", "Gone"}
    BY <1>2, LivesAre
  <2>3. Requests!Drop(h)
    BY <2>1, <2>2 DEF Requests!Drop, Lives
  <2> QED BY <2>3, PromisedNames DEF Requests!Next
<1> QED BY <1>1, <1>2

LEMMA AcceptsAsPromised ==
    ASSUME NEW h \in Handles, LifeBegins(h), UNCHANGED reported
    PROVE  [Requests!Next]_<<Lives, reported>>
<1>1. Lives' = [Lives EXCEPT ![h] = "Pending"]
  BY LivesAre DEF LifeBegins
<1>2. Lives[h] = "Unused"
  BY LivesAre DEF LifeBegins
<1>3. Requests!Accept(h)
  BY <1>1, <1>2 DEF Requests!Accept, Lives
<1> QED BY <1>3, PromisedNames DEF Requests!Next

\* A pump calls a callback that has not been called, with the state the request has.
LEMMA ReportsAsPromised ==
    ASSUME RefinementInv, PumpCall
    PROVE  [Requests!Next]_<<Lives, reported>>
<1>1. dispatch \in Seq(CompletionRecords) /\ dispatch # <<>>
      /\ reported' = [reported EXCEPT ![Head(dispatch).h] = Head(dispatch).res] /\ UNCHANGED slot
  BY DEF PumpCall, RefinementInv, SettledInv, TypeOK, managerVars
<1>2. Head(dispatch) = dispatch[1] /\ 1 \in 1..Len(dispatch) /\ dispatch[1] \in CompletionRecords
  BY <1>1
<1>3. PICK h \in Handles, res \in TerminalStates : h = Head(dispatch).h /\ res = Head(dispatch).res
  BY <1>2 DEF CompletionRecords
<1>4. reported[h] = "None"
  BY <1>2, <1>3 DEF RefinementInv, RecordsAreOnce
<1>5. RequestOf(h) \in {res, "Gone"}
  <2>1. Recorded(h, res)
    BY <1>2, <1>3 DEF Recorded
  <2> QED BY <2>1 DEF RefinementInv, SettledInv, ResultsAreSettled, Settled
<1>6. Lives' = Lives
  BY <1>1 DEF Lives, RequestOf
<1>7. reported' = [reported EXCEPT ![h] = res]
  BY <1>1, <1>3
<1>8. Requests!Report(h, res)
  BY <1>4, <1>5, <1>6, <1>7, LivesAre DEF Requests!Report, Lives
<1> QED BY <1>8, PromisedNames DEF Requests!Next

LEMMA OnlyPumpReports == [Next]_vars => UNCHANGED reported \/ PumpCall
<1> SUFFICES ASSUME [Next]_vars PROVE UNCHANGED reported \/ PumpCall
  OBVIOUS
<1>1. ASSUME NEW c \in Clients, Call(c) PROVE UNCHANGED reported
  BY <1>1 DEF Call, StartRequest, Cancel, ReleaseRequest, FindResult, pumpVars
<1>2. ASSUME NEW c \in Clients, Request(c) PROVE UNCHANGED reported
  <2>1. CASE Reserve(c) \/ Allocate(c) \/ Unreserve(c) \/ AdmitRejected(c) \/ AdmitHit(c)
             \/ AdmitCreate(c) \/ AdmitJoin(c)
    BY <2>1 DEF Reserve, Allocate, Unreserve, AdmitRejected, AdmitHit, AdmitCreate, AdmitJoin, pumpVars
  <2>2. CASE Wait(c) \/ CommitJoined(c) \/ Complete(c) \/ Submit(c) \/ Rollback(c) \/ Unslot(c)
             \/ AcquireExternal(c)
    BY <2>2 DEF Wait, CommitJoined, Complete, Submit, Rollback, Unslot, AcquireExternal, pumpVars
  <2> QED BY <1>2, <2>1, <2>2 DEF Request
<1>3. ASSUME NEW w \in Workers, Work(w) PROVE UNCHANGED reported
  BY <1>3 DEF Work, Take, Exit, BeginLoad, FinishLoad, CommitLoad, Notify, pumpVars
<1>4. CASE Pump
  BY <1>4 DEF Pump, PumpTake, PumpEnd
<1>5. CASE (\E k \in Keys : DropHandle(k)) \/ Shutdown \/ UNCHANGED vars
  BY <1>5 DEF DropHandle, Shutdown, BeginShutdown, RequestStop, Join, ClearControls, DropOwnership,
     pumpVars, vars
<1> QED BY <1>1, <1>2, <1>3, <1>4, <1>5 DEF Next, Quiescent

LEMMA StepImplements == RefinementInv /\ [Next]_vars => [Requests!Next]_<<Lives, reported>>
<1> SUFFICES ASSUME RefinementInv, [Next]_vars PROVE [Requests!Next]_<<Lives, reported>>
  OBVIOUS
<1>1. CASE PumpCall
  BY <1>1, ReportsAsPromised
<1>2. CASE UNCHANGED reported
  <2>1. LifeMoves /\ TypeInv
    BY EveryStepMoves DEF RefinementInv, SettledInv
  <2>2. ASSUME NEW w \in Workers, CommitLoad(w), CommittedState(w) \in TerminalStates,
               LifeSettles(op[worker[w].op].interests, CommittedState(w))
        PROVE  [Requests!Next]_<<Lives, reported>>
    <3>1. worker[w].op \in Handles
      BY <2>1, <2>2 DEF CommitLoad, TypeInv, WorkerHandles
    <3>2. op[worker[w].op].interests \in SUBSET Handles
      BY <2>1, <3>1, HandleNumbers
    <3> QED BY <1>2, <2>2, <3>2, SettlesAsPromised
  <2>3. "Cancelled" \in TerminalStates
    BY DEF TerminalStates
  <2> QED BY <1>2, <2>1, <2>2, <2>3, KeepsPromise, SettlesAsPromised, DropsAsPromised,
          AcceptsAsPromised DEF LifeMoves
<1> QED BY <1>1, <1>2, OnlyPumpReports

\* Every handle is given out once, becomes terminal at most once, keeps that state until it is
\* released, and is called back at most once, with that state.
THEOREM RequestsAreKept == Spec => ImplementsAssetRequests
<1>1. Init => Requests!Init
  <2> SUFFICES ASSUME Init PROVE Requests!Init
    OBVIOUS
  <2>1. \A h \in Handles : RequestOf(h) = "Unused"
    BY HandlePairs DEF Init, RequestOf, IsLive, FreeSlot
  <2> QED BY <2>1, PromisedNames DEF Init, Requests!Init
<1>2. RefinementInv /\ [Next]_vars => [Requests!Next]_<<[h \in Handles |-> RequestOf(h)], reported>>
  BY StepImplements DEF Lives
<1> QED BY <1>1, <1>2, RefinementInit, RefinementPreserved, PTL
        DEF Spec, ImplementsAssetRequests, Requests!Spec
=============================================================================
