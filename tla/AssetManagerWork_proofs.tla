---------------------- MODULE AssetManagerWork_proofs ----------------------
(***************************************************************************)
(* That no load gets lost between RequestUntyped and the workers: what     *)
(* accepted work leads to, on top of the invariants of AssetManager_proofs.*)
(***************************************************************************)
EXTENDS AssetManager_proofs

\* An operation that a step takes out of the workers' hands has been committed.
LeavesCommitted(o) == AtWork(o) /\ ~AtWork(o)' => op'[o].state \in TerminalStates

\* Steps that neither queue work nor do any.
LEMMA QuietWork ==
    ASSUME LoadsAreUnderWay, UNCHANGED <<workQueue, worker>>,
           \A o \in Handles : op'[o].state = op[o].state,
           \A o \in Handles : op[o].state = "Created" /\ control'[o].live => control[o].live,
           \A c \in Clients : Creating(c) =>
                (Creating(c)' /\ client'[c].h = client[c].h) \/ ~control'[client[c].h].live
    PROVE  LoadsAreUnderWay' /\ \A o \in Handles : LeavesCommitted(o)
<1>1. \A o \in Handles : AtWork(o)' <=> AtWork(o)
  BY DEF AtWork
<1>2. WorkIsOnce'
  BY DEF LoadsAreUnderWay, WorkIsOnce
<1>3. ASSUME NEW o \in Handles, op'[o].state = "Created", control'[o].live
      PROVE  AtWork(o)' \/ \E c \in Clients : Creating(c)' /\ client'[c].h = o
  <2>1. op[o].state = "Created" /\ control[o].live
    BY <1>3
  <2>2. AtWork(o) \/ \E c \in Clients : Creating(c) /\ client[c].h = o
    BY <2>1 DEF LoadsAreUnderWay
  <2> QED BY <1>1, <1>3, <2>2
<1>4. \A o \in Handles : AtWork(o)' => op'[o].state = "Created"
  BY <1>1 DEF LoadsAreUnderWay
<1> QED BY <1>1, <1>2, <1>3, <1>4 DEF LoadsAreUnderWay, LeavesCommitted

\* Only Rollback ends a creator's work before Submit.
LEMMA CreatorsGoOn ==
    ASSUME TypeInv, [Next]_vars, NEW c \in Clients, Creating(c), ~Submit(c),
           \A o \in Handles : op[o].state # "None" => op'[o].state # "None"
    PROVE  (Creating(c)' /\ client'[c].h = client[c].h) \/ ~control'[client[c].h].live
<1>1. client \in [Clients -> ClientRecords] /\ client[c].h \in Handles
      /\ control \in [Handles -> Controls]
  BY HandleNumbers DEF TypeInv, TypeOK, Creating, Admitting
<1>2. client[c].pc \in {"wait", "submit", "rollback"}
  BY DEF Creating
<1>3. CASE client'[c] = client[c]
  BY <1>1, <1>3 DEF Creating
<1>4. CASE Wait(c)
  <2>1. op[client[c].h].state # "None"
    BY <1>4 DEF Wait, Creating
  <2>2. client'[c].pc = "submit" /\ client'[c].h = client[c].h
    BY <1>1, <1>4, <2>1, MovesOn DEF Wait
  <2> QED BY <2>2 DEF Creating
<1>5. CASE Rollback(c)
  <2>1. control' = [control EXCEPT ![client[c].h] = NoControl]
    BY <1>5 DEF Rollback
  <2> QED BY <1>1, <2>1 DEF NoControl
<1>6. ASSUME NEW d \in Clients, Call(d) PROVE client'[c] = client[c]
  <2>1. client[d].pc = "idle"
    BY <1>6 DEF Call, StartRequest, Cancel, ReleaseRequest, FindResult
  <2>2. d # c
    BY <1>2, <2>1
  <2>3. client' = client \/ \E r : client' = [client EXCEPT ![d] = r]
    BY <1>6 DEF Call, StartRequest, Cancel, ReleaseRequest, FindResult
  <2> QED BY <1>1, <2>2, <2>3, MovesOn
<1>7. ASSUME NEW d \in Clients, Request(d), d # c PROVE client'[c] = client[c]
  BY <1>1, <1>7, MovesOn DEF Request, Reserve, Allocate, Unreserve, AdmitRejected, AdmitHit,
     AdmitCreate, AdmitJoin, Wait, CommitJoined, Complete, Submit, Rollback, Unslot, AcquireExternal,
     Return
<1>8. CASE Request(c)
  <2>1. Wait(c) \/ Rollback(c)
    BY <1>2, <1>8 DEF Request, Reserve, Allocate, Unreserve, AdmitRejected, AdmitHit, AdmitCreate,
       AdmitJoin, CommitJoined, Complete, Unslot, AcquireExternal
  <2> QED BY <2>1, <1>4, <1>5
<1>9. ASSUME NEW w \in Workers, Work(w) PROVE client' = client
  BY <1>9 DEF Work, Take, Exit, BeginLoad, FinishLoad, CommitLoad, Notify
<1>10. CASE (\E k \in Keys : DropHandle(k)) \/ Pump \/ Shutdown \/ UNCHANGED vars
  BY <1>3, <1>10 DEF DropHandle, Pump, PumpTake, PumpCall, PumpEnd, Shutdown, BeginShutdown,
     RequestStop, Join, ClearControls, DropOwnership, vars
<1> QED BY <1>3, <1>6, <1>7, <1>8, <1>9, <1>10 DEF Next, Quiescent

\* Admission opens an operation for its own request, and no other.
LEMMA CreateWork ==
    ASSUME Before, LoadsAreUnderWay, NEW c \in Clients, AdmitCreate(c)
    PROVE  LoadsAreUnderWay' /\ \A o \in Handles : LeavesCommitted(o)
<1> DEFINE h == client[c].h
<1>1. client[c].pc = "admit"
  BY DEF AdmitCreate
<1>2. h \in Handles /\ Unheard(h) /\ \A d \in Clients \ {c} : client[d].h # h
  BY <1>1, AdmittedIsNew
<1>3. client \in [Clients -> ClientRecords] /\ op \in [Handles -> Operations]
      /\ control \in [Handles -> Controls]
  BY DEF Before, TypeInv, TypeOK
<1>4. /\ UNCHANGED <<workQueue, worker>>
      /\ client'[c].pc = "wait" /\ client'[c].h = h
      /\ \A d \in Clients \ {c} : client'[d] = client[d]
  BY <1>3, MovesOn DEF AdmitCreate, workVars
<1>5. op'[h].state = "Created" /\ \A o \in Handles \ {h} : op'[o] = op[o]
  BY <1>2, <1>3 DEF AdmitCreate
<1>6. \A o \in Handles \ {h} : control'[o] = control[o]
  BY <1>2, <1>3 DEF AdmitCreate
<1> HIDE DEF h
<1>7. \A o \in Handles : AtWork(o)' <=> AtWork(o)
  BY <1>4 DEF AtWork
<1>8. WorkIsOnce'
  BY <1>4 DEF LoadsAreUnderWay, WorkIsOnce
<1>9. Creating(c)' /\ client'[c].h = h
  BY <1>4, <1>5 DEF Creating
<1>10. ASSUME NEW d \in Clients, Creating(d) PROVE Creating(d)' /\ client'[d].h = client[d].h
  <2>1. d # c
    BY <1>1, <1>10 DEF Creating
  <2>2. client[d].h \in Handles \ {h}
    BY <1>2, <1>10, <2>1, HandleNumbers DEF Before, Creating, Admitting
  <2> QED BY <1>4, <1>5, <1>10, <2>1, <2>2 DEF Creating
<1>11. ASSUME NEW o \in Handles, op'[o].state = "Created", control'[o].live
       PROVE  AtWork(o)' \/ \E d \in Clients : Creating(d)' /\ client'[d].h = o
  <2>1. CASE o = h
    BY <1>9, <2>1
  <2>2. CASE o # h
    <3>1. AtWork(o) \/ \E d \in Clients : Creating(d) /\ client[d].h = o
      BY <1>5, <1>6, <1>11, <2>2 DEF LoadsAreUnderWay
    <3> QED BY <1>7, <1>10, <3>1
  <2> QED BY <2>1, <2>2
<1>12. ASSUME NEW o \in Handles, AtWork(o)' PROVE op'[o].state = "Created"
  <2>1. AtWork(o) /\ op[o].state = "Created"
    BY <1>7, <1>12 DEF LoadsAreUnderWay
  <2>2. o # h
    BY <1>2, <2>1 DEF Unheard
  <2> QED BY <1>5, <2>1, <2>2
<1> QED BY <1>7, <1>8, <1>11, <1>12 DEF LoadsAreUnderWay, LeavesCommitted

\* Submit puts work into the queue that is nowhere yet.
LEMMA SubmitWork ==
    ASSUME TypeInv, OwnedUntilCleared, LoadsAreUnderWay, NEW c \in Clients, Submit(c)
    PROVE  LoadsAreUnderWay' /\ \A o \in Handles : LeavesCommitted(o)
<1> DEFINE h == client[c].h
<1>1. client[c].pc = "submit" /\ UNCHANGED <<op, control, worker, shutdown>>
  BY DEF Submit, managerVars
<1>2. client \in [Clients -> ClientRecords] /\ workQueue \in Seq(Handles) /\ h \in Handles
  BY <1>1, HandleNumbers DEF TypeInv, TypeOK, Admitting
<1>3. Creating(c)
  BY <1>1 DEF Creating
<1>4. \A d \in Clients \ {c} : client'[d] = client[d]
  BY <1>2, MovesOn DEF Submit, Return
<1>5. ASSUME NEW d \in Clients \ {c}, Creating(d) PROVE Creating(d)' /\ client'[d].h = client[d].h
  BY <1>1, <1>4, <1>5 DEF Creating
<1>6. CASE Goto(c, "rollback") /\ UNCHANGED workQueue
  <2>1. client'[c].pc = "rollback" /\ client'[c].h = h
    BY <1>2, <1>6, MovesOn
  <2>2. \A d \in Clients : Creating(d) => Creating(d)' /\ client'[d].h = client[d].h
    BY <1>5, <2>1 DEF Creating
  <2> QED BY <1>1, <1>6, <2>2, QuietWork
<1>7. CASE ~StopRequested /\ workQueue' = Append(workQueue, h)
  <2>1. CreatorsWait
    BY <1>7 DEF OwnedUntilCleared, Ownership, Cleared, StopRequested
  <2>2. op[h].state = "Created" /\ h \notin Submitted
    BY <1>3, <2>1 DEF CreatorsWait
  <2> HIDE DEF h
  <2>3. /\ Len(workQueue) \in Nat /\ Len(workQueue') = Len(workQueue) + 1
        /\ workQueue'[Len(workQueue) + 1] = h
        /\ \A i \in 1..Len(workQueue) : workQueue'[i] = workQueue[i]
    BY <1>2, <1>7
  <2>4. /\ \A i \in 1..Len(workQueue) : workQueue[i] # h
        /\ \A w \in Workers : worker[w].op # h
    BY <1>2, <2>2 DEF Submitted
  <2>5. \A i \in 1..Len(workQueue') : \/ i \in 1..Len(workQueue) /\ workQueue'[i] = workQueue[i]
                                      \/ i = Len(workQueue) + 1 /\ workQueue'[i] = h
    BY <2>3
  <2>6. WorkIsOnce'
    <3>1. \A i, j \in 1..Len(workQueue') : workQueue'[i] = workQueue'[j] => i = j
      BY <2>4, <2>5 DEF LoadsAreUnderWay, WorkIsOnce
    <3>2. \A i \in 1..Len(workQueue'), w \in Workers : workQueue'[i] # worker'[w].op
      BY <1>1, <2>4, <2>5 DEF LoadsAreUnderWay, WorkIsOnce
    <3> QED BY <1>1, <3>1, <3>2 DEF LoadsAreUnderWay, WorkIsOnce
  <2>7. \A i \in 1..Len(workQueue) : i \in 1..Len(workQueue')
    BY <2>3
  <2>8. Len(workQueue) + 1 \in 1..Len(workQueue')
    BY <2>3
  <2>9. \A o \in Handles : AtWork(o)' <=> AtWork(o) \/ o = h
    BY <1>1, <2>3, <2>5, <2>7, <2>8 DEF AtWork
  <2>10. ASSUME NEW o \in Handles, op'[o].state = "Created", control'[o].live
         PROVE  AtWork(o)' \/ \E d \in Clients : Creating(d)' /\ client'[d].h = o
    <3>1. AtWork(o) \/ \E d \in Clients : Creating(d) /\ client[d].h = o
      BY <1>1, <2>10 DEF LoadsAreUnderWay
    <3>2. ASSUME NEW d \in Clients, Creating(d), client[d].h = o
          PROVE  AtWork(o)' \/ (Creating(d)' /\ client'[d].h = o)
      <4>1. CASE d = c
        <5>1. o = h
          BY <3>2, <4>1 DEF h
        <5> QED BY <2>9, <5>1
      <4>2. CASE d # c
        BY <1>5, <3>2, <4>2
      <4> QED BY <4>1, <4>2
    <3> QED BY <2>9, <3>1, <3>2
  <2>11. \A o \in Handles : AtWork(o)' => op'[o].state = "Created"
    BY <1>1, <2>2, <2>9 DEF LoadsAreUnderWay
  <2> QED BY <2>6, <2>9, <2>10, <2>11 DEF LoadsAreUnderWay, LeavesCommitted
<1> QED BY <1>6, <1>7 DEF Submit

\* A worker takes what is first in the queue.
LEMMA TakeWork ==
    ASSUME TypeInv, LoadsAreUnderWay, NEW w \in Workers, Take(w)
    PROVE  LoadsAreUnderWay' /\ \A o \in Handles : LeavesCommitted(o)
<1>1. workQueue \in Seq(Handles) /\ worker \in [Workers -> WorkerRecords]
  BY DEF TypeInv, TypeOK
<1>2. worker[w].pc = "idle" /\ UNCHANGED <<op, control, client>>
  BY DEF Take, managerVars
<1>3. /\ 1 \in 1..Len(workQueue) /\ Head(workQueue) = workQueue[1] /\ Len(workQueue) \in Nat
      /\ Len(workQueue') = Len(workQueue) - 1
      /\ \A i \in 1..Len(workQueue') :
            i + 1 \in 1..Len(workQueue) /\ workQueue'[i] = workQueue[i + 1]
      /\ \A i \in 1..Len(workQueue) :
            i # 1 => i - 1 \in 1..Len(workQueue') /\ workQueue'[i - 1] = workQueue[i]
  BY <1>1 DEF Take
<1>4. /\ worker'[w].op = workQueue[1] /\ worker'[w].pc = "begin"
      /\ \A v \in Workers \ {w} : worker'[v] = worker[v]
  BY <1>1, <1>3 DEF Take, Busy
<1>5. \A o \in Handles : AtWork(o)' <=> AtWork(o)
  <2> SUFFICES ASSUME NEW o \in Handles PROVE AtWork(o)' <=> AtWork(o)
    OBVIOUS
  <2>1. ASSUME NEW i \in 1..Len(workQueue), workQueue[i] = o PROVE AtWork(o)'
    <3>1. CASE i = 1
      BY <1>4, <2>1, <3>1 DEF AtWork
    <3>2. CASE i # 1
      BY <1>3, <2>1, <3>2 DEF AtWork
    <3> QED BY <3>1, <3>2
  <2>2. ASSUME NEW v \in Workers, worker[v].op = o, worker[v].pc \in {"begin", "loading", "loaded"}
        PROVE  AtWork(o)'
    BY <1>2, <1>4, <2>2 DEF AtWork
  <2>3. ASSUME NEW i \in 1..Len(workQueue'), workQueue'[i] = o PROVE AtWork(o)
    BY <1>3, <2>3 DEF AtWork
  <2>4. ASSUME NEW v \in Workers, worker'[v].op = o, worker'[v].pc \in {"begin", "loading", "loaded"}
        PROVE  AtWork(o)
    BY <1>3, <1>4, <2>4 DEF AtWork
  <2> QED BY <2>1, <2>2, <2>3, <2>4 DEF AtWork
<1>6. WorkIsOnce'
  <2>1. WorkIsOnce
    BY DEF LoadsAreUnderWay
  <2>2. \A i, j \in 1..Len(workQueue') : workQueue'[i] = workQueue'[j] => i = j
    <3> SUFFICES ASSUME NEW i \in 1..Len(workQueue'), NEW j \in 1..Len(workQueue'),
                        workQueue'[i] = workQueue'[j]
                 PROVE  i = j
      OBVIOUS
    <3>1. i + 1 = j + 1
      BY <1>3, <2>1 DEF WorkIsOnce
    <3> QED BY <3>1
  <2>3. ASSUME NEW i \in 1..Len(workQueue'), NEW v \in Workers PROVE workQueue'[i] # worker'[v].op
    <3>1. i + 1 \in 1..Len(workQueue) /\ i + 1 # 1 /\ workQueue'[i] = workQueue[i + 1]
      BY <1>3
    <3>2. CASE v = w
      BY <1>3, <1>4, <2>1, <3>1, <3>2 DEF WorkIsOnce
    <3>3. CASE v # w
      BY <1>4, <2>1, <3>1, <3>3 DEF WorkIsOnce
    <3> QED BY <3>2, <3>3
  <2>4. ASSUME NEW u \in Workers, NEW v \in Workers, worker'[u].op = worker'[v].op, u # v
        PROVE  worker'[u].op = NoHandle
    <3>1. CASE u # w /\ v # w
      BY <1>4, <2>1, <2>4, <3>1 DEF WorkIsOnce
    <3>2. CASE u = w \/ v = w
      <4>1. \A x \in Workers \ {w} : worker'[x].op # worker'[w].op
        BY <1>3, <1>4, <2>1 DEF WorkIsOnce
      <4> QED BY <2>4, <3>2, <4>1
    <3> QED BY <3>1, <3>2
  <2> QED BY <2>2, <2>3, <2>4 DEF WorkIsOnce
<1>7. \A c \in Clients : Creating(c)' <=> Creating(c)
  BY <1>2 DEF Creating
<1>8. \A o \in Handles : AtWork(o)' => op'[o].state = "Created"
  BY <1>2, <1>5 DEF LoadsAreUnderWay
<1>9. \A o \in Handles : op'[o].state = "Created" /\ control'[o].live =>
          AtWork(o)' \/ \E c \in Clients : Creating(c)' /\ client'[c].h = o
  BY <1>2, <1>5, <1>7 DEF LoadsAreUnderWay
<1> QED BY <1>5, <1>6, <1>8, <1>9 DEF LoadsAreUnderWay, LeavesCommitted

\* The other steps of a worker.  A worker that has committed is done with its operation.
LEMMA LoadWork ==
    ASSUME TypeInv, LoadsAreUnderWay, NEW w \in Workers,
           Exit(w) \/ BeginLoad(w) \/ FinishLoad(w) \/ Notify(w)
    PROVE  LoadsAreUnderWay' /\ \A o \in Handles : LeavesCommitted(o)
<1>1. /\ worker \in [Workers -> WorkerRecords] /\ control \in [Handles -> Controls]
      /\ \A v \in Workers : worker[v].op \in Handles \cup {NoHandle}
  BY HandleNumbers DEF TypeInv, TypeOK
<1>2. UNCHANGED <<op, client, workQueue>>
  BY DEF Exit, BeginLoad, FinishLoad, Notify, managerVars
<1>3. \A v \in Workers \ {w} : worker'[v] = worker[v]
  BY <1>1 DEF Exit, BeginLoad, FinishLoad, Notify
<1>4. \/ /\ worker'[w].op = worker[w].op
         /\ worker'[w].pc \in {"begin", "loading", "loaded"} <=>
                worker[w].pc \in {"begin", "loading", "loaded"}
      \/ worker'[w].op = NoHandle /\ worker[w].pc = "notify"
  <2>1. CASE Exit(w) \/ BeginLoad(w)
    <3>1. worker[w] \in WorkerRecords
      BY <1>1
    <3>2. /\ [worker[w] EXCEPT !.pc = "exited"].op = worker[w].op
          /\ [worker[w] EXCEPT !.pc = "exited"].pc = "exited"
          /\ [worker[w] EXCEPT !.pc = "loading"].op = worker[w].op
          /\ [worker[w] EXCEPT !.pc = "loading"].pc = "loading"
      BY <3>1 DEF WorkerRecords
    <3>3. \/ worker[w].pc = "idle" /\ worker'[w] = [worker[w] EXCEPT !.pc = "exited"]
          \/ worker[w].pc = "begin" /\ worker'[w] = [worker[w] EXCEPT !.pc = "loading"]
      BY <1>1, <2>1 DEF Exit, BeginLoad
    <3> QED BY <3>2, <3>3
  <2>2. CASE FinishLoad(w)
    <3>1. worker[w].pc = "loading" /\ worker'[w].pc = "loaded" /\ worker'[w].op = worker[w].op
      BY <1>1, <2>2 DEF FinishLoad, Busy
    <3> QED BY <3>1
  <2>3. CASE Notify(w)
    <3>1. worker[w].pc = "notify" /\ \/ worker'[w] = IdleWorker
                                     \/ worker'[w].pc = "notify" /\ worker'[w].op = worker[w].op
      BY <1>1, <2>3 DEF Notify, Busy
    <3> QED BY <3>1 DEF IdleWorker, Busy
  <2> QED BY <2>1, <2>2, <2>3
<1>5. \A o \in Handles : control'[o].live = control[o].live
  <2>1. CASE Notify(w)
    <3>1. \/ control' = control
          \/ \E h \in Handles : \E v \in {"none", "queued"} :
                control' = [control EXCEPT ![h].completion = v]
      <4>1. worker[w].pending \subseteq Handles
        BY <1>1 DEF WorkerRecords
      <4> QED BY <2>1, <4>1 DEF Notify, CompleteRequest
    <3> QED BY <1>1, <3>1 DEF Controls
  <2>2. CASE Exit(w) \/ BeginLoad(w) \/ FinishLoad(w)
    BY <2>2 DEF Exit, BeginLoad, FinishLoad, managerVars
  <2> QED BY <2>1, <2>2
<1>6. NoHandle \notin Handles
  BY HandlePairs
<1>7. ASSUME NEW o \in Handles PROVE AtWork(o)' <=> AtWork(o)
  BY <1>2, <1>3, <1>4, <1>6 DEF AtWork
<1>8. WorkIsOnce'
  <2>1. WorkIsOnce /\ workQueue \in Seq(Handles)
    BY DEF LoadsAreUnderWay, TypeInv, TypeOK
  <2>2. \A v \in Workers : worker'[v].op \in {worker[v].op, NoHandle}
    BY <1>3, <1>4
  <2>3. \A i \in 1..Len(workQueue) : workQueue[i] # NoHandle
    BY <1>6, <2>1
  <2>4. \A i \in 1..Len(workQueue), v \in Workers : workQueue[i] # worker'[v].op
    BY <2>1, <2>2, <2>3 DEF WorkIsOnce
  <2>5. \A u, v \in Workers : worker'[u].op = worker'[v].op /\ u # v => worker'[u].op = NoHandle
    BY <2>1, <2>2 DEF WorkIsOnce
  <2> QED BY <1>2, <2>1, <2>4, <2>5 DEF WorkIsOnce
<1>9. \A c \in Clients : Creating(c)' <=> Creating(c)
  BY <1>2 DEF Creating
<1> QED BY <1>2, <1>5, <1>7, <1>8, <1>9 DEF LoadsAreUnderWay, LeavesCommitted

\* A commit ends the work on its operation, and on no other.
LEMMA CommitWork ==
    ASSUME TypeInv, LoadsAreUnderWay, NEW w \in Workers, CommitLoad(w)
    PROVE  LoadsAreUnderWay' /\ \A o \in Handles : LeavesCommitted(o)
<1>0. PICK p : p = worker[w].op
  OBVIOUS
<1>1. /\ worker \in [Workers -> WorkerRecords] /\ control \in [Handles -> Controls]
      /\ op \in [Handles -> Operations] /\ workQueue \in Seq(Handles)
  BY DEF TypeInv, TypeOK
<1>2. UNCHANGED <<client, workQueue>> /\ worker[w].pc = "loaded"
  BY DEF CommitLoad
<1>3. p \in Handles /\ NoHandle \notin Handles
  BY <1>0, <1>2, HandlePairs DEF TypeInv, WorkerHandles
<1>4. CommittedState(w) \in TerminalStates
  BY <1>1 DEF CommittedState, WorkerRecords, TerminalStates
<1>5. op'[p].state \in TerminalStates /\ \A o \in Handles \ {p} : op'[o] = op[o]
  <2>1. op' = [op EXCEPT ![p].state = CommittedState(w)]
    BY <1>0 DEF CommitLoad
  <2>2. op'[p].state = CommittedState(w)
    BY <1>1, <1>3, <2>1 DEF Operations
  <2> QED BY <1>1, <1>3, <1>4, <2>1, <2>2
<1>6. \A o \in Handles : control'[o].live = control[o].live
  <2>1. \A o \in Handles : control'[o] \in {control[o], [control[o] EXCEPT !.cache = TRUE]}
    BY <1>1 DEF CommitLoad
  <2>2. \A o \in Handles : control[o] \in Controls
    BY <1>1
  <2> QED BY <2>1, <2>2 DEF Controls
<1>7. /\ worker'[w].op \in {p, NoHandle} /\ worker'[w].pc \in {"idle", "notify"}
      /\ \A v \in Workers \ {w} : worker'[v] = worker[v]
  BY <1>0, <1>1 DEF CommitLoad, IdleWorker, Busy
<1>8. WorkIsOnce /\ \A i \in 1..Len(workQueue) : workQueue[i] \in Handles
  BY <1>1 DEF LoadsAreUnderWay
<1>9. /\ \A i \in 1..Len(workQueue) : workQueue[i] # p
      /\ \A v \in Workers \ {w} : worker[v].op # p
  BY <1>0, <1>3, <1>8 DEF WorkIsOnce
<1>10. ~AtWork(p)'
  BY <1>2, <1>7, <1>9 DEF AtWork
<1>11. ASSUME NEW o \in Handles \ {p} PROVE AtWork(o)' <=> AtWork(o)
  BY <1>0, <1>2, <1>3, <1>7, <1>11 DEF AtWork
<1>12. WorkIsOnce'
  <2>1. \A i \in 1..Len(workQueue), v \in Workers : workQueue[i] # worker'[v].op
    BY <1>3, <1>7, <1>8, <1>9 DEF WorkIsOnce
  <2>2. \A u, v \in Workers : worker'[u].op = worker'[v].op /\ u # v => worker'[u].op = NoHandle
    BY <1>7, <1>8, <1>9 DEF WorkIsOnce
  <2> QED BY <1>2, <1>8, <2>1, <2>2 DEF WorkIsOnce
<1>13. "Created" \notin TerminalStates /\ "None" \notin TerminalStates
  BY DEF TerminalStates
<1>14. \A c \in Clients : Creating(c) => Creating(c)'
  <2> SUFFICES ASSUME NEW c \in Clients, Creating(c) PROVE Creating(c)'
    OBVIOUS
  <2>1. client[c].h \in Handles
    BY HandleNumbers DEF Creating, Admitting
  <2> QED BY <1>2, <1>5, <1>13, <2>1 DEF Creating
<1>15. \A o \in Handles : AtWork(o)' => op'[o].state = "Created"
  <2> SUFFICES ASSUME NEW o \in Handles, AtWork(o)' PROVE op'[o].state = "Created"
    OBVIOUS
  <2>1. o # p
    BY <1>10
  <2> QED BY <1>5, <1>11, <2>1 DEF LoadsAreUnderWay
<1>16. ASSUME NEW o \in Handles, op'[o].state = "Created", control'[o].live
       PROVE  AtWork(o)' \/ \E c \in Clients : Creating(c)' /\ client'[c].h = o
  <2>1. o # p
    BY <1>5, <1>13, <1>16
  <2>2. AtWork(o) \/ \E c \in Clients : Creating(c) /\ client[c].h = o
    BY <1>5, <1>6, <1>16, <2>1 DEF LoadsAreUnderWay
  <2> QED BY <1>2, <1>11, <1>14, <2>1, <2>2
<1>17. ASSUME NEW o \in Handles PROVE LeavesCommitted(o)
  BY <1>5, <1>11 DEF LeavesCommitted
<1> QED BY <1>12, <1>15, <1>16, <1>17 DEF LoadsAreUnderWay

LEMMA UnderWayInit == Init => LoadsAreUnderWay
<1> SUFFICES ASSUME Init PROVE LoadsAreUnderWay
  OBVIOUS
<1>1. workQueue = <<>> /\ \A w \in Workers : worker[w] = IdleWorker
  BY DEF Init
<1>2. \A o \in Handles : op[o].state = "None"
  BY DEF Init, NoOperation
<1>3. IdleWorker.op = NoHandle /\ IdleWorker.pc = "idle"
  BY DEF IdleWorker, Busy
<1>4. WorkIsOnce /\ \A o : ~AtWork(o)
  BY <1>1, <1>3 DEF WorkIsOnce, AtWork
<1> QED BY <1>2, <1>4 DEF LoadsAreUnderWay

\* What all others than workers do to operations and controls, but for the admission of a
\* request that creates its operation.
LEMMA OperationsStay ==
    ASSUME Before \/ ShuttingDown, TypeInv,
           \/ \E c \in Clients : Call(c) \/ (Request(c) /\ ~AdmitCreate(c))
           \/ (\E k \in Keys : DropHandle(k)) \/ Pump \/ Shutdown \/ UNCHANGED vars
    PROVE  /\ \A o \in Handles : op'[o].state = op[o].state
           /\ \A o \in Handles : op[o].state = "Created" /\ control'[o].live => control[o].live
<1> DEFINE Stay == /\ \A o \in Handles : op'[o].state = op[o].state
                   /\ \A o \in Handles : op[o].state = "Created" /\ control'[o].live => control[o].live
<1>1. op \in [Handles -> Operations] /\ control \in [Handles -> Controls]
  BY DEF TypeInv, TypeOK
<1>2. \A h \in Handles : control[h].op \in Handles \cup {NoHandle}
  BY ControlsNameOps DEF TypeInv
<1>3. CASE UNCHANGED <<op, control>>
  BY <1>3
<1>4. ASSUME NEW o \in Handles \cup {NoHandle}, NEW h \in Handles, op' = DetachedOp(o, h),
             control' = control \/ control' = [control EXCEPT ![h] = NoControl]
      PROVE  Stay
  <2>1. \A p \in Handles : op'[p].state = op[p].state
    BY <1>1, <1>4, DetachEffect DEF Detaches
  <2>2. \A p \in Handles : control'[p].live => control[p].live
    BY <1>1, <1>4 DEF NoControl
  <2> QED BY <2>1, <2>2
<1>5. ASSUME NEW c \in Clients, Call(c) PROVE Stay
  <2>1. CASE (\E k \in Keys, cb \in BOOLEAN : StartRequest(c, k, cb))
             \/ \E h \in Handles : FindResult(c, h)
    BY <1>3, <2>1 DEF StartRequest, FindResult, managerVars
  <2>2. ASSUME NEW h \in Handles, Cancel(c, h) \/ ReleaseRequest(c, h) PROVE Stay
    <3>1. /\ op' = DetachedOp(control[h].op, h)
          /\ control' = control \/ control' = [control EXCEPT ![h] = NoControl]
      BY <2>2 DEF Cancel, ReleaseRequest
    <3> QED BY <1>2, <1>4, <3>1
  <2> QED BY <1>5, <2>1, <2>2 DEF Call
<1>6. ASSUME NEW c \in Clients, AdmitHit(c) \/ AdmitJoin(c) PROVE Stay
  <2> DEFINE h == client[c].h
  <2>1. client[c].pc = "admit" /\ Before
    BY <1>6 DEF AdmitHit, AdmitJoin
  <2>2. h \in Handles /\ op[h].state = "None"
    BY <2>1, AdmittedIsNew DEF Unheard
  <2>3. \A o \in Handles \ {h} : control'[o] = control[o]
    BY <1>1, <1>6 DEF AdmitHit, AdmitJoin
  <2>4. \A o \in Handles : op'[o].state = op[o].state
    <3>1. CASE AdmitHit(c)
      BY <3>1 DEF AdmitHit
    <3>2. CASE AdmitJoin(c)
      <4>1. PICK o : op' = [op EXCEPT ![o].interests = @ \cup {h}]
        BY <3>2 DEF AdmitJoin
      <4> QED BY <1>1, <4>1 DEF Operations
    <3> QED BY <1>6, <3>1, <3>2
  <2> QED BY <2>2, <2>3, <2>4
<1>7. ASSUME NEW c \in Clients, Request(c), ~AdmitCreate(c) PROVE Stay
  <2>1. CASE Reserve(c) \/ Allocate(c) \/ Unreserve(c) \/ AdmitRejected(c) \/ Wait(c)
             \/ CommitJoined(c) \/ Submit(c) \/ Unslot(c) \/ AcquireExternal(c)
    BY <1>3, <2>1 DEF Reserve, Allocate, Unreserve, AdmitRejected, Wait, CommitJoined, Submit,
       Unslot, AcquireExternal, managerVars
  <2>2. CASE Complete(c)
    <3>1. op' = op /\ CompleteRequest(client[c].h, client[c].res)
      BY <2>2 DEF Complete
    <3>2. client[c].h \in Handles /\ client[c].res \in TerminalStates
      BY <2>2, HandleNumbers DEF Complete, Admitting, TypeInv, TypeOK, ClientRecords
    <3>3. \A g \in Handles : SameControl(g)
      BY <3>1, <3>2, CompleteEffect DEF TypeInv
    <3> QED BY <3>1, <3>3 DEF SameControl
  <2>3. CASE Rollback(c)
    <3>1. client[c].h \in Handles
      BY <2>3, HandleNumbers DEF Rollback, Admitting
    <3>2. /\ op' = DetachedOp(client[c].h, client[c].h)
          /\ control' = [control EXCEPT ![client[c].h] = NoControl]
      BY <2>3 DEF Rollback
    <3> QED BY <1>4, <3>1, <3>2
  <2> QED BY <1>6, <1>7, <2>1, <2>2, <2>3 DEF Request
<1>8. CASE Shutdown
  <2>1. CASE BeginShutdown
    <3>1. control' = control
      BY <2>1 DEF BeginShutdown
    <3>2. \A o \in Handles : op'[o] \in {op[o], [op[o] EXCEPT !.cancel = TRUE]}
      BY <1>1, <2>1 DEF BeginShutdown
    <3>3. \A o \in Handles : op[o] \in Operations
      BY <1>1
    <3> QED BY <3>1, <3>2, <3>3 DEF Operations
  <2>2. CASE ClearControls
    BY <2>2 DEF ClearControls, NoControl
  <2>3. CASE RequestStop \/ Join \/ DropOwnership
    BY <1>3, <2>3 DEF RequestStop, Join, DropOwnership, managerVars
  <2> QED BY <1>8, <2>1, <2>2, <2>3 DEF Shutdown
<1>9. CASE (\E k \in Keys : DropHandle(k)) \/ Pump \/ UNCHANGED vars
  BY <1>3, <1>9 DEF DropHandle, Pump, PumpTake, PumpCall, PumpEnd, vars, managerVars
<1> QED BY <1>5, <1>7, <1>8, <1>9

LEMMA UnderWayStep ==
    TypeInv /\ ControlsAreGiven /\ OwnedUntilCleared /\ LoadsAreUnderWay /\ [Next]_vars
        => LoadsAreUnderWay' /\ \A o \in Handles : LeavesCommitted(o)
<1> SUFFICES ASSUME TypeInv, ControlsAreGiven, OwnedUntilCleared, LoadsAreUnderWay, [Next]_vars
             PROVE  LoadsAreUnderWay' /\ \A o \in Handles : LeavesCommitted(o)
  OBVIOUS
<1>1. Before \/ ShuttingDown
  BY DEF Before, OwnedUntilCleared, Cleared, ShuttingDown
<1>2. ASSUME NEW w \in Workers, Work(w)
      PROVE  LoadsAreUnderWay' /\ \A o \in Handles : LeavesCommitted(o)
  BY <1>2, TakeWork, LoadWork, CommitWork DEF Work
<1>3. ASSUME NEW c \in Clients, Submit(c)
      PROVE  LoadsAreUnderWay' /\ \A o \in Handles : LeavesCommitted(o)
  BY <1>3, SubmitWork
<1>4. ASSUME NEW c \in Clients, AdmitCreate(c)
      PROVE  LoadsAreUnderWay' /\ \A o \in Handles : LeavesCommitted(o)
  <2>1. Before
    BY <1>1, <1>4 DEF AdmitCreate
  <2> QED BY <2>1, <1>4, CreateWork
<1>5. ASSUME \/ \E c \in Clients : Call(c) \/ (Request(c) /\ ~AdmitCreate(c) /\ ~Submit(c))
             \/ (\E k \in Keys : DropHandle(k)) \/ Pump \/ Shutdown \/ UNCHANGED vars
      PROVE  LoadsAreUnderWay' /\ \A o \in Handles : LeavesCommitted(o)
  <2>1. /\ \A o \in Handles : op'[o].state = op[o].state
        /\ \A o \in Handles : op[o].state = "Created" /\ control'[o].live => control[o].live
    BY <1>1, <1>5, OperationsStay
  <2>2. UNCHANGED <<workQueue, worker>>
    <3>1. ASSUME NEW c \in Clients, Call(c) PROVE UNCHANGED <<workQueue, worker>>
      BY <3>1 DEF Call, StartRequest, Cancel, ReleaseRequest, FindResult, workVars
    <3>2. ASSUME NEW c \in Clients, Request(c), ~Submit(c) PROVE UNCHANGED <<workQueue, worker>>
      BY <3>2 DEF Request, Reserve, Allocate, Unreserve, AdmitRejected, AdmitHit, AdmitCreate,
         AdmitJoin, Wait, CommitJoined, Complete, Rollback, Unslot, AcquireExternal, workVars
    <3>3. CASE (\E k \in Keys : DropHandle(k)) \/ Pump \/ Shutdown \/ UNCHANGED vars
      BY <3>3 DEF DropHandle, Pump, PumpTake, PumpCall, PumpEnd, Shutdown, BeginShutdown,
         RequestStop, Join, ClearControls, DropOwnership, vars, workVars
    <3> QED BY <1>5, <3>1, <3>2, <3>3
  <2>3. ASSUME NEW c \in Clients, Creating(c)
        PROVE  (Creating(c)' /\ client'[c].h = client[c].h) \/ ~control'[client[c].h].live
    <3>1. CASE Submit(c)
      <4>1. client[c].pc = "submit"
        BY <3>1 DEF Submit
      <4>2. client \in [Clients -> ClientRecords] /\ workQueue \in Seq(Handles) /\ client[c].h \in Handles
        BY <4>1, HandleNumbers DEF TypeInv, TypeOK, Admitting
      <4>3. workQueue' # Append(workQueue, client[c].h)
        <5>1. Len(Append(workQueue, client[c].h)) # Len(workQueue)
          BY <4>2
        <5> QED BY <2>2, <5>1
      <4>4. Goto(c, "rollback")
        BY <3>1, <4>3 DEF Submit
      <4>5. client'[c].pc = "rollback" /\ client'[c].h = client[c].h
        BY <4>2, <4>4, MovesOn
      <4> QED BY <4>5 DEF Creating
    <3>2. CASE ~Submit(c)
      BY <2>1, <2>3, <3>2, CreatorsGoOn
    <3> QED BY <3>1, <3>2
  <2> QED BY <2>1, <2>2, <2>3, QuietWork
<1> QED BY <1>2, <1>3, <1>4, <1>5 DEF Next, Quiescent

\* An operation that is not over is queued, with one worker or still to be submitted, as long as
\* the request that created it is there; nothing is submitted twice.
THEOREM LoadsStayUnderWay == Spec => []LoadsAreUnderWay
<1>1. RefinementInv => TypeInv /\ ControlsAreGiven /\ OwnedUntilCleared
  BY DEF RefinementInv, SettledInv, RetentionInv
<1>2. LoadsAreUnderWay /\ RefinementInv /\ [Next]_vars => LoadsAreUnderWay'
  BY <1>1, UnderWayStep
<1> QED BY <1>2, UnderWayInit, RefinementInit, RefinementPreserved, PTL DEF Spec

\* What the queue has accepted is loaded and committed, whoever cancels and whether or not
\* the manager shuts down meanwhile.
THEOREM WorkIsFinished == Spec => AcceptedWorkIsCommitted
<1>1. RefinementInv => TypeInv /\ ControlsAreGiven /\ OwnedUntilCleared
  BY DEF RefinementInv, SettledInv, RetentionInv
<1>2. LoadsAreUnderWay /\ RefinementInv /\ [Next]_vars =>
        [\A o \in Handles : AtWork(o) /\ ~AtWork(o)' => op'[o].state \in TerminalStates]_vars
  BY <1>1, UnderWayStep DEF LeavesCommitted
<1> QED BY <1>2, LoadsStayUnderWay, RefinementInit, RefinementPreserved, PTL
        DEF Spec, AcceptedWorkIsCommitted
=============================================================================
