-------------------------- MODULE NodeLoads_proofs --------------------------
(***************************************************************************)
(* Safety of shared node loads, for every set of loaders, keys and entries *)
(* and every number of operations.                                         *)
(***************************************************************************)
EXTENDS NodeLoads, FiniteSetTheorems, TLAPS

\* Where a loader is in Load tells what it holds, and the entry is one of its key that its
\* token is linked to.
HoldersLoad ==
    \A w \in Loaders :
        /\ pc[w] # "idle" => operation[w] \in 1..MaxOperations
        /\ pc[w] \in {"enter", "load", "complete", "wait"} => key[w] \in Keys
        /\ pc[w] \in {"load", "complete", "wait"} <=> held[w] # NoEntry
        /\ held[w] # NoEntry =>
            /\ held[w] \in table
            /\ entry[held[w]].key = key[w]
            /\ Token(w) \in entry[held[w]].linked

\* The owner of a load is in it until the load is complete.
OwnersLoad ==
    /\ \A w \in Loaders : pc[w] \in {"load", "complete"} =>
        entry[held[w]].owner = w /\ ~entry[held[w]].complete
    /\ \A e \in table : ~entry[e].complete =>
        /\ entry[e].owner \in Loaders
        /\ pc[entry[e].owner] \in {"load", "complete"}
        /\ held[entry[e].owner] = e

\* The table has an entry for a key.
OneEntryPerKey ==
    \A e, f \in table : entry[e].key = entry[f].key => e = f

\* An entry in the table is held, and counts its holders.
Counted ==
    \A e \in table : Holders(e) # {} /\ entry[e].interests = Cardinality(Holders(e))

LoadsInv == TypeOK /\ HoldersLoad /\ OwnersLoad /\ OneEntryPerKey /\ Counted

LEMMA LoadsInvInit == Init => LoadsInv
<1> SUFFICES ASSUME Init PROVE LoadsInv
  OBVIOUS
<1>1. FreshEntry \in EntryRecords
  BY DEF FreshEntry, EntryRecords, LoadResults
<1>2. TypeOK
  BY <1>1, NodeLoadsAssumption DEF Init, TypeOK, Pcs, LoadResults
<1>3. HoldersLoad /\ OwnersLoad /\ OneEntryPerKey /\ Counted
  BY DEF Init, HoldersLoad, OwnersLoad, OneEntryPerKey, Counted
<1> QED BY <1>2, <1>3 DEF LoadsInv

\* The loaders are finitely many.
LEMMA HoldersFinite ==
    ASSUME NEW e
    PROVE  IsFiniteSet(Holders(e)) /\ Cardinality(Holders(e)) \in Nat
<1>1. IsFiniteSet(Holders(e))
  BY NodeLoadsAssumption, FS_Subset DEF Holders
<1> QED BY <1>1, FS_CardinalityType

\* Steps that leave the coordinator alone.
LEMMA QuietInv ==
    ASSUME LoadsInv, TypeOK', CoordinatorUnchanged, UNCHANGED held,
           \A w \in Loaders :
            /\ pc'[w] # "idle" => operation'[w] \in 1..MaxOperations
            /\ pc'[w] \in {"enter", "load", "complete", "wait"} => key'[w] \in Keys
            /\ pc'[w] \in {"load", "complete"} <=> pc[w] \in {"load", "complete"}
            /\ pc'[w] = "wait" <=> pc[w] = "wait"
            /\ pc[w] \in {"load", "complete", "wait"} =>
                key'[w] = key[w] /\ operation'[w] = operation[w]
    PROVE  LoadsInv'
<1> USE DEF LoadsInv, CoordinatorUnchanged
<1>1. HoldersLoad'
  BY DEF HoldersLoad, Token
<1>2. OwnersLoad'
  BY DEF OwnersLoad, TypeOK
<1>3. OneEntryPerKey' /\ Counted'
  BY DEF OneEntryPerKey, Counted, Holders
<1> QED BY <1>1, <1>2, <1>3

LEMMA VisitInv ==
    ASSUME LoadsInv, NEW w \in Loaders,
           \/ BeginOperation(w) \/ EndOperation(w) \/ LoadReturns(w)
           \/ RequestCancellation(w) \/ Expire(w)
           \/ \E k \in Keys : Visit(w, k) \/ VisitStopped(w, k)
    PROVE  LoadsInv'
<1> USE NodeLoadsAssumption DEF LoadsInv, HoldersLoad
<1>1. CASE BeginOperation(w)
  <2>1. TypeOK'
    BY <1>1 DEF BeginOperation, TypeOK, Pcs, CoordinatorUnchanged, SignalsUnchanged, EntryRecords
  <2> QED BY <1>1, <2>1, QuietInv DEF BeginOperation, TypeOK
<1>2. CASE EndOperation(w)
  <2>1. TypeOK'
    BY <1>2 DEF EndOperation, TypeOK, Pcs, LoadResults, CoordinatorUnchanged
  <2> QED BY <1>2, <2>1, QuietInv DEF EndOperation, TypeOK
<1>3. CASE LoadReturns(w)
  <2>1. TypeOK'
    BY <1>3 DEF LoadReturns, TypeOK, Pcs, CoordinatorUnchanged, SignalsUnchanged
  <2> QED BY <1>3, <2>1, QuietInv DEF LoadReturns, TypeOK
<1>4. CASE RequestCancellation(w) \/ Expire(w)
  <2>1. TypeOK'
    BY <1>4 DEF RequestCancellation, Expire, TypeOK, Token, Tokens, CoordinatorUnchanged
  <2> QED BY <1>4, <2>1, QuietInv DEF RequestCancellation, Expire, TypeOK
<1>5. CASE \E k \in Keys : Visit(w, k)
  <2>1. TypeOK'
    BY <1>5 DEF Visit, TypeOK, Pcs, CoordinatorUnchanged, SignalsUnchanged
  <2> QED BY <1>5, <2>1, QuietInv DEF Visit, TypeOK
<1>6. CASE \E k \in Keys : VisitStopped(w, k)
  <2>1. TypeOK'
    BY <1>6 DEF VisitStopped, Settle, TypeOK, Pcs, LoadResults, CoordinatorUnchanged, SignalsUnchanged
  <2> QED BY <1>6, <2>1, QuietInv DEF VisitStopped, Settle, TypeOK
<1> QED BY <1>1, <1>2, <1>3, <1>4, <1>5, <1>6

\* An owner makes a free object the entry of its key.
LEMMA OwnInv == ASSUME LoadsInv, NEW w \in Loaders, Own(w) PROVE LoadsInv'
<1> USE NodeLoadsAssumption DEF LoadsInv
<1> DEFINE new == [FreshEntry EXCEPT !.key = key[w], !.owner = w,
                                     !.linked = {Token(w)}, !.interests = 1]
<1>0. PICK e : e = CHOOSE free \in FreeEntries : TRUE
  OBVIOUS
<1>1. e \in Entries /\ e \notin table /\ e # NoEntry /\ \A v \in Loaders : held[v] # e
  BY <1>0 DEF Own, FreeEntries
<1>2. /\ entry' = [entry EXCEPT ![e] = new]
      /\ table' = table \cup {e}
      /\ held' = [held EXCEPT ![w] = e]
      /\ pc[w] = "enter" /\ pc' = [pc EXCEPT ![w] = "load"]
      /\ \A f \in table : entry[f].key # key[w]
      /\ UNCHANGED <<operation, unvisited, key, loaded, cancelled, late>>
  BY <1>0 DEF Own, SignalsUnchanged
<1>3. Token(w) \in Tokens /\ Token(w)' = Token(w) /\ key[w] \in Keys /\ held[w] = NoEntry
  BY <1>2 DEF HoldersLoad, Token, Tokens
<1>4. /\ new \in EntryRecords
      /\ new.key = key[w] /\ new.owner = w /\ new.linked = {Token(w)}
      /\ new.interests = 1 /\ ~new.complete
  BY <1>3 DEF FreshEntry, EntryRecords, LoadResults
<1> HIDE DEF new
<1>5. TypeOK'
  BY <1>1, <1>2, <1>4 DEF TypeOK, Pcs
<1>6. HoldersLoad'
  BY <1>1, <1>2, <1>3, <1>4 DEF HoldersLoad, TypeOK, Token
<1>7. OwnersLoad'
  BY <1>1, <1>2, <1>3, <1>4 DEF OwnersLoad, HoldersLoad, TypeOK
<1>8. OneEntryPerKey'
  BY <1>1, <1>2, <1>4 DEF OneEntryPerKey, TypeOK
<1>9. Counted'
  <2>1. Holders(e)' = {w} /\ entry'[e].interests = 1
    BY <1>1, <1>2, <1>4 DEF Holders, TypeOK
  <2>2. \A f \in table : Holders(f)' = Holders(f) /\ entry'[f] = entry[f]
    BY <1>1, <1>2, <1>3 DEF Holders, TypeOK
  <2>3. Cardinality({w}) = 1
    BY FS_Singleton
  <2> QED BY <1>2, <2>1, <2>2, <2>3 DEF Counted
<1> QED BY <1>5, <1>6, <1>7, <1>8, <1>9

\* A later loader links its token and is counted.
LEMMA JoinInv == ASSUME LoadsInv, NEW w \in Loaders, Join(w) PROVE LoadsInv'
<1> USE NodeLoadsAssumption DEF LoadsInv
<1>1. PICK e \in table :
        /\ entry[e].key = key[w]
        /\ entry' = [entry EXCEPT ![e].linked = LinkedTo(e, w), ![e].interests = @ + 1]
        /\ held' = [held EXCEPT ![w] = e]
  BY DEF Join
<1>2. /\ pc[w] = "enter" /\ pc' = [pc EXCEPT ![w] = "wait"]
      /\ UNCHANGED <<operation, unvisited, key, loaded, cancelled, late, table>>
  BY DEF Join, SignalsUnchanged
<1>3. /\ e \in Entries /\ e # NoEntry /\ entry[e] \in EntryRecords
      /\ Token(w) \in Tokens /\ key[w] \in Keys /\ held[w] = NoEntry
  BY <1>2 DEF HoldersLoad, Token, Tokens, TypeOK
<1>4. /\ entry' \in [Entries -> EntryRecords]
      /\ \A f \in Entries : f # e => entry'[f] = entry[f]
      /\ entry'[e].key = entry[e].key /\ entry'[e].owner = entry[e].owner
      /\ entry'[e].complete = entry[e].complete
      /\ entry'[e].linked = entry[e].linked \cup {Token(w)}
      /\ entry'[e].interests = entry[e].interests + 1
  BY <1>1, <1>3 DEF LinkedTo, TypeOK, EntryRecords
<1>5. TypeOK'
  BY <1>1, <1>2, <1>3, <1>4 DEF TypeOK, Pcs
<1>6. HoldersLoad'
  BY <1>1, <1>2, <1>3, <1>4 DEF HoldersLoad, TypeOK, Token
<1>7. OwnersLoad'
  <2>1. \A v \in Loaders : pc'[v] \in {"load", "complete"} =>
            v # w /\ pc[v] \in {"load", "complete"} /\ held'[v] = held[v] /\ held[v] \in Entries
    BY <1>1, <1>2 DEF TypeOK, HoldersLoad
  <2>2. \A f \in Entries : entry'[f].owner = entry[f].owner /\ entry'[f].complete = entry[f].complete
    BY <1>4
  <2>3. \A v \in Loaders : pc[v] \in {"load", "complete"} =>
            v # w /\ pc'[v] = pc[v] /\ held'[v] = held[v]
    BY <1>1, <1>2 DEF TypeOK
  <2>4. table' = table /\ table \subseteq Entries
    BY <1>2 DEF TypeOK
  <2> QED BY <2>1, <2>2, <2>3, <2>4 DEF OwnersLoad
<1>8. OneEntryPerKey'
  BY <1>2, <1>3, <1>4 DEF OneEntryPerKey, TypeOK
<1>9. Counted'
  <2>1. Holders(e)' = Holders(e) \cup {w} /\ w \notin Holders(e)
    BY <1>1, <1>3 DEF Holders, TypeOK
  <2>2. Cardinality(Holders(e)') = Cardinality(Holders(e)) + 1
    BY <2>1, HoldersFinite, FS_AddElement
  <2>3. \A f \in table : f # e => Holders(f)' = Holders(f)
    BY <1>1, <1>3 DEF Holders, TypeOK
  <2> QED BY <1>2, <1>3, <1>4, <2>1, <2>2, <2>3 DEF Counted, TypeOK
<1> QED BY <1>5, <1>6, <1>7, <1>8, <1>9

\* A holder leaves its entry: an owner that has completed it, or a waiter.
LEMMA LeaveInv ==
    ASSUME LoadsInv, NEW w \in Loaders, NEW r \in LoadResults, NEW f,
           \/ pc[w] = "complete" /\ f = Completed(held[w], loaded[w])
           \/ pc[w] = "wait" /\ f = entry,
           Released(held[w], f), Returned(w, r), SignalsUnchanged
    PROVE  LoadsInv'
<1> USE NodeLoadsAssumption DEF LoadsInv
<1>0. PICK e : e = held[w]
  OBVIOUS
<1>1. e \in Entries /\ e \in table /\ e # NoEntry /\ entry[e] \in EntryRecords
  BY <1>0 DEF HoldersLoad, TypeOK
<1>2. /\ f \in [Entries -> EntryRecords]
      /\ \A d \in Entries : d # e => f[d] = entry[d]
      /\ f[e].key = entry[e].key /\ f[e].owner = entry[e].owner
      /\ f[e].linked = entry[e].linked /\ f[e].interests = entry[e].interests
      /\ entry[e].complete => f[e].complete
      /\ pc[w] = "complete" => f[e].complete
      /\ pc[w] = "wait" => f[e].complete = entry[e].complete
  BY <1>0, <1>1 DEF Completed, TypeOK, EntryRecords
<1>3. /\ pc' \in [Loaders -> Pcs] /\ pc'[w] \in {"visit", "end"}
      /\ \A v \in Loaders : v # w => pc'[v] = pc[v]
      /\ held' = [held EXCEPT ![w] = NoEntry]
      /\ key' = [key EXCEPT ![w] = NoKey]
      /\ loaded' \in [Loaders -> LoadResults]
      /\ UNCHANGED <<operation, unvisited, cancelled, late>>
  BY DEF Returned, Settle, SignalsUnchanged, TypeOK, Pcs, LoadResults
<1>4. /\ w \in Holders(e) /\ Holders(e)' = Holders(e) \ {w}
      /\ Cardinality(Holders(e)') = Cardinality(Holders(e)) - 1
      /\ Cardinality(Holders(e)') \in Nat
      /\ Cardinality(Holders(e)') = 0 <=> Holders(e)' = {}
  <2>1. w \in Holders(e) /\ Holders(e)' = Holders(e) \ {w}
    BY <1>0, <1>1, <1>3 DEF Holders, TypeOK
  <2>2. /\ IsFiniteSet(Holders(e)')
        /\ Cardinality(Holders(e)') = Cardinality(Holders(e)) - 1
    BY <2>1, HoldersFinite, FS_RemoveElement
  <2>3. Cardinality(Holders(e)') \in Nat
    BY <2>2, FS_CardinalityType
  <2> QED BY <2>1, <2>2, <2>3, FS_EmptySet
<1>5. \A d \in table : d # e => Holders(d)' = Holders(d)
  BY <1>0, <1>3 DEF Holders, TypeOK
<1> DEFINE n == f[e].interests - 1
<1>6. n = Cardinality(Holders(e)') /\ n \in Nat /\ Interests(e, f, n)
  <2>1. f[e].interests = Cardinality(Holders(e)) /\ Cardinality(Holders(e)) \in Nat
    BY <1>1, <1>2, HoldersFinite DEF Counted
  <2>2. f[e].interests > 0 /\ n = Cardinality(Holders(e)') /\ n \in Nat
    BY <1>4, <2>1
  <2> QED BY <1>0, <2>2 DEF Released
<1>7. ~f[e].complete => entry[e].owner \in Holders(e)'
  BY <1>0, <1>1, <1>2, <1>4 DEF OwnersLoad, Holders
<1> HIDE DEF n
<1>8. CASE n = 0 /\ f[e].complete
  <2>1. /\ table' = table \ {e}
        /\ entry' = [f EXCEPT ![e] = FreshEntry]
        /\ \A v \in Loaders : held'[v] # e
        /\ FreshEntry \in EntryRecords
    BY <1>4, <1>6, <1>8 DEF Interests, Holders, FreshEntry, EntryRecords, LoadResults
  <2>2. \A d \in table' : entry'[d] = entry[d] /\ d # e
    BY <1>0, <1>2, <2>1 DEF TypeOK
  <2>3. TypeOK'
    BY <1>0, <1>2, <1>3, <2>1 DEF TypeOK
  <2>4. HoldersLoad'
    BY <1>0, <1>1, <1>3, <2>1, <2>2 DEF HoldersLoad, TypeOK, Token
  <2>5. OwnersLoad'
    BY <1>0, <1>1, <1>3, <2>1, <2>2 DEF OwnersLoad, HoldersLoad, TypeOK
  <2>6. OneEntryPerKey' /\ Counted'
    BY <1>5, <2>1, <2>2 DEF OneEntryPerKey, Counted
  <2> QED BY <2>3, <2>4, <2>5, <2>6
<1>9. CASE ~(n = 0 /\ f[e].complete)
  <2>1. /\ table' = table
        /\ entry' = [f EXCEPT ![e].interests = n]
    BY <1>6, <1>9 DEF Interests
  <2>2. /\ entry' \in [Entries -> EntryRecords]
        /\ \A d \in Entries : d # e => entry'[d] = entry[d]
        /\ entry'[e].key = entry[e].key /\ entry'[e].owner = entry[e].owner
        /\ entry'[e].linked = entry[e].linked /\ entry'[e].interests = n
        /\ entry'[e].complete = f[e].complete
    BY <1>0, <1>1, <1>2, <1>6, <2>1 DEF EntryRecords
  <2>3. TypeOK'
    BY <1>0, <1>3, <2>1, <2>2 DEF TypeOK
  <2>4. HoldersLoad'
    BY <1>0, <1>1, <1>3, <2>1, <2>2 DEF HoldersLoad, TypeOK, Token
  <2>5. OwnersLoad'
    <3>1. ASSUME NEW v \in Loaders, pc'[v] \in {"load", "complete"}
          PROVE  entry'[held'[v]].owner = v /\ ~entry'[held'[v]].complete
      <4>1. v # w /\ pc[v] \in {"load", "complete"} /\ held'[v] = held[v] /\ held[v] \in table
        BY <1>0, <1>3, <3>1 DEF HoldersLoad, TypeOK
      <4>2. entry[held[v]].owner = v /\ ~entry[held[v]].complete
        BY <4>1 DEF OwnersLoad
      <4>3. CASE held[v] = e
        BY <1>0, <1>2, <2>2, <4>1, <4>2, <4>3 DEF OwnersLoad
      <4>4. CASE held[v] # e
        BY <2>2, <4>1, <4>2, <4>4 DEF TypeOK
      <4> QED BY <4>3, <4>4
    <3>2. ASSUME NEW d \in table', ~entry'[d].complete
          PROVE  /\ entry'[d].owner \in Loaders
                 /\ pc'[entry'[d].owner] \in {"load", "complete"}
                 /\ held'[entry'[d].owner] = d
      <4>1. d \in table /\ entry'[d].owner = entry[d].owner /\ ~entry[d].complete
        BY <1>0, <1>2, <2>1, <2>2, <3>2 DEF TypeOK
      <4>2. /\ entry[d].owner \in Loaders /\ pc[entry[d].owner] \in {"load", "complete"}
            /\ held[entry[d].owner] = d
        BY <4>1 DEF OwnersLoad
      <4>3. entry[d].owner # w
        BY <1>0, <1>2, <2>2, <3>2, <4>2
      <4> QED BY <1>0, <1>3, <4>1, <4>2, <4>3 DEF TypeOK
    <3> QED BY <3>1, <3>2 DEF OwnersLoad
  <2>6. OneEntryPerKey'
    BY <1>0, <1>1, <2>1, <2>2 DEF OneEntryPerKey, TypeOK
  <2>7. Counted'
    <3>1. Holders(e)' # {}
      BY <1>4, <1>6, <1>7, <1>9
    <3> QED BY <1>0, <1>1, <1>5, <1>6, <2>1, <2>2, <3>1 DEF Counted, TypeOK
  <2> QED BY <2>3, <2>4, <2>5, <2>6, <2>7
<1> QED BY <1>8, <1>9

LEMMA LoadsInvKept == LoadsInv /\ [Next]_vars => LoadsInv'
<1> SUFFICES ASSUME LoadsInv, [Next]_vars PROVE LoadsInv'
  OBVIOUS
<1>1. CASE UNCHANGED vars
  <2>1. TypeOK'
    BY <1>1 DEF vars, LoadsInv, TypeOK
  <2> QED BY <1>1, <2>1, QuietInv DEF vars, CoordinatorUnchanged, LoadsInv, HoldersLoad
<1>2. ASSUME NEW w \in Loaders, Complete(w) PROVE LoadsInv'
  <2>1. loaded[w] \in LoadResults
    BY DEF LoadsInv, TypeOK
  <2> QED BY <1>2, <2>1, LeaveInv DEF Complete
<1>3. ASSUME NEW w \in Loaders, Waited(w) PROVE LoadsInv'
  <2> DEFINE r == IF entry[held[w]].complete THEN entry[held[w]].result ELSE "Cancelled"
  <2>1. held[w] \in Entries
    BY <1>3 DEF Waited, LoadsInv, TypeOK, HoldersLoad
  <2>2. r \in LoadResults
    BY <2>1 DEF LoadsInv, TypeOK, EntryRecords, LoadResults
  <2>3. pc[w] = "wait" /\ Released(held[w], entry) /\ Returned(w, r) /\ SignalsUnchanged
    BY <1>3 DEF Waited
  <2> QED BY <2>2, <2>3, LeaveInv
<1>4. ASSUME NEW w \in Loaders,
             BeginOperation(w) \/ LoaderStep(w) \/ RequestCancellation(w) \/ Expire(w)
      PROVE  LoadsInv'
  BY <1>2, <1>3, <1>4, VisitInv, OwnInv, JoinInv DEF LoaderStep
<1> QED BY <1>1, <1>4 DEF Next, Finished

LEMMA LoadsInvHolds == Spec => []LoadsInv
BY LoadsInvInit, LoadsInvKept, PTL DEF Spec

\* Every reachable state is well typed.
THEOREM LoadsTypeCorrect == Spec => []TypeOK
<1>1. LoadsInv => TypeOK
  BY DEF LoadsInv
<1> QED BY <1>1, LoadsInvHolds, PTL

\* Entries are counted and freed exactly, for any loaders and keys.
THEOREM InterestsStayExact == Spec => []InterestsAreExact
<1>1. LoadsInv => InterestsAreExact
  <2> SUFFICES ASSUME LoadsInv PROVE InterestsAreExact
    OBVIOUS
  <2>1. ASSUME NEW e \in table PROVE e \in {held[w] : w \in Loaders} \ {NoEntry}
    BY <2>1, NodeLoadsAssumption DEF LoadsInv, Counted, Holders, TypeOK
  <2>2. ASSUME NEW w \in Loaders, held[w] # NoEntry PROVE held[w] \in table
    BY <2>2 DEF LoadsInv, HoldersLoad
  <2> QED BY <2>1, <2>2 DEF LoadsInv, Counted, InterestsAreExact
<1> QED BY <1>1, LoadsInvHolds, PTL

\* A key has one physical load at a time, and waiters wait for it.
THEOREM OneLoadAtATime == Spec => []OnePhysicalLoad
<1>1. LoadsInv => OnePhysicalLoad
  <2> SUFFICES ASSUME LoadsInv PROVE OnePhysicalLoad
    OBVIOUS
  <2>1. ASSUME NEW v \in Loaders, NEW w \in Loaders, pc[v] \in {"load", "complete"},
               pc[w] \in {"load", "complete"}, key[v] = key[w]
        PROVE  v = w
    <3>1. held[v] = held[w]
      BY <2>1 DEF LoadsInv, HoldersLoad, OneEntryPerKey
    <3> QED BY <2>1, <3>1 DEF LoadsInv, OwnersLoad
  <2>2. ASSUME NEW w \in Loaders, pc[w] = "wait", ~entry[held[w]].complete
        PROVE  /\ entry[held[w]].key = key[w]
               /\ pc[entry[held[w]].owner] \in {"load", "complete"}
               /\ held[entry[held[w]].owner] = held[w]
    BY <2>2 DEF LoadsInv, HoldersLoad, OwnersLoad
  <2> QED BY <2>1, <2>2 DEF OnePhysicalLoad
<1> QED BY <1>1, LoadsInvHolds, PTL

\* A load is cancelled only together with all who hold it.
THEOREM NobodyIsCancelledAlong == Spec => []CancelledTogether
<1>1. LoadsInv => CancelledTogether
  BY NodeLoadsAssumption DEF LoadsInv, TypeOK, HoldersLoad, CancelledTogether, IsCancelled, Holders
<1> QED BY <1>1, LoadsInvHolds, PTL
=============================================================================
