--------------------------- MODULE FileLease_proofs ---------------------------
(***************************************************************************)
(* Theorems about FileLease for every set of lease objects, processes and  *)
(* files: the two layers of a lease keep the promise of Lease.             *)
(***************************************************************************)
EXTENDS FileLease, TLAPS

\* What an object points to while it is in use, and nothing when it is not.
Pointers ==
    \A h \in Objects :
        IF phase[h] = "out"
          THEN path[h] = NoFile /\ mutex[h] = NoObject
          ELSE path[h] \in Files /\ mode[h] \in Modes /\ mutex[h] \in Objects

\* The registry knows the mutex of every object in use.
Registered ==
    \A h \in Objects : phase[h] # "out" => registry[Host[h]][path[h]] = mutex[h]

\* The system never gives two locks that exclude each other.
FileExclusion == \A h, o \in locked : h # o => ~Excludes(h, o)

LeaseInv == FileLeaseTypeOK /\ Pointers /\ Registered /\ FileExclusion

LEMMA LeaseInvInit == FileLeaseInit => LeaseInv
BY FileLeaseAssumption
   DEF FileLeaseInit, LeaseInv, FileLeaseTypeOK, Pointers, Registered, FileExclusion, Phases, Hosts

\* Giving up what some objects point to keeps the invariant, when the locks that are left
\* are those of the other objects.
LEMMA DroppedInv ==
    ASSUME LeaseInv, NEW some \in SUBSET Objects, Dropped(some),
           locked' = locked \ some,
           registry' \in [Hosts -> [Files -> Objects \cup {NoObject}]],
           \A h \in Objects \ some : registry'[Host[h]] = registry[Host[h]]
    PROVE  LeaseInv'
<1>1. FileLeaseTypeOK'
  BY DEF LeaseInv, FileLeaseTypeOK, Dropped, Phases
<1>2. Pointers'
  BY DEF LeaseInv, FileLeaseTypeOK, Pointers, Dropped
<1>3. Registered'
  BY DEF LeaseInv, FileLeaseTypeOK, Registered, Dropped
<1>4. FileExclusion'
  BY DEF LeaseInv, FileLeaseTypeOK, FileExclusion, Excludes, Dropped
<1> QED BY <1>1, <1>2, <1>3, <1>4 DEF LeaseInv

LEMMA LeaseInvNext == LeaseInv /\ [FileLeaseNext]_leaseVars => LeaseInv'
<1> SUFFICES ASSUME LeaseInv, [FileLeaseNext]_leaseVars PROVE LeaseInv'
  OBVIOUS
<1> USE FileLeaseAssumption
<1>1. ASSUME NEW h \in Objects, NEW q \in Files, NEW m \in Modes, GetProcessLeaseMutex(h, q, m)
      PROVE  LeaseInv'
  <2> DEFINE p == Host[h]
             found == IF Alive(p, q) THEN registry[p][q] ELSE h
  <2>1. p \in Hosts /\ phase[h] = "out"
    BY <1>1 DEF Hosts, GetProcessLeaseMutex
  <2>2. found \in Objects
    BY <2>1, <1>1 DEF Alive, LeaseInv, Pointers, FileLeaseTypeOK
  <2>3. ASSUME NEW o \in Objects, phase[o] # "out", Host[o] = p, path[o] = q
        PROVE  mutex[o] = found
    BY <2>3 DEF Alive, LeaseInv, Registered
  <2>4. /\ path' = [path EXCEPT ![h] = q] /\ mode' = [mode EXCEPT ![h] = m]
        /\ mutex' = [mutex EXCEPT ![h] = found]
        /\ registry' = [registry EXCEPT ![p][q] = found]
        /\ phase' = [phase EXCEPT ![h] = "process"]
        /\ UNCHANGED <<guarded, locked>>
    BY <1>1 DEF GetProcessLeaseMutex
  <2> HIDE DEF found
  <2>5. FileLeaseTypeOK'
    BY <2>1, <2>2, <2>4 DEF LeaseInv, FileLeaseTypeOK, Phases
  <2>6. Pointers'
    BY <2>1, <2>2, <2>4 DEF LeaseInv, FileLeaseTypeOK, Pointers
  <2>7. Registered'
    <3> SUFFICES ASSUME NEW o \in Objects, phase'[o] # "out"
                 PROVE  registry'[Host[o]][path'[o]] = mutex'[o]
      BY DEF Registered
    <3>1. CASE o = h
      BY <3>1, <2>1, <2>4 DEF LeaseInv, FileLeaseTypeOK
    <3>2. CASE o # h
      <4>1. phase[o] # "out" /\ path'[o] = path[o] /\ mutex'[o] = mutex[o] /\ path[o] \in Files
            /\ Host[o] \in Hosts
        BY <3>2, <2>4 DEF LeaseInv, FileLeaseTypeOK, Pointers, Hosts
      <4>2. CASE Host[o] = p /\ path[o] = q
        BY <4>1, <4>2, <2>1, <2>3, <2>4 DEF LeaseInv, FileLeaseTypeOK
      <4>3. CASE ~(Host[o] = p /\ path[o] = q)
        BY <4>1, <4>3, <2>1, <2>4 DEF LeaseInv, FileLeaseTypeOK, Registered
      <4> QED BY <4>2, <4>3
    <3> QED BY <3>1, <3>2
  <2>8. FileExclusion'
    <3>1. h \notin locked
      BY <2>1 DEF LeaseInv, FileLeaseTypeOK
    <3> QED BY <3>1, <2>4 DEF LeaseInv, FileLeaseTypeOK, FileExclusion, Excludes
  <2> QED BY <2>5, <2>6, <2>7, <2>8 DEF LeaseInv
<1>2. ASSUME NEW h \in Objects, LockProcess(h) PROVE LeaseInv'
  BY <1>2 DEF LockProcess, LeaseInv, FileLeaseTypeOK, Phases, Pointers, Registered, FileExclusion, Excludes
<1>3. ASSUME NEW h \in Objects, ProcessTimeout(h) \/ DropImpl(h) PROVE LeaseInv'
  <2>1. Dropped({h}) /\ UNCHANGED <<locked, registry>> /\ h \notin locked
    BY <1>3 DEF ProcessTimeout, DropImpl, LeaseInv, FileLeaseTypeOK
  <2>2. locked' = locked \ {h} /\ {h} \in SUBSET Objects
    BY <2>1
  <2> QED BY <2>1, <2>2, DroppedInv DEF LeaseInv, FileLeaseTypeOK
<1>4. ASSUME NEW h \in Objects, LockNative(h) PROVE LeaseInv'
  <2>1. FileLeaseTypeOK'
    BY <1>4 DEF LockNative, LeaseInv, FileLeaseTypeOK, Phases
  <2>2. Pointers' /\ Registered'
    BY <1>4 DEF LockNative, LeaseInv, FileLeaseTypeOK, Pointers, Registered
  <2>3. FileExclusion'
    BY <1>4 DEF LockNative, LeaseInv, FileExclusion, Excludes, FileFree
  <2> QED BY <2>1, <2>2, <2>3 DEF LeaseInv
<1>5. ASSUME NEW h \in Objects, NativeFails(h) \/ WriteMetadata(h) \/ Unlock(h) PROVE LeaseInv'
  <2>1. FileLeaseTypeOK'
    BY <1>5 DEF NativeFails, WriteMetadata, Unlock, LeaseInv, FileLeaseTypeOK, Phases
  <2>2. Pointers' /\ Registered'
    BY <1>5 DEF NativeFails, WriteMetadata, Unlock, LeaseInv, FileLeaseTypeOK, Pointers, Registered
  <2>3. locked' \subseteq locked /\ UNCHANGED <<path, mode>>
    BY <1>5 DEF NativeFails, WriteMetadata, Unlock
  <2>4. FileExclusion'
    BY <2>3 DEF LeaseInv, FileExclusion, Excludes
  <2> QED BY <2>1, <2>2, <2>4 DEF LeaseInv
<1>6. ASSUME NEW p \in Hosts, HostEnds(p) PROVE LeaseInv'
  <2> DEFINE dead == {h \in Objects : Host[h] = p}
  <2>1. dead \in SUBSET Objects /\ Dropped(dead) /\ locked' = locked \ dead
        /\ registry' = [registry EXCEPT ![p] = [q \in Files |-> NoObject]]
    BY <1>6 DEF HostEnds
  <2>2. registry' \in [Hosts -> [Files -> Objects \cup {NoObject}]]
    BY <2>1 DEF LeaseInv, FileLeaseTypeOK
  <2>3. \A h \in Objects \ dead : registry'[Host[h]] = registry[Host[h]]
    BY <2>1 DEF LeaseInv, FileLeaseTypeOK, Hosts
  <2> QED BY <2>1, <2>2, <2>3, DroppedInv
<1>7. ASSUME UNCHANGED leaseVars PROVE LeaseInv'
  BY <1>7 DEF leaseVars, LeaseInv, FileLeaseTypeOK, Pointers, Registered, FileExclusion, Excludes
<1> QED
  BY <1>1, <1>2, <1>3, <1>4, <1>5, <1>6, <1>7 DEF FileLeaseNext, LeaseStep

THEOREM LeaseInvHolds == FileLeaseSpec => []LeaseInv
<1>1. FileLeaseInit => LeaseInv
  BY LeaseInvInit
<1>2. LeaseInv /\ [FileLeaseNext]_leaseVars => LeaseInv'
  BY LeaseInvNext
<1> QED BY <1>1, <1>2, PTL DEF FileLeaseSpec

\* The type invariant: at each point of Acquire and Release, on every early return and
\* after the end of any process, what is locked is what that point has locked.
THEOREM TypeCorrect == FileLeaseSpec => []FileLeaseTypeOK
<1>1. LeaseInv => FileLeaseTypeOK
  BY DEF LeaseInv
<1> QED BY <1>1, LeaseInvHolds, PTL

\* GetProcessLeaseMutex gives all objects of a process that use a path the same mutex.
THEOREM MutexIsShared == FileLeaseSpec => []OneMutexPerPath
<1>1. LeaseInv => OneMutexPerPath
  <2> SUFFICES ASSUME LeaseInv, NEW h \in Objects, NEW o \in Objects,
                      Host[h] = Host[o], path[h] = path[o]
               PROVE  mutex[h] = mutex[o]
    BY DEF OneMutexPerPath
  <2>1. CASE phase[h] = "out"
    BY <2>1, FileLeaseAssumption DEF LeaseInv, Pointers
  <2>2. CASE phase[h] # "out"
    BY <2>2, FileLeaseAssumption DEF LeaseInv, Pointers, Registered
  <2> QED BY <2>1, <2>2
<1> QED BY <1>1, LeaseInvHolds, PTL

-----------------------------------------------------------------------------
(* The refinement.                                                         *)

LEMMA LeaseOfMembers ==
    \A l : l \in LeaseOf <=> \E h \in Objects : phase[h] = "held" /\ l = <<h, path[h], mode[h]>>
BY DEF LeaseOf

\* An object that has got what it asked for appears in the abstract lease, as Acquire says.
LEMMA HeldIsAcquire ==
    ASSUME LeaseInv, LeaseInv', NEW h \in Objects, phase[h] \in {"native", "metadata"},
           phase' = [phase EXCEPT ![h] = "held"],
           UNCHANGED <<path, mode>>, h \in locked'
    PROVE  Promise!Acquire(h, path[h], mode[h])
<1>1. phase'[h] = "held" /\ \A o \in Objects \ {h} : phase'[o] = phase[o]
  BY DEF LeaseInv, FileLeaseTypeOK
<1>2. ASSUME NEW l \in LeaseOf
      PROVE  l[1] # h /\ (l[2] = path[h] => mode[h] = "Shared" /\ l[3] = "Shared")
  <2>1. PICK o \in Objects : phase[o] = "held" /\ l = <<o, path[o], mode[o]>>
    BY <1>2, LeaseOfMembers
  <2>2. o # h /\ o \in locked' /\ h \in locked'
    BY <2>1, <1>1 DEF LeaseInv, FileLeaseTypeOK
  <2>3. ~Excludes(h, o)'
    BY <2>2 DEF LeaseInv, FileExclusion
  <2>4. mode[o] \in Modes /\ mode[h] \in Modes
    BY <2>1 DEF LeaseInv, Pointers
  <2> QED BY <2>1, <2>2, <2>3, <2>4 DEF Excludes, Modes
<1>3. LeaseOf' = LeaseOf \cup {<<h, path[h], mode[h]>>}
  <2>1. \A l : l \in LeaseOf' <=> \E o \in Objects : phase'[o] = "held" /\ l = <<o, path[o], mode[o]>>
    BY DEF LeaseOf
  <2> QED BY <2>1, <1>1, LeaseOfMembers
<1> QED BY <1>2, <1>3 DEF Promise!Acquire

\* Nobody begins or ceases to hold anything.
LEMMA NotHeld ==
    ASSUME LeaseInv, LeaseInv',
           \A h \in Objects : phase[h] = "held" \/ phase'[h] = "held" =>
                phase'[h] = phase[h] /\ path'[h] = path[h] /\ mode'[h] = mode[h]
    PROVE  LeaseOf' = LeaseOf
<1>1. \A l : l \in LeaseOf' <=> \E h \in Objects : phase'[h] = "held" /\ l = <<h, path'[h], mode'[h]>>
  BY DEF LeaseOf
<1> QED BY <1>1, LeaseOfMembers

\* What the objects in some held is gone, the rest stays.
LEMMA HeldGone ==
    ASSUME LeaseInv, NEW some \in SUBSET Objects,
           \A h \in some : phase'[h] # "held",
           \A h \in Objects \ some :
                phase'[h] = phase[h] /\ path'[h] = path[h] /\ mode'[h] = mode[h]
    PROVE  LeaseOf' = {l \in LeaseOf : l[1] \notin some}
<1>1. \A l : l \in LeaseOf' <=> \E h \in Objects : phase'[h] = "held" /\ l = <<h, path'[h], mode'[h]>>
  BY DEF LeaseOf
<1>2. \A h : <<h, path[h], mode[h]>>[1] = h
  OBVIOUS
<1> QED BY <1>1, <1>2, LeaseOfMembers

LEMMA StepRefines ==
    ASSUME LeaseInv, LeaseInv', [FileLeaseNext]_leaseVars
    PROVE  [Promise!Next]_LeaseOf
<1>1. ASSUME NEW h \in Objects, NEW q \in Files, NEW m \in Modes, GetProcessLeaseMutex(h, q, m)
      PROVE  LeaseOf' = LeaseOf
  BY <1>1, NotHeld DEF GetProcessLeaseMutex, LeaseInv, FileLeaseTypeOK
<1>2. ASSUME NEW h \in Objects, LockProcess(h) \/ ProcessTimeout(h) \/ NativeFails(h) \/ DropImpl(h)
      PROVE  LeaseOf' = LeaseOf
  BY <1>2, NotHeld
     DEF LockProcess, ProcessTimeout, NativeFails, DropImpl, Dropped, LeaseInv, FileLeaseTypeOK
<1>3. ASSUME NEW h \in Objects, LockNative(h) PROVE [Promise!Next]_LeaseOf
  <2>1. CASE mode[h] = "Shared"
    <3>1. path[h] \in Files /\ mode[h] \in Modes
      BY <1>3 DEF LockNative, LeaseInv, Pointers
    <3>2. Promise!Acquire(h, path[h], mode[h])
      BY <1>3, <2>1, HeldIsAcquire DEF LockNative
    <3> QED BY <3>1, <3>2 DEF Promise!Next, Promise!LeaseModes, Modes
  <2>2. CASE mode[h] # "Shared"
    <3>1. LeaseOf' = LeaseOf
      BY <1>3, <2>2, NotHeld DEF LockNative, LeaseInv, FileLeaseTypeOK
    <3> QED BY <3>1
  <2> QED BY <2>1, <2>2
<1>4. ASSUME NEW h \in Objects, WriteMetadata(h) PROVE [Promise!Next]_LeaseOf
  <2>1. CASE phase' = [phase EXCEPT ![h] = "held"] /\ UNCHANGED locked
    <3>1. path[h] \in Files /\ mode[h] \in Modes /\ h \in locked
      BY <1>4 DEF WriteMetadata, LeaseInv, Pointers, FileLeaseTypeOK
    <3>2. Promise!Acquire(h, path[h], mode[h])
      BY <1>4, <2>1, <3>1, HeldIsAcquire DEF WriteMetadata
    <3> QED BY <3>1, <3>2 DEF Promise!Next, Promise!LeaseModes, Modes
  <2>2. CASE phase' = [phase EXCEPT ![h] = "unlocked"]
    <3>1. LeaseOf' = LeaseOf
      BY <1>4, <2>2, NotHeld DEF WriteMetadata, LeaseInv, FileLeaseTypeOK
    <3> QED BY <3>1
  <2> QED BY <1>4, <2>1, <2>2 DEF WriteMetadata
<1>5. ASSUME NEW h \in Objects, Unlock(h) PROVE [Promise!Next]_LeaseOf
  <2> DEFINE some == {h}
  <2>3. /\ some \in SUBSET Objects
        /\ \A o \in some : phase'[o] # "held"
        /\ \A o \in Objects \ some :
                phase'[o] = phase[o] /\ path'[o] = path[o] /\ mode'[o] = mode[o]
    BY <1>5 DEF Unlock, LeaseInv, FileLeaseTypeOK
  <2> HIDE DEF some
  <2>4. LeaseOf' = {l \in LeaseOf : l[1] \notin some}
    BY <2>3, HeldGone
  <2>1. LeaseOf' = {l \in LeaseOf : l[1] \notin {h}}
    BY <2>4 DEF some
  <2>2. Promise!Release(h)
    BY <2>1 DEF Promise!Release
  <2> QED BY <2>2 DEF Promise!Next
<1>6. ASSUME NEW p \in Hosts, HostEnds(p) PROVE [Promise!Next]_LeaseOf
  <2> DEFINE dead == {h \in Objects : Host[h] = p}
  <2>5. /\ \A o \in dead : phase'[o] # "held"
        /\ \A o \in Objects \ dead :
                phase'[o] = phase[o] /\ path'[o] = path[o] /\ mode'[o] = mode[o]
    BY <1>6 DEF HostEnds, Dropped, LeaseInv, FileLeaseTypeOK
  <2>1. LeaseOf' = {l \in LeaseOf : l[1] \notin dead}
    BY <2>5, HeldGone
  <2>2. \A l \in LeaseOf : l[1] \in Objects
    BY LeaseOfMembers
  <2>3. LeaseOf' = {l \in LeaseOf : Host[l[1]] # p}
    BY <2>1, <2>2
  <2>4. Promise!ProcessEnds(p)
    BY <2>3 DEF Promise!ProcessEnds
  <2> QED BY <2>4 DEF Promise!Next, Hosts
<1>7. ASSUME UNCHANGED leaseVars PROVE LeaseOf' = LeaseOf
  BY <1>7 DEF leaseVars, LeaseOf
<1> QED
  BY <1>1, <1>2, <1>3, <1>4, <1>5, <1>6, <1>7 DEF FileLeaseNext, LeaseStep

\* The mutex of the process and the lock of the system together are the lease that the
\* store, the publisher and the readers count on.
THEOREM LeaseIsKept == FileLeaseSpec => ImplementsLease
<1>1. FileLeaseInit => Promise!LeaseInit
  BY DEF FileLeaseInit, Promise!LeaseInit, LeaseOf
<1>2. LeaseInv /\ LeaseInv' /\ [FileLeaseNext]_leaseVars => [Promise!Next]_LeaseOf
  BY StepRefines
<1> QED BY <1>1, <1>2, LeaseInvHolds, PTL DEF FileLeaseSpec, ImplementsLease, Promise!Spec
=============================================================================
