----------------------------- MODULE FileLease -----------------------------
(***************************************************************************)
(* FPlatformFileLease.  A lease object first takes a shared_timed_mutex    *)
(* that its process keeps per path through a weak pointer, then the lock   *)
(* of the operating system on the file, which holds between processes and  *)
(* goes with the descriptor.  Both waits end at the same deadline.         *)
(*                                                                         *)
(* A mutex is named by the lease object that created it.  A step is one    *)
(* critical section of the registry, or one call on the mutex or the file. *)
(* A lease object is used again once it has been released.                 *)
(***************************************************************************)
EXTENDS Integers, FiniteSets

CONSTANTS
    Objects,    \* the FPlatformFileLease objects
    Host,       \* the process of each
    Files,      \* canonical paths of lease files
    NoObject,   \* not a lease object
    NoFile      \* not a path

ASSUME FileLeaseAssumption == NoObject \notin Objects /\ NoFile \notin Files

VARIABLES
    phase,      \* where an object is in Acquire or Release
    path,       \* the path it asks for
    mode,       \* the mode it asks for
    mutex,      \* the mutex it points to
    guarded,    \* holders that have locked their mutex
    locked,     \* holders whose descriptor has the lock of the system
    registry    \* GLeaseRegistry of each process: what its weak pointers point to

leaseVars == <<phase, path, mode, mutex, guarded, locked, registry>>

-----------------------------------------------------------------------------
Modes == {"Shared", "Exclusive"}

Hosts == {Host[h] : h \in Objects}

Phases == {"out", "process", "native", "metadata", "held", "unlocked"}

\* Types, and what an object has locked at each point of Acquire and Release: no early
\* return keeps a lock.
FileLeaseTypeOK ==
    /\ phase \in [Objects -> Phases]
    /\ path \in [Objects -> Files \cup {NoFile}]
    /\ mode \in [Objects -> Modes \cup {"None"}]
    /\ mutex \in [Objects -> Objects \cup {NoObject}]
    /\ guarded = {h \in Objects : phase[h] \in {"native", "metadata", "held", "unlocked"}}
    /\ locked = {h \in Objects : phase[h] \in {"metadata", "held"}}
    /\ registry \in [Hosts -> [Files -> Objects \cup {NoObject}]]

FileLeaseInit ==
    /\ phase = [h \in Objects |-> "out"]
    /\ path = [h \in Objects |-> NoFile]
    /\ mode = [h \in Objects |-> "None"]
    /\ mutex = [h \in Objects |-> NoObject]
    /\ guarded = {}
    /\ locked = {}
    /\ registry = [p \in Hosts |-> [q \in Files |-> NoObject]]

-----------------------------------------------------------------------------
\* Two locks on one path that exclude each other.
Excludes(h, o) == path[h] = path[o] /\ "Exclusive" \in {mode[h], mode[o]}

\* The lease objects in some give up what they point to.
Dropped(some) ==
    /\ phase' = [h \in Objects |-> IF h \in some THEN "out" ELSE phase[h]]
    /\ path' = [h \in Objects |-> IF h \in some THEN NoFile ELSE path[h]]
    /\ mode' = [h \in Objects |-> IF h \in some THEN "None" ELSE mode[h]]
    /\ mutex' = [h \in Objects |-> IF h \in some THEN NoObject ELSE mutex[h]]
    /\ guarded' = guarded \ some

\* lock() on the weak pointer finds that somebody still has the mutex.
Alive(p, q) == \E h \in Objects : Host[h] = p /\ path[h] = q /\ mutex[h] = registry[p][q]

\* The lock that h asks for is free on its mutex.
MutexFree(h) == \A o \in guarded : mutex[o] = mutex[h] => ~Excludes(h, o)

\* flock: the lock that h asks for is free on the file.
FileFree(h) == \A o \in locked : ~Excludes(h, o)

\* A registry that does not look for the mutex of the path.
GetProcessLeaseMutexAnew(h, q, m) ==
    /\ phase[h] = "out"
    /\ path' = [path EXCEPT ![h] = q]
    /\ mode' = [mode EXCEPT ![h] = m]
    /\ mutex' = [mutex EXCEPT ![h] = h]
    /\ registry' = [registry EXCEPT ![Host[h]][q] = h]
    /\ phase' = [phase EXCEPT ![h] = "process"]
    /\ UNCHANGED <<guarded, locked>>

\* Acquire is called with legal arguments: the mutex of the process for the path is
\* found, or created.
GetProcessLeaseMutex(h, q, m) ==
    LET p == Host[h]
        found == IF Alive(p, q) THEN registry[p][q] ELSE h
    IN  /\ phase[h] = "out"
        /\ path' = [path EXCEPT ![h] = q]
        /\ mode' = [mode EXCEPT ![h] = m]
        /\ mutex' = [mutex EXCEPT ![h] = found]
        /\ registry' = [registry EXCEPT ![p][q] = found]
        /\ phase' = [phase EXCEPT ![h] = "process"]
        /\ UNCHANGED <<guarded, locked>>

\* try_lock_until gets the mutex.
LockProcess(h) ==
    /\ phase[h] = "process"
    /\ MutexFree(h)
    /\ guarded' = guarded \cup {h}
    /\ phase' = [phase EXCEPT ![h] = "native"]
    /\ UNCHANGED <<path, mode, mutex, locked, registry>>

\* try_lock_until reaches the deadline: the candidate goes.
ProcessTimeout(h) ==
    /\ phase[h] = "process"
    /\ ~MutexFree(h)
    /\ Dropped({h})
    /\ UNCHANGED <<locked, registry>>

\* An Acquire that does not look at the result of flock.
LockNativeUnchecked(h) ==
    /\ phase[h] = "native"
    /\ locked' = locked \cup {h}
    /\ phase' = [phase EXCEPT ![h] = IF mode[h] = "Shared" THEN "held" ELSE "metadata"]
    /\ UNCHANGED <<path, mode, mutex, guarded, registry>>

\* flock succeeds; a shared lease is then complete.
LockNative(h) ==
    /\ phase[h] = "native"
    /\ FileFree(h)
    /\ locked' = locked \cup {h}
    /\ phase' = [phase EXCEPT ![h] = IF mode[h] = "Shared" THEN "held" ELSE "metadata"]
    /\ UNCHANGED <<path, mode, mutex, guarded, registry>>

\* The file cannot be opened, or flock fails, or would block past the deadline: the
\* descriptor is closed, the candidate still has the mutex.
NativeFails(h) ==
    /\ phase[h] = "native"
    /\ phase' = [phase EXCEPT ![h] = "unlocked"]
    /\ UNCHANGED <<path, mode, mutex, guarded, locked, registry>>

\* An exclusive holder writes its metadata, or fails to and closes the descriptor.
WriteMetadata(h) ==
    /\ phase[h] = "metadata"
    /\ \/ /\ phase' = [phase EXCEPT ![h] = "held"]
          /\ UNCHANGED locked
       \/ /\ phase' = [phase EXCEPT ![h] = "unlocked"]
          /\ locked' = locked \ {h}
    /\ UNCHANGED <<path, mode, mutex, guarded, registry>>

\* Release: the file is unlocked and closed ...
Unlock(h) ==
    /\ phase[h] = "held"
    /\ locked' = locked \ {h}
    /\ phase' = [phase EXCEPT ![h] = "unlocked"]
    /\ UNCHANGED <<path, mode, mutex, guarded, registry>>

\* A destructor that leaves the mutex locked.
DropImplGuarding(h) ==
    /\ phase[h] = "unlocked"
    /\ phase' = [phase EXCEPT ![h] = "out"]
    /\ path' = [path EXCEPT ![h] = NoFile]
    /\ mode' = [mode EXCEPT ![h] = "None"]
    /\ mutex' = [mutex EXCEPT ![h] = NoObject]
    /\ UNCHANGED <<guarded, locked, registry>>

\* ... and then the object goes, with the lock of its process.
DropImpl(h) ==
    /\ phase[h] = "unlocked"
    /\ Dropped({h})
    /\ UNCHANGED <<locked, registry>>

\* A process ends: the system closes its files, its memory is gone.
HostEnds(p) ==
    LET dead == {h \in Objects : Host[h] = p}
    IN  /\ Dropped(dead)
        /\ locked' = locked \ dead
        /\ registry' = [registry EXCEPT ![p] = [q \in Files |-> NoObject]]

\* The steps inside Acquire and Release once they are called.
LeaseStep(h) ==
    \/ LockProcess(h) \/ ProcessTimeout(h)
    \/ LockNative(h) \/ NativeFails(h) \/ WriteMetadata(h)
    \/ DropImpl(h)

FileLeaseNext ==
    \/ \E h \in Objects :
        \/ \E q \in Files, m \in Modes : GetProcessLeaseMutex(h, q, m)
        \/ LeaseStep(h)
        \/ Unlock(h)
    \/ \E p \in Hosts : HostEnds(p)

FileLeaseSpec == FileLeaseInit /\ [][FileLeaseNext]_leaseVars

-----------------------------------------------------------------------------
(* Properties.                                                             *)

\* What the callers of Acquire hold.
LeaseOf == {<<h, path[h], mode[h]>> : h \in {o \in Objects : phase[o] = "held"}}

Promise == INSTANCE Lease
    WITH Holders <- Objects, ProcessOf <- Host, Paths <- Files, lease <- LeaseOf

\* Through all timeouts, failures and ends of processes, between threads of one
\* process and between processes: a path has shared holders or one exclusive holder,
\* and one that waits gets nothing until the others have given theirs back.
ImplementsLease == Promise!Spec

\* The lease objects of a process that arbitrate a path do it on one mutex, although
\* the registry keeps it by a weak pointer and objects come and go (lines 37 to 52).
OneMutexPerPath ==
    \A h, o \in Objects :
        Host[h] = Host[o] /\ path[h] = path[o] => mutex[h] = mutex[o]
=============================================================================
