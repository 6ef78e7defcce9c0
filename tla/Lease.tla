------------------------------- MODULE Lease -------------------------------
(***************************************************************************)
(* What a file lease promises, whoever holds it and however it is built:   *)
(* each path has any number of shared holders, or one exclusive holder,    *)
(* and the end of a process gives back what it held.  FileLease implements *)
(* this; the derived data store, the publisher and the readers rely on it. *)
(***************************************************************************)

CONSTANTS
    Holders,    \* lease objects
    ProcessOf,  \* the process of each
    Paths       \* paths of lease files

VARIABLE lease  \* who holds what: triples of a holder, a path and a mode

LeaseModes == {"Shared", "Exclusive"}

LeaseTypeOK == lease \subseteq Holders \X Paths \X LeaseModes

LeaseInit == lease = {}

Holds(h, q, m) == <<h, q, m>> \in lease

\* h gets the path q, unless it or another holder is in the way.
Acquire(h, q, m) ==
    /\ \A l \in lease : l[1] # h /\ (l[2] = q => m = "Shared" /\ l[3] = "Shared")
    /\ lease' = lease \cup {<<h, q, m>>}

Release(h) == lease' = {l \in lease : l[1] # h}

ProcessEnds(process) == lease' = {l \in lease : ProcessOf[l[1]] # process}

Next ==
    \/ \E h \in Holders :
        \/ \E q \in Paths, m \in LeaseModes : Acquire(h, q, m)
        \/ Release(h)
    \/ \E process \in {ProcessOf[h] : h \in Holders} : ProcessEnds(process)

Spec == LeaseInit /\ [][Next]_lease

\* An exclusive holder of a path is its only holder.
Exclusion ==
    \A l, k \in lease : l[2] = k[2] /\ l[3] = "Exclusive" => l = k
=============================================================================
