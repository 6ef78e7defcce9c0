---------------------------- MODULE MCResources ----------------------------
(***************************************************************************)
(* Instances of the components that share a resource with another process  *)
(* or with the device: the file lease, the derived data store, the         *)
(* publisher with its readers, and the visible frames.  They share no      *)
(* state, so that a run takes one of them at a time: what it explores is   *)
(* their sum, not their product.                                           *)
(***************************************************************************)
EXTENDS FileLease, DerivedDataStore, GenerationPublisher, VisibleFrames, TLC

CONSTANTS c1, c2, r1, sw, tg, a, b, bad, none, i1, i2, i3

VARIABLE workload

MCHolders == {c1, c2, r1, sw, tg}

\* Two cookers, a runtime, and maintenance in the process of the second cooker.
MCProcessOf == (c1 :> 1) @@ (c2 :> 2) @@ (r1 :> 3) @@ (sw :> 2) @@ (tg :> 2)

\* Three lease objects, two of them in one process.
MCHost == (c1 :> 1) @@ (sw :> 2) @@ (tg :> 2)

MCLeasePath == (a :> a) @@ (b :> b)

\* The source changes twice, and comes back.
MCHistory == <<a, b, a>>

Quiet ==
    /\ generations = [g \in Ids |-> "absent"]
    /\ next = NoId
    /\ current = NoId

MCInit ==
    /\ FileLeaseInit /\ LeaseInit /\ StoreInit /\ PublishInit /\ FramesInit
    /\ \/ workload \in {"lease", "store", "frames"} /\ Quiet
       \/ workload = "publication"

MCNext ==
    /\ \/ /\ workload = "lease" /\ FileLeaseNext
          /\ UNCHANGED <<lease, storeVars, publishVars, frameVars>>
       \/ /\ workload = "store" /\ StoreNext
          /\ UNCHANGED <<leaseVars, publishVars, frameVars>>
       \/ /\ workload = "publication" /\ PublishNext
          /\ UNCHANGED <<leaseVars, storeVars, frameVars>>
       \/ /\ workload = "frames" /\ FramesNext
          /\ UNCHANGED <<leaseVars, lease, storeVars, publishVars>>
    /\ UNCHANGED workload

MCSpec ==
    MCInit /\ [][MCNext]_<<workload, leaseVars, lease, storeVars, publishVars, frameVars>>
=============================================================================
