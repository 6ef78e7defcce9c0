------------------------ MODULE GenerationPublisher ------------------------
(***************************************************************************)
(* FCookedGenerationPublisher and FBoundCookedGeneration: cooker processes *)
(* publish generations under one output root, runtime processes bind the   *)
(* current one and keep it by a reader lease.  Files outlive processes,    *)
(* which may end between any two steps.                                    *)
(*                                                                         *)
(* The source changes by itself: it goes through the contents History, and *)
(* a content may come back.  A generation is named by the content it was   *)
(* cooked from.  Maintenance is not in the repository; it is modelled from *)
(* the contract of the reader leases, and holds the publication lease too. *)
(***************************************************************************)
EXTENDS Lease, Integers, Sequences

CONSTANTS
    Publishers,     \* lease objects of publications
    Readers,        \* lease objects of bound generations
    Sweep, Target,  \* the two lease objects of maintenance
    Ids,            \* generation ids
    History,        \* the content of the source, version by version
    PublishLock,    \* the path .publish.lock
    LeasePath,      \* the reader lease path of a generation
    NoId            \* not a generation id

ASSUME PublisherAssumption ==
    /\ Publishers \cup Readers \cup {Sweep, Target} \subseteq Holders
    /\ Publishers \cap Readers = {} /\ Sweep # Target
    /\ (Publishers \cup Readers) \cap {Sweep, Target} = {}
    /\ ProcessOf[Sweep] = ProcessOf[Target]
    /\ History \in Seq(Ids) /\ History # <<>>
    /\ PublishLock \in Paths
    /\ LeasePath \in [Ids -> Paths]
    /\ \A g \in Ids : LeasePath[g] # PublishLock
    /\ \A g, f \in Ids : LeasePath[g] = LeasePath[f] => g = f
    /\ NoId \notin Ids

VARIABLES
    source,         \* version of the source
    step,           \* where a publisher is in Publish
    cooked,         \* the generation it publishes
    verified,       \* version of the source that RevalidateInputs saw
    stage,          \* its staging directory
    generations,    \* Generations/<id>
    next,           \* what Current.next holds
    current,        \* what Current.json holds
    currentVersion, \* the version verified for it (history variable)
    reader,         \* where a reader is
    chosen,         \* the generation its pointer names
    sweep,          \* where maintenance is
    doomed          \* the generation it removes

pointerVars == <<next, current, currentVersion>>
publisherVars == <<step, cooked, verified, stage>>
bindVars == <<reader, chosen>>
sweepVars == <<sweep, doomed>>
othersVars == <<lease, bindVars, sweepVars>>
publishVars == <<source, publisherVars, generations, pointerVars, bindVars, sweepVars>>

-----------------------------------------------------------------------------
Steps == {"idle", "lease", "copy", "validate", "revalidate", "compare", "move",
          "recheck", "truncate", "write", "reread", "replace", "audit", "return"}

\* A directory of payloads and a manifest: whole, or not what its name says.
Images == {"absent", "whole", "broken"}

Torn == "torn"

\* Types; and a stage exists between its creation and the move or Cleanup, the
\* publication lease from its acquisition to the return.
PublishTypeOK ==
    /\ source \in 1..Len(History)
    /\ step \in [Publishers -> Steps]
    /\ cooked \in [Publishers -> Ids \cup {NoId}]
    /\ verified \in [Publishers -> 0..Len(History)]
    /\ stage \in [Publishers -> Images]
    /\ generations \in [Ids -> Images]
    /\ next \in Ids \cup {NoId, Torn}
    /\ current \in Ids \cup {NoId}
    /\ currentVersion \in 0..Len(History)
    /\ reader \in [Readers -> {"idle", "lease", "validate", "bound"}]
    /\ chosen \in [Readers -> Ids \cup {NoId}]
    /\ sweep \in {"idle", "locked", "check", "remove"}
    /\ doomed \in Ids \cup {NoId}
    /\ \A p \in Publishers :
        /\ stage[p] # "absent" <=> step[p] \in {"copy", "validate", "revalidate", "compare", "move"}
        /\ Holds(p, PublishLock, "Exclusive") <=> step[p] \notin {"idle", "lease"}

\* Earlier publications and accidents may have left anything but a pointer to
\* what is not there.
PublishInit ==
    /\ source = 1
    /\ step = [p \in Publishers |-> "idle"]
    /\ cooked = [p \in Publishers |-> NoId]
    /\ verified = [p \in Publishers |-> 0]
    /\ stage = [p \in Publishers |-> "absent"]
    /\ generations \in [Ids -> Images]
    /\ next \in {NoId, Torn}
    /\ current \in {g \in Ids : generations[g] = "whole"} \cup {NoId}
    /\ currentVersion = 0
    /\ reader = [r \in Readers |-> "idle"]
    /\ chosen = [r \in Readers |-> NoId]
    /\ sweep = "idle"
    /\ doomed = NoId

-----------------------------------------------------------------------------
(* Publish.                                                                *)

At(p, from, to) == step[p] = from /\ step' = [step EXCEPT ![p] = to]

\* Somebody edits the source.
Edit ==
    /\ source < Len(History)
    /\ source' = source + 1
    /\ UNCHANGED <<publisherVars, generations, pointerVars, othersVars>>

\* The cooker takes a snapshot of the source, builds the request image and calls
\* Publish, which validates the image and asks for the publication lease.
BeginPublish(p) ==
    /\ At(p, "idle", "lease")
    /\ cooked' = [cooked EXCEPT ![p] = History[source]]
    /\ UNCHANGED <<source, verified, stage, generations, pointerVars, othersVars>>

\* The lease timed out, or its metadata could not be written.
LeaseFailed(p) ==
    /\ At(p, "lease", "idle")
    /\ cooked' = [cooked EXCEPT ![p] = NoId]
    /\ UNCHANGED <<source, verified, stage, generations, pointerVars, othersVars>>

\* The lease is there: a unique stage is created ...
BeginCopy(p) ==
    /\ Acquire(p, PublishLock, "Exclusive")
    /\ At(p, "lease", "copy")
    /\ stage' = [stage EXCEPT ![p] = "broken"]
    /\ UNCHANGED <<source, cooked, verified, generations, pointerVars, bindVars, sweepVars>>

\* ... and filled; the bytes that arrive may be wrong.
FinishCopy(p) ==
    /\ At(p, "copy", "validate")
    /\ \E image \in {"whole", "broken"} : stage' = [stage EXCEPT ![p] = image]
    /\ UNCHANGED <<source, cooked, verified, generations, pointerVars, othersVars>>

\* Copy, validation or revalidation fails, or the move with the directories as
\* they were: Cleanup, and the lease goes on return.
Abandon(p) ==
    /\ step[p] \in {"copy", "validate", "revalidate", "move"}
    /\ step' = [step EXCEPT ![p] = IF step[p] = "move" THEN "recheck" ELSE "return"]
    /\ stage' = [stage EXCEPT ![p] = "absent"]
    /\ UNCHANGED <<source, cooked, verified, generations, pointerVars, othersVars>>

ValidateStage(p) ==
    /\ stage[p] = "whole"
    /\ At(p, "validate", "revalidate")
    /\ UNCHANGED <<source, cooked, verified, stage, generations, pointerVars, othersVars>>

\* A revalidation that takes the snapshot as it was.
RevalidateInputsOnce(p) ==
    /\ At(p, "revalidate", "compare")
    /\ \E v \in 1..source : History[v] = cooked[p] /\ verified' = [verified EXCEPT ![p] = v]
    /\ UNCHANGED <<source, cooked, stage, generations, pointerVars, othersVars>>

\* The source has the content of the snapshot.
RevalidateInputs(p) ==
    /\ History[source] = cooked[p]
    /\ At(p, "revalidate", "compare")
    /\ verified' = [verified EXCEPT ![p] = source]
    /\ UNCHANGED <<source, cooked, stage, generations, pointerVars, othersVars>>

\* EqualInstalledGeneration: the generation is there already, the stage is not needed.
Compare(p) ==
    /\ \/ /\ At(p, "compare", "truncate")
          /\ generations[cooked[p]] = "whole"
          /\ stage' = [stage EXCEPT ![p] = "absent"]
       \/ /\ At(p, "compare", "move")
          /\ generations[cooked[p]] # "whole"
          /\ UNCHANGED stage
    /\ UNCHANGED <<source, cooked, verified, generations, pointerVars, othersVars>>

\* MoveDirectoryNoReplace.  It also reports a failure when the directory has moved
\* and the parent cannot be synchronized.
Move(p) ==
    /\ \E to \in {"truncate", "recheck"} : At(p, "move", to)
    /\ generations[cooked[p]] = "absent"
    /\ generations' = [generations EXCEPT ![cooked[p]] = stage[p]]
    /\ stage' = [stage EXCEPT ![p] = "absent"]
    /\ UNCHANGED <<source, cooked, verified, pointerVars, othersVars>>

\* A recheck that only looks whether the directory is there.
RecheckExists(p) ==
    /\ step[p] = "recheck"
    /\ At(p, "recheck", IF generations[cooked[p]] # "absent" THEN "truncate" ELSE "return")
    /\ UNCHANGED <<source, cooked, verified, stage, generations, pointerVars, othersVars>>

\* After a failed move only an equal installed generation is accepted.
Recheck(p) ==
    /\ step[p] = "recheck"
    /\ At(p, "recheck", IF generations[cooked[p]] = "whole" THEN "truncate" ELSE "return")
    /\ UNCHANGED <<source, cooked, verified, stage, generations, pointerVars, othersVars>>

\* WriteFileDurable on Current.next: opened and truncated, then written.
TruncateNext(p) ==
    /\ At(p, "truncate", "write")
    /\ next' = Torn
    /\ UNCHANGED <<source, cooked, verified, stage, generations, current, currentVersion, othersVars>>

WriteNext(p) ==
    /\ At(p, "write", "reread")
    /\ next' = cooked[p]
    /\ UNCHANGED <<source, cooked, verified, stage, generations, current, currentVersion, othersVars>>

\* Current.next is read again and compared.
RereadNext(p) ==
    /\ At(p, "reread", IF next = cooked[p] THEN "replace" ELSE "return")
    /\ UNCHANGED <<source, cooked, verified, stage, generations, pointerVars, othersVars>>

\* ReplaceFileAtomic renames whatever Current.next is now.  When only the parent
\* cannot be synchronized, Publish reports a failure but the pointer has moved.
ReplacePointer(p) ==
    /\ \E to \in {"audit", "return"} : At(p, "replace", to)
    /\ current' = next
    /\ currentVersion' = verified[p]
    /\ next' = NoId
    /\ UNCHANGED <<source, cooked, verified, stage, generations, othersVars>>

\* I/O on Current.next or the rename fails.  An installed generation stays.
PointerFailed(p) ==
    /\ step[p] \in {"truncate", "write", "reread", "replace"}
    /\ step' = [step EXCEPT ![p] = "return"]
    /\ UNCHANGED <<source, cooked, verified, stage, generations, pointerVars, othersVars>>

\* The audit of a committed publication only warns.
Audit(p) ==
    /\ At(p, "audit", "return")
    /\ UNCHANGED <<source, cooked, verified, stage, generations, pointerVars, othersVars>>

\* Publish returns and the lease with it.
EndPublish(p) ==
    /\ At(p, "return", "idle")
    /\ Release(p)
    /\ cooked' = [cooked EXCEPT ![p] = NoId]
    /\ verified' = [verified EXCEPT ![p] = 0]
    /\ UNCHANGED <<source, stage, generations, pointerVars, bindVars, sweepVars>>

Publish(p) ==
    \/ LeaseFailed(p) \/ BeginCopy(p) \/ FinishCopy(p) \/ Abandon(p)
    \/ ValidateStage(p) \/ RevalidateInputs(p) \/ Compare(p) \/ Move(p) \/ Recheck(p)
    \/ TruncateNext(p) \/ WriteNext(p) \/ RereadNext(p)
    \/ ReplacePointer(p) \/ PointerFailed(p) \/ Audit(p) \/ EndPublish(p)

-----------------------------------------------------------------------------
(* Bind.                                                                   *)

\* Current.json is read, and a lease asked for on what it names then.
ReadPointer(r) ==
    /\ reader[r] = "idle" /\ current # NoId
    /\ reader' = [reader EXCEPT ![r] = "lease"]
    /\ chosen' = [chosen EXCEPT ![r] = current]
    /\ UNCHANGED <<source, publisherVars, generations, pointerVars, lease, sweepVars>>

\* The lease comes, or times out.
LeaseGeneration(r) ==
    /\ reader[r] = "lease"
    /\ Acquire(r, LeasePath[chosen[r]], "Shared")
    /\ reader' = [reader EXCEPT ![r] = "validate"]
    /\ UNCHANGED <<source, publisherVars, generations, pointerVars, sweepVars, chosen>>

\* A Bind that trusts the pointer.
BindUnvalidated(r) ==
    /\ reader[r] = "validate"
    /\ reader' = [reader EXCEPT ![r] = "bound"]
    /\ UNCHANGED <<source, publisherVars, generations, pointerVars, lease, sweepVars, chosen>>

\* The directory is validated under the lease, whatever Current.json names by now.
Bind(r) ==
    /\ reader[r] = "validate"
    /\ generations[chosen[r]] = "whole"
    /\ reader' = [reader EXCEPT ![r] = "bound"]
    /\ UNCHANGED <<source, publisherVars, generations, pointerVars, lease, sweepVars, chosen>>

\* Bind fails at any point, and a lease in a local variable goes; or Reset.
Unbind(r) ==
    /\ reader[r] # "idle"
    /\ Release(r)
    /\ reader' = [reader EXCEPT ![r] = "idle"]
    /\ chosen' = [chosen EXCEPT ![r] = NoId]
    /\ UNCHANGED <<source, publisherVars, generations, pointerVars, sweepVars>>

ReaderStep(r) == ReadPointer(r) \/ LeaseGeneration(r) \/ Bind(r) \/ Unbind(r)

-----------------------------------------------------------------------------
(* Maintenance: the protocol of the contract, under the publication lease. *)

BeginSweep ==
    /\ sweep = "idle" /\ sweep' = "locked"
    /\ Acquire(Sweep, PublishLock, "Exclusive")
    /\ UNCHANGED <<source, publisherVars, generations, pointerVars, bindVars, doomed>>

\* An exclusive lease on the generation that is to go.
Doom(g) ==
    /\ sweep = "locked" /\ sweep' = "check"
    /\ generations[g] # "absent"
    /\ Acquire(Target, LeasePath[g], "Exclusive")
    /\ doomed' = g
    /\ UNCHANGED <<source, publisherVars, generations, pointerVars, bindVars>>

\* It is checked again that the generation is not current: its files go, in some order.
BeginRemove ==
    /\ sweep = "check" /\ sweep' = "remove"
    /\ doomed # current
    /\ generations' = [generations EXCEPT ![doomed] = "broken"]
    /\ UNCHANGED <<source, publisherVars, pointerVars, lease, bindVars, doomed>>

\* The directory goes last; a current generation is spared.
EndRemove ==
    /\ \/ /\ sweep = "remove"
          /\ generations' = [generations EXCEPT ![doomed] = "absent"]
       \/ /\ sweep = "check" /\ doomed = current
          /\ UNCHANGED generations
    /\ Release(Target)
    /\ sweep' = "locked"
    /\ doomed' = NoId
    /\ UNCHANGED <<source, publisherVars, pointerVars, bindVars>>

EndSweep ==
    /\ sweep = "locked" /\ sweep' = "idle"
    /\ Release(Sweep)
    /\ UNCHANGED <<source, publisherVars, generations, pointerVars, bindVars, doomed>>

Maintain == BeginSweep \/ (\E g \in Ids : Doom(g)) \/ BeginRemove \/ EndRemove \/ EndSweep

-----------------------------------------------------------------------------
\* A process ends.  Its stages stay behind, under names that nobody uses again.
Crash(process) ==
    LET ends(h) == ProcessOf[h] = process
    IN  /\ ProcessEnds(process)
        /\ step' = [p \in Publishers |-> IF ends(p) THEN "idle" ELSE step[p]]
        /\ cooked' = [p \in Publishers |-> IF ends(p) THEN NoId ELSE cooked[p]]
        /\ verified' = [p \in Publishers |-> IF ends(p) THEN 0 ELSE verified[p]]
        /\ stage' = [p \in Publishers |-> IF ends(p) THEN "absent" ELSE stage[p]]
        /\ reader' = [r \in Readers |-> IF ends(r) THEN "idle" ELSE reader[r]]
        /\ chosen' = [r \in Readers |-> IF ends(r) THEN NoId ELSE chosen[r]]
        /\ sweep' = IF ends(Sweep) THEN "idle" ELSE sweep
        /\ doomed' = IF ends(Sweep) THEN NoId ELSE doomed
        /\ UNCHANGED <<source, generations, pointerVars>>

PublishNext ==
    \/ Edit
    \/ \E p \in Publishers : BeginPublish(p) \/ Publish(p)
    \/ \E r \in Readers : ReaderStep(r)
    \/ Maintain
    \/ \E process \in {ProcessOf[h] : h \in Holders} : Crash(process)

PublishSpec == LeaseInit /\ PublishInit /\ [][PublishNext]_<<lease, publishVars>>

-----------------------------------------------------------------------------
(* Properties.                                                             *)

\* Whoever ends where, and whatever earlier runs left: the generation that
\* Current.json names is there and whole.
CurrentIsComplete == current # NoId => current \in Ids /\ generations[current] = "whole"

\* A generation that a reader has bound stays whole as long as the reader keeps it,
\* although the pointer was read before the lease was asked for.
BoundIsComplete == \A r \in Readers : reader[r] = "bound" => generations[chosen[r]] = "whole"

\* A slow cooker does not publish an older source over a newer one: the source is
\* checked again under the publication lease.
PublicationsAreOrdered == [][currentVersion' >= currentVersion]_publishVars
=============================================================================
