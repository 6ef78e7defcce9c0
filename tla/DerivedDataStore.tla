------------------------- MODULE DerivedDataStore -------------------------
(***************************************************************************)
(* FDerivedDataStore and the cook of one asset that uses it: the threads   *)
(* of some cooker processes look up, quarantine and install the entry of   *)
(* one derived key.  Different keys share nothing.                         *)
(*                                                                         *)
(* Lookup takes no lease and is three reads, each of which may fail.  A    *)
(* directory moves at once, files are written before they move, so that a  *)
(* file of an entry changes only by corruption.  Cookers need not be       *)
(* deterministic.  Metadata is abstracted to the payload whose digest it   *)
(* has, an invalid entry to the first of its two files that Lookup         *)
(* rejects.  The extensions and the limits of a request are not part of    *)
(* the key and not modelled: that an intact file does not fit them is one  *)
(* of the ways in which its read may fail.                                 *)
(***************************************************************************)
EXTENDS Lease, Integers

CONSTANTS
    Cookers,        \* cook threads, each with its lease object
    EntryLock,      \* the lease path of the key
    Payloads,       \* what cookers may produce
    Bad,            \* what corruption leaves
    NoPayload,      \* not a payload
    MaxCorruptions  \* bound on corruptions

ASSUME StoreAssumption ==
    /\ Cookers \subseteq Holders /\ EntryLock \in Paths
    /\ Bad \notin Payloads /\ NoPayload \notin Payloads \cup {Bad}
    /\ MaxCorruptions \in Nat

VARIABLES
    entry,          \* the two files of the entry, or Absent
    evidence,       \* the reasons that have a directory in Quarantine
    corruptions,    \* how often something has damaged the entry
    policy,         \* the cache policy of a cook
    site,           \* where a cook is: the store call or the call of Lookup
    reading,        \* where Lookup is
    found,          \* what it found: hit, miss, or the reason of an invalid entry
    seen,           \* the digest in the metadata, then the payload
    fresh,          \* history: the lookups that have read the metadata since something last
                    \* damaged the entry or moved it to Quarantine
    product,        \* what the cooker produced
    retried         \* the cooks that install for the second time

cookVars == <<policy, site, product, retried>>
lookupVars == <<reading, found, seen, fresh>>
storeVars == <<entry, evidence, corruptions, cookVars, lookupVars>>

-----------------------------------------------------------------------------
EntryFiles == [metadata : Payloads \cup {Bad}, payload : Payloads \cup {Bad}]

Absent == [metadata |-> NoPayload, payload |-> NoPayload]

Valid(files) == files.metadata \in Payloads /\ files.payload = files.metadata

Reasons == {"metadata", "payload"}

Ended == {"idle", "success", "failure", "collision"}

LookupSites == {"query", "requery", "race", "repaired", "winner", "installed", "existing"}

\* Where a cook may have the lease of the key.
LeaseSites == {"requery", "evidence", "race", "record", "winner", "move", "installed"}

\* Types; and the lease of the key is given back on every way out of Quarantine and Install.
StoreTypeOK ==
    /\ \A l \in lease : l[2] = EntryLock => l[1] \in Cookers /\ site[l[1]] \in LeaseSites
    /\ entry \in EntryFiles \cup {Absent}
    /\ evidence \subseteq Reasons
    /\ corruptions \in 0..MaxCorruptions
    /\ policy \in [Cookers -> {"Incremental", "StrictValidate", "IgnoreExisting"}]
    /\ site \in [Cookers -> Ended \cup LookupSites \cup
                    {"quarantine", "evidence", "record", "cook", "install", "move"}]
    /\ reading \in [Cookers -> {"no", "exists", "metadata", "payload"}]
    /\ found \in [Cookers -> {"none", "hit", "miss"} \cup Reasons]
    /\ seen \in [Cookers -> Payloads \cup {Bad, NoPayload}]
    /\ fresh \subseteq Cookers
    /\ product \in [Cookers -> Payloads \cup {NoPayload}]
    /\ retried \subseteq Cookers

StoreInit ==
    /\ entry = Absent
    /\ evidence = {}
    /\ corruptions = 0
    /\ policy = [t \in Cookers |-> "Incremental"]
    /\ site = [t \in Cookers |-> "idle"]
    /\ reading = [t \in Cookers |-> "no"]
    /\ found = [t \in Cookers |-> "none"]
    /\ seen = [t \in Cookers |-> NoPayload]
    /\ fresh = {}
    /\ product = [t \in Cookers |-> NoPayload]
    /\ retried = {}

\* Something outside the program damages a file of the entry.
Corrupt ==
    /\ corruptions < MaxCorruptions
    /\ entry # Absent
    /\ \E file \in {"metadata", "payload"} : entry' = [entry EXCEPT ![file] = Bad]
    /\ corruptions' = corruptions + 1
    /\ fresh' = {}
    /\ UNCHANGED <<lease, evidence, cookVars, reading, found, seen>>

-----------------------------------------------------------------------------
(* Lookup.                                                                 *)

Go(t, to) == site' = [site EXCEPT ![t] = to]

\* The result of an earlier lookup is gone.
Forget(t) ==
    /\ found' = [found EXCEPT ![t] = "none"]
    /\ seen' = [seen EXCEPT ![t] = NoPayload]
    /\ fresh' = fresh \ {t}

\* Lookup is called at a site.
CallLookup(t, at) ==
    /\ Go(t, at)
    /\ reading' = [reading EXCEPT ![t] = "exists"]
    /\ Forget(t)

\* On without what Lookup has found.
Leave(t, to) == Go(t, to) /\ Forget(t) /\ UNCHANGED reading

\* Lookup returns.
Finds(t, what) ==
    /\ reading' = [reading EXCEPT ![t] = "no"]
    /\ found' = [found EXCEPT ![t] = what]

\* Exists is also false when the file system does not answer.
ReadExists(t) ==
    /\ reading[t] = "exists"
    /\ \/ Finds(t, "miss")
       \/ entry # Absent /\ reading' = [reading EXCEPT ![t] = "metadata"] /\ UNCHANGED found
    /\ UNCHANGED <<seen, fresh>>

\* Metadata that is gone or damaged is rejected.  Intact metadata is, too, when its query or its
\* read fails, or when its extensions are not those of the request.
ReadMetadata(t) ==
    /\ reading[t] = "metadata"
    /\ fresh' = fresh \cup {t}
    /\ \/ Finds(t, "metadata") /\ UNCHANGED seen
       \/ /\ entry.metadata \in Payloads
          /\ reading' = [reading EXCEPT ![t] = "payload"]
          /\ seen' = [seen EXCEPT ![t] = entry.metadata]
          /\ UNCHANGED found

\* The payload, by now perhaps of another directory, is compared with the metadata.  It is also
\* rejected when its query or its read fails, or when it is above the limits of the request.
ReadPayload(t) ==
    /\ reading[t] = "payload"
    /\ \/ Finds(t, "payload") /\ seen' = [seen EXCEPT ![t] = NoPayload]
       \/ entry.payload = seen[t] /\ Finds(t, "hit") /\ UNCHANGED seen
    /\ UNCHANGED fresh

Lookup(t) ==
    /\ ReadExists(t) \/ ReadMetadata(t) \/ ReadPayload(t)
    /\ UNCHANGED <<lease, entry, evidence, corruptions, cookVars>>

Returned(t, at) == site[t] = at /\ reading[t] = "no"

-----------------------------------------------------------------------------
(* Quarantine.                                                             *)

\* A quarantine that trusts the lookup of before the lease.
LeaseForQuarantineTrusting(t) ==
    /\ site[t] = "quarantine"
    /\ \/ Acquire(t, EntryLock, "Exclusive") /\ Go(t, "evidence") /\ UNCHANGED lookupVars
       \/ CallLookup(t, "race") /\ UNCHANGED lease
    /\ UNCHANGED <<entry, evidence, corruptions, policy, product, retried>>

\* The exclusive lease of the key, or the timeout, after which another may have repaired.
LeaseForQuarantine(t) ==
    /\ site[t] = "quarantine"
    /\ \/ Acquire(t, EntryLock, "Exclusive") /\ CallLookup(t, "requery")
       \/ CallLookup(t, "race") /\ UNCHANGED lease
    /\ UNCHANGED <<entry, evidence, corruptions, policy, product, retried>>

\* What the cook does after Quarantine has succeeded: a repaired entry is looked up
\* again; otherwise it cooks, or installs for the second time what it has cooked.
AfterQuarantine(t, repaired) ==
    /\ Release(t)
    /\ IF policy[t] = "Incremental" /\ repaired
         THEN CallLookup(t, "repaired")
         ELSE Leave(t, IF policy[t] = "Incremental" THEN "cook" ELSE "install")

\* Under the lease the entry is looked at again.
Requery(t) ==
    /\ Returned(t, "requery")
    /\ \/ found[t] \in {"hit", "miss"} /\ AfterQuarantine(t, found[t] = "hit")
       \/ found[t] \in Reasons /\ Go(t, "evidence") /\ UNCHANGED <<lease, lookupVars>>
    /\ UNCHANGED <<entry, evidence, corruptions, policy, product, retried>>

\* The evidence directory is named by the key and the reason; if there is one already,
\* Quarantine fails.
FindCollision(t) ==
    /\ site[t] = "evidence"
    /\ found[t] \in evidence
    /\ Release(t)
    /\ Leave(t, "collision")
    /\ UNCHANGED <<entry, evidence, corruptions, policy, product, retried>>

\* MoveDirectoryNoReplace, which may fail although the directory has moved.
MoveToEvidence(t) ==
    /\ site[t] = "evidence"
    /\ found[t] \notin evidence
    /\ \/ /\ entry # Absent
          /\ entry' = Absent
          /\ evidence' = evidence \cup {found[t]}
          /\ fresh' = {}
          /\ \/ Go(t, "record") /\ UNCHANGED reading
             \/ Go(t, "race") /\ reading' = [reading EXCEPT ![t] = "exists"]
          /\ found' = [found EXCEPT ![t] = "none"]
          /\ seen' = [seen EXCEPT ![t] = NoPayload]
       \/ CallLookup(t, "race") /\ UNCHANGED <<entry, evidence>>
    /\ UNCHANGED <<lease, corruptions, policy, product, retried>>

\* ResolveQuarantineRace, without the lease or with it.
ResolveQuarantineRace(t) ==
    /\ Returned(t, "race")
    /\ \/ found[t] \in {"hit", "miss"} /\ AfterQuarantine(t, found[t] = "hit")
       \/ found[t] \in Reasons /\ Release(t) /\ Leave(t, "failure")
    /\ UNCHANGED <<entry, evidence, corruptions, policy, product, retried>>

\* Failure.json is written; without it Quarantine fails, but the entry has gone.
RecordFailure(t) ==
    /\ site[t] = "record"
    /\ \/ AfterQuarantine(t, FALSE)
       \/ Release(t) /\ Leave(t, "failure")
    /\ UNCHANGED <<entry, evidence, corruptions, policy, product, retried>>

-----------------------------------------------------------------------------
(* Install.                                                                *)

\* Install has failed: a cook that ignores the cache looks for an invalid entry, once.
InstallFails(t) ==
    IF policy[t] = "IgnoreExisting" /\ t \notin retried
      THEN CallLookup(t, "existing")
      ELSE Leave(t, "failure")

\* The stage is written and validated, then the lease is taken; each may fail.
LeaseForInstall(t) ==
    /\ site[t] = "install"
    /\ \/ Acquire(t, EntryLock, "Exclusive") /\ CallLookup(t, "winner")
       \/ InstallFails(t) /\ UNCHANGED lease
    /\ UNCHANGED <<entry, evidence, corruptions, policy, product, retried>>

\* An Install that takes any entry for an equal one, and returns what it was given.
FindWinnerUncompared(t) ==
    /\ Returned(t, "winner")
    /\ \/ found[t] = "miss" /\ Leave(t, "move") /\ UNCHANGED lease
       \/ /\ found[t] = "hit" /\ Release(t) /\ Go(t, "success")
          /\ seen' = [seen EXCEPT ![t] = product[t]] /\ UNCHANGED <<reading, found, fresh>>
       \/ found[t] \in Reasons /\ Release(t) /\ InstallFails(t)
    /\ UNCHANGED <<entry, evidence, corruptions, policy, product, retried>>

\* An equal entry is as good; any other is a failure.
FindWinner(t) ==
    /\ Returned(t, "winner")
    /\ \/ found[t] = "miss" /\ Leave(t, "move") /\ UNCHANGED lease
       \/ found[t] = "hit" /\ seen[t] = product[t] /\ Release(t) /\ Go(t, "success") /\ UNCHANGED lookupVars
       \/ found[t] # "miss" /\ ~(found[t] = "hit" /\ seen[t] = product[t]) /\ Release(t) /\ InstallFails(t)
    /\ UNCHANGED <<entry, evidence, corruptions, policy, product, retried>>

\* MoveDirectoryNoReplace, which may fail although the directory has moved.
MoveToEntry(t) ==
    /\ site[t] = "move"
    /\ \/ /\ entry = Absent
          /\ entry' = [metadata |-> product[t], payload |-> product[t]]
          /\ \/ CallLookup(t, "installed") /\ UNCHANGED lease
             \/ Release(t) /\ InstallFails(t)
       \/ Release(t) /\ InstallFails(t) /\ UNCHANGED entry
    /\ UNCHANGED <<evidence, corruptions, policy, product, retried>>

\* The installed entry is looked up before the lease goes.
CheckInstalled(t) ==
    /\ Returned(t, "installed")
    /\ Release(t)
    /\ IF found[t] = "hit" /\ seen[t] = product[t]
         THEN Go(t, "success") /\ UNCHANGED lookupVars
         ELSE InstallFails(t)
    /\ UNCHANGED <<entry, evidence, corruptions, policy, product, retried>>

-----------------------------------------------------------------------------
(* The cook of an asset in FAssetCookRunner.                               *)

\* A cook with some policy, whose inputs are as they were; one that ignores the cache does
\* not look first.
BeginCook(t) ==
    /\ site[t] \in Ended
    /\ \/ /\ \E p \in {"Incremental", "StrictValidate"} : policy' = [policy EXCEPT ![t] = p]
          /\ CallLookup(t, "query")
       \/ /\ policy' = [policy EXCEPT ![t] = "IgnoreExisting"]
          /\ Leave(t, "cook")
    /\ product' = [product EXCEPT ![t] = NoPayload]
    /\ retried' = retried \ {t}
    /\ UNCHANGED <<lease, entry, evidence, corruptions>>

Query(t) ==
    /\ Returned(t, "query")
    /\ \/ found[t] = "hit" /\ Go(t, "success") /\ UNCHANGED lookupVars
       \/ found[t] # "hit" /\ policy[t] = "StrictValidate" /\ Leave(t, "failure")
       \/ found[t] = "miss" /\ policy[t] = "Incremental" /\ Leave(t, "cook")
       \/ found[t] \in Reasons /\ policy[t] = "Incremental" /\ Go(t, "quarantine") /\ UNCHANGED lookupVars
    /\ UNCHANGED <<lease, entry, evidence, corruptions, policy, product, retried>>

\* The lookup of an entry that somebody else has repaired.
QueryRepaired(t) ==
    /\ Returned(t, "repaired")
    /\ IF found[t] = "hit" THEN Go(t, "success") /\ UNCHANGED lookupVars ELSE Leave(t, "cook")
    /\ UNCHANGED <<lease, entry, evidence, corruptions, policy, product, retried>>

\* FAssetDispatch::Cook, which may fail.
Cook(t) ==
    /\ site[t] = "cook"
    /\ \/ Leave(t, "install") /\ \E v \in Payloads : product' = [product EXCEPT ![t] = v]
       \/ Leave(t, "failure") /\ UNCHANGED product
    /\ UNCHANGED <<lease, entry, evidence, corruptions, policy, retried>>

\* A cook that ignores the cache quarantines what keeps it from installing.
QueryExisting(t) ==
    /\ Returned(t, "existing")
    /\ IF found[t] \in Reasons THEN Go(t, "quarantine") /\ UNCHANGED lookupVars ELSE Leave(t, "failure")
    /\ retried' = retried \cup {t}
    /\ UNCHANGED <<lease, entry, evidence, corruptions, policy, product>>

CookStep(t) ==
    \/ BeginCook(t) \/ Query(t) \/ QueryRepaired(t) \/ Cook(t) \/ QueryExisting(t)
    \/ Lookup(t)
    \/ LeaseForQuarantine(t) \/ Requery(t) \/ FindCollision(t) \/ MoveToEvidence(t)
    \/ ResolveQuarantineRace(t) \/ RecordFailure(t)
    \/ LeaseForInstall(t) \/ FindWinner(t) \/ MoveToEntry(t) \/ CheckInstalled(t)

\* A process ends.  Its stages stay behind, under names that nobody uses again.
CookerEnds(process) ==
    LET Reset(f, nothing) == [t \in Cookers |-> IF ProcessOf[t] = process THEN nothing ELSE f[t]]
    IN  /\ ProcessEnds(process)
        /\ policy' = Reset(policy, "Incremental")
        /\ site' = Reset(site, "idle")
        /\ reading' = Reset(reading, "no")
        /\ found' = Reset(found, "none")
        /\ seen' = Reset(seen, NoPayload)
        /\ fresh' = {t \in fresh : ProcessOf[t] # process}
        /\ product' = Reset(product, NoPayload)
        /\ retried' = {t \in retried : ProcessOf[t] # process}
        /\ UNCHANGED <<entry, evidence, corruptions>>

StoreNext ==
    \/ Corrupt
    \/ \E t \in Cookers : CookStep(t)
    \/ \E process \in {ProcessOf[h] : h \in Holders} : CookerEnds(process)

StoreSpec == LeaseInit /\ StoreInit /\ [][StoreNext]_<<lease, storeVars>>

-----------------------------------------------------------------------------
(* Properties.                                                             *)

\* Whatever looks up, quarantines and installs at the same time, fails half-way or ends: the
\* program never writes to, replaces or removes a valid entry.  It moves one to the evidence, as
\* a whole, only when the cook that has the lease has itself rejected this entry, not an earlier
\* one: a read of it has failed, or it does not fit the request.
OnlyRejectedEntriesGo ==
    [][Valid(entry) /\ entry' # entry /\ corruptions' = corruptions =>
          /\ entry' = Absent /\ evidence' # evidence
          /\ \E t \in Cookers :
              /\ site[t] = "evidence" /\ Holds(t, EntryLock, "Exclusive")
              /\ found[t] \in Reasons /\ t \in fresh]_storeVars

\* Cooks that have succeeded with an entry that nothing has damaged or moved to Quarantine since
\* have the same payload, although lookups take no lease and cookers may disagree.
CooksAgree ==
    \A t, u \in fresh : site[t] = "success" /\ site[u] = "success" => seen[t] = seen[u]

\* derived-data-layout.md, Corruption And Quarantine: an ordinary cook that finds a damaged
\* entry quarantines it, rebuilds and stores normally, and does not fail by a collision.
CorruptionIsRebuilt ==
    [][\A t \in Cookers : site[t] # "collision" /\ site'[t] = "collision" => Valid(entry)]_storeVars
=============================================================================
