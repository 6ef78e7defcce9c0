-------------------------- MODULE CookedStores_proofs --------------------------
(***************************************************************************)
(* Theorems about the stores of cooked data that rely on file leases: the  *)
(* derived data store and the generations with their publishers and their  *)
(* readers, after what they use of a lease.                                *)
(***************************************************************************)
EXTENDS DerivedDataStore, GenerationPublisher, TLAPS

-----------------------------------------------------------------------------
(***************************************************************************)
(* What the users of a lease rely on, for every set of holders and paths.  *)
(***************************************************************************)
LeaseOK == LeaseTypeOK /\ Exclusion

\* Who holds what after each operation.
LEMMA HoldsAfter ==
    ASSUME NEW h, NEW q, NEW m, NEW o, NEW x, NEW n
    PROVE  /\ Acquire(h, q, m) => (Holds(o, x, n)' <=> Holds(o, x, n) \/ <<o, x, n>> = <<h, q, m>>)
           /\ Release(h) => (Holds(o, x, n)' <=> Holds(o, x, n) /\ o # h)
           /\ ProcessEnds(h) => (Holds(o, x, n)' <=> Holds(o, x, n) /\ ProcessOf[o] # h)
<1>1. <<o, x, n>>[1] = o
  OBVIOUS
<1> QED BY <1>1 DEF Acquire, Release, ProcessEnds, Holds

\* A holder of a path that somebody has alone is that somebody.
LEMMA Alone ==
    ASSUME Exclusion, NEW h, NEW o, NEW q, NEW m, Holds(h, q, "Exclusive"), Holds(o, q, m)
    PROVE  o = h /\ m = "Exclusive"
<1>1. <<h, q, "Exclusive">> \in lease /\ <<o, q, m>> \in lease
  BY DEF Holds
<1>2. /\ <<h, q, "Exclusive">>[2] = q /\ <<o, q, m>>[2] = q
      /\ <<h, q, "Exclusive">>[3] = "Exclusive"
  OBVIOUS
<1>3. <<h, q, "Exclusive">> = <<o, q, m>>
  BY <1>1, <1>2 DEF Exclusion
<1> QED BY <1>3

\* The operations keep exclusion, whoever calls them.
LEMMA LeaseKept ==
    ASSUME LeaseOK
    PROVE  /\ \A h \in Holders, q \in Paths, m \in LeaseModes : Acquire(h, q, m) => LeaseOK'
           /\ \A h : Release(h) => LeaseOK'
           /\ \A process : ProcessEnds(process) => LeaseOK'
           /\ UNCHANGED lease => LeaseOK'
<1>1. ASSUME lease' \subseteq lease PROVE LeaseOK'
  BY <1>1 DEF LeaseOK, LeaseTypeOK, Exclusion
<1>2. ASSUME NEW h \in Holders, NEW q \in Paths, NEW m \in LeaseModes, Acquire(h, q, m)
      PROVE  LeaseOK'
  <2> DEFINE new == <<h, q, m>>
  <2>1. new \in Holders \X Paths \X LeaseModes /\ new[1] = h /\ new[2] = q /\ new[3] = m
    OBVIOUS
  <2>2. lease' = lease \cup {new}
        /\ \A l \in lease : l[2] = q => m = "Shared" /\ l[3] = "Shared"
    BY <1>2 DEF Acquire
  <2> HIDE DEF new
  <2>3. LeaseTypeOK'
    BY <2>1, <2>2 DEF LeaseOK, LeaseTypeOK
  <2>4. ASSUME NEW l \in lease', NEW k \in lease', l[2] = k[2], l[3] = "Exclusive"
        PROVE  l = k
    <3>1. CASE l \in lease /\ k \in lease
      BY <3>1, <2>4 DEF LeaseOK, Exclusion
    <3>2. CASE l = new /\ k \in lease
      BY <3>2, <2>1, <2>2, <2>4
    <3>3. CASE l \in lease /\ k = new
      BY <3>3, <2>1, <2>2, <2>4
    <3> QED BY <2>2, <3>1, <3>2, <3>3
  <2> QED BY <2>3, <2>4 DEF LeaseOK, Exclusion
<1>3. \A h : Release(h) => lease' \subseteq lease
  BY DEF Release
<1>4. \A process : ProcessEnds(process) => lease' \subseteq lease
  BY DEF ProcessEnds
<1> QED BY <1>1, <1>2, <1>3, <1>4

\* An exclusive holder of a path is its only holder, in every implementation of Lease.
THEOREM ExclusionHolds == Spec => []LeaseOK
<1>1. LeaseInit => LeaseOK
  BY DEF LeaseInit, LeaseOK, LeaseTypeOK, Exclusion
<1>2. LeaseOK /\ [Next]_lease => LeaseOK'
  BY LeaseKept DEF Next
<1> QED BY <1>1, <1>2, PTL DEF Spec

-----------------------------------------------------------------------------
(***************************************************************************)
(* DerivedDataStore, for any number of cooks, processes, payloads and      *)
(* corruptions.                                                            *)
(***************************************************************************)
-----------------------------------------------------------------------------
(* What a step of a cook looks like.                                       *)

\* What an earlier lookup of cook t has found is gone, and perhaps Lookup is called again.
LookupIsGone(t) ==
    /\ reading' = reading \/ reading' = [reading EXCEPT ![t] = "exists"]
    /\ found' = [found EXCEPT ![t] = "none"]
    /\ seen' = [seen EXCEPT ![t] = NoPayload]
    /\ fresh' = fresh \ {t} \/ fresh' = {}

\* The calls of the store and of the cook, without the steps of Lookup.
StoreCall(t) ==
    \/ BeginCook(t) \/ Query(t) \/ QueryRepaired(t) \/ Cook(t) \/ QueryExisting(t)
    \/ LeaseForQuarantine(t) \/ Requery(t) \/ FindCollision(t) \/ MoveToEvidence(t)
    \/ ResolveQuarantineRace(t) \/ RecordFailure(t)
    \/ LeaseForInstall(t) \/ FindWinner(t) \/ MoveToEntry(t) \/ CheckInstalled(t)

\* A call forgets one lookup or leaves all lookups alone, and moves one cook.
LEMMA CallShape ==
    ASSUME StoreTypeOK, NEW t \in Cookers, StoreCall(t)
    PROVE  /\ LookupIsGone(t) \/ UNCHANGED lookupVars
           /\ \E to : site' = [site EXCEPT ![t] = to]
           /\ UNCHANGED corruptions
<1> USE DEF LookupIsGone, CallLookup, Leave, Forget, Go, lookupVars, InstallFails, AfterQuarantine
<1>1. CASE BeginCook(t) BY <1>1 DEF BeginCook
<1>2. CASE Query(t) BY <1>2 DEF Query
<1>3. CASE QueryRepaired(t) BY <1>3 DEF QueryRepaired
<1>4. CASE Cook(t) BY <1>4 DEF Cook
<1>5. CASE QueryExisting(t) BY <1>5 DEF QueryExisting
<1>6. CASE LeaseForQuarantine(t) BY <1>6 DEF LeaseForQuarantine
<1>7. CASE Requery(t) BY <1>7 DEF Requery
<1>8. CASE FindCollision(t) BY <1>8 DEF FindCollision
<1>9. CASE MoveToEvidence(t) BY <1>9 DEF MoveToEvidence
<1>10. CASE ResolveQuarantineRace(t) BY <1>10 DEF ResolveQuarantineRace
<1>11. CASE RecordFailure(t) BY <1>11 DEF RecordFailure
<1>12. CASE LeaseForInstall(t) BY <1>12 DEF LeaseForInstall
<1>13. CASE FindWinner(t) BY <1>13 DEF FindWinner
<1>14. CASE MoveToEntry(t) BY <1>14 DEF MoveToEntry
<1>15. CASE CheckInstalled(t) BY <1>15 DEF CheckInstalled
<1> QED BY <1>1, <1>2, <1>3, <1>4, <1>5, <1>6, <1>7, <1>8, <1>9, <1>10, <1>11, <1>12, <1>13, <1>14, <1>15 DEF StoreCall

-----------------------------------------------------------------------------
(* Types and leases.                                                       *)

\* Where a cook has the lease of the key alone.  A race may also be resolved without it.
AloneSites == LeaseSites \ {"race"}

EntryLeases ==
    /\ \A l \in lease : l[2] = EntryLock => l[1] \in Cookers /\ site[l[1]] \in LeaseSites
    /\ \A t \in Cookers : site[t] \in AloneSites => Holds(t, EntryLock, "Exclusive")

StoreTypes ==
    /\ entry \in EntryFiles \cup {Absent}
    /\ evidence \subseteq Reasons
    /\ corruptions \in 0..MaxCorruptions
    /\ policy \in [Cookers -> {"Incremental", "StrictValidate", "IgnoreExisting"}]
    /\ site \in [Cookers -> Ended \cup LookupSites \cup
                    {"quarantine", "evidence", "record", "cook", "install", "move"}]
    /\ reading \in [Cookers -> {"no", "exists", "metadata", "payload"}]
    /\ found \in [Cookers -> {"none", "hit", "miss"} \cup Reasons]
    /\ seen \in [Cookers -> Payloads \cup {Bad, NoPayload}]
    /\ fresh \subseteq Cookers
    /\ product \in [Cookers -> Payloads \cup {NoPayload}]
    /\ retried \subseteq Cookers
    /\ \A t \in Cookers :
        /\ site[t] \in {"install", "winner", "move", "installed", "existing"} => product[t] \in Payloads
        /\ site[t] \in {"quarantine", "requery", "evidence", "race", "record"} =>
              policy[t] = "Incremental" \/ product[t] \in Payloads
    /\ \A t \in Cookers : reading[t] # "no" => site[t] \in LookupSites
    /\ \A t \in Cookers : site[t] = "evidence" => found[t] \in Reasons

StoreInv1 == LeaseOK /\ EntryLeases /\ StoreTypes

\* What a call does with the lease of the key.
LEMMA CallLease ==
    ASSUME NEW t \in Cookers, StoreCall(t), StoreTypes
    PROVE  \/ /\ UNCHANGED lease
              /\ site[t] \in LeaseSites => site'[t] \in LeaseSites
              /\ site'[t] \in AloneSites => site[t] \in AloneSites
           \/ Acquire(t, EntryLock, "Exclusive") /\ site'[t] \in AloneSites
           \/ Release(t) /\ site'[t] \notin AloneSites
<1> USE DEF CallLookup, Leave, Forget, Go, InstallFails, AfterQuarantine, AloneSites, LeaseSites, Ended, Returned, StoreTypes
<1>1. CASE BeginCook(t) BY <1>1 DEF BeginCook
<1>2. CASE Query(t) BY <1>2 DEF Query
<1>3. CASE QueryRepaired(t) BY <1>3 DEF QueryRepaired
<1>4. CASE Cook(t) BY <1>4 DEF Cook
<1>5. CASE QueryExisting(t) BY <1>5 DEF QueryExisting
<1>6. CASE LeaseForQuarantine(t) BY <1>6 DEF LeaseForQuarantine
<1>7. CASE Requery(t) BY <1>7 DEF Requery
<1>8. CASE FindCollision(t) BY <1>8 DEF FindCollision
<1>9. CASE MoveToEvidence(t) BY <1>9 DEF MoveToEvidence
<1>10. CASE ResolveQuarantineRace(t) BY <1>10 DEF ResolveQuarantineRace
<1>11. CASE RecordFailure(t) BY <1>11 DEF RecordFailure
<1>12. CASE LeaseForInstall(t) BY <1>12 DEF LeaseForInstall
<1>13. CASE FindWinner(t) BY <1>13 DEF FindWinner
<1>14. CASE MoveToEntry(t) BY <1>14 DEF MoveToEntry
<1>15. CASE CheckInstalled(t) BY <1>15 DEF CheckInstalled
<1> QED BY <1>1, <1>2, <1>3, <1>4, <1>5, <1>6, <1>7, <1>8, <1>9, <1>10, <1>11, <1>12, <1>13, <1>14, <1>15 DEF StoreCall

LEMMA StoreInv1Init == LeaseInit /\ StoreInit => StoreInv1
<1> SUFFICES ASSUME LeaseInit, StoreInit PROVE StoreInv1
  OBVIOUS
<1>1. LeaseOK
  BY DEF LeaseInit, LeaseOK, LeaseTypeOK, Exclusion
<1>2. EntryLeases
  BY DEF LeaseInit, StoreInit, EntryLeases, AloneSites, LeaseSites
<1>3. StoreTypes
  BY StoreAssumption DEF StoreInit, StoreTypes, Ended
<1> QED BY <1>1, <1>2, <1>3 DEF StoreInv1

LEMMA CallTypes ==
    ASSUME NEW t \in Cookers, StoreCall(t), StoreTypes
    PROVE  StoreTypes'
<1> USE StoreAssumption
    DEF CallLookup, Leave, Forget, Go, InstallFails, AfterQuarantine, Ended, LookupSites, Returned, Reasons, EntryFiles,
        Absent, lookupVars, StoreTypes
<1>1. CASE BeginCook(t) BY <1>1 DEF BeginCook
<1>2. CASE Query(t) BY <1>2 DEF Query
<1>3. CASE QueryRepaired(t) BY <1>3 DEF QueryRepaired
<1>4. CASE Cook(t) BY <1>4 DEF Cook
<1>5. CASE QueryExisting(t) BY <1>5 DEF QueryExisting
<1>6. CASE LeaseForQuarantine(t) BY <1>6 DEF LeaseForQuarantine
<1>7. CASE Requery(t) BY <1>7 DEF Requery
<1>8. CASE FindCollision(t) BY <1>8 DEF FindCollision
<1>9. CASE MoveToEvidence(t)
  <2>1. /\ site[t] = "evidence" /\ found[t] \in Reasons
        /\ evidence' = evidence \cup {found[t]} \/ evidence' = evidence
    BY <1>9 DEF MoveToEvidence
  <2>2. entry' \in EntryFiles \cup {Absent}
    BY <1>9 DEF MoveToEvidence
  <2>3. evidence' \subseteq Reasons /\ UNCHANGED <<corruptions, policy, product, retried>>
    BY <1>9, <2>1 DEF MoveToEvidence
  <2>4. \/ /\ reading' = reading /\ site' = [site EXCEPT ![t] = "record"]
        \/ reading' = [reading EXCEPT ![t] = "exists"] /\ site' = [site EXCEPT ![t] = "race"]
    BY <1>9 DEF MoveToEvidence
  <2>5. /\ found' = [found EXCEPT ![t] = "none"] /\ seen' = [seen EXCEPT ![t] = NoPayload]
        /\ fresh' \subseteq Cookers
    BY <1>9 DEF MoveToEvidence
  <2> QED BY <2>1, <2>2, <2>3, <2>4, <2>5
<1>10. CASE ResolveQuarantineRace(t) BY <1>10 DEF ResolveQuarantineRace
<1>11. CASE RecordFailure(t) BY <1>11 DEF RecordFailure
<1>12. CASE LeaseForInstall(t) BY <1>12 DEF LeaseForInstall
<1>13. CASE FindWinner(t) BY <1>13 DEF FindWinner
<1>14. CASE MoveToEntry(t) BY <1>14 DEF MoveToEntry
<1>15. CASE CheckInstalled(t) BY <1>15 DEF CheckInstalled
<1> QED BY <1>1, <1>2, <1>3, <1>4, <1>5, <1>6, <1>7, <1>8, <1>9, <1>10, <1>11, <1>12, <1>13, <1>14, <1>15 DEF StoreCall

\* A lookup changes what its cook has read.
LEMMA LookupTypes ==
    ASSUME NEW t \in Cookers, Lookup(t), StoreTypes
    PROVE  StoreTypes'
<1> USE StoreAssumption
    DEF Lookup, Finds, cookVars, StoreTypes, EntryFiles, Absent, Reasons, LookupSites
<1>1. CASE ReadExists(t) BY <1>1 DEF ReadExists
<1>2. CASE ReadMetadata(t) BY <1>2 DEF ReadMetadata
<1>3. CASE ReadPayload(t) BY <1>3 DEF ReadPayload
<1> QED BY <1>1, <1>2, <1>3

LEMMA EndTypes ==
    ASSUME NEW process, CookerEnds(process), StoreTypes
    PROVE  StoreTypes'
BY StoreAssumption DEF CookerEnds, StoreTypes, Ended

LEMMA StoreInv1Next == StoreInv1 /\ [StoreNext]_<<lease, storeVars>> => StoreInv1'
<1> SUFFICES ASSUME StoreInv1, [StoreNext]_<<lease, storeVars>> PROVE StoreInv1'
  OBVIOUS
<1> USE DEF StoreInv1
<1>1. ASSUME NEW t \in Cookers, StoreCall(t) PROVE StoreInv1'
  <2>1. StoreTypes'
    BY <1>1, CallTypes
  <2>2. LeaseOK'
    BY <1>1, CallLease, LeaseKept, StoreAssumption DEF LeaseModes
  <2>3. EntryLeases'
    <3>1. PICK to : site' = [site EXCEPT ![t] = to]
      BY <1>1, CallShape DEF StoreTypes, StoreTypeOK, EntryLeases
    <3>2. site'[t] = to /\ \A o \in Cookers : o # t => site'[o] = site[o]
      BY <3>1 DEF StoreTypes
    <3>3. CASE UNCHANGED lease /\ (site[t] \in LeaseSites => to \in LeaseSites)
               /\ (to \in AloneSites => site[t] \in AloneSites)
      BY <3>2, <3>3 DEF EntryLeases, Holds
    <3>4. CASE Acquire(t, EntryLock, "Exclusive") /\ to \in AloneSites
      <4>1. /\ lease' = lease \cup {<<t, EntryLock, "Exclusive">>}
            /\ <<t, EntryLock, "Exclusive">>[1] = t
        BY <3>4 DEF Acquire
      <4> QED BY <3>2, <3>4, <4>1 DEF EntryLeases, Holds, AloneSites
    <3>5. CASE Release(t) /\ to \notin AloneSites
      <4>1. \A l \in lease' : l \in lease /\ l[1] # t
        BY <3>5 DEF Release
      <4>2. \A o \in Cookers \ {t} : Holds(o, EntryLock, "Exclusive") => Holds(o, EntryLock, "Exclusive")'
        BY <3>5, HoldsAfter
      <4> QED BY <3>2, <3>5, <4>1, <4>2 DEF EntryLeases
    <3> QED BY <1>1, <3>2, <3>3, <3>4, <3>5, CallLease
  <2> QED BY <2>1, <2>2, <2>3
<1>2. ASSUME NEW t \in Cookers, Lookup(t) PROVE StoreInv1'
  BY <1>2, LookupTypes, LeaseKept DEF Lookup, cookVars, EntryLeases, Holds
<1>3. ASSUME NEW process, CookerEnds(process) PROVE StoreInv1'
  <2>1. LeaseOK' /\ StoreTypes'
    BY <1>3, EndTypes, LeaseKept DEF CookerEnds
  <2>2. /\ \A l \in lease' : l \in lease /\ ProcessOf[l[1]] # process
        /\ \A t \in Cookers : site'[t] = IF ProcessOf[t] = process THEN "idle" ELSE site[t]
    BY <1>3 DEF CookerEnds, ProcessEnds
  <2>3. \A t \in Cookers : ProcessOf[t] # process /\ Holds(t, EntryLock, "Exclusive") =>
                               Holds(t, EntryLock, "Exclusive")'
    BY <1>3, HoldsAfter DEF CookerEnds
  <2>4. EntryLeases'
    BY <2>2, <2>3 DEF EntryLeases, AloneSites, LeaseSites
  <2> QED BY <2>1, <2>4
<1>4. CASE Corrupt
  <2>1. StoreTypes'
    <3>1. entry' \in EntryFiles \cup {Absent}
      BY <1>4 DEF Corrupt, StoreTypes, EntryFiles, Absent
    <3>2. corruptions' \in 0..MaxCorruptions
      BY <1>4, StoreAssumption DEF Corrupt, StoreTypes
    <3> QED BY <1>4, <3>1, <3>2 DEF Corrupt, cookVars, lookupVars, StoreTypes
  <2> QED BY <1>4, <2>1, LeaseKept DEF Corrupt, cookVars, EntryLeases, Holds
<1>5. CASE UNCHANGED <<lease, storeVars>>
  BY <1>5, LeaseKept DEF storeVars, cookVars, lookupVars, EntryLeases, Holds, StoreTypes
<1> QED BY <1>1, <1>2, <1>3, <1>4, <1>5 DEF StoreNext, CookStep, StoreCall

-----------------------------------------------------------------------------
(* What a cook moves away is not valid, or it has rejected it itself.      *)

\* Two cooks are not both where they have the lease alone.
LEMMA OneAlone ==
    ASSUME StoreInv1, NEW t \in Cookers, NEW o \in Cookers,
           site[t] \in AloneSites, site[o] \in AloneSites
    PROVE  o = t
<1>1. Holds(t, EntryLock, "Exclusive") /\ Holds(o, EntryLock, "Exclusive")
  BY DEF StoreInv1, EntryLeases
<1> QED BY <1>1, Alone DEF StoreInv1, LeaseOK

\* What a call does with the entry.
LEMMA CallEntry ==
    ASSUME NEW t \in Cookers, StoreCall(t), StoreTypes
    PROVE  \/ UNCHANGED entry /\ fresh \ {t} \subseteq fresh'
           \/ site[t] = "evidence" /\ entry' = Absent /\ evidence' # evidence /\ fresh' = {}
           \/ /\ site[t] = "move" /\ entry = Absent /\ Valid(entry')
              /\ site'[t] \notin {"evidence", "requery"} /\ fresh \ {t} \subseteq fresh'
<1> USE DEF Valid, AfterQuarantine, lookupVars, Go, CallLookup, Leave, Forget, InstallFails, StoreTypes
<1>1. CASE BeginCook(t) BY <1>1 DEF BeginCook
<1>2. CASE Query(t) BY <1>2 DEF Query
<1>3. CASE QueryRepaired(t) BY <1>3 DEF QueryRepaired
<1>4. CASE Cook(t) BY <1>4 DEF Cook
<1>5. CASE QueryExisting(t) BY <1>5 DEF QueryExisting
<1>6. CASE LeaseForQuarantine(t) BY <1>6 DEF LeaseForQuarantine
<1>7. CASE Requery(t) BY <1>7 DEF Requery
<1>8. CASE FindCollision(t) BY <1>8 DEF FindCollision
<1>9. CASE MoveToEvidence(t) BY <1>9 DEF MoveToEvidence
<1>10. CASE ResolveQuarantineRace(t) BY <1>10 DEF ResolveQuarantineRace
<1>11. CASE RecordFailure(t) BY <1>11 DEF RecordFailure
<1>12. CASE LeaseForInstall(t) BY <1>12 DEF LeaseForInstall
<1>13. CASE FindWinner(t) BY <1>13 DEF FindWinner
<1>14. CASE MoveToEntry(t) BY <1>14 DEF MoveToEntry
<1>15. CASE CheckInstalled(t) BY <1>15 DEF CheckInstalled
<1> QED BY <1>1, <1>2, <1>3, <1>4, <1>5, <1>6, <1>7, <1>8, <1>9, <1>10, <1>11, <1>12, <1>13, <1>14, <1>15 DEF StoreCall

\* What a cook has rejected under the lease of a quarantine is still the entry, or the entry is
\* invalid.
QuarantineIsDue ==
    \A t \in Cookers :
        /\ site[t] = "evidence" => ~Valid(entry) \/ t \in fresh
        /\ site[t] = "requery" /\ (reading[t] = "payload" \/ (reading[t] = "no" /\ found[t] \in Reasons))
              => ~Valid(entry) \/ t \in fresh

LEMMA AbsentIsInvalid == ~Valid(Absent)
BY StoreAssumption DEF Valid, Absent

\* A cook comes to these two places with a lookup begun, or with a lookup that found the entry invalid.
LEMMA QuarantineBegins ==
    ASSUME NEW t \in Cookers, StoreCall(t), StoreTypes
    PROVE  /\ site'[t] = "requery" => reading'[t] = "exists"
           /\ site'[t] = "evidence" =>
                 /\ site[t] = "requery" /\ reading[t] = "no" /\ found[t] \in Reasons
                 /\ UNCHANGED <<entry, fresh>>
<1> USE DEF CallLookup, Leave, Forget, Go, InstallFails, AfterQuarantine, Returned, LookupSites, lookupVars, StoreTypes
<1>1. CASE BeginCook(t) BY <1>1 DEF BeginCook
<1>2. CASE Query(t) BY <1>2 DEF Query
<1>3. CASE QueryRepaired(t) BY <1>3 DEF QueryRepaired
<1>4. CASE Cook(t) BY <1>4 DEF Cook
<1>5. CASE QueryExisting(t) BY <1>5 DEF QueryExisting
<1>6. CASE LeaseForQuarantine(t) BY <1>6 DEF LeaseForQuarantine
<1>7. CASE Requery(t) BY <1>7 DEF Requery
<1>8. CASE FindCollision(t) BY <1>8 DEF FindCollision
<1>9. CASE MoveToEvidence(t) BY <1>9 DEF MoveToEvidence
<1>10. CASE ResolveQuarantineRace(t) BY <1>10 DEF ResolveQuarantineRace
<1>11. CASE RecordFailure(t) BY <1>11 DEF RecordFailure
<1>12. CASE LeaseForInstall(t) BY <1>12 DEF LeaseForInstall
<1>13. CASE FindWinner(t) BY <1>13 DEF FindWinner
<1>14. CASE MoveToEntry(t) BY <1>14 DEF MoveToEntry
<1>15. CASE CheckInstalled(t) BY <1>15 DEF CheckInstalled
<1> QED BY <1>1, <1>2, <1>3, <1>4, <1>5, <1>6, <1>7, <1>8, <1>9, <1>10, <1>11, <1>12, <1>13, <1>14, <1>15 DEF StoreCall

LEMMA QuarantineNext ==
    StoreInv1 /\ QuarantineIsDue /\ [StoreNext]_<<lease, storeVars>> => QuarantineIsDue'
<1> SUFFICES ASSUME StoreInv1, QuarantineIsDue, [StoreNext]_<<lease, storeVars>> PROVE QuarantineIsDue'
  OBVIOUS
<1>1. ASSUME NEW t \in Cookers, StoreCall(t) PROVE QuarantineIsDue'
  <2>1. PICK to : site' = [site EXCEPT ![t] = to]
    BY <1>1, CallShape DEF StoreInv1, StoreTypes, StoreTypeOK, EntryLeases
  <2>2. site'[t] = to /\ \A o \in Cookers : o # t => site'[o] = site[o]
    BY <2>1 DEF StoreInv1, StoreTypes
  <2>3. \A o \in Cookers : o # t => reading'[o] = reading[o] /\ found'[o] = found[o]
    BY <1>1, CallShape DEF LookupIsGone, lookupVars, StoreInv1, StoreTypes, StoreTypeOK, EntryLeases
  <2> SUFFICES ASSUME NEW o \in Cookers, site'[o] \in {"evidence", "requery"}, Valid(entry')
               PROVE  /\ site'[o] = "evidence" => o \in fresh'
                      /\ site'[o] = "requery"
                            /\ (reading'[o] = "payload" \/ (reading'[o] = "no" /\ found'[o] \in Reasons))
                            => o \in fresh'
    BY DEF QuarantineIsDue, Valid
  <2>4. CASE o = t
    BY <1>1, <2>4, QuarantineBegins DEF StoreInv1, QuarantineIsDue, Valid
  <2>5. CASE o # t /\ UNCHANGED entry /\ fresh \ {t} \subseteq fresh'
    BY <2>2, <2>3, <2>5 DEF QuarantineIsDue, Valid
  <2>6. entry' # Absent
    BY AbsentIsInvalid DEF Valid
  <2>7. CASE o # t /\ site[t] = "move"
    BY <2>2, <2>7, OneAlone DEF AloneSites, LeaseSites
  <2> QED BY <1>1, <2>4, <2>5, <2>6, <2>7, CallEntry DEF StoreInv1
<1>2. ASSUME NEW t \in Cookers, Lookup(t) PROVE QuarantineIsDue'
  <2> USE DEF Lookup, Finds, cookVars, StoreInv1, StoreTypes, QuarantineIsDue, Valid
  <2>1. CASE ReadExists(t) BY <1>2, <2>1 DEF ReadExists, Reasons
  <2>2. CASE ReadMetadata(t) BY <1>2, <2>2 DEF ReadMetadata
  <2>3. CASE ReadPayload(t) BY <1>2, <2>3 DEF ReadPayload
  <2> QED BY <1>2, <2>1, <2>2, <2>3
<1>3. ASSUME NEW process, CookerEnds(process) PROVE QuarantineIsDue'
  BY <1>3 DEF CookerEnds, QuarantineIsDue, StoreInv1, StoreTypes, Valid
<1>4. CASE Corrupt
  <2>1. ~Valid(entry')
    BY <1>4, StoreAssumption DEF Corrupt, Valid, StoreInv1, StoreTypes, EntryFiles, Absent
  <2> QED BY <2>1 DEF QuarantineIsDue, Valid
<1>5. CASE UNCHANGED <<lease, storeVars>>
  BY <1>5 DEF storeVars, cookVars, lookupVars, QuarantineIsDue, Valid
<1> QED BY <1>1, <1>2, <1>3, <1>4, <1>5 DEF StoreNext, CookStep, StoreCall

\* The step of OnlyRejectedEntriesGo.
LEMMA ValidGoes ==
    ASSUME StoreInv1, QuarantineIsDue, [StoreNext]_<<lease, storeVars>>, Valid(entry),
           entry' # entry, corruptions' = corruptions
    PROVE  /\ entry' = Absent /\ evidence' # evidence
           /\ \E t \in Cookers :
               /\ site[t] = "evidence" /\ Holds(t, EntryLock, "Exclusive")
               /\ found[t] \in Reasons /\ t \in fresh
<1>1. ~Corrupt
  BY DEF Corrupt, StoreInv1, StoreTypes
<1>2. PICK t \in Cookers : StoreCall(t)
  BY <1>1 DEF StoreNext, CookStep, StoreCall, Lookup, CookerEnds, storeVars
<1>3. site[t] = "evidence" /\ entry' = Absent /\ evidence' # evidence
  BY <1>2, CallEntry, AbsentIsInvalid DEF StoreInv1
<1>4. t \in fresh /\ found[t] \in Reasons /\ Holds(t, EntryLock, "Exclusive")
  BY <1>3 DEF QuarantineIsDue, StoreInv1, StoreTypes, EntryLeases, AloneSites, LeaseSites
<1> QED BY <1>3, <1>4

-----------------------------------------------------------------------------
(* Hits agree.                                                             *)

\* A fresh hit is the entry; a fresh lookup that has read the metadata can hit nothing else; and
\* a cook succeeds with a hit.
HitsAreEntries ==
    \A t \in Cookers :
        /\ found[t] = "hit" /\ t \in fresh => Valid(entry) /\ entry.metadata = seen[t]
        /\ reading[t] = "payload" => seen[t] \in Payloads
        /\ reading[t] = "payload" /\ t \in fresh => entry.metadata = seen[t]
        /\ reading[t] # "no" => found[t] = "none"
        /\ site[t] = "success" => found[t] = "hit"

StoreInv == StoreInv1 /\ QuarantineIsDue /\ HitsAreEntries

\* A call that ends in success has found a hit.
LEMMA SuccessIsHit ==
    ASSUME NEW t \in Cookers, StoreCall(t), StoreTypes, site'[t] = "success"
    PROVE  found[t] = "hit" /\ UNCHANGED lookupVars
<1> USE DEF CallLookup, Leave, Forget, Go, InstallFails, AfterQuarantine, Returned, lookupVars, StoreTypes
<1>1. CASE BeginCook(t) BY <1>1 DEF BeginCook
<1>2. CASE Query(t) BY <1>2 DEF Query
<1>3. CASE QueryRepaired(t) BY <1>3 DEF QueryRepaired
<1>4. CASE Cook(t) BY <1>4 DEF Cook
<1>5. CASE QueryExisting(t) BY <1>5 DEF QueryExisting
<1>6. CASE LeaseForQuarantine(t) BY <1>6 DEF LeaseForQuarantine
<1>7. CASE Requery(t) BY <1>7 DEF Requery
<1>8. CASE FindCollision(t) BY <1>8 DEF FindCollision
<1>9. CASE MoveToEvidence(t) BY <1>9 DEF MoveToEvidence
<1>10. CASE ResolveQuarantineRace(t) BY <1>10 DEF ResolveQuarantineRace
<1>11. CASE RecordFailure(t) BY <1>11 DEF RecordFailure
<1>12. CASE LeaseForInstall(t) BY <1>12 DEF LeaseForInstall
<1>13. CASE FindWinner(t) BY <1>13 DEF FindWinner
<1>14. CASE MoveToEntry(t) BY <1>14 DEF MoveToEntry
<1>15. CASE CheckInstalled(t) BY <1>15 DEF CheckInstalled
<1> QED BY <1>1, <1>2, <1>3, <1>4, <1>5, <1>6, <1>7, <1>8, <1>9, <1>10, <1>11, <1>12, <1>13, <1>14, <1>15 DEF StoreCall

\* No call is made while a lookup of the same cook reads.
LEMMA CallsAlone ==
    ASSUME NEW t \in Cookers, StoreCall(t), StoreTypes
    PROVE  reading[t] = "no"
<1> USE DEF Returned, LookupSites, Ended, StoreTypes
<1>1. CASE BeginCook(t) BY <1>1 DEF BeginCook
<1>2. CASE Query(t) BY <1>2 DEF Query
<1>3. CASE QueryRepaired(t) BY <1>3 DEF QueryRepaired
<1>4. CASE Cook(t) BY <1>4 DEF Cook
<1>5. CASE QueryExisting(t) BY <1>5 DEF QueryExisting
<1>6. CASE LeaseForQuarantine(t) BY <1>6 DEF LeaseForQuarantine
<1>7. CASE Requery(t) BY <1>7 DEF Requery
<1>8. CASE FindCollision(t) BY <1>8 DEF FindCollision
<1>9. CASE MoveToEvidence(t) BY <1>9 DEF MoveToEvidence
<1>10. CASE ResolveQuarantineRace(t) BY <1>10 DEF ResolveQuarantineRace
<1>11. CASE RecordFailure(t) BY <1>11 DEF RecordFailure
<1>12. CASE LeaseForInstall(t) BY <1>12 DEF LeaseForInstall
<1>13. CASE FindWinner(t) BY <1>13 DEF FindWinner
<1>14. CASE MoveToEntry(t) BY <1>14 DEF MoveToEntry
<1>15. CASE CheckInstalled(t) BY <1>15 DEF CheckInstalled
<1> QED BY <1>1, <1>2, <1>3, <1>4, <1>5, <1>6, <1>7, <1>8, <1>9, <1>10, <1>11, <1>12, <1>13, <1>14, <1>15 DEF StoreCall

LEMMA CallHits ==
    ASSUME NEW t \in Cookers, StoreCall(t), StoreInv
    PROVE  HitsAreEntries'
<1> USE DEF StoreInv
<1>1. PICK to : site' = [site EXCEPT ![t] = to]
  BY CallShape DEF StoreInv1, StoreTypes, StoreTypeOK, EntryLeases
<1>2. LookupIsGone(t) \/ UNCHANGED lookupVars
  BY CallShape DEF StoreInv1, StoreTypes, StoreTypeOK, EntryLeases
<1>3. \/ UNCHANGED entry
      \/ fresh' = {}
      \/ entry = Absent
  BY CallEntry DEF StoreInv1
<1>4. ASSUME NEW o \in Cookers
      PROVE  /\ found'[o] = "hit" => found[o] = "hit" /\ seen'[o] = seen[o]
             /\ reading'[o] = "payload" => reading[o] = "payload" /\ (seen'[o] = seen[o] \/ o = t)
             /\ reading'[o] # "no" => found'[o] = "none"
             /\ o \in fresh' => o \in fresh
             /\ site'[o] = "success" => found'[o] = "hit"
  <2>1. site'[o] = "success" => found'[o] = "hit"
    <3>1. CASE o = t
      BY <3>1, SuccessIsHit DEF StoreInv1, lookupVars
    <3>2. CASE o # t
      BY <3>2, <1>1, <1>2 DEF LookupIsGone, lookupVars, StoreInv1, StoreTypes, HitsAreEntries
    <3> QED BY <3>1, <3>2
  <2> QED BY <2>1, <1>2 DEF LookupIsGone, lookupVars, StoreInv1, StoreTypes, HitsAreEntries
<1>5. ASSUME NEW o \in Cookers, o \in fresh', found'[o] = "hit"
      PROVE  Valid(entry') /\ entry'.metadata = seen'[o]
  BY <1>3, <1>4, <1>5, AbsentIsInvalid DEF HitsAreEntries, Valid
<1>6. ASSUME NEW o \in Cookers, reading'[o] = "payload"
      PROVE  /\ seen'[o] \in Payloads
             /\ o \in fresh' => entry'.metadata = seen'[o]
  <2>1. reading[o] = "payload" /\ seen'[o] = seen[o] /\ seen[o] \in Payloads
    BY <1>2, <1>4, <1>6, CallsAlone DEF HitsAreEntries, StoreInv1
  <2>2. o \in fresh' => entry.metadata = seen[o] /\ entry # Absent
    BY <1>4, <1>6, <2>1, StoreAssumption DEF HitsAreEntries, Absent
  <2> QED BY <1>3, <2>1, <2>2
<1> QED BY <1>4, <1>5, <1>6 DEF HitsAreEntries, Valid

LEMMA LookupHits ==
    ASSUME NEW t \in Cookers, Lookup(t), StoreInv
    PROVE  HitsAreEntries'
<1> USE DEF StoreInv, StoreInv1, StoreTypes, Lookup, Finds, cookVars, Reasons, LookupSites, Ended
<1>1. CASE ReadExists(t)
  BY <1>1 DEF ReadExists, HitsAreEntries, Valid
<1>2. CASE ReadMetadata(t)
  BY <1>2 DEF ReadMetadata, HitsAreEntries, Valid
<1>3. CASE ReadPayload(t)
  BY <1>3 DEF ReadPayload, HitsAreEntries, Valid
<1> QED BY <1>1, <1>2, <1>3

LEMMA StoreInvNext == StoreInv /\ [StoreNext]_<<lease, storeVars>> => StoreInv'
<1> SUFFICES ASSUME StoreInv, [StoreNext]_<<lease, storeVars>> PROVE HitsAreEntries'
  BY StoreInv1Next, QuarantineNext DEF StoreInv
<1>1. ASSUME NEW process, CookerEnds(process) PROVE HitsAreEntries'
  BY <1>1 DEF CookerEnds, StoreInv, StoreInv1, StoreTypes, HitsAreEntries, Valid, Reasons
<1>2. CASE Corrupt
  BY <1>2 DEF Corrupt, cookVars, StoreInv, HitsAreEntries
<1>3. CASE UNCHANGED <<lease, storeVars>>
  BY <1>3 DEF storeVars, cookVars, lookupVars, StoreInv, HitsAreEntries, Valid
<1> QED BY <1>1, <1>2, <1>3, CallHits, LookupHits DEF StoreNext, CookStep, StoreCall

-----------------------------------------------------------------------------
(* The theorems.                                                           *)

THEOREM StoreInvHolds == StoreSpec => []StoreInv
<1>1. LeaseInit /\ StoreInit => StoreInv
  <2> SUFFICES ASSUME LeaseInit, StoreInit PROVE StoreInv
    OBVIOUS
  <2>1. QuarantineIsDue /\ HitsAreEntries
    BY DEF StoreInit, QuarantineIsDue, HitsAreEntries
  <2> QED BY <2>1, StoreInv1Init DEF StoreInv
<1> QED BY <1>1, StoreInvNext, PTL DEF StoreSpec

\* Types, and every way out of Quarantine and Install gives back the lease of the key.
THEOREM StoreTypeCorrect == StoreSpec => []StoreTypeOK
<1>1. StoreInv => StoreTypeOK
  BY DEF StoreInv, StoreInv1, EntryLeases, StoreTypes, StoreTypeOK
<1> QED BY <1>1, StoreInvHolds, PTL

\* However many cooks look up, quarantine and install: a valid entry goes only to a cook that
\* has the lease and has itself rejected it.
THEOREM RejectedGo == StoreSpec => OnlyRejectedEntriesGo
<1>1. StoreInv /\ [StoreNext]_<<lease, storeVars>> =>
          [Valid(entry) /\ entry' # entry /\ corruptions' = corruptions =>
              /\ entry' = Absent /\ evidence' # evidence
              /\ \E t \in Cookers :
                  /\ site[t] = "evidence" /\ Holds(t, EntryLock, "Exclusive")
                  /\ found[t] \in Reasons /\ t \in fresh]_storeVars
  BY ValidGoes DEF StoreInv
<1> QED BY <1>1, StoreInvHolds, PTL DEF StoreSpec, OnlyRejectedEntriesGo

\* Cooks that have succeeded with the entry as it is have the same payload.
THEOREM CooksDoAgree == StoreSpec => []CooksAgree
<1>1. StoreInv => CooksAgree
  BY DEF StoreInv, StoreInv1, StoreTypes, HitsAreEntries, CooksAgree
<1> QED BY <1>1, StoreInvHolds, PTL

-----------------------------------------------------------------------------
(***************************************************************************)
(* GenerationPublisher, for any number of publishers, readers, generations *)
(* and changes of the source.                                              *)
(***************************************************************************)
-----------------------------------------------------------------------------
(* Types and leases.                                                       *)

\* Publish works on the generation of its snapshot.
Publishing == \A p \in Publishers : step[p] # "idle" => cooked[p] \in Ids

\* A reader holds the lease of what it validates and binds, and maintenance both of its leases.
LeasesOfOthers ==
    /\ \A r \in Readers :
        /\ reader[r] # "idle" => chosen[r] \in Ids
        /\ reader[r] \in {"validate", "bound"} => Holds(r, LeasePath[chosen[r]], "Shared")
    /\ sweep # "idle" => Holds(Sweep, PublishLock, "Exclusive")
    /\ sweep \in {"check", "remove"} =>
        doomed \in Ids /\ Holds(Target, LeasePath[doomed], "Exclusive")

\* Current.next holds what the publisher that is about to rename it has written.
NextIsWritten == \A p \in Publishers : step[p] = "replace" => next = cooked[p]

PublishInv1 == LeaseOK /\ PublishTypeOK /\ Publishing /\ LeasesOfOthers /\ NextIsWritten

LEMMA HistoryTypes == Len(History) \in Nat \ {0} /\ \A v \in 1..Len(History) : History[v] \in Ids
BY PublisherAssumption

LEMMA PublishInv1Init == LeaseInit /\ PublishInit => PublishInv1
<1> SUFFICES ASSUME LeaseInit, PublishInit PROVE PublishInv1
  OBVIOUS
<1>1. LeaseOK
  BY DEF LeaseInit, LeaseOK, LeaseTypeOK, Exclusion
<1>2. PublishTypeOK
  BY HistoryTypes DEF LeaseInit, PublishInit, PublishTypeOK, Images, Steps, Holds
<1>3. Publishing /\ LeasesOfOthers /\ NextIsWritten
  BY DEF PublishInit, Publishing, LeasesOfOthers, NextIsWritten
<1> QED BY <1>1, <1>2, <1>3 DEF PublishInv1

\* Two publishers are not both between the acquisition of the publication lease and the return.
LEMMA OnePublisher ==
    ASSUME PublishInv1, NEW p \in Publishers, NEW o \in Publishers,
           step[p] \notin {"idle", "lease"}, step[o] \notin {"idle", "lease"}
    PROVE  o = p
<1>1. Holds(p, PublishLock, "Exclusive") /\ Holds(o, PublishLock, "Exclusive")
  BY DEF PublishInv1, PublishTypeOK
<1> QED BY <1>1, Alone DEF PublishInv1, LeaseOK

\* The steps of Publish that leave the lease as it is.
LEMMA PublishUnleased ==
    ASSUME PublishInv1, NEW p \in Publishers,
           \/ LeaseFailed(p) \/ FinishCopy(p) \/ Abandon(p) \/ ValidateStage(p)
           \/ RevalidateInputs(p) \/ Compare(p) \/ Move(p) \/ Recheck(p)
           \/ TruncateNext(p) \/ WriteNext(p) \/ RereadNext(p)
           \/ ReplacePointer(p) \/ PointerFailed(p) \/ Audit(p)
    PROVE  PublishInv1'
<1> USE DEF PublishInv1
<1>1. UNCHANGED <<lease, bindVars, sweepVars>>
  BY DEF LeaseFailed, FinishCopy, Abandon, ValidateStage, RevalidateInputs, Compare, Move, Recheck,
         TruncateNext, WriteNext, RereadNext, ReplacePointer, PointerFailed, Audit, othersVars
<1>2. LeaseOK' /\ LeasesOfOthers'
  BY <1>1, LeaseKept DEF LeasesOfOthers, bindVars, sweepVars, Holds
<1>3. PublishTypeOK'
  <2> USE <1>1 DEF PublishTypeOK, At, Holds, bindVars, sweepVars, Steps, Images, pointerVars
  <2>1. CASE LeaseFailed(p) BY <2>1 DEF LeaseFailed
  <2>2. CASE FinishCopy(p) BY <2>2 DEF FinishCopy
  <2>3. CASE Abandon(p)
    <3>1. step'[p] \in {"recheck", "return"} /\ stage'[p] = "absent"
          /\ \A o \in Publishers \ {p} : step'[o] = step[o] /\ stage'[o] = stage[o]
      BY <2>3 DEF Abandon
    <3>2. step' \in [Publishers -> Steps] /\ stage' \in [Publishers -> Images]
      BY <2>3 DEF Abandon
    <3>3. step[p] \notin {"idle", "lease"}
      BY <2>3 DEF Abandon
    <3> QED BY <2>3, <3>1, <3>2, <3>3 DEF Abandon
  <2>4. CASE ValidateStage(p) BY <2>4 DEF ValidateStage
  <2>5. CASE RevalidateInputs(p) BY <2>5 DEF RevalidateInputs
  <2>6. CASE Compare(p)
    <3>1. PICK to \in {"truncate", "move"} :
            /\ step[p] = "compare" /\ step' = [step EXCEPT ![p] = to]
            /\ stage' = IF to = "move" THEN stage ELSE [stage EXCEPT ![p] = "absent"]
      BY <2>6 DEF Compare
    <3>2. UNCHANGED <<source, cooked, verified, generations, next, current, currentVersion>>
      BY <2>6 DEF Compare
    <3>3. /\ step' \in [Publishers -> Steps] /\ stage' \in [Publishers -> Images]
          /\ \A o \in Publishers :
              /\ stage'[o] # "absent" <=> step'[o] \in {"copy", "validate", "revalidate", "compare", "move"}
              /\ Holds(o, PublishLock, "Exclusive")' <=> step'[o] \notin {"idle", "lease"}
      BY <3>1
    <3> QED BY <3>2, <3>3
  <2>7. CASE Move(p)
    <3>1. cooked[p] \in Ids /\ stage[p] \in Images
      BY <2>7 DEF Move, Publishing
    <3>2. generations' \in [Ids -> Images] /\ stage' = [stage EXCEPT ![p] = "absent"]
      BY <2>7, <3>1 DEF Move
    <3>3. PICK to \in {"truncate", "recheck"} : step[p] = "move" /\ step' = [step EXCEPT ![p] = to]
      BY <2>7 DEF Move
    <3>4. UNCHANGED <<source, cooked, verified, next, current, currentVersion>>
      BY <2>7 DEF Move
    <3>5. /\ step' \in [Publishers -> Steps] /\ stage' \in [Publishers -> Images]
          /\ \A o \in Publishers :
              /\ stage'[o] # "absent" <=> step'[o] \in {"copy", "validate", "revalidate", "compare", "move"}
              /\ Holds(o, PublishLock, "Exclusive")' <=> step'[o] \notin {"idle", "lease"}
      BY <3>2, <3>3
    <3> QED BY <3>2, <3>4, <3>5
  <2>8. CASE Recheck(p) BY <2>8 DEF Recheck
  <2>9. CASE TruncateNext(p) BY <2>9 DEF TruncateNext
  <2>10. CASE WriteNext(p) BY <2>10 DEF WriteNext, Publishing
  <2>11. CASE RereadNext(p) BY <2>11 DEF RereadNext
  <2>13. CASE PointerFailed(p) BY <2>13 DEF PointerFailed
  <2>14. CASE Audit(p) BY <2>14 DEF Audit
  <2>15. CASE ReplacePointer(p)
    <3>1. next \in Ids
      BY <2>15 DEF ReplacePointer, NextIsWritten, Publishing
    <3> QED BY <2>15, <3>1 DEF ReplacePointer
  <2> QED BY <2>1, <2>2, <2>3, <2>4, <2>5, <2>6, <2>7, <2>8, <2>9, <2>10, <2>11, <2>13, <2>14, <2>15
<1>4. Publishing'
  BY DEF PublishTypeOK, Publishing, At, LeaseFailed, FinishCopy, Abandon, ValidateStage,
         RevalidateInputs, Compare, Move, Recheck, TruncateNext, WriteNext, RereadNext,
         ReplacePointer, PointerFailed, Audit
<1>5. NextIsWritten'
  <2> SUFFICES ASSUME NEW o \in Publishers, step'[o] = "replace" PROVE next' = cooked'[o]
    BY DEF NextIsWritten
  <2>1. CASE o = p
    BY <2>1 DEF PublishTypeOK, NextIsWritten, At, LeaseFailed, FinishCopy, Abandon, ValidateStage,
         RevalidateInputs, Compare, Move, Recheck, TruncateNext, WriteNext, RereadNext,
         ReplacePointer, PointerFailed, Audit, pointerVars
  <2>2. CASE o # p
    <3>1. step[o] = "replace"
      BY <2>2 DEF PublishTypeOK, At, LeaseFailed, FinishCopy, Abandon, ValidateStage,
         RevalidateInputs, Compare, Move, Recheck, TruncateNext, WriteNext, RereadNext,
         ReplacePointer, PointerFailed, Audit
    <3>2. step[p] \in {"idle", "lease"}
      BY <2>2, <3>1, OnePublisher
    <3>3. LeaseFailed(p)
      BY <3>2 DEF At, FinishCopy, Abandon, ValidateStage,
         RevalidateInputs, Compare, Move, Recheck, TruncateNext, WriteNext, RereadNext,
         ReplacePointer, PointerFailed, Audit
    <3> QED BY <2>2, <3>1, <3>3 DEF LeaseFailed, NextIsWritten, PublishTypeOK, pointerVars
  <2> QED BY <2>1, <2>2
<1> QED BY <1>2, <1>3, <1>4, <1>5

\* The steps of Publish that take the lease and give it back.
LEMMA PublishLeased ==
    ASSUME PublishInv1, NEW p \in Publishers, BeginPublish(p) \/ BeginCopy(p) \/ EndPublish(p)
    PROVE  PublishInv1'
<1> USE DEF PublishInv1
<1>1. p \in Holders /\ PublishLock \in Paths /\ "Exclusive" \in LeaseModes
  BY PublisherAssumption DEF LeaseModes
<1>2. LeaseOK'
  BY <1>1, LeaseKept DEF BeginPublish, BeginCopy, EndPublish, othersVars
<1>3. UNCHANGED <<bindVars, sweepVars>>
  BY DEF BeginPublish, BeginCopy, EndPublish, othersVars
<1>4. \A h, q, m : h # p => (Holds(h, q, m)' <=> Holds(h, q, m))
  BY HoldsAfter DEF BeginPublish, BeginCopy, EndPublish, othersVars, Holds
<1>5. LeasesOfOthers'
  BY <1>3, <1>4, PublisherAssumption DEF LeasesOfOthers, bindVars, sweepVars
<1>6. PublishTypeOK'
  <2>1. CASE BeginPublish(p)
    BY <2>1, HistoryTypes DEF BeginPublish, At, PublishTypeOK, othersVars, bindVars, sweepVars,
       pointerVars, Steps, Holds
  <2>2. CASE BeginCopy(p)
    <3>1. Holds(p, PublishLock, "Exclusive")'
      BY <2>2 DEF BeginCopy, Acquire, Holds
    <3> QED BY <2>2, <3>1, <1>4 DEF BeginCopy, At, PublishTypeOK, bindVars, sweepVars,
       pointerVars, Steps, Images
  <2>3. CASE EndPublish(p)
    <3>1. ~Holds(p, PublishLock, "Exclusive")'
      BY <2>3, HoldsAfter DEF EndPublish
    <3> QED BY <2>3, <3>1, <1>4 DEF EndPublish, At, PublishTypeOK, bindVars, sweepVars,
       pointerVars, Steps, Images
  <2> QED BY <2>1, <2>2, <2>3
<1>7. Publishing' /\ NextIsWritten'
  BY HistoryTypes DEF PublishTypeOK, Publishing, NextIsWritten, At, BeginPublish, BeginCopy, EndPublish,
     pointerVars
<1> QED BY <1>2, <1>5, <1>6, <1>7

\* The readers.
LEMMA ReaderKeeps ==
    ASSUME PublishInv1, NEW r \in Readers, ReaderStep(r)
    PROVE  PublishInv1'
<1> USE DEF PublishInv1
<1>1. /\ r \in Holders /\ r \notin Publishers \cup {Sweep, Target}
      /\ \A g \in Ids : LeasePath[g] \in Paths
      /\ "Shared" \in LeaseModes
  BY PublisherAssumption DEF LeaseModes
<1>2. LeaseOK'
  BY <1>1, LeaseKept DEF ReaderStep, ReadPointer, LeaseGeneration, Bind, Unbind, LeasesOfOthers
<1>3. \A h, q, m : h # r => (Holds(h, q, m)' <=> Holds(h, q, m))
  BY HoldsAfter DEF ReaderStep, ReadPointer, LeaseGeneration, Bind, Unbind, Holds
<1>4. UNCHANGED <<source, publisherVars, generations, pointerVars, sweepVars>>
  BY DEF ReaderStep, ReadPointer, LeaseGeneration, Bind, Unbind
<1>5. PublishTypeOK'
  <2>1. reader' \in [Readers -> {"idle", "lease", "validate", "bound"}]
        /\ chosen' \in [Readers -> Ids \cup {NoId}]
    BY DEF ReaderStep, ReadPointer, LeaseGeneration, Bind, Unbind, PublishTypeOK
  <2>2. \A p \in Publishers : Holds(p, PublishLock, "Exclusive")' <=> Holds(p, PublishLock, "Exclusive")
    BY <1>1, <1>3
  <2> QED BY <1>4, <2>1, <2>2 DEF PublishTypeOK, publisherVars, pointerVars, sweepVars
<1>6. Publishing' /\ NextIsWritten'
  BY <1>4 DEF Publishing, NextIsWritten, publisherVars, pointerVars
<1>7. LeasesOfOthers'
  <2>1. /\ sweep' # "idle" => Holds(Sweep, PublishLock, "Exclusive")'
        /\ sweep' \in {"check", "remove"} =>
              doomed' \in Ids /\ Holds(Target, LeasePath[doomed], "Exclusive")'
    BY <1>1, <1>3, <1>4 DEF LeasesOfOthers, sweepVars, Holds
  <2>2. ASSUME NEW o \in Readers
        PROVE  /\ reader'[o] # "idle" => chosen'[o] \in Ids
               /\ reader'[o] \in {"validate", "bound"} => Holds(o, LeasePath[chosen[o]], "Shared")'
    <3>1. CASE o # r
      <4>1. reader'[o] = reader[o] /\ chosen'[o] = chosen[o]
        BY <3>1 DEF PublishTypeOK, ReaderStep, ReadPointer, LeaseGeneration, Bind, Unbind
      <4> QED BY <3>1, <4>1, <1>3 DEF LeasesOfOthers, Holds
    <3>2. CASE o = r /\ ReadPointer(r)
      BY <3>2 DEF LeasesOfOthers, PublishTypeOK, ReadPointer
    <3>3. CASE o = r /\ LeaseGeneration(r)
      BY <3>3 DEF LeasesOfOthers, PublishTypeOK, LeaseGeneration, Acquire, Holds
    <3>4. CASE o = r /\ Bind(r)
      BY <3>4 DEF LeasesOfOthers, PublishTypeOK, Bind, Holds
    <3>5. CASE o = r /\ Unbind(r)
      BY <3>5 DEF LeasesOfOthers, PublishTypeOK, Unbind
    <3> QED BY <3>1, <3>2, <3>3, <3>4, <3>5 DEF ReaderStep
  <2> QED BY <2>1, <2>2 DEF LeasesOfOthers
<1> QED BY <1>2, <1>5, <1>6, <1>7

\* Maintenance.
LEMMA MaintenanceKeeps ==
    ASSUME PublishInv1, Maintain
    PROVE  PublishInv1'
<1> USE DEF PublishInv1
<1>1. /\ Sweep \in Holders /\ Target \in Holders /\ Sweep # Target
      /\ \A p \in Publishers \cup Readers : p # Sweep /\ p # Target
      /\ PublishLock \in Paths /\ \A g \in Ids : LeasePath[g] \in Paths
      /\ "Exclusive" \in LeaseModes
  BY PublisherAssumption DEF LeaseModes
<1>2. LeaseOK'
  BY <1>1, LeaseKept DEF Maintain, BeginSweep, Doom, BeginRemove, EndRemove, EndSweep
<1>3. \A h, q, m : h \notin {Sweep, Target} => (Holds(h, q, m)' <=> Holds(h, q, m))
  BY HoldsAfter DEF Maintain, BeginSweep, Doom, BeginRemove, EndRemove, EndSweep, Holds
<1>4. UNCHANGED <<source, publisherVars, pointerVars, bindVars>>
  BY DEF Maintain, BeginSweep, Doom, BeginRemove, EndRemove, EndSweep
<1>5. PublishTypeOK'
  <2>1. /\ sweep' \in {"idle", "locked", "check", "remove"} /\ doomed' \in Ids \cup {NoId}
        /\ generations' \in [Ids -> Images]
    BY DEF Maintain, BeginSweep, Doom, BeginRemove, EndRemove, EndSweep, PublishTypeOK, Images
  <2>2. \A p \in Publishers : Holds(p, PublishLock, "Exclusive")' <=> Holds(p, PublishLock, "Exclusive")
    BY <1>1, <1>3
  <2> QED BY <1>4, <2>1, <2>2 DEF PublishTypeOK, publisherVars, pointerVars, bindVars
<1>6. Publishing' /\ NextIsWritten'
  BY <1>4 DEF Publishing, NextIsWritten, publisherVars, pointerVars
<1>7. LeasesOfOthers'
  <2>1. \A r \in Readers :
          /\ reader'[r] # "idle" => chosen'[r] \in Ids
          /\ reader'[r] \in {"validate", "bound"} => Holds(r, LeasePath[chosen[r]], "Shared")'
    BY <1>1, <1>3, <1>4 DEF LeasesOfOthers, bindVars, Holds
  <2>2. /\ sweep' # "idle" => Holds(Sweep, PublishLock, "Exclusive")'
        /\ sweep' \in {"check", "remove"} =>
              doomed' \in Ids /\ Holds(Target, LeasePath[doomed], "Exclusive")'
    <3>1. CASE BeginSweep
      BY <3>1 DEF BeginSweep, Acquire, Holds
    <3>2. CASE \E g \in Ids : Doom(g)
      <4>1. PICK g \in Ids : Doom(g)
        BY <3>2
      <4> QED BY <4>1, <1>1 DEF Doom, Acquire, Holds, LeasesOfOthers
    <3>3. CASE BeginRemove
      BY <3>3 DEF BeginRemove, Holds, LeasesOfOthers
    <3>4. CASE EndRemove
      <4>1. Holds(Sweep, PublishLock, "Exclusive")' <=> Holds(Sweep, PublishLock, "Exclusive")
        BY <3>4, <1>1, HoldsAfter DEF EndRemove
      <4> QED BY <3>4, <4>1 DEF EndRemove, LeasesOfOthers
    <3>5. CASE EndSweep
      BY <3>5 DEF EndSweep
    <3> QED BY <3>1, <3>2, <3>3, <3>4, <3>5 DEF Maintain
  <2> QED BY <2>1, <2>2 DEF LeasesOfOthers
<1> QED BY <1>2, <1>5, <1>6, <1>7

\* The end of a process takes all its leases, and all that goes by them.
LEMMA CrashKeeps ==
    ASSUME PublishInv1, NEW process, Crash(process)
    PROVE  PublishInv1'
<1> USE DEF PublishInv1
<1>1. LeaseOK'
  BY LeaseKept DEF Crash
<1>2. \A h, q, m : Holds(h, q, m)' <=> Holds(h, q, m) /\ ProcessOf[h] # process
  BY HoldsAfter DEF Crash
<1>3. PublishTypeOK'
  BY <1>2 DEF Crash, PublishTypeOK, Steps, Images, pointerVars
<1>4. Publishing' /\ NextIsWritten'
  BY DEF Crash, PublishTypeOK, Publishing, NextIsWritten, pointerVars
<1>5. LeasesOfOthers'
  BY <1>2, PublisherAssumption DEF Crash, PublishTypeOK, LeasesOfOthers
<1> QED BY <1>1, <1>3, <1>4, <1>5

LEMMA PublishInv1Next ==
    ASSUME PublishInv1, [PublishNext]_<<lease, publishVars>> PROVE PublishInv1'
<1> USE DEF PublishInv1
<1>1. CASE Edit
  <2>1. UNCHANGED <<publisherVars, generations, pointerVars, othersVars>>
    BY <1>1 DEF Edit
  <2>2. LeaseOK'
    BY <2>1, LeaseKept DEF othersVars
  <2>3. source' \in 1..Len(History)
    BY <1>1, HistoryTypes DEF Edit, PublishTypeOK
  <2> QED BY <2>1, <2>2, <2>3
        DEF PublishTypeOK, Publishing, LeasesOfOthers, NextIsWritten, Holds, publisherVars,
            pointerVars, othersVars, bindVars, sweepVars
<1>2. CASE UNCHANGED <<lease, publishVars>>
  <2>1. LeaseOK'
    BY <1>2, LeaseKept
  <2> QED BY <1>2, <2>1
        DEF PublishTypeOK, Publishing, LeasesOfOthers, NextIsWritten, Holds, publishVars,
            publisherVars, pointerVars, bindVars, sweepVars
<1> QED
  BY <1>1, <1>2, PublishUnleased, PublishLeased, ReaderKeeps, MaintenanceKeeps, CrashKeeps
     DEF PublishNext, Publish

-----------------------------------------------------------------------------
(* Generations and the pointer.                                            *)

Installing == {"truncate", "write", "reread", "replace"}

\* What is moved is a validated stage, what is written to the pointer an installed generation.
WholeBeforeUse ==
    \A p \in Publishers :
        /\ step[p] \in {"revalidate", "compare", "move"} => stage[p] = "whole"
        /\ step[p] \in Installing => generations[cooked[p]] = "whole"

\* Maintenance does not remove what the pointer names.
CurrentIsSpared == sweep = "remove" => doomed # current

\* What a publisher is about to make current was verified after what is current.
VerifiedInOrder ==
    /\ currentVersion <= source
    /\ \A p \in Publishers :
        /\ verified[p] <= source
        /\ step[p] \in {"compare", "move", "recheck"} \cup Installing => currentVersion <= verified[p]

PublishInv2 ==
    WholeBeforeUse /\ CurrentIsSpared /\ VerifiedInOrder /\ CurrentIsComplete /\ BoundIsComplete

LEMMA PublishInv2Init == PublishInit => PublishInv2
BY HistoryTypes, PublisherAssumption
   DEF PublishInit, PublishInv2, WholeBeforeUse, Installing, CurrentIsSpared, VerifiedInOrder,
       CurrentIsComplete, BoundIsComplete

\* Publication and maintenance exclude each other.
LEMMA PublisherOrSweep ==
    ASSUME PublishInv1, NEW p \in Publishers, step[p] \notin {"idle", "lease"}
    PROVE  sweep = "idle"
<1>1. Holds(p, PublishLock, "Exclusive") /\ p # Sweep
  BY PublisherAssumption DEF PublishInv1, PublishTypeOK
<1> QED BY <1>1, Alone DEF PublishInv1, LeaseOK, LeasesOfOthers

\* Steps of publishers that leave the generations and the pointer as they are.
LEMMA PublishQuiet ==
    ASSUME PublishInv1, PublishInv2, NEW p \in Publishers,
           \/ BeginPublish(p) \/ BeginCopy(p) \/ EndPublish(p)
           \/ LeaseFailed(p) \/ FinishCopy(p) \/ Abandon(p) \/ ValidateStage(p)
           \/ RevalidateInputs(p) \/ Compare(p) \/ Recheck(p)
           \/ TruncateNext(p) \/ WriteNext(p) \/ RereadNext(p) \/ PointerFailed(p) \/ Audit(p)
    PROVE  PublishInv2'
<1> USE DEF PublishInv1, PublishInv2
<1>1. UNCHANGED <<source, generations, current, currentVersion, bindVars, sweepVars>>
  BY DEF BeginPublish, BeginCopy, EndPublish, LeaseFailed, FinishCopy, Abandon, ValidateStage,
         RevalidateInputs, Compare, Recheck, TruncateNext, WriteNext, RereadNext, PointerFailed,
         Audit, othersVars, pointerVars
<1>2. CurrentIsSpared' /\ CurrentIsComplete' /\ BoundIsComplete'
  BY <1>1 DEF CurrentIsSpared, CurrentIsComplete, BoundIsComplete, bindVars, sweepVars
<1>3. \A o \in Publishers \ {p} : step'[o] = step[o] /\ stage'[o] = stage[o]
                                /\ cooked'[o] = cooked[o] /\ verified'[o] = verified[o]
  BY DEF PublishTypeOK, At, BeginPublish, BeginCopy, EndPublish, LeaseFailed, FinishCopy, Abandon,
         ValidateStage, RevalidateInputs, Compare, Recheck, TruncateNext, WriteNext, RereadNext,
         PointerFailed, Audit
<1>4. /\ step'[p] \in {"revalidate", "compare", "move"} => stage'[p] = "whole"
      /\ step'[p] \in Installing => generations[cooked'[p]] = "whole"
  BY DEF WholeBeforeUse, Installing, PublishTypeOK, At, BeginPublish, BeginCopy, EndPublish,
         LeaseFailed, FinishCopy, Abandon, ValidateStage, RevalidateInputs, Compare, Recheck,
         TruncateNext, WriteNext, RereadNext, PointerFailed, Audit
<1>5. source \in Nat /\ currentVersion \in Nat /\ verified \in [Publishers -> Nat]
  BY HistoryTypes DEF PublishTypeOK
<1>6. /\ verified'[p] <= source
      /\ step'[p] \in {"compare", "move", "recheck"} \cup Installing => currentVersion <= verified'[p]
  BY <1>5 DEF VerifiedInOrder, Installing, PublishTypeOK, At, BeginPublish, BeginCopy, EndPublish,
         LeaseFailed, FinishCopy, Abandon, ValidateStage, RevalidateInputs, Compare, Recheck,
         TruncateNext, WriteNext, RereadNext, PointerFailed, Audit
<1>7. WholeBeforeUse'
  BY <1>1, <1>3, <1>4 DEF WholeBeforeUse
<1>8. VerifiedInOrder'
  BY <1>1, <1>3, <1>6 DEF VerifiedInOrder
<1> QED BY <1>2, <1>7, <1>8

\* The move installs what was validated, at a name that was free.
LEMMA MoveInstalls ==
    ASSUME PublishInv1, PublishInv2, NEW p \in Publishers, Move(p)
    PROVE  PublishInv2'
<1> USE DEF PublishInv1, PublishInv2
<1>1. /\ cooked[p] \in Ids /\ stage[p] = "whole" /\ generations[cooked[p]] = "absent"
      /\ generations' = [generations EXCEPT ![cooked[p]] = "whole"]
      /\ stage' = [stage EXCEPT ![p] = "absent"]
      /\ UNCHANGED <<source, cooked, verified, pointerVars, othersVars>>
  BY DEF Move, At, WholeBeforeUse, Publishing
<1>2. /\ step[p] = "move" /\ step'[p] \in {"truncate", "recheck"}
      /\ \A o \in Publishers \ {p} : step'[o] = step[o]
  BY DEF Move, At, PublishTypeOK
<1>3. \A g \in Ids : generations[g] = "whole" => generations'[g] = "whole"
  BY <1>1 DEF PublishTypeOK
<1>4. generations'[cooked[p]] = "whole"
  BY <1>1 DEF PublishTypeOK
<1>5. WholeBeforeUse'
  <2> SUFFICES ASSUME NEW o \in Publishers
               PROVE  /\ step'[o] \in {"revalidate", "compare", "move"} => stage'[o] = "whole"
                      /\ step'[o] \in Installing => generations'[cooked[o]] = "whole"
    BY <1>1 DEF WholeBeforeUse
  <2>1. CASE o = p
    BY <2>1, <1>2, <1>4
  <2>2. CASE o # p
    BY <2>2, <1>1, <1>2, <1>3 DEF WholeBeforeUse, Publishing, PublishTypeOK, Installing
  <2> QED BY <2>1, <2>2
<1>6. CurrentIsSpared' /\ CurrentIsComplete'
  BY <1>1, <1>3 DEF CurrentIsSpared, CurrentIsComplete, pointerVars, othersVars, sweepVars
<1>7. BoundIsComplete'
  BY <1>1, <1>3 DEF BoundIsComplete, LeasesOfOthers, othersVars, bindVars
<1>8. VerifiedInOrder'
  BY <1>1, <1>2 DEF VerifiedInOrder, Installing, pointerVars
<1> QED BY <1>5, <1>6, <1>7, <1>8

\* The pointer gets the generation of its publisher, verified later than the last.
LEMMA ReplaceInOrder ==
    ASSUME PublishInv1, PublishInv2, NEW p \in Publishers, ReplacePointer(p)
    PROVE  PublishInv2' /\ currentVersion' >= currentVersion
<1> USE DEF PublishInv1, PublishInv2
<1>1. /\ step[p] = "replace" /\ step'[p] \in {"audit", "return"}
      /\ \A o \in Publishers \ {p} : step'[o] = step[o]
      /\ current' = cooked[p] /\ cooked[p] \in Ids
      /\ currentVersion' = verified[p]
      /\ UNCHANGED <<source, cooked, verified, stage, generations, bindVars, sweepVars>>
  BY DEF ReplacePointer, At, PublishTypeOK, NextIsWritten, Publishing, othersVars
<1>2. \A o \in Publishers \ {p} : step[o] \in {"idle", "lease"}
  BY <1>1, OnePublisher
<1>3. sweep' = "idle"
  BY <1>1, PublisherOrSweep DEF sweepVars
<1>4. generations[cooked[p]] = "whole" /\ currentVersion <= verified[p]
  BY <1>1 DEF WholeBeforeUse, VerifiedInOrder, Installing
<1>5. CurrentIsSpared' /\ CurrentIsComplete' /\ BoundIsComplete'
  BY <1>1, <1>3, <1>4 DEF CurrentIsSpared, CurrentIsComplete, BoundIsComplete, bindVars
<1>6. WholeBeforeUse'
  BY <1>1, <1>2 DEF WholeBeforeUse, Installing
<1>7. VerifiedInOrder'
  BY <1>1, <1>2 DEF VerifiedInOrder, Installing
<1>8. currentVersion \in Nat /\ verified[p] \in Nat
  BY HistoryTypes DEF PublishTypeOK
<1> QED BY <1>1, <1>4, <1>5, <1>6, <1>7, <1>8

\* Maintenance takes a generation that nobody publishes, and nobody has bound.
LEMMA MaintenanceSpares ==
    ASSUME PublishInv1, PublishInv2, Maintain
    PROVE  PublishInv2'
<1> USE DEF PublishInv1, PublishInv2
<1>1. UNCHANGED <<source, publisherVars, pointerVars, bindVars>>
  BY DEF Maintain, BeginSweep, Doom, BeginRemove, EndRemove, EndSweep
<1>2. VerifiedInOrder'
  BY <1>1 DEF VerifiedInOrder, publisherVars, pointerVars
<1>3. CurrentIsSpared'
  BY <1>1 DEF CurrentIsSpared, pointerVars, Maintain, BeginSweep, Doom, BeginRemove, EndRemove, EndSweep
<1>4. CASE UNCHANGED generations
  BY <1>1, <1>2, <1>3, <1>4
     DEF WholeBeforeUse, CurrentIsComplete, BoundIsComplete, publisherVars, pointerVars, bindVars
<1>5. CASE generations' # generations
  <2>1. /\ sweep \in {"check", "remove"} /\ doomed # current
        /\ \A g \in Ids \ {doomed} : generations'[g] = generations[g]
    BY <1>5 DEF Maintain, BeginSweep, Doom, BeginRemove, EndRemove, EndSweep, PublishTypeOK,
       CurrentIsSpared
  <2>2. doomed \in Ids /\ Holds(Target, LeasePath[doomed], "Exclusive")
    BY <2>1 DEF LeasesOfOthers
  <2>3. \A p \in Publishers : step[p] \in {"idle", "lease"}
    BY <2>1, PublisherOrSweep
  <2>4. WholeBeforeUse'
    BY <2>3, <1>1 DEF WholeBeforeUse, Installing, publisherVars
  <2>5. CurrentIsComplete'
    BY <2>1, <1>1 DEF CurrentIsComplete, pointerVars
  <2>6. BoundIsComplete'
    <3> SUFFICES ASSUME NEW r \in Readers, reader[r] = "bound"
                 PROVE  generations'[chosen[r]] = "whole"
      BY <1>1 DEF BoundIsComplete, bindVars
    <3>1. chosen[r] \in Ids /\ Holds(r, LeasePath[chosen[r]], "Shared")
      BY DEF LeasesOfOthers
    <3>2. chosen[r] # doomed
      BY <3>1, <2>2, Alone DEF LeaseOK
    <3> QED BY <3>1, <3>2, <2>1 DEF BoundIsComplete
  <2> QED BY <1>2, <1>3, <2>4, <2>5, <2>6
<1> QED BY <1>4, <1>5

LEMMA PublishInv2Next ==
    ASSUME PublishInv1, PublishInv2, [PublishNext]_<<lease, publishVars>> PROVE PublishInv2'
<1>1. CASE Edit
  BY <1>1, HistoryTypes
     DEF Edit, PublishInv1, PublishTypeOK, PublishInv2, WholeBeforeUse, CurrentIsSpared,
         VerifiedInOrder, CurrentIsComplete, BoundIsComplete, publisherVars, pointerVars,
         othersVars, bindVars, sweepVars
<1>2. ASSUME NEW r \in Readers, ReaderStep(r) PROVE PublishInv2'
  <2>1. UNCHANGED <<source, publisherVars, generations, pointerVars, sweepVars>>
    BY <1>2 DEF ReaderStep, ReadPointer, LeaseGeneration, Bind, Unbind
  <2>2. WholeBeforeUse' /\ CurrentIsSpared' /\ VerifiedInOrder' /\ CurrentIsComplete'
    BY <2>1 DEF PublishInv2, WholeBeforeUse, CurrentIsSpared, VerifiedInOrder, CurrentIsComplete,
       publisherVars, pointerVars, sweepVars
  <2>3. BoundIsComplete'
    BY <1>2, <2>1 DEF PublishInv2, BoundIsComplete, PublishInv1, PublishTypeOK, ReaderStep,
       ReadPointer, LeaseGeneration, Bind, Unbind
  <2> QED BY <2>2, <2>3 DEF PublishInv2
<1>3. ASSUME NEW process, Crash(process) PROVE PublishInv2'
  BY <1>3, HistoryTypes
     DEF Crash, PublishInv1, PublishTypeOK, PublishInv2, WholeBeforeUse, Installing, CurrentIsSpared,
         VerifiedInOrder, CurrentIsComplete, BoundIsComplete, pointerVars
<1>4. CASE UNCHANGED <<lease, publishVars>>
  BY <1>4 DEF publishVars, publisherVars, pointerVars, bindVars, sweepVars, PublishInv2,
     WholeBeforeUse, CurrentIsSpared, VerifiedInOrder, CurrentIsComplete, BoundIsComplete
<1> QED
  BY <1>1, <1>2, <1>3, <1>4, PublishQuiet, MoveInstalls, ReplaceInOrder, MaintenanceSpares
     DEF PublishNext, Publish

-----------------------------------------------------------------------------
(* The theorems.                                                           *)

THEOREM PublishInvHolds == PublishSpec => [](PublishInv1 /\ PublishInv2)
<1>1. LeaseInit /\ PublishInit => PublishInv1 /\ PublishInv2
  BY PublishInv1Init, PublishInv2Init
<1>2. (PublishInv1 /\ PublishInv2) /\ [PublishNext]_<<lease, publishVars>> => (PublishInv1 /\ PublishInv2)'
  BY PublishInv1Next, PublishInv2Next
<1> QED BY <1>1, <1>2, PTL DEF PublishSpec

\* Types, and every publication gives back its stage and its lease.
THEOREM PublishTypeCorrect == PublishSpec => []PublishTypeOK
<1>1. PublishInv1 => PublishTypeOK
  BY DEF PublishInv1
<1> QED BY <1>1, PublishInvHolds, PTL

\* Current.json never names a generation that is not whole, wherever processes end.
THEOREM CurrentStaysComplete == PublishSpec => []CurrentIsComplete
<1>1. PublishInv2 => CurrentIsComplete
  BY DEF PublishInv2
<1> QED BY <1>1, PublishInvHolds, PTL

\* A bound generation is not touched while it is bound.
THEOREM BoundStaysComplete == PublishSpec => []BoundIsComplete
<1>1. PublishInv2 => BoundIsComplete
  BY DEF PublishInv2
<1> QED BY <1>1, PublishInvHolds, PTL

\* No publication makes an older source current over a newer one.
THEOREM PublicationsStayOrdered == PublishSpec => PublicationsAreOrdered
<1>1. ASSUME PublishInv1, PublishInv2, [PublishNext]_<<lease, publishVars>>
      PROVE  [currentVersion' >= currentVersion]_publishVars
  <2>1. CASE UNCHANGED currentVersion
    BY <2>1, <1>1, HistoryTypes DEF PublishInv1, PublishTypeOK
  <2>2. CASE \E p \in Publishers : ReplacePointer(p)
    BY <2>2, <1>1, ReplaceInOrder
  <2>3. CASE \E p \in Publishers :
               \/ BeginPublish(p) \/ LeaseFailed(p) \/ BeginCopy(p) \/ FinishCopy(p) \/ Abandon(p)
               \/ ValidateStage(p) \/ RevalidateInputs(p) \/ Compare(p) \/ Move(p) \/ Recheck(p)
               \/ TruncateNext(p) \/ WriteNext(p) \/ RereadNext(p) \/ PointerFailed(p) \/ Audit(p)
               \/ EndPublish(p)
    <3>1. UNCHANGED currentVersion
      BY <2>3 DEF BeginPublish, LeaseFailed, BeginCopy, FinishCopy, Abandon, ValidateStage,
         RevalidateInputs, Compare, Move, Recheck, TruncateNext, WriteNext, RereadNext, PointerFailed,
         Audit, EndPublish, pointerVars
    <3> QED BY <3>1, <2>1
  <2>4. CASE Edit \/ Maintain \/ \E r \in Readers : ReaderStep(r)
    <3>1. UNCHANGED currentVersion
      BY <2>4 DEF Edit, Maintain, BeginSweep, Doom, BeginRemove, EndRemove, EndSweep, ReaderStep,
         ReadPointer, LeaseGeneration, Bind, Unbind, pointerVars
    <3> QED BY <3>1, <2>1
  <2>5. CASE \E process \in {ProcessOf[h] : h \in Holders} : Crash(process)
    BY <2>5, <2>1 DEF Crash, pointerVars
  <2> QED BY <1>1, <2>1, <2>2, <2>3, <2>4, <2>5 DEF PublishNext, Publish, publishVars, pointerVars
<1> QED BY <1>1, PublishInvHolds, PTL DEF PublishSpec, PublicationsAreOrdered
=============================================================================
