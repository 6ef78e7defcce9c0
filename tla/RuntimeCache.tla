---------------------------- MODULE RuntimeCache ----------------------------
(***************************************************************************)
(* FAssetRuntimeCache: payloads that requests, typed handles and other     *)
(* payloads retain.  An entry counts the retentions of each class; when    *)
(* the last one of an entry goes, Sweep erases it and takes its retention  *)
(* off its required dependencies, which may go in turn.                    *)
(*                                                                         *)
(* A step is one call of the cache, which holds its mutex throughout.  A   *)
(* call that fails changes nothing and is not a step.                      *)
(***************************************************************************)
EXTENDS Integers, FiniteSets, FiniteSetsExt

CONSTANTS
    Keys,                 \* load keys that differ in the asset only
    Versions,             \* versions of an asset's source
    NoVersion,            \* not a version
    Required,             \* the required dependencies of an asset version
    Bytes,                \* the payload size of an asset version
    MaximumPayloadBytes,  \* Limits.MaxAggregatePayloadBytes
    MaxRetentions         \* bound: retentions of a class that callers hold on a key

ASSUME CacheAssumption ==
    /\ IsFiniteSet(Keys)
    /\ NoVersion \notin Versions
    /\ Required \in [Keys \X Versions -> SUBSET Keys]
    /\ Bytes \in [Keys \X Versions -> Nat \ {0}]
    /\ MaximumPayloadBytes \in Nat
    /\ MaxRetentions \in Nat

VARIABLES
    entries,    \* Entries: the version and the retention counts of each key
    bytes,      \* PayloadBytes
    interests,  \* request interests the manager holds
    handles,    \* typed handles that callers hold
    cleared     \* ClearManagerOwnership was called

vars == <<entries, bytes, interests, handles, cleared>>

-----------------------------------------------------------------------------
EntryRecords == [version : Versions \cup {NoVersion},
                 req : Nat, ext : Nat, dep : Nat]

NoEntry == [version |-> NoVersion, req |-> 0, ext |-> 0, dep |-> 0]

Present(f) == {k \in Keys : f[k].version # NoVersion}

\* RequiredDependencies of an entry.
RequiredOf(f, k) == Required[<<k, f[k].version>>]

Size(f, K) == MapThenSumSet(LAMBDA k : Bytes[<<k, f[k].version>>], K)

TypeOK ==
    /\ entries \in [Keys -> EntryRecords]
    /\ bytes \in Int
    /\ interests \in [Keys -> Nat]
    /\ handles \in [Keys -> Nat]
    /\ cleared \in BOOLEAN

Init ==
    /\ entries = [k \in Keys |-> NoEntry]
    /\ bytes = 0
    /\ interests = [k \in Keys |-> 0]
    /\ handles = [k \in Keys |-> 0]
    /\ cleared = FALSE

-----------------------------------------------------------------------------
(* Sweep.                                                                  *)

Unretained(f) ==
    {k \in Present(f) : f[k].req = 0 /\ f[k].ext = 0 /\ f[k].dep = 0}

\* One entry is erased and its dependencies lose its retention.
Erased(f, k) ==
    [d \in Keys |->
        IF d = k THEN NoEntry
        ELSE IF d \in RequiredOf(f, k) \cap Present(f) /\ f[d].dep > 0
             THEN [f[d] EXCEPT !.dep = @ - 1] ELSE f[d]]

EraseOne(f) ==
    IF Unretained(f) = {} THEN f ELSE Erased(f, CHOOSE k \in Unretained(f) : TRUE)

\* Mutant: a dependency that becomes unretained is not looked at again.
SweptOnce(f) == EraseOne(f)

\* The passes of Sweep: each erases one entry, as long as one is unretained.
Swept(f) ==
    LET pass[n \in 0..Cardinality(Keys)] == IF n = 0 THEN f ELSE EraseOne(pass[n - 1])
    IN  pass[Cardinality(Keys)]

\* The entries become f and are swept.
SweepFrom(f) ==
    \E swept \in {Swept(f)} :
        /\ entries' = swept
        /\ bytes' = bytes - Size(f, Present(f) \ Present(swept))

-----------------------------------------------------------------------------
(* Publish.  The load of a root brings its required closure and whatever   *)
(* else the same imports emitted: optional dependencies and siblings.  A   *)
(* source may have changed between two loads, so versions differ.          *)

Loads == UNION {[K -> Versions] : K \in SUBSET Keys}

\* No load has a cycle of required dependencies: Visit reports a conflict.
IsLoadOf(root, l) ==
    /\ \E closure \in SUBSET DOMAIN l :
        root \in closure /\ \A k \in closure : Required[<<k, l[k]>>] \subseteq closure
    /\ \A K \in SUBSET DOMAIN l \ {{}} :
        \E k \in K : Required[<<k, l[k]>>] \cap K = {}

LoadsOf == [root \in Keys |-> {l \in Loads : IsLoadOf(root, l)}]

AddedBytes(l) ==
    MapThenSumSet(LAMBDA k : Bytes[<<k, l[k]>>], DOMAIN l \ Present(entries))

\* Mutant: only the entries of the load count as payload bytes.
FitsAlone(l) ==
    AddedBytes(l) <= MaximumPayloadBytes

Fits(l) == bytes + AddedBytes(l) <= MaximumPayloadBytes

\* Mutant: only what the load itself requires has to be there.
DependenciesFoundOfRoot(l) == TRUE

\* Each required dependency is loaded or cached.
DependenciesFound(l) ==
    \A k \in DOMAIN l : Required[<<k, l[k]>>] \subseteq DOMAIN l \cup Present(entries)

\* An entry that is cached already has to be the one that was loaded.
SameVersions(l) == \A k \in DOMAIN l \cap Present(entries) : entries[k].version = l[k]

\* Mutant: the dependencies of cached entries are counted again.
CountedAgain(l, d) == Cardinality({k \in DOMAIN l : d \in Required[<<k, l[k]>>]})

\* The retentions that the inserted entries add to d.
CountedRequired(l, d) ==
    Cardinality({k \in DOMAIN l \ Present(entries) : d \in Required[<<k, l[k]>>]})

\* n requests wait for root.
Publish(root, l, n) ==
    /\ ~cleared
    /\ interests[root] + n <= MaxRetentions
    /\ SameVersions(l) /\ DependenciesFound(l) /\ Fits(l)
    /\ entries' =
        [k \in Keys |->
            LET version == IF k \in DOMAIN l THEN l[k] ELSE entries[k].version
                more == IF k = root THEN n ELSE 0
            IN  [version |-> version, req |-> entries[k].req + more, ext |-> entries[k].ext,
                 dep |-> entries[k].dep + CountedRequired(l, k)]]
    /\ bytes' = bytes + AddedBytes(l)
    /\ interests' = [interests EXCEPT ![root] = @ + n]
    /\ UNCHANGED <<handles, cleared>>

-----------------------------------------------------------------------------
AcquireRequest(k) ==
    /\ k \in Present(entries)
    /\ interests[k] < MaxRetentions
    /\ entries' = [entries EXCEPT ![k].req = @ + 1]
    /\ interests' = [interests EXCEPT ![k] = @ + 1]
    /\ UNCHANGED <<bytes, handles, cleared>>

ReleaseRequest(k) ==
    /\ interests[k] > 0
    /\ interests' = [interests EXCEPT ![k] = @ - 1]
    /\ SweepFrom(IF k \in Present(entries) /\ entries[k].req > 0
                 THEN [entries EXCEPT ![k].req = @ - 1] ELSE entries)
    /\ UNCHANGED <<handles, cleared>>

AcquireExternal(k) ==
    /\ k \in Present(entries)
    /\ handles[k] < MaxRetentions
    /\ entries' = [entries EXCEPT ![k].ext = @ + 1]
    /\ handles' = [handles EXCEPT ![k] = @ + 1]
    /\ UNCHANGED <<bytes, interests, cleared>>

\* Mutant: a handle that goes gives back a request's retention.
ReleaseExternalOfRequest(k) ==
    /\ handles[k] > 0
    /\ handles' = [handles EXCEPT ![k] = @ - 1]
    /\ SweepFrom(IF k \in Present(entries) THEN [entries EXCEPT ![k].req = @ - 1] ELSE entries)
    /\ UNCHANGED <<interests, cleared>>

\* The last copy of a typed handle goes, also after ClearManagerOwnership.
ReleaseExternal(k) ==
    /\ handles[k] > 0
    /\ handles' = [handles EXCEPT ![k] = @ - 1]
    /\ SweepFrom(IF k \in Present(entries) /\ entries[k].ext > 0
                 THEN [entries EXCEPT ![k].ext = @ - 1] ELSE entries)
    /\ UNCHANGED <<interests, cleared>>

\* Shutdown has erased the controls that held the request interests.
ClearManagerOwnership ==
    /\ ~cleared
    /\ cleared' = TRUE
    /\ entries' = [k \in Keys |-> NoEntry]
    /\ bytes' = 0
    /\ interests' = [k \in Keys |-> 0]
    /\ UNCHANGED handles

\* Everything is given back and the manager is gone.
Finished ==
    /\ cleared
    /\ \A k \in Keys : handles[k] = 0
    /\ UNCHANGED vars

Next ==
    \/ \E root \in Keys, n \in 1..MaxRetentions : \E l \in LoadsOf[root] :
        Publish(root, l, n)
    \/ \E k \in Keys :
        \/ AcquireRequest(k) \/ ReleaseRequest(k)
        \/ AcquireExternal(k) \/ ReleaseExternal(k)
    \/ ClearManagerOwnership
    \/ Finished

Spec == Init /\ [][Next]_vars

-----------------------------------------------------------------------------
\* PayloadBytes, kept by differences in Publish and Sweep, is the size of the cached
\* payloads and stays within the limit.
BytesAreExact ==
    bytes = Size(entries, Present(entries)) /\ bytes <= MaximumPayloadBytes

\* An entry counts one retention for each cached entry that requires it, whichever
\* loads published the two and in whatever order they went.
DependenciesAreExact ==
    \A d \in Present(entries) :
        entries[d].dep =
            Cardinality({k \in Present(entries) : d \in RequiredOf(entries, k)})

\* Whatever is cached has its required closure cached, so that a request AcquireRequest
\* answers from the cache never needs a load.
ClosureIsCached ==
    \A k \in Present(entries) : RequiredOf(entries, k) \subseteq Present(entries)

\* As long as a request or a typed handle retains an asset it stays cached, whatever
\* Sweep erases, and the entry counts each of them once.
RetentionIsExact ==
    ~cleared => \A k \in Keys : entries[k].req = interests[k] /\ entries[k].ext = handles[k]

\* What callers hold, and what that requires, is all of the cache.
OnlyRetained ==
    \A K \in SUBSET Present(entries) :
        /\ \A k \in Keys : interests[k] + handles[k] > 0 => k \in K
        /\ \A k \in K : RequiredOf(entries, k) \subseteq K
        => K = Present(entries)

\* Every release leaves only what is still retained, directly or by a cached
\* entry: Sweep reaches the end of each chain of dependencies.
ReleaseReclaims ==
    [][(\E k \in Keys : interests'[k] < interests[k] \/ handles'[k] < handles[k])
            /\ ~cleared'
        => OnlyRetained']_vars
=============================================================================
