----------------------------- MODULE NodeLoads -----------------------------
(***************************************************************************)
(* FAssetNodeLoadCoordinator: closures that several worker threads load at *)
(* the same time share the load of a dependency.  The first loader of a    *)
(* key owns the load; a later one links its cancellation token to the load *)
(* and waits.  FAssetDependencyScheduler's Visit makes the calls.          *)
(*                                                                         *)
(* A loader runs one operation after the other, each with a token and a    *)
(* deadline of its own.  A step is one critical section of the             *)
(* coordinator's mutex, or one look at a token or a clock outside it.      *)
(***************************************************************************)
EXTENDS Integers, FiniteSets

CONSTANTS
    Loaders,        \* worker threads
    Keys,           \* load keys of dependencies
    Soft,           \* keys that their owners can replace by a fallback
    Closure,        \* the dependencies of the operations that a loader runs
    Entries,        \* the FEntry objects
    NoKey,          \* not a key
    NoEntry,        \* not an entry
    MaxOperations   \* bound: operations that a loader runs

ASSUME NodeLoadsAssumption ==
    /\ IsFiniteSet(Loaders) /\ IsFiniteSet(Keys)
    /\ Soft \subseteq Keys
    /\ Closure \in [Loaders -> SUBSET Keys]
    /\ NoKey \notin Keys /\ NoEntry \notin Entries
    /\ MaxOperations \in Nat

VARIABLES
    pc,         \* where each loader is
    operation,  \* number of the operation that a loader runs
    unvisited,  \* dependencies that Visit has still to come to
    key,        \* the key a loader loads
    held,       \* the entry a loader holds
    loaded,     \* the result a loader has got
    cancelled,  \* tokens on which cancellation was requested
    late,       \* loaders whose operation is past its deadline
    entry,      \* the FEntry objects
    table       \* Impl_->Entries

vars == <<pc, operation, unvisited, key, held, loaded, cancelled, late, entry, table>>

-----------------------------------------------------------------------------
\* An operation is named by its token.
Tokens == Loaders \X (1..MaxOperations)

Token(w) == <<w, operation[w]>>

LoadResults == {"Success", "Failed", "Cancelled"}

Pcs == {"idle", "visit", "enter", "load", "complete", "wait", "end"}

EntryRecords ==
    [key : Keys \cup {NoKey}, owner : Loaders \cup {NoKey}, result : LoadResults,
     linked : SUBSET Tokens, interests : Nat, complete : BOOLEAN]

FreshEntry ==
    [key |-> NoKey, owner |-> NoKey, result |-> "Failed",
     linked |-> {}, interests |-> 0, complete |-> FALSE]

TypeOK ==
    /\ pc \in [Loaders -> Pcs]
    /\ operation \in [Loaders -> 0..MaxOperations]
    /\ unvisited \in [Loaders -> SUBSET Keys]
    /\ key \in [Loaders -> Keys \cup {NoKey}]
    /\ held \in [Loaders -> Entries \cup {NoEntry}]
    /\ loaded \in [Loaders -> LoadResults]
    /\ cancelled \subseteq Tokens
    /\ late \subseteq Loaders
    /\ entry \in [Entries -> EntryRecords]
    /\ table \subseteq Entries

Init ==
    /\ pc = [w \in Loaders |-> "idle"]
    /\ operation = [w \in Loaders |-> 0]
    /\ unvisited = [w \in Loaders |-> {}]
    /\ key = [w \in Loaders |-> NoKey]
    /\ held = [w \in Loaders |-> NoEntry]
    /\ loaded = [w \in Loaders |-> "Failed"]
    /\ cancelled = {}
    /\ late = {}
    /\ entry = [e \in Entries |-> FreshEntry]
    /\ table = {}

-----------------------------------------------------------------------------
\* ShouldStop of a loader's own context.
Stopped(w) == Token(w) \in cancelled \/ w \in late

\* IsCancellationRequested of the token of a load: all linked tokens are.
IsCancelled(e) == entry[e].linked # {} /\ entry[e].linked \subseteq cancelled

\* ShouldStop of the context of a load: its token, and the owner's deadline.
LoadStopped(w) == IsCancelled(held[w]) \/ w \in late

\* The entry objects that no shared pointer holds.
FreeEntries == Entries \ (table \cup {held[w] : w \in Loaders})

\* Cancelled and late tokens, entries and their table stay as they are.
CoordinatorUnchanged == UNCHANGED <<entry, table>>
SignalsUnchanged == UNCHANGED <<cancelled, late>>

-----------------------------------------------------------------------------
(* Visit.                                                                  *)

\* A worker starts an operation.
BeginOperation(w) ==
    /\ pc[w] = "idle"
    /\ operation[w] < MaxOperations
    /\ unvisited' = [unvisited EXCEPT ![w] = Closure[w]]
    /\ operation' = [operation EXCEPT ![w] = @ + 1]
    /\ pc' = [pc EXCEPT ![w] = "visit"]
    /\ UNCHANGED <<key, held, loaded>>
    /\ CoordinatorUnchanged /\ SignalsUnchanged

\* The dependency k has the result r and rest are left: a success goes on, and so
\* does a failed soft dependency; any other result ends the closure.
Settle(w, k, r, rest) ==
    LET goesOn == r = "Success" \/ k \in Soft
    IN  /\ loaded' = [loaded EXCEPT ![w] = IF goesOn THEN "Success" ELSE r]
        /\ pc' = [pc EXCEPT ![w] = IF goesOn /\ rest # {} THEN "visit" ELSE "end"]
        /\ unvisited' = [unvisited EXCEPT ![w] = rest]

VisitStopped(w, k) ==
    /\ pc[w] = "visit"
    /\ k \in unvisited[w]
    /\ Stopped(w)
    /\ Settle(w, k, "Cancelled", unvisited[w] \ {k})
    /\ UNCHANGED <<operation, key, held>>
    /\ CoordinatorUnchanged /\ SignalsUnchanged

Visit(w, k) ==
    /\ pc[w] = "visit"
    /\ k \in unvisited[w]
    /\ ~Stopped(w)
    /\ unvisited' = [unvisited EXCEPT ![w] = @ \ {k}]
    /\ key' = [key EXCEPT ![w] = k]
    /\ pc' = [pc EXCEPT ![w] = "enter"]
    /\ UNCHANGED <<operation, held, loaded>>
    /\ CoordinatorUnchanged /\ SignalsUnchanged

\* Load returns r to Visit, unless the loader's own context has stopped.
Returned(w, r) ==
    /\ Settle(w, key[w], IF r = "Success" /\ Stopped(w) THEN "Cancelled" ELSE r, unvisited[w])
    /\ key' = [key EXCEPT ![w] = NoKey]
    /\ held' = [held EXCEPT ![w] = NoEntry]
    /\ UNCHANGED operation

\* The worker has the closure's result.
EndOperation(w) ==
    /\ pc[w] = "end"
    /\ pc' = [pc EXCEPT ![w] = "idle"]
    /\ unvisited' = [unvisited EXCEPT ![w] = {}]
    /\ loaded' = [loaded EXCEPT ![w] = "Failed"]
    /\ late' = late \ {w}
    /\ UNCHANGED <<operation, key, held, cancelled>>
    /\ CoordinatorUnchanged

-----------------------------------------------------------------------------
(* Load.                                                                   *)

Own(w) ==
    /\ pc[w] = "enter"
    /\ \A e \in table : entry[e].key # key[w]
    /\ FreeEntries # {}
    /\ LET e == CHOOSE e \in FreeEntries : TRUE IN
        /\ entry' = [entry EXCEPT ![e] =
                        [FreshEntry EXCEPT !.key = key[w], !.owner = w,
                                           !.linked = {Token(w)}, !.interests = 1]]
        /\ table' = table \cup {e}
        /\ held' = [held EXCEPT ![w] = e]
    /\ pc' = [pc EXCEPT ![w] = "load"]
    /\ UNCHANGED <<operation, unvisited, key, loaded>>
    /\ SignalsUnchanged

\* Mutant: a waiter's token is not linked.
UnlinkedTo(e, w) == entry[e].linked

\* The tokens of the load e when that of w is linked too.
LinkedTo(e, w) == entry[e].linked \cup {Token(w)}

Join(w) ==
    /\ pc[w] = "enter"
    /\ \E e \in table :
        /\ entry[e].key = key[w]
        /\ entry' = [entry EXCEPT ![e].linked = LinkedTo(e, w),
                                  ![e].interests = @ + 1]
        /\ held' = [held EXCEPT ![w] = e]
    /\ pc' = [pc EXCEPT ![w] = "wait"]
    /\ UNCHANGED <<operation, unvisited, key, loaded, table>>
    /\ SignalsUnchanged

\* Strategy.Load has a result.  It may have looked at its context at any point
\* before it returns; a loader that links afterwards does not take that back.
LoadReturns(w) ==
    /\ pc[w] = "load"
    /\ \E r \in LoadResults :
        /\ r = "Cancelled" => LoadStopped(w)
        /\ loaded' = [loaded EXCEPT ![w] = r]
    /\ pc' = [pc EXCEPT ![w] = "complete"]
    /\ UNCHANGED <<operation, unvisited, key, held>>
    /\ CoordinatorUnchanged /\ SignalsUnchanged

\* The interests of the entry e, the entries being f, become n.
Interests(e, f, n) ==
    IF n = 0 /\ f[e].complete
    THEN table' = table \ {e} /\ entry' = [f EXCEPT ![e] = FreshEntry]
    ELSE table' = table /\ entry' = [f EXCEPT ![e].interests = n]

\* Mutant: a waiter's interest is not counted apart from the owner's.
ReleasedAll(e, f) == Interests(e, f, 0)

\* Mutant: an interest is taken off twice.
ReleasedTwice(e, f) == Interests(e, f, f[e].interests - 2)

\* Release of the entry e, which is freed with its last interest.
Released(e, f) == Interests(e, f, IF f[e].interests > 0 THEN f[e].interests - 1 ELSE 0)

\* Mutant: only a success completes the entry.
CompletedBySuccess(e, r) == [entry EXCEPT ![e].result = r, ![e].complete = r = "Success"]

\* The entries when the load e has the result r.
Completed(e, r) == [entry EXCEPT ![e].result = r, ![e].complete = TRUE]

Complete(w) ==
    /\ pc[w] = "complete"
    /\ Released(held[w], Completed(held[w], loaded[w]))
    /\ Returned(w, loaded[w])
    /\ SignalsUnchanged

\* A waiter looks every millisecond and goes when the load is complete or its
\* own context has stopped.
Waited(w) ==
    /\ pc[w] = "wait"
    /\ entry[held[w]].complete \/ Stopped(w)
    /\ Released(held[w], entry)
    /\ Returned(w, IF entry[held[w]].complete THEN entry[held[w]].result ELSE "Cancelled")
    /\ SignalsUnchanged

-----------------------------------------------------------------------------
(* The outside.                                                            *)

\* The last request of an operation leaves it, or Shutdown cancels it.
RequestCancellation(w) ==
    /\ pc[w] # "idle"
    /\ Token(w) \notin cancelled
    /\ cancelled' = cancelled \cup {Token(w)}
    /\ UNCHANGED <<pc, operation, unvisited, key, held, loaded, late>>
    /\ CoordinatorUnchanged

\* The deadline of a loader's operation passes.
Expire(w) ==
    /\ pc[w] # "idle"
    /\ w \notin late
    /\ late' = late \cup {w}
    /\ UNCHANGED <<pc, operation, unvisited, key, held, loaded, cancelled>>
    /\ CoordinatorUnchanged

\* All operations have run.
Finished ==
    /\ \A w \in Loaders : pc[w] = "idle" /\ operation[w] = MaxOperations
    /\ UNCHANGED vars

LoaderStep(w) ==
    \/ \E k \in Keys : Visit(w, k) \/ VisitStopped(w, k)
    \/ EndOperation(w)
    \/ Own(w) \/ Join(w) \/ LoadReturns(w) \/ Complete(w) \/ Waited(w)

Next ==
    \/ \E w \in Loaders :
        BeginOperation(w) \/ LoaderStep(w) \/ RequestCancellation(w) \/ Expire(w)
    \/ Finished

\* Worker threads are scheduled and the extensions' loads return.  No deadline
\* has to pass and no operation has to be started or cancelled.
Fairness == \A w \in Loaders : WF_vars(LoaderStep(w))

Spec == Init /\ [][Next]_vars
FairSpec == Spec /\ Fairness

-----------------------------------------------------------------------------
Holders(e) == {w \in Loaders : held[w] = e}

\* Release: an entry is in the table exactly while a loader holds it, and counts each of
\* them once: none is dropped under a waiter and none is left behind.
InterestsAreExact ==
    /\ table = {held[w] : w \in Loaders} \ {NoEntry}
    /\ \A e \in table : entry[e].interests = Cardinality(Holders(e))

\* Loads of one key do not run side by side, and who waits for a load that is not
\* complete waits for a loader that is in it, of the same key.
OnePhysicalLoad ==
    /\ \A v, w \in Loaders :
        pc[v] \in {"load", "complete"} /\ pc[w] \in {"load", "complete"} /\ key[v] = key[w]
        => v = w
    /\ \A w \in Loaders :
        pc[w] = "wait" /\ ~entry[held[w]].complete =>
            /\ entry[held[w]].key = key[w]
            /\ pc[entry[held[w]].owner] \in {"load", "complete"}
            /\ held[entry[held[w]].owner] = held[w]

\* Link: a load is cancelled only when each loader that holds it was: the cancellation
\* of its owner leaves the others their load.
CancelledTogether ==
    \A e \in table : IsCancelled(e) => \A w \in Holders(e) : Token(w) \in cancelled

\* Whoever waits for a load gets an answer without a deadline having to pass.
WaitersReturn == \A w \in Loaders : pc[w] = "wait" ~> pc[w] # "wait"

\* request-lifecycle.md: another caller's terminal state does not make a closure
\* Cancelled whose own context has not stopped.
CancelledOnlyIfStopped ==
    \A w \in Loaders : pc[w] = "end" /\ loaded[w] = "Cancelled" => Stopped(w)
=============================================================================
