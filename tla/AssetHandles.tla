---------------------------- MODULE AssetHandles ----------------------------
(***************************************************************************)
(* Request handles and the slots of FAssetRequestTable.  A handle names a  *)
(* slot and the generation the slot had when it was allocated, so a handle *)
(* of an earlier use of the slot no longer finds it.                       *)
(***************************************************************************)
EXTENDS Integers

CONSTANTS
    MaxRequests,     \* Limits.MaxRequests: the slots of the table
    MaxGeneration    \* bound: the generations of a slot, 2^32 - 1 in the code

ASSUME HandleAssumption ==
    /\ MaxRequests \in Nat \ {0}
    /\ MaxGeneration \in Nat \ {0}

Slots == 1..MaxRequests

Handles == Slots \X (1..MaxGeneration)

NoHandle == <<0, 0>>

TerminalStates == {"Ready", "Failed", "Cancelled"}

RequestStates == {"Invalid", "Accepted", "Waiting", "Loading"} \cup TerminalStates

SlotRecords == [gen : 0..MaxGeneration, occupied : BOOLEAN,
                state : RequestStates, seq : Nat]

FreeSlot == [gen |-> 0, occupied |-> FALSE, state |-> "Invalid", seq |-> 0]

\* FImpl::Find: the handle names an occupied slot that has its generation.
IsLive(slots, h) ==
    /\ h # NoHandle
    /\ slots[h[1]].occupied
    /\ slots[h[1]].gen = h[2]

\* The slot Allocate takes: the first that is free.  The bound leaves out the
\* wrap of a generation after 2^32 - 1 uses of one slot.
IsFirstFree(slots, s) ==
    /\ ~slots[s].occupied
    /\ slots[s].gen < MaxGeneration
    /\ \A t \in 1..(s - 1) : slots[t].occupied

\* Allocate: the slot's new contents.
Allocated(g) == [gen |-> g, occupied |-> TRUE, state |-> "Accepted", seq |-> 0]

\* Transition: a request moves only from the expected state.
Moved(slots, h, from, to) ==
    IF IsLive(slots, h) /\ slots[h[1]].state = from
    THEN [slots EXCEPT ![h[1]].state = to]
    ELSE slots

\* CommitReady and CommitTerminal succeed on a live request that is not terminal.
CanCommit(slots, h) == IsLive(slots, h) /\ slots[h[1]].state \notin TerminalStates

\* Mutant: a terminal state is overwritten.
CommittedAgain(slots, H, state) ==
    [s \in Slots |->
        IF \E h \in H : h[1] = s /\ IsLive(slots, h)
        THEN [slots[s] EXCEPT !.state = state]
        ELSE slots[s]]

Committed(slots, H, state) ==
    [s \in Slots |->
        IF \E h \in H : h[1] = s /\ CanCommit(slots, h)
        THEN [slots[s] EXCEPT !.state = state]
        ELSE slots[s]]

\* SetCompletionSequence: once, and only on a terminal request.
Sequenced(slots, h, n) ==
    IF IsLive(slots, h) /\ slots[h[1]].state \in TerminalStates /\ slots[h[1]].seq = 0
    THEN [slots EXCEPT ![h[1]].seq = n]
    ELSE slots

\* Release: the slot is free and keeps its generation.
Released(slots, h) ==
    IF IsLive(slots, h)
    THEN [slots EXCEPT ![h[1]] = [gen |-> h[2], occupied |-> FALSE,
                                  state |-> "Invalid", seq |-> 0]]
    ELSE slots
=============================================================================
