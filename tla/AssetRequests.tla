---------------------------- MODULE AssetRequests ----------------------------
(***************************************************************************)
(* What the asset manager promises for each request handle: it is given    *)
(* out once, it becomes terminal at most once and keeps its terminal state *)
(* until it is released, and its callback runs at most once, with the      *)
(* terminal state the request has, and never before it is terminal.        *)
(***************************************************************************)
EXTENDS AssetHandles

VARIABLES
    request,    \* the life of each handle
    reported    \* the result its callback was called with

LifeStates == {"Unused", "Pending", "Gone"} \cup TerminalStates

Init ==
    /\ request = [h \in Handles |-> "Unused"]
    /\ reported = [h \in Handles |-> "None"]

Accept(h) ==
    /\ request[h] = "Unused"
    /\ request' = [request EXCEPT ![h] = "Pending"]
    /\ UNCHANGED reported

\* Requests that wait on one load become terminal together.
Settle(state) ==
    LET before == request
        after == request'
    IN  /\ UNCHANGED reported
        /\ after \in [Handles -> LifeStates]
        /\ \A h \in Handles : after[h] # before[h] => before[h] = "Pending" /\ after[h] = state

Drop(h) ==
    /\ request[h] \notin {"Unused", "Gone"}
    /\ request' = [request EXCEPT ![h] = "Gone"]
    /\ UNCHANGED reported

\* A pump that took the record calls back even when the request is gone meanwhile.
Report(h, state) ==
    /\ reported[h] = "None"
    /\ request[h] \in {state, "Gone"}
    /\ reported' = [reported EXCEPT ![h] = state]
    /\ UNCHANGED request

Next ==
    \/ \E state \in TerminalStates : Settle(state)
    \/ \E h \in Handles : Accept(h) \/ Drop(h)
    \/ \E h \in Handles, state \in TerminalStates : Report(h, state)

Spec == Init /\ [][Next]_<<request, reported>>
=============================================================================
