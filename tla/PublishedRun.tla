---------------------------- MODULE PublishedRun ----------------------------
(***************************************************************************)
(* What a queued run promises to whoever reads it by its state: a run that *)
(* says it is completed shows a whole result, in one step, and neither the *)
(* state nor the result of a finished run ever changes again.  A run may   *)
(* also stop for good without finishing: nothing here says it must end.    *)
(***************************************************************************)
CONSTANTS
    Runs,
    Whole,          \* the results a finished run may show
    Nothing         \* what a run shows until then

VARIABLES
    state,          \* "absent", "pending", "running", "completed", "failed"
    shown           \* the result of each run, as read through its state

vars == <<state, shown>>

Init ==
    /\ state = [r \in Runs |-> "absent"]
    /\ shown = [r \in Runs |-> Nothing]

Move(r, from, to) ==
    /\ state[r] \in from
    /\ state' = [state EXCEPT ![r] = to]

Accept(r) == Move(r, {"absent"}, "pending") /\ UNCHANGED shown

Start(r) == Move(r, {"pending"}, "running") /\ UNCHANGED shown

Publish(r, result) ==
    /\ Move(r, {"running"}, "completed")
    /\ shown' = [shown EXCEPT ![r] = result]

Fail(r) == Move(r, {"pending", "running"}, "failed") /\ UNCHANGED shown

Next ==
    \E r \in Runs :
        \/ Accept(r) \/ Start(r) \/ Fail(r)
        \/ \E result \in Whole : Publish(r, result)

Spec == Init /\ [][Next]_vars
=============================================================================
