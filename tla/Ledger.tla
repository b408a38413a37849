------------------------------- MODULE Ledger -------------------------------
(***************************************************************************)
(* What a reconciliation promises about its bank lines, whoever decides    *)
(* them: a line is closed by at most one settlement, a settlement closes   *)
(* at most one line, a closed line stays closed, and a line is never       *)
(* closed and reported as an exception at the same time.  The matcher and  *)
(* the analyst's accept loop are both shown to implement it.               *)
(***************************************************************************)
CONSTANTS Lines, Settlements, None

VARIABLES
    closed,     \* the settlement that closes each line, or None
    reported    \* the lines that carry an open exception

vars == <<closed, reported>>

Taken == {closed[l] : l \in Lines} \ {None}

Init ==
    /\ closed = [l \in Lines |-> None]
    /\ reported = {}

\* A line nobody reported is closed by a settlement nobody took.
Close(l, s) ==
    /\ closed[l] = None
    /\ l \notin reported
    /\ s \notin Taken
    /\ closed' = [closed EXCEPT ![l] = s]
    /\ UNCHANGED reported

\* A line that stays open is reported.
Report(l) ==
    /\ closed[l] = None
    /\ reported' = reported \union {l}
    /\ UNCHANGED closed

\* A reported line is closed after all, and its exception is withdrawn in
\* the same step.
Resolve(l, s) ==
    /\ l \in reported
    /\ closed[l] = None
    /\ s \notin Taken
    /\ closed' = [closed EXCEPT ![l] = s]
    /\ reported' = reported \ {l}

Next ==
    \E l \in Lines :
        \/ Report(l)
        \/ \E s \in Settlements : Close(l, s) \/ Resolve(l, s)

Spec == Init /\ [][Next]_vars
=============================================================================
