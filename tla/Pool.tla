-------------------------------- MODULE Pool --------------------------------
(***************************************************************************)
(* Building the candidate pool: CandidatePool.__init__ of                  *)
(* core/matcher/pool.py, and the PSP half of the exception partition in    *)
(* core/matcher/engine.py.  Repeated events are suppressed group by group; *)
(* then every payment that names no order is given a candidate set, and    *)
(* only when all sets are known is an uncontested singleton accepted; last *)
(* every row that could not be placed is reported once.                    *)
(***************************************************************************)
EXTENDS Rows

CONSTANT Inputs     \* the [report, orders] pairs a run may be given

ORDER_RECOVERY_WINDOW_DAYS == 7

\* The register: the orders that exist, their gross and their day.
Register ==
    [known : SUBSET OrderIds, gross : [OrderIds -> Int], day : [OrderIds -> Int]]

ASSUME InputsAssumption ==
    Inputs \subseteq [report : Report, orders : Register]

VARIABLES
    input,       \* the run's tables, never written
    stage,       \* "dedup", "narrow", "accept", "except" or "ready"
    groups,      \* event groups the dedup loop has still to visit
    suppressed,  \* suppressed_txn_ids
    todo,        \* rows the current loop has still to visit
    candidates,  \* pass 1: the orders each anonymous payment may stand for
    recovered,   \* pass 2: the order it was given, or None
    exceptions   \* <<row, reason>> pairs

vars == <<input, stage, groups, suppressed, todo, candidates,
          recovered, exceptions>>

report == input.report
orders == input.orders

Active == Txns \ suppressed

Anonymous ==
    {t \in Active : report.type[t] = "payment" /\ report.order[t] = None}

\* Every row is read here, suppressed ones included.
NamedOrders == {report.order[t] : t \in Txns} \intersect orders.known

----------------------------------------------------------------------------
\* Duplicates.

Init ==
    /\ input \in Inputs
    /\ stage = "dedup"
    /\ groups = Groups(input.report)
    /\ suppressed = {}
    /\ todo = {}
    /\ candidates = [t \in Txns |-> {}]
    /\ recovered = [t \in Txns |-> None]
    /\ exceptions = {}

Suppress(g) ==
    /\ stage = "dedup"
    /\ g \in groups
    /\ groups' = groups \ {g}
    /\ suppressed' = suppressed \union Spurious(report, g)
    /\ UNCHANGED <<input, stage, todo, candidates, recovered, exceptions>>

StartRecovery ==
    /\ stage = "dedup"
    /\ groups = {}
    /\ stage' = "narrow"
    /\ todo' = Anonymous
    /\ UNCHANGED <<input, groups, suppressed, candidates, recovered,
                   exceptions>>

----------------------------------------------------------------------------
\* Order recovery, in two passes.

InWindow(o, t) ==
    /\ orders.day[o] <= report.captured[t]
    /\ report.captured[t] - orders.day[o] <= ORDER_RECOVERY_WINDOW_DAYS

AtGross(t) ==
    {o \in orders.known : orders.gross[o] = report.amount[t]
        /\ o \notin NamedOrders}

\* The window narrows an ambiguous set and is not asked about any other.
NarrowedOrders(t) ==
    IF Cardinality(AtGross(t)) > 1
    THEN {o \in AtGross(t) : InWindow(o, t)}
    ELSE AtGross(t)

Narrow(t) ==
    /\ stage = "narrow"
    /\ t \in todo
    /\ todo' = todo \ {t}
    /\ candidates' = [candidates EXCEPT ![t] = NarrowedOrders(t)]
    /\ UNCHANGED <<input, stage, groups, suppressed, recovered, exceptions>>

StartAccept ==
    /\ stage = "narrow"
    /\ todo = {}
    /\ stage' = "accept"
    /\ todo' = Anonymous
    /\ UNCHANGED <<input, groups, suppressed, candidates, recovered,
                   exceptions>>

StillWanting(o) ==        \* a slip: a row already visited no longer contests
    {t \in todo : candidates[t] = {o}}

Wanting(o) == {t \in Anonymous : candidates[t] = {o}}

Recover(t) ==
    /\ stage = "accept"
    /\ t \in todo
    /\ todo' = todo \ {t}
    /\ \E o \in OrderIds :
        /\ candidates[t] = {o}
        /\ Cardinality(Wanting(o)) = 1
        /\ recovered' = [recovered EXCEPT ![t] = o]
    /\ UNCHANGED <<input, stage, groups, suppressed, candidates, exceptions>>

Decline(t) ==
    /\ stage = "accept"
    /\ t \in todo
    /\ todo' = todo \ {t}
    /\ \A o \in OrderIds : candidates[t] = {o} => Cardinality(Wanting(o)) # 1
    /\ UNCHANGED <<input, stage, groups, suppressed, candidates, recovered,
                   exceptions>>

----------------------------------------------------------------------------
\* One exception per row that could not be placed: duplicates first, then
\* unsettled rows, then payments whose order was not recovered.

StartExcept ==
    /\ stage = "accept"
    /\ todo = {}
    /\ stage' = "except"
    /\ exceptions' = {<<t, "DUPLICATE_PSP_TXN">> : t \in suppressed}
    /\ todo' = Active
    /\ UNCHANGED <<input, groups, suppressed, candidates, recovered>>

EveryReason(t) ==                          \* a slip: no priority between codes
    (IF report.settlement[t] = None THEN {"ORPHAN_PSP_TXN"} ELSE {})
    \union (IF t \in Anonymous /\ recovered[t] = None
            THEN {"MISSING_ORDER_REF"} ELSE {})

Unplaced(t) ==
    IF report.settlement[t] = None THEN {"ORPHAN_PSP_TXN"}
    ELSE IF t \in Anonymous /\ recovered[t] = None THEN {"MISSING_ORDER_REF"}
    ELSE {}

Except(t) ==
    /\ stage = "except"
    /\ t \in todo
    /\ todo' = todo \ {t}
    /\ exceptions' = exceptions \union {<<t, r>> : r \in Unplaced(t)}
    /\ UNCHANGED <<input, stage, groups, suppressed, candidates, recovered>>

Ready ==
    /\ stage = "except"
    /\ todo = {}
    /\ stage' = "ready"
    /\ UNCHANGED <<input, groups, suppressed, todo, candidates, recovered,
                   exceptions>>

Terminated == stage = "ready" /\ UNCHANGED vars

Next ==
    \/ \E g \in groups : Suppress(g)
    \/ \E t \in todo : Narrow(t) \/ Recover(t) \/ Decline(t) \/ Except(t)
    \/ StartRecovery \/ StartAccept \/ StartExcept \/ Ready
    \/ Terminated

Spec == Init /\ [][Next]_vars

----------------------------------------------------------------------------
\* Properties.

\* The pool's bookkeeping has the shape the code gives it.
TypeOK ==
    /\ stage \in {"dedup", "narrow", "accept", "except", "ready"}
    /\ groups \subseteq SUBSET Txns
    /\ suppressed \subseteq Txns
    /\ todo \subseteq Txns
    /\ candidates \in [Txns -> SUBSET OrderIds]
    /\ recovered \in [Txns -> OrderIds \union {None}]
    /\ exceptions \subseteq Txns \X
         {"DUPLICATE_PSP_TXN", "ORPHAN_PSP_TXN", "MISSING_ORDER_REF"}

\* A settlement counts each economic event of its rows exactly once, by the row
\* issued first.  So suppression never empties a batch, and two settlements
\* that carry the same event both keep their leg: they are two payouts.
EventsCountedOnce ==
    stage # "dedup" =>
        \A t \in Txns : Named(report, t) /\ report.settlement[t] # None =>
            LET same == {u \in Txns : Named(report, u)
                           /\ Event(report, u) = Event(report, t)
                           /\ report.settlement[u] = report.settlement[t]}
            IN  \E u \in same : same \ suppressed = {u} /\ \A v \in same : u <= v

\* An unsettled row that survives is nobody's copy: no other surviving row, in
\* a batch or not, records the same event, and no event loses all its rows.
LooseRowsAreOriginals ==
    stage # "dedup" =>
        \A t \in Txns : Named(report, t) /\ report.settlement[t] = None =>
            LET other == {u \in Active \ {t} : Named(report, u)
                            /\ Event(report, u) = Event(report, t)}
            IN  t \in Active <=> other = {}

\* Both together: suppression takes exactly the repeats of an event.
SuppressionIsExact == EventsCountedOnce /\ LooseRowsAreOriginals

\* A recovered order stands behind one row only: no other row recovers it and
\* none names it, a suppressed row included.
RecoveredOrdersAreUnclaimed ==
    \A t, u \in Txns : t # u /\ recovered[t] # None =>
        recovered[u] # recovered[t] /\ report.order[u] # recovered[t]

\* A recovery is never a leftover.  Every other order that no row names and
\* that has the same gross lies outside the window, and when there is one the
\* recovered order itself lies inside it.
RecoveryIsUnambiguous ==
    \A t \in Txns : recovered[t] # None =>
        LET o == recovered[t]
            others == {x \in orders.known \ {o} :
                         orders.gross[x] = report.amount[t]
                         /\ \A u \in Txns : report.order[u] # x}
            near(x) == report.captured[t] - orders.day[x] \in 0..7
        IN  /\ o \in orders.known /\ orders.gross[o] = report.amount[t]
            /\ \A x \in others : ~near(x)
            /\ others # {} => near(o)

\* Row order decides nothing: two payments nobody can tell apart are treated
\* alike, and since an order stands behind one row only, neither gets one.
RecoveryIgnoresRowOrder ==
    \A t, u \in Anonymous :
        /\ t # u
        /\ report.amount[t] = report.amount[u]
        /\ report.captured[t] = report.captured[u]
        => recovered[t] = None

\* Recovery does not decline for nothing: the only anonymous payment of an
\* amount gets the only order of that amount that no row names.
RecoveryIsComplete ==
    stage \in {"except", "ready"} =>
        \A t \in Anonymous, o \in orders.known :
            /\ {x \in orders.known : orders.gross[x] = report.amount[t]
                   /\ \A u \in Txns : report.order[u] # x} = {o}
            /\ \A u \in Anonymous \ {t} : report.amount[u] # report.amount[t]
            => recovered[t] = o

\* The four together: recovery gives an order to a payment exactly when the data
\* determines it, as far as the window lets it see.
RecoveryIsSound ==
    /\ RecoveredOrdersAreUnclaimed
    /\ RecoveryIsUnambiguous
    /\ RecoveryIgnoresRowOrder
    /\ RecoveryIsComplete

\* Every row is accounted for once: a row without an exception is a leg of a
\* settlement, and has an order behind it if it is a payment; no row has two.
RowsAccountedOnce ==
    stage = "ready" =>
        \A t \in Txns :
            \/ /\ t \in Active /\ report.settlement[t] # None
               /\ report.type[t] = "payment" =>
                    report.order[t] # None \/ recovered[t] # None
               /\ \A x \in exceptions : x[1] # t
            \/ \E x \in exceptions : {y \in exceptions : y[1] = t} = {x}
=============================================================================
