---------------------------- MODULE MCAcceptLoop ----------------------------
(***************************************************************************)
(* Two bank lines, two settlements, four PSP rows.  Row 2 may be a copy of *)
(* row 1; row 3 may have settled in time, too late or never; row 4 is the  *)
(* GST of the second settlement or of none.  Credits meet the nets exactly *)
(* or within the tolerance, arrive inside the matcher's window or after    *)
(* it, and the second line may be a debit or a reversal.  A copy is not    *)
(* combined with a GST row of no settlement: they touch different ones.    *)
(***************************************************************************)
EXTENDS Grades, Listing

CONSTANTS l1, l2, s1, s2, o1, o2, o3

MCLines == {l1, l2}
MCSettlements == {s1, s2}
MCTxns == 1..4
MCOrderIds == {o1, o2, o3}

Reports ==
    {[type |-> <<"payment", "payment", "payment", "tax">>,
      order |-> <<o1, second, o3, None>>,
      settlement |-> <<s1, s1, s2, fee>>,
      amount |-> <<1000, 1000, third, -50>>,
      captured |-> <<1, 1, 1, 1>>,
      settledAt |-> <<3, 3, day, 3>>] :
        second \in {o1, o2}, fee \in {s2, None}, third \in {1000, 2000},
        day \in {3, 9, None}}

Statements ==
    {[credit |-> [l \in MCLines |-> IF l = l1 THEN c1 ELSE c2],
      txnDate |-> [l \in MCLines |-> IF l = l1 THEN d1 ELSE d2],
      cites |-> [l \in MCLines |-> IF l = l1 THEN r1 ELSE None]] :
        c1 \in {1000, 2000}, c2 \in {1000, 2000, None, -50},
        d1 \in {3, 6}, d2 \in {3, 6}, r1 \in {s1, None}}

\* A line that is no credit is open on any day: one day is enough for it.
Arrivals ==
    {s \in Statements : s.credit[l2] \in {None, -50} => s.txnDate[l2] = 3}

MCCases ==
    {[psp |-> r, credit |-> s.credit, txnDate |-> s.txnDate, cites |-> s.cites] :
        r \in {p \in Reports : p.order[2] = o1 => p.settlement[4] = s2}, s \in Arrivals}

MCFiles == {FileOf(c) : c \in MCCases}

Proposals == {{}, {1}, {1, 2}, {3}, {4}, {1, 3}, {3, 4}, {3, Invented}}

MCHypotheses ==
    {[subject |-> x, line |-> l, legs |-> g, again |-> {}] :
        x \in MCLines \union {2}, l \in MCLines \union {None, Invented},
        g \in Proposals}
    \union {[subject |-> l, line |-> l, legs |-> {1, 2}, again |-> {1}] :
        l \in MCLines}

\* Each settlement is some line's or nobody's, with the rows the pool keeps of
\* it, and a second line of the second settlement may be recorded as a trap.
MCTruths(p) ==
    LET batch == [s \in MCSettlements |-> Batch(p, s)]
        answer(a, t) ==
            [linked |-> {l \in MCLines : a[l] # None}, settlement |-> a, traps |-> t,
             legs |-> [l \in MCLines |-> IF a[l] = None THEN {} ELSE batch[a[l]]]]
        of == {f \in [MCLines -> MCSettlements \union {None}] : f[l1] = f[l2] => f[l1] = None}
    IN  {answer(a, {}) : a \in of} \union {answer(a, {l2}) : a \in {f \in of : f[l2] = s2}}

MCPeriod(day) == IF day <= 5 THEN 7 ELSE 8
MCInvoices == UNION {[months -> {0, 50, 70}] : months \in {{}, {7}, {7, 9}}}
=============================================================================
