----------------------------- MODULE MCMatcher -----------------------------
(***************************************************************************)
(* Files small enough for TLC.  The nets and credits sit on and one paisa  *)
(* beyond the 100 paise tolerance, the days on and one day beyond the two  *)
(* day window; line l3 is a debit or a plain credit without a reference.   *)
(***************************************************************************)
EXTENDS Matcher

CONSTANTS l1, l2, l3, s1, s2

MCLines == {l1, l2, l3}
MCSettlements == {s1, s2}

Nets == {1000, 1100, 1101}
Credits == {1000, 1100}
SettledDays == {3, 4}
TxnDays == {1, 5}

\* The two settlements in one of their two orders.
Ordered(f) ==
    \/ f.net[s1] < f.net[s2]
    \/ f.net[s1] = f.net[s2] /\ f.settledOn[s1] <= f.settledOn[s2]

Batches ==
    {f \in [known : {MCSettlements}, net : [MCSettlements -> Nets],
            settledOn : [MCSettlements -> SettledDays],
            payLegs : [MCSettlements -> 0..2]] : Ordered(f) /\ f.payLegs[s1] # 0}

Statements ==
    {f \in [credit : [MCLines -> Credits \union {None}],
            txnDate : [MCLines -> TxnDays],
            ref : [MCLines -> MCSettlements \union {None}]] :
        /\ f.ref[l3] = None /\ f.txnDate[l3] = 1
        /\ f.credit[l1] = 1000 /\ f.credit[l3] # 1100
        /\ f.credit[l2] # None}

MCFiles ==
    {[known |-> b.known, net |-> b.net, settledOn |-> b.settledOn,
      payLegs |-> b.payLegs, credit |-> s.credit, txnDate |-> s.txnDate,
      ref |-> s.ref] : b \in Batches, s \in Statements}
=============================================================================
