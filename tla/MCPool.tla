------------------------------- MODULE MCPool -------------------------------
(***************************************************************************)
(* Small reports for TLC.  Copies: four rows of two events spread over two *)
(* settlements or none.  Losses: three rows, most of them without an       *)
(* order, against a register whose orders share a gross and sit on and     *)
(* beside both edges of the seven day window.                              *)
(***************************************************************************)
EXTENDS Pool

CONSTANTS s1, s2, o1, o2, o3

MCTxns == 1..4
MCSettlements == {s1, s2}
MCOrderIds == {o1, o2, o3}

OneOf(S) == [MCTxns -> S]

FourPayments == [t \in MCTxns |-> "payment"]

\* Row 4 may be a fee that names an order, which is not a copy of anything.
CopyReports ==
    {[type |-> y, order |-> o, settlement |-> s,
      amount |-> [t \in MCTxns |-> 100], captured |-> [t \in MCTxns |-> 10],
      settledAt |-> [t \in MCTxns |-> None]] :
        y \in {FourPayments, [FourPayments EXCEPT ![4] = "fee"]},
        o \in OneOf({o1, o2}), s \in OneOf({s1, s2, None})}

LossReports ==
    {[type |-> [FourPayments EXCEPT ![4] = "fee"], order |-> o,
      settlement |-> [t \in MCTxns |-> IF t = 3 THEN third ELSE s1],
      amount |-> a, captured |-> c, settledAt |-> [t \in MCTxns |-> None]] :
        o \in {f \in OneOf({o1, None}) : f[1] = None /\ f[4] = None},
        third \in {s1, None},
        a \in {f \in OneOf({100, 200}) : f[4] = 100},
        c \in {f \in OneOf({10, 11}) : f[4] = 10}}

Days(second) == [o \in MCOrderIds |-> IF o = o2 THEN second ELSE 3]

Gross(third) == [o \in MCOrderIds |-> IF o = o3 THEN third ELSE 100]

Registers ==
    {[known |-> k, gross |-> Gross(g), day |-> Days(d)] :
        k \in {{o1, o2}, MCOrderIds}, g \in {100, 200}, d \in {3, 11}}

MCInputs ==
    [report : CopyReports,
     orders : {[known |-> {o1}, gross |-> Gross(100), day |-> Days(3)]}]
    \union [report : LossReports, orders : Registers]
=============================================================================
