-------------------------------- MODULE Rows --------------------------------
(***************************************************************************)
(* The PSP report and what the candidate pool reads off it: which rows     *)
(* repeat an economic event, which legs a settlement has, what they net    *)
(* to, how many payments they hold and the day the settlement completes.   *)
(* No state: Pool and AcceptLoop are built on these operators.             *)
(*                                                                         *)
(* A transaction id is a number because its order is used: the lowest id   *)
(* of a repeated event was issued first.  An instant is a day: nothing     *)
(* here tells two captures of one day apart.                               *)
(***************************************************************************)
EXTENDS Integers, FiniteSets, FiniteSetsExt

CONSTANTS
    Txns,           \* transaction ids of the report
    Settlements,    \* settlement ids it may name
    OrderIds,       \* order ids it may name
    None            \* an empty cell

ASSUME RowsAssumption ==
    /\ Txns \subseteq Nat
    /\ IsFiniteSet(Txns)
    /\ None \notin Settlements \union OrderIds \union Int

TxnTypes == {"payment", "refund", "chargeback", "fee", "tax", "reserve",
             "adjustment"}

OrderBearing == {"payment", "refund", "chargeback"}

Report ==
    [type       : [Txns -> TxnTypes],
     order      : [Txns -> OrderIds \union {None}],
     settlement : [Txns -> Settlements \union {None}],
     amount     : [Txns -> Int],
     captured   : [Txns -> Int],
     settledAt  : [Txns -> Int \union {None}]]

----------------------------------------------------------------------------
\* Repeated economic events.

Named(p, t) == p.type[t] \in OrderBearing /\ p.order[t] # None

Event(p, t) == <<p.type[t], p.order[t], p.captured[t], p.amount[t]>>

\* The rows that carry the same event as a given one.
Groups(p) ==
    {{u \in Txns : Named(p, u) /\ Event(p, u) = Event(p, t)} :
        t \in {u \in Txns : Named(p, u)}}

RowsIn(p, g, s) == {t \in g : p.settlement[t] = s}

\* Inside one settlement every row but the first issued is a copy.
BatchCopies(p, g) ==
    UNION {RowsIn(p, g, s) \ {Min(RowsIn(p, g, s))} :
            s \in {p.settlement[t] : t \in g} \ {None}}

\* An unsettled row is a copy of a settled one, or of the first unsettled one.
LooseCopies(p, g) ==
    LET loose == RowsIn(p, g, None)
    IN  IF loose # g THEN loose ELSE loose \ {Min(loose)}

BatchCopiesOnly(p, g) == BatchCopies(p, g)    \* a slip: loose rows kept

Spurious(p, g) == BatchCopies(p, g) \union LooseCopies(p, g)

SuppressedTxns(p) == UNION {Spurious(p, g) : g \in Groups(p)}

----------------------------------------------------------------------------
\* Settlements.

LegsAmong(p, rows, s) == {t \in rows : p.settlement[t] = s}

\* The signed amounts are a plain sum.  The breakdown that the code asserts
\* against it is for reporting only.
Reconstruct(p, legs) == MapThenSumSet(LAMBDA t : p.amount[t], legs)

PaymentLegs(p, legs) == Cardinality({t \in legs : p.type[t] = "payment"})

\* The latest settled_at, or the latest capture when no leg has one.
SettledOn(p, legs) ==
    LET days == {p.settledAt[t] : t \in legs} \ {None}
    IN  IF days # {} THEN Max(days) ELSE Max({p.captured[t] : t \in legs})
=============================================================================
