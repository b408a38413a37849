----------------------------- MODULE MCStatements -----------------------------
(* Two statements of two lines each, named by their place in their file, and *)
(* two settlements; the lines carry no reference.                            *)
EXTENDS Statements

CONSTANTS s1, s2

Line(statement, n) == 10 * statement + n
MCLines == {Line(u, n) : u \in {1, 2}, n \in {1, 2}}
MCId(l) == l % 10
MCBefore(k, l) == k < l
MCSettlements == {s1, s2}

MCFiles ==
    {f \in [known : {MCSettlements}, net : [MCSettlements -> {1000, 1100}],
            settledOn : [MCSettlements -> {3}], payLegs : [MCSettlements -> {1}],
            credit : [MCLines -> {1000, 1100, None}], txnDate : [MCLines -> {3}],
            ref : [MCLines -> {None}]] : f.net[s1] = 1000}
=============================================================================
