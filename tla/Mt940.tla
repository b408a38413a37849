-------------------------------- MODULE Mt940 ---------------------------------
(***************************************************************************)
(* core/adapters/mt940.py: physical lines are joined into tag blocks, the  *)
(* blocks into statements, and a statement is emitted whole or not at all. *)
(* A line is its tag (empty on a continuation), the movement it belongs to *)
(* in the bank's books, a signed amount for a balance or a movement,       *)
(* whether a movement names a reference, and the defect its content has.   *)
(***************************************************************************)
EXTENDS Reading, SequencesExt

VARIABLES
    block,          \* the line of the tag that continuations belong to, or 0
    continued,      \* the tag lines that were continued
    statements

mt940Vars == <<block, continued, statements>>

Statement(n) == [at |-> n, opening |-> 0, closing |-> 0, lines |-> <<>>]

Mt940Init == block = 0 /\ continued = {} /\ statements = <<>>

\* The statement a block belongs to: :20: opens one, and so does any block
\* where none is open.
Current(l) ==
    IF l.tag = "20" \/ statements = <<>> THEN Append(statements, Statement(line)) ELSE statements

\* A slip: narration goes to the last movement, whether or not it has one.
LastMovement(open) == open # <<>>

\* An :86: belongs to the last movement only while that has none.
Unnarrated(open) == open # <<>> /\ Last(open).narration = 0

Placed(s, l) ==
    CASE l.tag \in {"60F", "60M"} -> [s EXCEPT !.opening = line]
      [] l.tag \in {"62F", "62M"} -> [s EXCEPT !.closing = line]
      [] l.tag = "61" -> [s EXCEPT !.lines = Append(@, [line |-> line, narration |-> 0])]
      [] l.tag = "86" /\ Unnarrated(s.lines) -> [s EXCEPT !.lines[Len(s.lines)].narration = line]
      [] OTHER -> s

ReadTag ==
    LET l == Body[line]
        open == Current(l)
    IN  /\ parser = "mt940" /\ Left /\ line' = line + 1
        /\ IF l.tag = ""
           THEN continued' = continued \union ({block} \ {0}) /\ UNCHANGED <<block, statements>>
           ELSE /\ block' = line /\ UNCHANGED continued
                /\ statements' = [open EXCEPT ![Len(open)] = Placed(@, l)]
        /\ UNCHANGED <<file, parser, result>>

----------------------------------------------------------------------------
\* One statement, once the whole file is read.

\* A continued balance field is not a balance field any more.
BalanceFault(n) == IF n \in continued THEN "UNKNOWN_VALUE" ELSE Body[n].fault

\* A continuation under a movement is the reference's supplementary details.
Described(m) == m.narration # 0 \/ Body[m.line].ref \/ m.line \in continued

MovementFault(m) ==
    LET l == Body[m.line]
    IN  IF l.fault # "" THEN l.fault
        ELSE IF l.amount = 0 THEN "AMBIGUOUS_DIRECTION"
        ELSE IF ~Described(m) THEN "MISSING_VALUE"
        ELSE ""

Text(n) == IF n = 0 THEN <<>> ELSE <<Body[n], n \in continued>>
Same(m, n) == Text(m.line) = Text(n.line) /\ Text(m.narration) = Text(n.narration)

Repeats(s) == {i \in DOMAIN s.lines : \E j \in 1..i - 1 : Same(s.lines[j], s.lines[i])}
Unreadable(s) == {i \in DOMAIN s.lines \ Repeats(s) : MovementFault(s.lines[i]) # ""}
Failed(s) == Repeats(s) \union Unreadable(s)

LineReason(s, i) == IF i \in Repeats(s) THEN "DUPLICATE_ROW" ELSE MovementFault(s.lines[i])

\* The derived balance after the first i movements.
Running(s, i) ==
    LET amounts == [j \in 1..i |-> Body[s.lines[j].line].amount]
    IN  FoldLeft(LAMBDA sum, amount : sum + amount, Body[s.opening].amount, amounts)

\* A slip: a statement whose chain does not close is emitted.
ClosesOrNot(s) == TRUE

Closes(s) == Running(s, Len(s.lines)) = Body[s.closing].amount

\* A statement no line of which is emitted: its movements that did read are
\* counted as skipped, the ones that did not are quarantined beside it.
Refuse(s, n, reason, failed) ==
    /\ quarantined' = quarantined \union {Quarantine(n, reason)}
                      \union {Quarantine(s.lines[i].line, LineReason(s, i)) : i \in failed}
    /\ skipped' = skipped \union {s.lines[i].line : i \in DOMAIN s.lines \ failed}
    /\ UNCHANGED records

Settle(s) ==
    IF s.opening = 0 \/ s.closing = 0 THEN Refuse(s, s.at, "MISSING_VALUE", {})
    ELSE IF BalanceFault(s.opening) # "" THEN Refuse(s, s.opening, BalanceFault(s.opening), {})
    ELSE IF BalanceFault(s.closing) # "" THEN Refuse(s, s.opening, BalanceFault(s.closing), {})
    ELSE IF Failed(s) # {} THEN Refuse(s, s.at, "ARITHMETIC_MISMATCH", Failed(s))
    ELSE IF ~Closes(s) THEN Refuse(s, s.closing, "ARITHMETIC_MISMATCH", {})
    ELSE Emit({LET n == s.lines[i].line
               IN  Record(n, Under("mt940", LineName(n)), Body[n].amount, Running(s, i)) :
                  i \in DOMAIN s.lines})

\* A file of continuations only has no tag at all.
SettleStatement ==
    /\ parser = "mt940" /\ ~Left
    /\ IF statements = <<>>
       THEN /\ Reject(1, "MISSING_HEADER_COLUMN") /\ parser' = "parsed" /\ UNCHANGED statements
       ELSE /\ Settle(Head(statements)) /\ statements' = Tail(statements)
            /\ parser' = IF Len(statements) = 1 THEN "parsed" ELSE parser
    /\ UNCHANGED <<file, line, block, continued>>
=============================================================================
