------------------------------ MODULE SliceText -------------------------------
(***************************************************************************)
(* core/adapters/bank_slice.py: rows rebuilt from the wrapped lines of a   *)
(* PDF's text layer, then the balance chain over what was rebuilt.         *)
(* A line is its shape, the row of the printed statement it is a piece of, *)
(* the amount and balance it ends in, and the defect of what it holds.     *)
(***************************************************************************)
EXTENDS Reading, SequencesExt

CONSTANT MaxRowLines        \* MAX_ROW_LINES

VARIABLES
    pending,        \* the lines of the row being rebuilt
    rows            \* the rows rebuilt so far

sliceVars == <<pending, rows>>

\* "header" is a page's period or page number, "row" a whole row on one line,
\* "start" a row's date and what fits beside it, "text" narration or furniture,
\* "end" narration that ends in the money pair, "tail" the money pair alone.
Pieces == {"header", "row", "start", "text", "end", "tail", "page"}
Paid == {"row", "end", "tail"}

SliceInit == pending = <<>> /\ rows = <<>>

\* What the lines of one row come to: the date is the first line's, the amount
\* and the balance are the last one's.
Rebuilt(lines) ==
    LET first == Body[Head(lines)]
        last == Body[Last(lines)]
    IN  [line |-> Head(lines), dated |-> first.of, paid |-> last.of,
         amount |-> last.amount, balance |-> last.balance,
         fault |-> IF first.fault # "" THEN first.fault
                   ELSE IF last.fault # "" THEN last.fault
                   ELSE IF last.amount = 0 THEN "AMBIGUOUS_DIRECTION" ELSE ""]

\* A row that was refused takes no part in the chain.
FinishRow(lines) ==
    LET row == Rebuilt(lines)
    IN  /\ pending' = <<>>
        /\ IF row.fault = "" THEN rows' = Append(rows, row) /\ UNCHANGED result
           ELSE Reject(row.line, row.fault) /\ UNCHANGED rows

Unterminated(lines) ==
    Reject(Head(lines), "TRUNCATED_ROW") /\ pending' = <<>> /\ UNCHANGED rows

Full(lines) == Len(lines) >= MaxRowLines

\* Inside a row a date is narration.
ReadLine ==
    LET l == Body[line]
        lines == Append(pending, line)
    IN  /\ parser = "slice" /\ Left /\ line' = line + 1
        /\ \/ /\ l.piece = "page"
              /\ IF pending = <<>> THEN UNCHANGED <<result, sliceVars>> ELSE Unterminated(pending)
           \/ l.piece = "header" /\ Skip(line) /\ UNCHANGED sliceVars
           \/ /\ l.piece = "tail" /\ pending = <<>>
              /\ Reject(line, "TRUNCATED_ROW") /\ UNCHANGED sliceVars
           \/ /\ l.piece \in {"text", "end"} /\ pending = <<>>
              /\ Skip(line) /\ UNCHANGED sliceVars
           \/ /\ l.piece \in Paid /\ (pending # <<>> \/ l.piece = "row")
              /\ FinishRow(lines)
           \/ /\ l.piece \in {"start", "text"} /\ (pending # <<>> \/ l.piece = "start")
              /\ IF Full(lines) THEN Unterminated(lines)
                 ELSE pending' = lines /\ UNCHANGED <<rows, result>>
        /\ UNCHANGED <<file, parser>>

EndOfPages ==
    /\ parser = "slice" /\ ~Left /\ pending # <<>>
    /\ Unterminated(pending) /\ UNCHANGED <<file, parser, line>>

\* A slip: a row is checked against nothing.
NeverBroken(i) == FALSE

\* validate_balance_chain: the first row has nothing to be checked against, and
\* the chain goes on from the balance the file claims.
Broken(i) == i > 1 /\ rows[i - 1].balance + rows[i].amount # rows[i].balance

ValidateChain ==
    LET broken == {i \in DOMAIN rows : Broken(i)}
    IN  /\ parser = "slice" /\ ~Left /\ pending = <<>>
        /\ parser' = "parsed"
        /\ records' = {Record(rows[i].line, Under("slice", LineName(rows[i].line)), rows[i].amount,
                              rows[i].balance) : i \in DOMAIN rows \ broken}
        /\ quarantined' = quarantined \union
             {Quarantine(rows[i].line, "ARITHMETIC_MISMATCH") : i \in broken}
        /\ UNCHANGED <<file, line, skipped, sliceVars>>
=============================================================================
