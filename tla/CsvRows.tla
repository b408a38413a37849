------------------------------- MODULE CsvRows --------------------------------
(***************************************************************************)
(* The row loop of core/adapters/csv_source.py and the five layouts that   *)
(* use it.  A row is its shape, the name in the layout's own id column     *)
(* (NoName in an empty cell), the value of its type or status column, its  *)
(* amounts in paise and the first defect of a cell that does not read at   *)
(* all; two rows are byte-identical exactly when they are equal here.      *)
(***************************************************************************)
EXTENDS Reading

Layouts == {"hdfc", "icici", "razorpay", "cod", "shopify"}

\* "more" is a further line item of a Shopify order: its order-level cells are empty.
Shapes == {"blank", "short", "long", "row", "more"}

\* Rows that are neither blank nor of the wrong width.
WholeRows == {n \in DOMAIN Body : Body[n].shape \in {"row", "more"}}

Bank == {"hdfc", "icici"}

\* HDFC's pre-scan: every whole row carries a distinct, non-empty reference.
\* A slip: a row without one is passed over.
AnyCarriesAnId ==
    /\ parser = "hdfc" /\ WholeRows # {}
    /\ \A n, m \in WholeRows : Body[n].key = Body[m].key => n = m \/ Body[n].key = NoName

CarriesIds ==
    /\ parser = "hdfc" /\ WholeRows # {}
    /\ \A n \in WholeRows : Body[n].key # NoName
    /\ \A n, m \in WholeRows : Body[n].key = Body[m].key => n = m

LineId(n) == IF CarriesIds /\ Body[n].key # NoName THEN Body[n].key
             ELSE Under(parser, LineName(n))

\* A layout with an id column of its own deduplicates by it, whatever else the
\* rows say; a statement, and a row without the id, by the raw line.
DuplicateKey(row) ==
    IF parser \in Bank \/ row.key = NoName THEN <<"raw", row>> ELSE <<"key", row.key>>

IsSkippedRow(row) == parser = "shopify" /\ row.shape = "more" /\ row.key # NoName

\* The keys of the rows above n; a row that was then refused holds its key too.
Seen(n) == {DuplicateKey(Body[m]) : m \in {m \in WholeRows : m < n /\ ~IsSkippedRow(Body[m])}}

Net(row) == row.credit - row.debit
NoDirection(row) == (row.credit # 0) = (row.debit # 0)

RazorpayTypes == {"payment", "refund", "adjustment", "dispute", "fee", "tax"}
Principal(row) == IF row.credit # 0 THEN row.amount ELSE -row.amount

\* A slip: a row that does not balance against itself is believed.
BalancesAnyway(row) == TRUE

Balances(row) == Principal(row) - row.fee - row.tax = Net(row)

\* What each layout asks of a whole row, in its order.  The cells that do not
\* read are one question here: the code asks for a Razorpay or Shopify date
\* after the amounts, which changes the reason given and not the refusal.
BankAsks(row) ==
    <<<<row.fault # "", row.fault>>, <<NoDirection(row), "AMBIGUOUS_DIRECTION">>>>

RazorpayAsks(row) ==
    <<<<row.key = NoName, "MISSING_VALUE">>,
      <<row.kind = "transfer", "UNSUPPORTED_ROW_TYPE">>,
      <<row.kind \notin RazorpayTypes, "UNKNOWN_VALUE">>,
      <<row.fault # "", row.fault>>,
      <<NoDirection(row), "AMBIGUOUS_DIRECTION">>,
      <<~Balances(row), "ARITHMETIC_MISMATCH">>>>

CodAsks(row) ==
    <<<<row.fault # "", row.fault>>,
      <<row.kind \notin {"COD", "DEDUCTION"}, "UNKNOWN_VALUE">>,
      <<row.kind = "COD" /\ row.key = NoName, "MISSING_VALUE">>,
      <<row.kind = "COD" /\ row.amount < 0, "AMBIGUOUS_DIRECTION">>,
      <<row.fee < 0 \/ row.tax < 0, "AMBIGUOUS_DIRECTION">>,
      <<row.fee = 0 /\ row.tax = 0 /\ (row.kind = "COD" => row.amount = 0),
        "AMBIGUOUS_DIRECTION">>>>

ShopifyAsks(row) ==
    <<<<row.key = NoName \/ row.shape = "more", "MISSING_VALUE">>,
      <<row.kind = "pending", "UNSUPPORTED_ROW_TYPE">>,
      <<row.kind # "paid", "UNKNOWN_VALUE">>,
      <<row.fault # "", row.fault>>,
      <<row.amount < 0, "AMBIGUOUS_DIRECTION">>>>

Asked(row) ==
    CASE parser \in Bank -> BankAsks(row)
      [] parser = "razorpay" -> RazorpayAsks(row)
      [] parser = "cod" -> CodAsks(row)
      [] parser = "shopify" -> ShopifyAsks(row)

Defects(row) == {i \in DOMAIN Asked(row) : Asked(row)[i][1]}
Reason(row) == Asked(row)[CHOOSE i \in Defects(row) : \A j \in Defects(row) : i <= j][2]

\* What the legs of a row are called after.
Subject(n) == IF Body[n].key = NoName THEN LineName(n) ELSE Body[n].key

\* A zero charge is no leg.
Leg(n, prefix, amount) ==
    IF amount = 0 THEN {} ELSE {Record(n, Under(prefix, Subject(n)), amount, 0)}

Named(n, amount) == Record(n, Body[n].key, amount, 0)

\* records_from_row.  The freight, handling and return charges of a remittance
\* are one deduction here.
RecordsFromRow(n) ==
    LET row == Body[n]
    IN  CASE parser \in Bank -> {Record(n, LineId(n), Net(row), row.balance)}
          [] parser = "razorpay" ->
               {Named(n, Principal(row))} \union Leg(n, "fee", -row.fee) \union Leg(n, "tax", -row.tax)
          [] parser = "cod" ->
               Leg(n, "cod", IF row.kind = "COD" THEN row.amount ELSE 0)
               \union Leg(n, "frt", -row.fee) \union Leg(n, "gst", -row.tax)
          [] parser = "shopify" -> {Named(n, row.amount)}

ReadRow ==
    LET row == Body[line]
    IN  /\ parser \in Layouts /\ Left /\ line' = line + 1
        /\ \/ row.shape = "blank" /\ Skip(line)
           \/ row.shape = "short" /\ Reject(line, "TRUNCATED_ROW")
           \/ row.shape = "long" /\ Reject(line, "EXTRA_FIELDS")
           \/ /\ line \in WholeRows
              /\ IF IsSkippedRow(row) THEN Skip(line)
                 ELSE IF DuplicateKey(row) \in Seen(line) THEN Reject(line, "DUPLICATE_ROW")
                 ELSE IF Defects(row) # {} THEN Reject(line, Reason(row))
                 ELSE Emit(RecordsFromRow(line))
        /\ UNCHANGED <<file, parser>>
=============================================================================
