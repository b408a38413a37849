-------------------------------- MODULE Intake --------------------------------
(***************************************************************************)
(* A file from its bytes to the rows the store is given: the detection of  *)
(* core/adapters/registry.py, the adapter it picks, and the reading half   *)
(* of ingest_upload in api/ingest.py.                                      *)
(***************************************************************************)
EXTENDS CsvRows, Mt940, SliceText, FiniteSetsExt

vars == <<file, parser, line, result, mt940Vars, sliceVars>>

Adapters == Layouts \union {"mt940", "slice"}

Required ==
    [hdfc |-> {"Date", "Narration", "Withdrawal Amt.", "Deposit Amt.", "Closing Balance"},
     icici |-> {"Transaction Date", "Transaction Remarks", "Withdrawal Amount (INR)",
                "Deposit Amount (INR)", "Balance (INR)"},
     razorpay |-> {"entity_id", "type", "debit", "credit", "amount", "currency", "tax",
                   "created_at", "settlement_id", "fee"},
     cod |-> {"Remittance Ref", "Remittance Date", "Waybill", "Order ID", "COD Amount"},
     shopify |-> {"Name", "Email", "Financial Status", "Currency", "Total", "Created at"},
     mt940 |-> {":20:", ":60F:"}]

Distinctive ==
    [hdfc |-> {"Chq./Ref.No.", "Value Dt"},
     icici |-> {"S No.", "Value Date", "Cheque Number"},
     razorpay |-> {"settlement_utr", "order_receipt", "settled_at", "on_hold"},
     cod |-> {"Waybill", "Freight Charge", "COD Handling Fee", "RTO Charge"},
     shopify |-> {"Lineitem quantity", "Lineitem name", "Fulfillment Status", "Paid at",
                  "Subtotal"},
     mt940 |-> {":25:", ":28C:", ":61:", ":62F:"}]

\* What a file's head is: its header cells or tags, a byte order mark and the
\* cells it spoils where it is left in the text (the first, or below a line of
\* comment all of them), a character cut in two by the end of the sniffed
\* prefix, where a byte is that is no UTF-8 and where a NUL is (in that prefix
\* or past it), and what it is as a PDF.
HeadType(h) ==
    /\ h.bom \in BOOLEAN /\ h.cut \in BOOLEAN
    /\ {h.foreign, h.nul} \subseteq {"nowhere", "head", "later"}
    /\ h.pdf \in {"no", "broken", "other", "slice", "uncompressed"}

\* decode_bytes: what neither form of UTF-8 reads, latin-1 does, and leaves the
\* mark glued to the first line.
Decoded(h, utf8) == IF h.bom /\ ~utf8 THEN h.cells \ h.spoilt ELSE h.cells

\* The sniffed prefix, and what parse decodes again, the whole file.  Bytes that
\* do not decode are shown to no adapter that reads text.
Cells(h) == IF h.nul = "head" THEN {} ELSE Decoded(h, ~h.cut /\ h.foreign # "head")
ParsedCells(h) == Decoded(h, h.foreign = "nowhere")

\* Confidence in six-hundredths: 0.70, and up to 0.30 more.
Floor == 420
Certain == 600
Threshold == 360        \* DETECTION_THRESHOLD

HeaderConfidence(a, h) ==
    IF Required[a] \subseteq Cells(h)
    THEN Floor + (180 * Cardinality(Distinctive[a] \intersect Cells(h))) \div Cardinality(Distinctive[a])
    ELSE 0

PdfConfidence(h) ==
    CASE h.pdf = "no" -> 0 [] h.pdf = "uncompressed" -> Certain [] OTHER -> Floor

SniffScore(a, h) == IF a = "slice" THEN PdfConfidence(h) ELSE HeaderConfidence(a, h)

Best(h) == Max({SniffScore(a, h) : a \in Adapters})
Winners(h) == {a \in Adapters : SniffScore(a, h) = Best(h)}

\* A slip: of two that read the header equally well, one is picked.
AnyBest(h) == Best(h) >= Threshold

\* detect: too low a best score, or a tie, is a refusal.
Recognised(h) == Best(h) >= Threshold /\ Cardinality(Winners(h)) = 1

\* What makes a file an export of a format: the head holds what the format
\* cannot be read without.  It may be one that lost a column too.  The body of a
\* CSV export is rows.
ASSUME FilesAssumption ==
    \A i \in DOMAIN Files : \A j \in DOMAIN Files[i] : \A f \in Files[i][j] :
        /\ HeadType(f.head)
        /\ f.body \in Seq(Range(f.body)) /\ f.formats \subseteq Adapters
        /\ f.formats \intersect Layouts # {} => \A n \in DOMAIN f.body : f.body[n].key \in Names
        /\ \A a \in DOMAIN Required : Required[a] \subseteq f.head.cells => a \in f.formats
        /\ f.head.pdf # "no" => "slice" \in f.formats
        /\ f.formats \subseteq Layouts =>
             \A n \in DOMAIN f.body :
                  /\ f.body[n].shape \in Shapes /\ f.body[n].fault \in RowReasons \union {""}
                  /\ {f.body[n].amount, f.body[n].credit, f.body[n].debit, f.body[n].fee,
                      f.body[n].tax} \subseteq Int

\* What a bank prints: movements, and balances that go on from one another.
Chained(f) ==
    \A m \in DOMAIN f.printed :
        /\ f.printed[m].amount \in Int \ {0} /\ f.printed[m].balance \in Int
        /\ m > 1 => f.printed[m].balance = f.printed[m - 1].balance + f.printed[m].amount

\* What makes a body the text of a PDF statement: furniture is of no row and the
\* lines of rows follow the rows of the statement; a money pair is the one the
\* bank printed of its row.
PrintedInOrder(f) ==
    \A n \in DOMAIN f.body :
        /\ f.body[n].piece \in Pieces /\ f.body[n].of \in 0..Len(f.printed)
        /\ f.body[n].piece \in Paid \union {"start"} => f.body[n].of # 0
        /\ f.body[n].piece \in Paid =>
             /\ f.body[n].amount = f.printed[f.body[n].of].amount
             /\ f.body[n].balance = f.printed[f.body[n].of].balance
        /\ \A later \in DOMAIN f.body :
             n < later /\ f.body[later].of # 0 => f.body[n].of <= f.body[later].of

\* Row m is there as it was printed, on one line or on one after the other.
StandsAt(f, m, first, last) ==
    /\ {n \in DOMAIN f.body : f.body[n].of = m} = first..last
    /\ first <= last /\ last < first + MaxRowLines
    /\ \A n \in first..last :
         /\ f.body[n].fault = ""
         /\ f.body[n].piece \in IF first = last THEN {"row"}
                                ELSE IF n = first THEN {"start"}
                                ELSE IF n = last THEN {"end", "tail"} ELSE {"text"}

\* Every row but one stands, and that one has no start below its money.
OnlyHurt(f, hurt) ==
    /\ \A m \in DOMAIN f.printed \ {hurt} :
         \E first, last \in DOMAIN f.body : StandsAt(f, m, first, last)
    /\ \A n, later \in DOMAIN f.body :
         n < later /\ f.body[n].of = hurt /\ f.body[n].piece \in Paid
         /\ f.body[later].piece = "start" => f.body[later].of # hurt

\* What makes a body the text of an MT940 message: its movements follow the
\* bank's books, a balance is of the movement after which the account stands
\* there, 0 if none, and is given where a statement begins or ends; and a tag
\* that opens a statement parts the movements of two.
Moved(f, n) == f.body[n].tag = "61"
Opens(f, n) == f.body[n].tag \in {"60F", "60M"}
Shuts(f, n) == f.body[n].tag \in {"62F", "62M"}
Together(f, n, later) == \A k \in n + 1..later : f.body[k].tag # "20"

MessageInOrder(f) ==
    /\ f.printed # <<>>
    /\ \A m \in DOMAIN f.printed :
         /\ f.printed[m].statement \in Int
         /\ \A later \in DOMAIN f.printed :
              m < later => f.printed[m].statement <= f.printed[later].statement
    /\ \A n \in DOMAIN f.body :
         /\ f.body[n].amount \in Int /\ f.body[n].of \in 0..Len(f.printed)
         /\ Moved(f, n) => f.body[n].of # 0
         /\ Opens(f, n) \/ Shuts(f, n) =>
              \/ f.body[n].of \in {0, Len(f.printed)}
              \/ f.printed[f.body[n].of].statement # f.printed[f.body[n].of + 1].statement
         /\ \A later \in DOMAIN f.body :
              /\ n < later /\ Moved(f, n) /\ (Moved(f, later) \/ Opens(f, later) \/ Shuts(f, later))
                   => f.body[n].of <= f.body[later].of
              /\ n < later /\ (Opens(f, n) \/ Shuts(f, n)) /\ Moved(f, later)
                   => f.body[n].of < f.body[later].of
              /\ n < later /\ Moved(f, n) /\ Moved(f, later) /\ ~Together(f, n, later)
                   => f.printed[f.body[n].of].statement # f.printed[f.body[later].of].statement

\* What the account holds after the first m movements.
BalanceAfter(f, m) ==
    IF m = 0 THEN f.printed[1].balance - f.printed[1].amount ELSE f.printed[m].balance

\* A movement is on one line as it was printed; or it is on none, on one with
\* another amount or on two.
MoveLines(f, m) == {n \in DOMAIN f.body : Moved(f, n) /\ f.body[n].of = m}
MoveStands(f, m) ==
    \E n \in DOMAIN f.body : MoveLines(f, m) = {n} /\ f.body[n].amount = f.printed[m].amount
MoveHurt(f, m) ==
    \/ MoveLines(f, m) = {}
    \/ \E n \in DOMAIN f.body :
          MoveLines(f, m) = {n} /\ f.body[n].amount # f.printed[m].amount
    \/ \E n, again \in DOMAIN f.body :
          /\ n < again /\ MoveLines(f, m) = {n, again}
          /\ f.body[n].amount = f.printed[m].amount /\ f.body[again].amount = f.printed[m].amount

\* The balances of one kind are as printed, with the movements of their own
\* statement below an opening one and above a closing one.
OpeningsHold(f) ==
    \A n \in DOMAIN f.body : Opens(f, n) =>
        /\ f.body[n].amount = BalanceAfter(f, f.body[n].of)
        /\ \A above \in DOMAIN f.body :
             above < n /\ Moved(f, above) => ~Together(f, above, n)
ClosingsHold(f) ==
    \A n \in DOMAIN f.body : Shuts(f, n) =>
        /\ f.body[n].amount = BalanceAfter(f, f.body[n].of)
        /\ \A below \in DOMAIN f.body :
             n < below /\ Moved(f, below) /\ Together(f, n, below) =>
                 \E last \in DOMAIN f.body :
                     below < last /\ Shuts(f, last) /\ Together(f, below, last)

\* One line is damaged: that of a movement, or another, which leaves the
\* balances of one kind.
OneMoveHurt(f, hurt) ==
    /\ \A m \in DOMAIN f.printed : IF m = hurt THEN MoveHurt(f, m) ELSE MoveStands(f, m)
    /\ IF hurt = 0 THEN OpeningsHold(f) \/ ClosingsHold(f)
                   ELSE OpeningsHold(f) /\ ClosingsHold(f)

ASSUME StatementsAssumption ==
    /\ MaxRowLines \in Nat \ {0}
    /\ \A i \in DOMAIN Files : \A j \in DOMAIN Files[i] : \A f \in Files[i][j] :
         f.formats \in {{"slice"}, {"mt940"}} /\ f.body # <<>> =>
             /\ f.body \in Seq(Range(f.body)) /\ f.printed \in Seq(Range(f.printed))
             /\ Chained(f)
             /\ IF f.formats = {"slice"}
                THEN /\ PrintedInOrder(f)
                     /\ f.damage <= 1 => \E hurt \in 0..Len(f.printed) : OnlyHurt(f, hurt)
                ELSE /\ MessageInOrder(f)
                     /\ f.damage <= 1 => \E hurt \in 0..Len(f.printed) : OneMoveHurt(f, hurt)

Init ==
    /\ \E i \in DOMAIN Files : \E j \in DOMAIN Files[i] : file \in Files[i][j]
    /\ parser = "unread" /\ line = 1
    /\ records = {} /\ quarantined = {} /\ skipped = {}
    /\ Mt940Init /\ SliceInit

\* UploadRefused: nothing is stored.
RefuseFile ==
    /\ parser = "unread" /\ ~Recognised(file.head)
    /\ parser' = "refused"
    /\ UNCHANGED <<file, line, result, mt940Vars, sliceVars>>

\* parse reads the header again.  Razorpay's fee column has two names and is
\* looked for row by row.
HeaderLost(a, h) == a \in Layouts /\ ~(Required[a] \ {"fee"} \subseteq ParsedCells(h))

\* What a file that was recognised is refused for before a line of it is read.
FileFault(a, h) ==
    IF a = "slice" /\ h.pdf = "broken" THEN "UNDECODABLE_FILE"
    ELSE IF a = "slice" /\ h.pdf = "other" THEN "UNRECOGNISED_FORMAT"
    ELSE IF HeaderLost(a, h) THEN "MISSING_HEADER_COLUMN"
    ELSE ""

\* A text adapter decodes the whole file again and raises on a NUL the sniffed
\* prefix did not hold; the PDF adapter answers whatever it is given.
Open ==
    /\ parser = "unread" /\ Recognised(file.head)
    /\ \E a \in Winners(file.head) :
         \/ /\ a # "slice" /\ file.head.nul = "later"
            /\ parser' = "raised" /\ UNCHANGED result
         \/ /\ a = "slice" \/ file.head.nul # "later"
            /\ IF FileFault(a, file.head) # ""
               THEN parser' = "parsed" /\ Reject(1, FileFault(a, file.head))
               ELSE parser' = a /\ UNCHANGED result
    /\ UNCHANGED <<file, line, mt940Vars, sliceVars>>

EndRows ==
    /\ parser \in Layouts /\ ~Left
    /\ parser' = "parsed"
    /\ UNCHANGED <<file, line, result, mt940Vars, sliceVars>>

\* A slip: an empty parse is an empty answer.
SilentZero == FALSE

Empty == records = {} /\ quarantined = {}

\* enforce_visible_outcome.
Answer ==
    /\ parser = "parsed"
    /\ parser' = "done"
    /\ IF Empty THEN Reject(1, "EMPTY_DOCUMENT") ELSE UNCHANGED result
    /\ UNCHANGED <<file, line, mt940Vars, sliceVars>>

Next ==
    \/ RefuseFile \/ Open \/ EndRows \/ Answer
    \/ ReadRow /\ UNCHANGED <<mt940Vars, sliceVars>>
    \/ (ReadTag \/ SettleStatement) /\ UNCHANGED sliceVars
    \/ (ReadLine \/ EndOfPages \/ ValidateChain) /\ UNCHANGED mt940Vars

Spec == Init /\ [][Next]_vars

----------------------------------------------------------------------------
\* Properties.

\* Every variable keeps its shape.
IntakeTypeOK ==
    /\ HeadType(file.head)
    /\ parser \in Adapters \union {"unread", "refused", "raised", "parsed", "done"}
    /\ line \in 1..Len(Body) + 1
    /\ ResultTypeOK
    /\ block \in 0..Len(Body) /\ continued \subseteq DOMAIN Body
    /\ Len(pending) < MaxRowLines

\* Everything a format is known by can be read in the head.
ShowsAll(a, h) ==
    IF a = "slice" THEN h.pdf = "uncompressed"
    ELSE Required[a] \union Distinctive[a] \subseteq Cells(h)

\* A file is read as a format it is, or refused: losing a column, gaining one of
\* another export, or being two exports at once, it is never handed to an
\* adapter beside which another finds everything it knows its format by.
DetectionNeverGuesses ==
    parser \in Adapters =>
        /\ parser \in file.formats
        /\ \A other \in file.formats \ {parser} : ~ShowsAll(other, file.head)

CsvRead == parser = "done" /\ file.formats \subseteq Layouts
Read(format) == parser = "done" /\ file.formats = {format} /\ Body # <<>>

\* Every line of a CSV export is the line of a record, of a quarantined row or
\* of a skipped one, and of one of them only.
LinesClose ==
    LET read == {r.line : r \in records}
        refused == {q.line : q \in {q \in quarantined : q.reason \in RowReasons}}
    IN  /\ read \union refused \union skipped = DOMAIN Body
        /\ read \intersect refused = {} /\ (read \union refused) \intersect skipped = {}

\* A mark left in the text by a byte past the sniffed prefix.
MarkComesBack(h) == h.bom /\ h.foreign = "later"

\* The lines of a CSV export close; or, where a byte order mark comes back after
\* detection, none of them is read and the one answer is that a column is
\* missing.  And an answer without a record names a reason, whatever was sent.
EveryLineIsAccounted ==
    /\ parser = "done" => records # {} \/ quarantined # {}
    /\ CsvRead =>
         \/ LinesClose
         \/ /\ MarkComesBack(file.head) /\ records = {} /\ skipped = {}
            /\ quarantined = {Quarantine(1, "MISSING_HEADER_COLUMN")}

\* What csv_source.py says of every row of a file that was recognised.
RowsAlwaysClose == CsvRead => LinesClose

\* The row of line n carries the very name its adapter makes up for line m: of a
\* remittance row without a waybill, or of a charge of a settlement row.
Namesake(n, m) ==
    \/ "cod" \in file.formats /\ Body[m].key = NoName /\ Body[n].key = LineName(m)
    \/ "razorpay" \in file.formats
       /\ \E prefix \in {"fee", "tax"} : Body[n].key = Under(prefix, Body[m].key)

\* In one file two records share an identity only where a row is the namesake of
\* another's legs, and the lines of a statement are all named by the bank or all
\* by their place.
IdsNameOneRecord ==
    parser = "done" =>
        /\ \A r, s \in records :
             r.id = s.id => r = s \/ Namesake(r.line, s.line) \/ Namesake(s.line, r.line)
        /\ file.formats \subseteq Bank =>
             \/ \A r \in records : r.id = Body[r.line].key
             \/ \E f \in Bank : \A r \in records : r.id = Under(f, LineName(r.line))

\* What repo.py says of the ids of one source.
IdsAreUnique == parser = "done" => \A r, s \in records : r.id = s.id => r = s

\* The legs made of a settlement row come to what the row says was paid out;
\* those of a remittance row to the collection less its charges.
LegsNetToTheRow ==
    parser = "done" /\ file.formats \in {{"razorpay"}, {"cod"}} =>
        \A n \in {r.line : r \in records} :
            LET row == Body[n]
                legs == {r \in records : r.line = n}
                amount == [r \in legs |-> r.amount]
            IN  MapThenSumSet(LAMBDA r : amount[r], legs) =
                  IF file.formats = {"razorpay"} THEN Net(row)
                  ELSE (IF row.kind = "COD" THEN row.amount ELSE 0) - row.fee - row.tax

\* Both together: what a CSV export becomes is its rows, each once.
RecordsAreTheRows == IdsNameOneRecord /\ LegsNetToTheRow

Printed(r) == file.printed[Body[r.line].of]

\* One line of an MT940 message lost, doubled, altered, unreadable or run into
\* the line above: a statement is emitted with every movement the bank printed
\* and its true balances, or not at all.
StatementsAreAllOrNothing ==
    Read("mt940") /\ file.damage <= 1 =>
        \A r \in records :
            /\ r.amount = Printed(r).amount /\ r.balance = Printed(r).balance
            /\ \A m \in DOMAIN file.printed :
                 file.printed[m].statement = Printed(r).statement
                 => \E s \in records : Body[s.line].of = m

\* The rows of the printed statement that a rebuilt row i passed over.
Between(i) == {m \in DOMAIN file.printed : rows[i - 1].paid < m /\ m < rows[i].paid}

Amounts == [m \in DOMAIN file.printed |-> file.printed[m].amount]

\* Lines of a PDF statement lost, doubled or unreadable: a rebuilt row after
\* the first that keeps its place in the chain passes over printed rows only
\* where they come to nothing, and with one line damaged it is the printed row,
\* date and money, and no row is missing above it without a row to review.
GapsAreNeverSilent ==
    Read("slice") =>
        \A i \in 2..Len(rows) :
            \/ Broken(i)
            \/ /\ MapThenSumSet(LAMBDA m : Amounts[m], Between(i)) = 0
               /\ file.damage <= 1 =>
                    /\ rows[i].dated = rows[i].paid
                    /\ Between(i) # {} => \E q \in quarantined : Body[q.line].of \in Between(i)

\* What ingest_upload says of every file it does not refuse.
EveryFileIsAnswered == parser # "raised"
=============================================================================
