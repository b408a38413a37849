----------------------------- MODULE IntakeProofs -----------------------------
(***************************************************************************)
(* Theorems of Intake for any set of files, of any length: which adapter   *)
(* reads a file, what becomes of the lines of a CSV export, that the       *)
(* records of a file are its rows, that a gap in a PDF statement shows and *)
(* that an MT940 statement is whole or absent.  The loop of csv_source.py  *)
(* is followed line by line, a message block by block, a PDF row by row.   *)
(***************************************************************************)
EXTENDS Intake, FoldLemmas

IsCsv == file.formats \subseteq Layouts

ReadLines == {r.line : r \in records}
RefusedLines == {q.line : q \in {q \in quarantined : q.reason \in RowReasons}}

\* The lines above the next one are accounted for.
AccountedInv ==
    /\ ReadLines \union RefusedLines \union skipped = 1..line - 1
    /\ ReadLines \intersect RefusedLines = {}
    /\ (ReadLines \union RefusedLines) \intersect skipped = {}

\* A mark that came back took the header with it, and nothing was read.
HeaderGone ==
    /\ parser \in {"parsed", "done"} /\ MarkComesBack(file.head)
    /\ records = {} /\ skipped = {} /\ quarantined = {Quarantine(1, "MISSING_HEADER_COLUMN")}

\* A CSV export is read by a layout it is of, from its first line to its last.
LoopInv ==
    IsCsv =>
        /\ parser \in file.formats \union {"unread", "refused", "raised", "parsed", "done"}
        /\ line \in 1..Len(Body) + 1
        /\ HeaderGone \/ (AccountedInv /\ (parser \in {"parsed", "done"} => ~Left))

\* The adapter reading the file was alone at the top of the scores.
ChosenInv == parser \in Adapters => Recognised(file.head) /\ parser \in Winners(file.head)

\* Nothing is handed back before an adapter is chosen.
NothingYet == parser = "unread" => records = {} /\ skipped = {} /\ quarantined = {}

IntakeInv ==
    /\ \E i \in DOMAIN Files : \E j \in DOMAIN Files[i] : file \in Files[i][j]
    /\ parser = "done" => ~Empty
    /\ NothingYet
    /\ ChosenInv
    /\ LoopInv

----------------------------------------------------------------------------
\* One row.

RowTyped(row) ==
    /\ row.shape \in Shapes /\ row.fault \in RowReasons \union {""}
    /\ {row.amount, row.credit, row.debit, row.fee, row.tax} \subseteq Int

LEMMA CsvFile ==
    ASSUME IntakeInv, IsCsv
    PROVE  /\ Len(Body) \in Nat /\ DOMAIN Body = 1..Len(Body)
           /\ \A n \in DOMAIN Body : RowTyped(Body[n])
<1>1. \E i \in DOMAIN Files : \E j \in DOMAIN Files[i] : file \in Files[i][j]
  BY DEF IntakeInv
<1>2. Body \in Seq(Range(Body))
  BY <1>1, FilesAssumption DEF Body
<1>3. \A n \in DOMAIN Body : RowTyped(Body[n])
  BY <1>1, FilesAssumption DEF Body, IsCsv, RowTyped
<1> QED
  BY <1>2, <1>3

\* Each layout asks its own questions, at most six.
LEMMA AskedOf ==
    ASSUME NEW row
    PROVE  /\ parser \in Bank => Asked(row) = BankAsks(row)
           /\ parser = "razorpay" => Asked(row) = RazorpayAsks(row)
           /\ parser = "cod" => Asked(row) = CodAsks(row)
           /\ parser = "shopify" => Asked(row) = ShopifyAsks(row)
<1>1. /\ parser = "razorpay" => parser \notin Bank
      /\ parser = "cod" => parser \notin Bank /\ parser # "razorpay"
      /\ parser = "shopify" => parser \notin Bank /\ parser # "razorpay" /\ parser # "cod"
  BY DEF Bank
<1>2. parser \in Bank => parser \notin {"razorpay", "cod", "shopify"}
  BY DEF Bank
<1> QED
  BY <1>1, <1>2, Zenon DEF Asked

\* Where one question is whether a cell reads and the others have a reason each.
LEMMA DefectsOf ==
    ASSUME NEW row, RowTyped(row), NEW asked, Asked(row) = asked,
           DOMAIN asked \subseteq 1..6, NEW c \in DOMAIN asked,
           asked[c][2] = row.fault, asked[c][1] => row.fault # "",
           \A i \in DOMAIN asked \ {c} : asked[i][2] \in RowReasons
    PROVE  /\ Defects(row) \subseteq 1..6
           /\ \A i \in Defects(row) : Asked(row)[i][2] \in RowReasons
<1>1. Defects(row) \subseteq DOMAIN asked /\ \A i \in Defects(row) : asked[i][1]
  BY Zenon DEF Defects
<1>2. c \in Defects(row) => row.fault \in RowReasons
  BY <1>1 DEF RowTyped
<1>3. ASSUME NEW i \in Defects(row) PROVE asked[i][2] \in RowReasons
  BY <1>1, <1>2
<1> QED
  BY <1>1, <1>3

\* The reason of a refused row is a reason for refusing a row.
LEMMA ReasonIsOfTheRow ==
    ASSUME parser \in Layouts, NEW row, RowTyped(row), Defects(row) # {}
    PROVE  Reason(row) \in RowReasons
<1>1. /\ Defects(row) \subseteq 1..6
      /\ \A i \in Defects(row) : Asked(row)[i][2] \in RowReasons
  <2>1. CASE parser \in Bank
    <3>1. Asked(row) = BankAsks(row)
      BY <2>1, AskedOf, Zenon
    <3>2. DOMAIN BankAsks(row) = 1..2
      BY DEF BankAsks
    <3>3. /\ BankAsks(row)[2][2] \in RowReasons
      BY DEF BankAsks, RowReasons
    <3>4. BankAsks(row)[1][2] = row.fault /\ (BankAsks(row)[1][1] => row.fault # "")
      BY DEF BankAsks
    <3>5. \A i \in (1..2) \ {1} : BankAsks(row)[i][2] \in RowReasons
      BY <3>3
    <3>6. 1..2 \subseteq 1..6 /\ 1 \in 1..2
      OBVIOUS
    <3> QED
      BY <3>1, <3>2, <3>4, <3>5, <3>6, DefectsOf, Zenon
  <2>2. CASE parser = "razorpay"
    <3>1. Asked(row) = RazorpayAsks(row)
      BY <2>2, AskedOf, Zenon
    <3>2. DOMAIN RazorpayAsks(row) = 1..6
      BY DEF RazorpayAsks
    <3>3. /\ RazorpayAsks(row)[1][2] \in RowReasons
          /\ RazorpayAsks(row)[2][2] \in RowReasons
          /\ RazorpayAsks(row)[3][2] \in RowReasons
          /\ RazorpayAsks(row)[5][2] \in RowReasons
          /\ RazorpayAsks(row)[6][2] \in RowReasons
      BY DEF RazorpayAsks, RowReasons
    <3>4. RazorpayAsks(row)[4][2] = row.fault /\ (RazorpayAsks(row)[4][1] => row.fault # "")
      BY DEF RazorpayAsks
    <3>5. \A i \in (1..6) \ {4} : RazorpayAsks(row)[i][2] \in RowReasons
      BY <3>3
    <3>6. 1..6 \subseteq 1..6 /\ 4 \in 1..6
      OBVIOUS
    <3> QED
      BY <3>1, <3>2, <3>4, <3>5, <3>6, DefectsOf, Zenon
  <2>3. CASE parser = "cod"
    <3>1. Asked(row) = CodAsks(row)
      BY <2>3, AskedOf, Zenon
    <3>2. DOMAIN CodAsks(row) = 1..6
      BY DEF CodAsks
    <3>3. /\ CodAsks(row)[2][2] \in RowReasons
          /\ CodAsks(row)[3][2] \in RowReasons
          /\ CodAsks(row)[4][2] \in RowReasons
          /\ CodAsks(row)[5][2] \in RowReasons
          /\ CodAsks(row)[6][2] \in RowReasons
      BY DEF CodAsks, RowReasons
    <3>4. CodAsks(row)[1][2] = row.fault /\ (CodAsks(row)[1][1] => row.fault # "")
      BY DEF CodAsks
    <3>5. \A i \in (1..6) \ {1} : CodAsks(row)[i][2] \in RowReasons
      BY <3>3
    <3>6. 1..6 \subseteq 1..6 /\ 1 \in 1..6
      OBVIOUS
    <3> QED
      BY <3>1, <3>2, <3>4, <3>5, <3>6, DefectsOf, Zenon
  <2>4. CASE parser = "shopify"
    <3>1. Asked(row) = ShopifyAsks(row)
      BY <2>4, AskedOf, Zenon
    <3>2. DOMAIN ShopifyAsks(row) = 1..5
      BY DEF ShopifyAsks
    <3>3. /\ ShopifyAsks(row)[1][2] \in RowReasons
          /\ ShopifyAsks(row)[2][2] \in RowReasons
          /\ ShopifyAsks(row)[3][2] \in RowReasons
          /\ ShopifyAsks(row)[5][2] \in RowReasons
      BY DEF ShopifyAsks, RowReasons
    <3>4. ShopifyAsks(row)[4][2] = row.fault /\ (ShopifyAsks(row)[4][1] => row.fault # "")
      BY DEF ShopifyAsks
    <3>5. \A i \in (1..5) \ {4} : ShopifyAsks(row)[i][2] \in RowReasons
      BY <3>3
    <3>6. 1..5 \subseteq 1..6 /\ 4 \in 1..5
      OBVIOUS
    <3> QED
      BY <3>1, <3>2, <3>4, <3>5, <3>6, DefectsOf, Zenon
  <2> QED
    BY <2>1, <2>2, <2>3, <2>4 DEF Layouts, Bank
<1> DEFINE D == Defects(row)
           IsLeast(i) == i \in D /\ \A j \in D : i <= j
<1>2. \E i \in D : \A j \in D : i <= j
  <2>1. D # {} /\ D \subseteq 1..6
    BY <1>1
  <2> HIDE DEF D
  <2>2. \A j \in D : j \in {1, 2, 3, 4, 5, 6}
    BY <2>1
  <2>3. /\ 1 \in D => IsLeast(1)
        /\ 1 \notin D /\ 2 \in D => IsLeast(2)
        /\ 1 \notin D /\ 2 \notin D /\ 3 \in D => IsLeast(3)
    BY <2>2
  <2>4. /\ D \subseteq {4, 5, 6} /\ 4 \in D => IsLeast(4)
        /\ D \subseteq {5, 6} /\ 5 \in D => IsLeast(5)
        /\ D \subseteq {6} /\ 6 \in D => IsLeast(6)
    BY <2>2
  <2>5. \/ 1 \in D \/ 2 \in D \/ 3 \in D
        \/ D \subseteq {4, 5, 6} /\ 4 \in D
        \/ D \subseteq {5, 6} /\ 5 \in D
        \/ D \subseteq {6} /\ 6 \in D
    BY <2>1, <2>2
  <2>6. \E i : IsLeast(i)
    BY <2>3, <2>4, <2>5
  <2> QED
    BY <2>6
<1>3. Reason(row) = Asked(row)[CHOOSE i \in D : \A j \in D : i <= j][2]
  BY DEF Reason
<1> QED
  BY <1>1, <1>2, <1>3

\* What each layout makes of a row.
LEMMA RecordsOf ==
    ASSUME NEW n
    PROVE  /\ parser \in Bank =>
                RecordsFromRow(n) = {Record(n, LineId(n), Net(Body[n]), Body[n].balance)}
           /\ parser = "razorpay" =>
                RecordsFromRow(n) =
                  {Named(n, Principal(Body[n]))} \union Leg(n, "fee", -Body[n].fee)
                  \union Leg(n, "tax", -Body[n].tax)
           /\ parser = "cod" =>
                RecordsFromRow(n) =
                  Leg(n, "cod", IF Body[n].kind = "COD" THEN Body[n].amount ELSE 0)
                  \union Leg(n, "frt", -Body[n].fee) \union Leg(n, "gst", -Body[n].tax)
           /\ parser = "shopify" => RecordsFromRow(n) = {Named(n, Body[n].amount)}
<1>1. /\ parser = "razorpay" => parser \notin Bank
      /\ parser = "cod" => parser \notin Bank /\ parser # "razorpay"
      /\ parser = "shopify" => parser \notin Bank /\ parser # "razorpay" /\ parser # "cod"
  BY DEF Bank
<1>2. parser \in Bank => parser \notin {"razorpay", "cod", "shopify"}
  BY DEF Bank
<1> QED
  BY <1>1, <1>2, Zenon DEF RecordsFromRow

LEMMA RecordIsOfTheRow ==
    ASSUME NEW n, NEW id, NEW amount, NEW balance
    PROVE  Record(n, id, amount, balance).line = n
  BY DEF Record

LEMMA LegIsOfTheRow ==
    ASSUME NEW n, NEW prefix, NEW amount
    PROVE  /\ Leg(n, prefix, amount) = {} <=> amount = 0
           /\ \A r \in Leg(n, prefix, amount) : r.line = n
<1> DEFINE id == Under(prefix, Subject(n))
<1>1. Leg(n, prefix, amount) = IF amount = 0 THEN {} ELSE {Record(n, id, amount, 0)}
  BY DEF Leg
<1> HIDE DEF id
<1> QED
  BY <1>1, RecordIsOfTheRow

\* A row that nothing speaks against becomes at least one record.
LEMMA RowBecomesRecords ==
    ASSUME parser \in Layouts, NEW n, RowTyped(Body[n]), Defects(Body[n]) = {}
    PROVE  RecordsFromRow(n) # {} /\ \A r \in RecordsFromRow(n) : r.line = n
<1>1. CASE parser \in Bank
  <2> DEFINE r == Record(n, LineId(n), Net(Body[n]), Body[n].balance)
  <2>1. RecordsFromRow(n) = {r}
    BY <1>1, RecordsOf, Zenon
  <2>2. r.line = n
    BY RecordIsOfTheRow, Zenon
  <2> HIDE DEF r
  <2> QED
    BY <2>1, <2>2
<1>2. CASE parser = "razorpay"
  <2> DEFINE r == Named(n, Principal(Body[n]))
             fee == Leg(n, "fee", -Body[n].fee)
             tax == Leg(n, "tax", -Body[n].tax)
  <2>1. RecordsFromRow(n) = {r} \union fee \union tax
    BY <1>2, RecordsOf, Zenon
  <2>2. r.line = n
    BY RecordIsOfTheRow, Zenon DEF Named
  <2>3. \A x \in fee \union tax : x.line = n
    BY LegIsOfTheRow, Zenon
  <2> HIDE DEF r, fee, tax
  <2> QED
    BY <2>1, <2>2, <2>3
<1>3. CASE parser = "shopify"
  <2> DEFINE r == Named(n, Body[n].amount)
  <2>1. RecordsFromRow(n) = {r}
    BY <1>3, RecordsOf, Zenon
  <2>2. r.line = n
    BY RecordIsOfTheRow, Zenon DEF Named
  <2> HIDE DEF r
  <2> QED
    BY <2>1, <2>2
<1>4. CASE parser = "cod"
  <2> DEFINE row == Body[n]
             collected == IF row.kind = "COD" THEN row.amount ELSE 0
  <2>1. ~(row.fee = 0 /\ row.tax = 0 /\ (row.kind = "COD" => row.amount = 0))
    <3>1. 6 \in DOMAIN CodAsks(row) /\ CodAsks(row)[6][1] =
            (row.fee = 0 /\ row.tax = 0 /\ (row.kind = "COD" => row.amount = 0))
      BY DEF CodAsks
    <3> QED
      BY <1>4, <3>1, AskedOf DEF Defects
  <2>2. row.fee \in Int /\ row.tax \in Int
    BY DEF RowTyped
  <2>3. -row.fee # 0 \/ -row.tax # 0 \/ collected # 0
    BY <2>1, <2>2
  <2>4. RecordsFromRow(n) = Leg(n, "cod", collected) \union Leg(n, "frt", -row.fee)
                            \union Leg(n, "gst", -row.tax)
    BY <1>4, RecordsOf
  <2> HIDE DEF row, collected
  <2> QED
    BY <2>3, <2>4, LegIsOfTheRow
<1> QED
  BY <1>1, <1>2, <1>3, <1>4 DEF Layouts, Bank

\* So a row is read, refused or skipped.
LEMMA RowOutcome ==
    ASSUME IntakeInv, IsCsv, ReadRow
    PROVE  \/ Skip(line)
           \/ \E reason \in RowReasons : Reject(line, reason)
           \/ \E new : Emit(new) /\ new # {} /\ \A r \in new : r.line = line
<1> DEFINE row == Body[line]
<1>1. line \in DOMAIN Body /\ parser \in Layouts /\ RowTyped(row)
  BY CsvFile DEF IntakeInv, LoopInv, ReadRow, Left
<1>2. \/ Skip(line)
      \/ Reject(line, "TRUNCATED_ROW") \/ Reject(line, "EXTRA_FIELDS")
      \/ Reject(line, "DUPLICATE_ROW")
      \/ Defects(row) # {} /\ Reject(line, Reason(row))
      \/ Defects(row) = {} /\ Emit(RecordsFromRow(line))
  BY Zenon DEF ReadRow
<1>3. {"TRUNCATED_ROW", "EXTRA_FIELDS", "DUPLICATE_ROW"} \subseteq RowReasons
  BY DEF RowReasons
<1>4. Defects(row) # {} => Reason(row) \in RowReasons
  BY <1>1, ReasonIsOfTheRow
<1>5. Defects(row) = {} =>
        RecordsFromRow(line) # {} /\ \A r \in RecordsFromRow(line) : r.line = line
  BY <1>1, RowBecomesRecords
<1> HIDE DEF row
<1> QED
  BY <1>2, <1>3, <1>4, <1>5, Zenon

\* And the next line is the one line more.
LEMMA RowAccounted ==
    ASSUME IntakeInv, IsCsv, ReadRow
    PROVE  AccountedInv'
<1>1. AccountedInv /\ line \in Nat \ {0} /\ line' = line + 1
  BY CsvFile DEF IntakeInv, LoopInv, ReadRow, HeaderGone, Layouts
<1>2. 1..line' - 1 = (1..line - 1) \union {line} /\ line \notin 1..line - 1
  BY <1>1
<1>3. CASE Skip(line)
  <2>1. /\ ReadLines' = ReadLines /\ RefusedLines' = RefusedLines
        /\ skipped' = skipped \union {line}
    BY <1>3 DEF Skip, ReadLines, RefusedLines
  <2> QED
    BY <1>1, <1>2, <2>1 DEF AccountedInv
<1>4. ASSUME NEW reason \in RowReasons, Reject(line, reason)
      PROVE  AccountedInv'
  <2>1. ReadLines' = ReadLines /\ skipped' = skipped
    BY <1>4 DEF Reject, ReadLines
  <2>2. /\ quarantined' = quarantined \union {Quarantine(line, reason)}
        /\ Quarantine(line, reason).line = line /\ Quarantine(line, reason).reason = reason
    BY <1>4 DEF Reject, Quarantine
  <2>3. RefusedLines' = RefusedLines \union {line}
    BY <2>2 DEF RefusedLines
  <2> QED
    BY <1>1, <1>2, <2>1, <2>3 DEF AccountedInv
<1>5. ASSUME NEW new, Emit(new), new # {}, \A r \in new : r.line = line
      PROVE  AccountedInv'
  <2>1. RefusedLines' = RefusedLines /\ skipped' = skipped
    BY <1>5 DEF Emit, RefusedLines
  <2>2. ReadLines' = ReadLines \union {line}
    BY <1>5 DEF Emit, ReadLines
  <2> QED
    BY <1>1, <1>2, <2>1, <2>2 DEF AccountedInv
<1> QED
  BY <1>3, <1>4, <1>5, RowOutcome

----------------------------------------------------------------------------
\* The scores.

LEMMA Shares ==
    ASSUME NEW d \in 1..5, NEW c \in 0..d
    PROVE  (180 * c) \div d \in 0..180 /\ (180 * d) \div d = 180
<1>1. d = 1 \/ d = 2 \/ d = 3 \/ d = 4 \/ d = 5
  OBVIOUS
<1> QED
  BY <1>1

LEMMA AtMostFive ==
    ASSUME NEW v, NEW w, NEW x, NEW y, NEW z
    PROVE  IsFiniteSet({v, w, x, y, z}) /\ Cardinality({v, w, x, y, z}) \in 1..5
<1>1. {v, w} = {v} \union {w} /\ {v, w, x} = {v, w} \union {x}
      /\ {v, w, x, y} = {v, w, x} \union {y} /\ {v, w, x, y, z} = {v, w, x, y} \union {z}
  OBVIOUS
<1>2. IsFiniteSet({v}) /\ Cardinality({v}) = 1
  BY FS_Singleton
<1>3. IsFiniteSet({v, w}) /\ Cardinality({v, w}) \in 1..2
  BY <1>1, <1>2, FS_AddElement
<1>4. IsFiniteSet({v, w, x}) /\ Cardinality({v, w, x}) \in 1..3
  BY <1>1, <1>3, FS_AddElement
<1>5. IsFiniteSet({v, w, x, y}) /\ Cardinality({v, w, x, y}) \in 1..4
  BY <1>1, <1>4, FS_AddElement
<1> QED
  BY <1>1, <1>5, FS_AddElement

\* Every text format has one to five columns that tell it from the others.
LEMMA SomeDistinctive ==
    ASSUME NEW a \in DOMAIN Required
    PROVE  IsFiniteSet(Distinctive[a]) /\ Cardinality(Distinctive[a]) \in 1..5
<1> DEFINE Few(S) == IsFiniteSet(S) /\ Cardinality(S) \in 1..5
<1>1. \A v, w, x, y, z : Few({v, w, x, y, z})
  BY AtMostFive
<1>2. \A v, w, x, y : Few({v, w, x, y})
  <2> TAKE v, w, x, y
  <2>1. {v, w, x, y} = {v, w, x, y, y}
    OBVIOUS
  <2> QED
    BY <1>1, <2>1
<1>3. \A v, w, x : Few({v, w, x})
  <2> TAKE v, w, x
  <2>1. {v, w, x} = {v, w, x, x}
    OBVIOUS
  <2> QED
    BY <1>2, <2>1
<1>4. \A v, w : Few({v, w})
  <2> TAKE v, w
  <2>1. {v, w} = {v, w, w}
    OBVIOUS
  <2> QED
    BY <1>3, <2>1
<1> HIDE DEF Few
<1>5. Few(Distinctive["hdfc"]) /\ Few(Distinctive["icici"])
  BY <1>3, <1>4 DEF Distinctive
<1>6. Few(Distinctive["razorpay"]) /\ Few(Distinctive["cod"]) /\ Few(Distinctive["mt940"])
  BY <1>2 DEF Distinctive
<1>7. Few(Distinctive["shopify"])
  BY <1>1 DEF Distinctive
<1>8. a \in {"hdfc", "icici", "razorpay", "cod", "shopify", "mt940"}
  BY DEF Required
<1> QED
  BY <1>5, <1>6, <1>7, <1>8 DEF Few

\* A confidence is zero, or at least the floor and at most certain; certain when
\* everything is there, and zero unless what is required is.
LEMMA TextScore ==
    ASSUME NEW h, NEW a \in DOMAIN Required
    PROVE  /\ HeaderConfidence(a, h) \in 0..Certain
           /\ ShowsAll(a, h) => HeaderConfidence(a, h) = Certain
           /\ HeaderConfidence(a, h) # 0 => Required[a] \subseteq Cells(h)
<1> DEFINE D == Distinctive[a]
           hit == D \intersect Cells(h)
           share == (180 * Cardinality(hit)) \div Cardinality(D)
<1>1. HeaderConfidence(a, h) = IF Required[a] \subseteq Cells(h) THEN Floor + share ELSE 0
  BY DEF HeaderConfidence
<1>2. IsFiniteSet(D) /\ Cardinality(D) \in 1..5
  BY SomeDistinctive
<1>3. Cardinality(hit) \in 0..Cardinality(D)
  BY <1>2, FS_Subset, FS_CardinalityType
<1>4. share \in 0..180
  BY <1>2, <1>3, Shares
<1>5. ShowsAll(a, h) => Required[a] \subseteq Cells(h) /\ hit = D
  BY DEF ShowsAll, Required
<1>6. ShowsAll(a, h) => share = 180
  BY <1>2, <1>5, Shares
<1> HIDE DEF share
<1> QED
  BY <1>1, <1>4, <1>5, <1>6 DEF Floor, Certain

LEMMA PdfScore ==
    ASSUME NEW h
    PROVE  /\ PdfConfidence(h) \in 0..Certain
           /\ h.pdf = "uncompressed" => PdfConfidence(h) = Certain
           /\ PdfConfidence(h) # 0 => h.pdf # "no"
<1>1. /\ h.pdf = "no" => PdfConfidence(h) = 0
      /\ h.pdf = "uncompressed" => PdfConfidence(h) = Certain
      /\ h.pdf # "no" /\ h.pdf # "uncompressed" => PdfConfidence(h) = Floor
  <2>1. "no" # "uncompressed"
    OBVIOUS
  <2> QED
    BY <2>1, Zenon DEF PdfConfidence
<1> QED
  BY <1>1 DEF Floor, Certain

LEMMA AdaptersRead == Adapters = DOMAIN Required \union {"slice"} /\ "slice" \notin DOMAIN Required
  BY DEF Adapters, Layouts, Required

LEMMA Scores ==
    ASSUME NEW h, NEW a \in Adapters
    PROVE  /\ SniffScore(a, h) \in 0..Certain
           /\ ShowsAll(a, h) => SniffScore(a, h) = Certain
           /\ SniffScore(a, h) # 0 => IF a = "slice" THEN h.pdf # "no"
                                     ELSE Required[a] \subseteq Cells(h)
<1>1. CASE a = "slice"
  BY <1>1, PdfScore DEF SniffScore, ShowsAll
<1>2. CASE a # "slice"
  <2>1. a \in DOMAIN Required
    BY <1>2, AdaptersRead
  <2> QED
    BY <1>2, <2>1, TextScore DEF SniffScore
<1> QED
  BY <1>1, <1>2

LEMMA FiniteAdapters == IsFiniteSet(Adapters)
<1>1. Adapters = ({"hdfc", "icici", "razorpay", "cod", "shopify", "mt940"} \union {"slice"})
  BY DEF Adapters, Layouts
<1>2. IsFiniteSet({"hdfc"} \union {"icici"} \union {"razorpay"} \union {"cod"}
                  \union {"shopify"} \union {"mt940"} \union {"slice"})
  BY FS_Singleton, FS_Union
<1>3. Adapters = {"hdfc"} \union {"icici"} \union {"razorpay"} \union {"cod"}
                  \union {"shopify"} \union {"mt940"} \union {"slice"}
  BY <1>1
<1> QED
  BY <1>2, <1>3

\* Of seven scores one is the highest.
LEMMA BestIsBest ==
    ASSUME NEW h
    PROVE  \A a \in Adapters : SniffScore(a, h) <= Best(h)
<1> DEFINE S == {SniffScore(a, h) : a \in Adapters}
<1>1. \A a \in Adapters : SniffScore(a, h) \in Int
  BY Scores DEF Certain
<1>2. S \subseteq Int /\ S # {}
  BY <1>1 DEF Adapters
<1>3. IsFiniteSet(S)
  <2> DEFINE F == [a \in Adapters |-> SniffScore(a, h)]
  <2>1. IsFiniteSet({F[a] : a \in Adapters})
    BY FiniteAdapters, ImageFinite
  <2> QED
    BY <2>1
<1> HIDE DEF S
<1>4. \A y \in S : y <= Max(S)
  BY <1>2, <1>3, GreatestElement
<1> QED
  BY <1>4 DEF S, Best

\* A winner is of a format the file is of, and nobody else finds everything.
LEMMA WinnerIsSure ==
    ASSUME IntakeInv, Recognised(file.head), NEW a \in Winners(file.head)
    PROVE  /\ a \in file.formats /\ a \in Adapters
           /\ \A b \in Adapters \ {a} : ~ShowsAll(b, file.head)
<1>1. a \in Adapters /\ SniffScore(a, file.head) = Best(file.head) /\ Best(file.head) >= 360
  BY DEF Winners, Recognised, Threshold
<1>2. a \in file.formats
  <2>1. SniffScore(a, file.head) # 0
    BY <1>1, Scores DEF Certain
  <2>2. IF a = "slice" THEN file.head.pdf # "no" ELSE Required[a] \subseteq Cells(file.head)
    BY <1>1, <2>1, Scores
  <2>3. Cells(file.head) \subseteq file.head.cells
    BY DEF Cells, Decoded
  <2> QED
    BY <1>1, <2>2, <2>3, AdaptersRead, FilesAssumption DEF IntakeInv
<1>3. ASSUME NEW b \in Adapters, b # a, ShowsAll(b, file.head)
      PROVE  FALSE
  <2>1. SniffScore(b, file.head) = Certain /\ SniffScore(a, file.head) \in 0..Certain
    BY <1>1, <1>3, Scores
  <2>2. SniffScore(b, file.head) = Best(file.head)
    BY <1>1, <2>1, BestIsBest DEF Certain
  <2>3. {a, b} \subseteq Winners(file.head)
    BY <2>2, <1>1 DEF Winners
  <2>4. IsFiniteSet(Winners(file.head)) /\ Cardinality(Winners(file.head)) = 1
    <3>1. IsFiniteSet(Adapters)
      BY FiniteAdapters
    <3>2. Winners(file.head) \subseteq Adapters
      BY DEF Winners
    <3> QED
      BY <3>1, <3>2, FS_Subset DEF Recognised
  <2>5. PICK c : Winners(file.head) = {c}
    BY <2>4, FS_Singleton
  <2> QED
    BY <1>3, <2>3, <2>5
<1> QED
  BY <1>1, <1>2, <1>3

\* The adapter that was chosen saw every column parse asks for, so the header is
\* lost to it only by a mark that the sniffed prefix did not show.
LEMMA HeaderGoesWithTheMark ==
    ASSUME IntakeInv, Recognised(file.head), NEW a \in Winners(file.head), a # "slice",
           HeaderLost(a, file.head)
    PROVE  MarkComesBack(file.head)
<1> DEFINE h == file.head
<1>1. HeadType(h)
  BY FilesAssumption DEF IntakeInv
<1>2. a \in Adapters /\ SniffScore(a, h) # 0
  BY Scores DEF Winners, Recognised, Threshold, Certain
<1>3. Required[a] \subseteq Cells(h)
  BY <1>2, Scores
<1>4. ~(Cells(h) \subseteq ParsedCells(h))
  BY <1>3 DEF HeaderLost
<1> HIDE DEF h
<1>5. h.bom /\ h.foreign # "nowhere" /\ ~(h.cut \/ h.foreign = "head")
  BY <1>4 DEF Cells, ParsedCells, Decoded
<1>6. MarkComesBack(h)
  BY <1>1, <1>5 DEF HeadType, MarkComesBack
<1> QED
  BY <1>6 DEF h

----------------------------------------------------------------------------
\* The file.

LEMMA NextIntake == IntakeInv /\ [Next]_vars => IntakeInv'
<1> SUFFICES ASSUME IntakeInv, [Next]_vars PROVE IntakeInv'
  OBVIOUS
<1>1. file' = file
  BY DEF Next, RefuseFile, Open, EndRows, Answer, ReadRow, ReadTag, SettleStatement, ReadLine,
         EndOfPages, ValidateChain, vars
<1>2. (parser = "done" => ~Empty)'
  <2>1. CASE Answer
    BY <2>1 DEF Answer, Empty, Reject, result
  <2>2. CASE parser = "done" /\ UNCHANGED result
    BY <2>2 DEF IntakeInv, Empty, result
  <2>3. CASE parser' # "done"
    BY <2>3
  <2>4. CASE ~Answer /\ Next
    BY <2>2, <2>3, <2>4 DEF Next, RefuseFile, Open, EndRows, ReadRow, ReadTag, SettleStatement,
         ReadLine, EndOfPages, ValidateChain, Layouts, Winners, Adapters
  <2> QED
    BY <2>1, <2>2, <2>3, <2>4 DEF vars, result
<1>3. ChosenInv'
  <2>1. CASE Open
    <3>1. Recognised(file.head) /\ parser' \in Winners(file.head) \union {"parsed", "raised"}
      BY <2>1, Zenon DEF Open
    <3> QED
      BY <1>1, <3>1 DEF ChosenInv, Adapters, Layouts
  <2>2. CASE parser' = parser
    BY <1>1, <2>2 DEF IntakeInv, ChosenInv
  <2>3. CASE parser' \notin Adapters
    BY <2>3 DEF ChosenInv
  <2> QED
    BY <2>1, <2>2, <2>3 DEF Next, RefuseFile, EndRows, Answer, ReadRow, ReadTag, SettleStatement,
       ReadLine, EndOfPages, ValidateChain, vars, Adapters, Layouts
<1>4. ASSUME IsCsv PROVE LoopInv'
  <2>1. IsCsv' /\ Len(Body) \in Nat /\ (Left <=> line <= Len(Body)) /\ Body' = Body
    BY <1>1, <1>4, CsvFile DEF IsCsv, Body, Left
  <2>2. /\ file.formats \subseteq Layouts /\ file'.formats = file.formats
        /\ parser \in file.formats \union {"unread", "refused", "raised", "parsed", "done"}
        /\ line \in 1..Len(Body) + 1
        /\ HeaderGone \/ (AccountedInv /\ (parser \in {"parsed", "done"} => ~Left))
    BY <1>1, <1>4 DEF IntakeInv, LoopInv, IsCsv
  <2>3. CASE /\ UNCHANGED <<line, result>> /\ parser \notin {"parsed", "done"}
             /\ parser' \in file.formats \union {"unread", "refused", "raised"}
    <3>1. AccountedInv
      BY <2>2, <2>3 DEF HeaderGone
    <3>2. AccountedInv'
      BY <2>3, <3>1 DEF AccountedInv, ReadLines, RefusedLines, result
    <3>3. parser' \notin {"parsed", "done"}
      BY <2>2, <2>3 DEF Layouts
    <3> QED
      BY <2>1, <2>2, <2>3, <3>2, <3>3 DEF LoopInv
  <2>4. CASE Open
    <3>1. PICK a \in Winners(file.head) :
             \/ UNCHANGED result /\ parser' = "raised"
             \/ UNCHANGED result /\ parser' = a
             \/ /\ parser' = "parsed" /\ FileFault(a, file.head) # ""
                /\ Reject(1, FileFault(a, file.head))
      BY <2>4, Zenon DEF Open
    <3>2. a \in file.formats
      BY <2>4, WinnerIsSure DEF Open
    <3>3. line' = line /\ parser = "unread" /\ Recognised(file.head)
      BY <2>4 DEF Open
    <3>4. CASE /\ parser' = "parsed" /\ FileFault(a, file.head) # ""
               /\ Reject(1, FileFault(a, file.head))
      <4>1. a # "slice"
        BY <2>2, <3>2 DEF Layouts
      <4>2. FileFault(a, file.head) = "MISSING_HEADER_COLUMN" /\ HeaderLost(a, file.head)
        BY <3>4, <4>1, Zenon DEF FileFault
      <4>3. MarkComesBack(file.head)
        BY <3>3, <4>1, <4>2, HeaderGoesWithTheMark
      <4>4. records = {} /\ skipped = {} /\ quarantined = {}
        BY <3>3 DEF IntakeInv, NothingYet
      <4>5. /\ quarantined' = {Quarantine(1, "MISSING_HEADER_COLUMN")}
            /\ records' = {} /\ skipped' = {} /\ file' = file
        BY <1>1, <3>4, <4>2, <4>4 DEF Reject
      <4>6. MarkComesBack(file.head)'
        BY <4>3, <4>5 DEF MarkComesBack
      <4>7. HeaderGone'
        BY <3>4, <4>5, <4>6, Zenon DEF HeaderGone, Quarantine
      <4> QED
        BY <2>1, <2>2, <3>3, <3>4, <4>7 DEF LoopInv
    <3> QED
      BY <2>3, <3>1, <3>2, <3>3, <3>4
  <2>5. CASE EndRows
    <3>1. AccountedInv
      BY <2>2, <2>5 DEF EndRows, HeaderGone, Layouts
    <3>2. AccountedInv' /\ ~Left' /\ parser' = "parsed" /\ line' = line
      BY <2>1, <2>5, <3>1 DEF EndRows, AccountedInv, ReadLines, RefusedLines, result, Left
    <3> QED
      BY <2>1, <2>2, <3>2 DEF LoopInv
  <2>6. CASE Answer
    <3>1. RefusedLines' = RefusedLines /\ ReadLines' = ReadLines /\ skipped' = skipped
      BY <2>6 DEF Answer, Reject, RefusedLines, ReadLines, Quarantine, RowReasons, result
    <3>2. parser = "parsed" /\ parser' = "done" /\ line' = line
      BY <2>6 DEF Answer
    <3>3. CASE HeaderGone
      <4>1. ~Empty
        BY <3>3 DEF HeaderGone, Empty
      <4>2. UNCHANGED result
        BY <2>6, <4>1 DEF Answer
      <4>3. UNCHANGED <<records, skipped, quarantined>> /\ file' = file
        BY <2>6, <4>2 DEF Answer, result
      <4>4. MarkComesBack(file.head)'
        BY <3>3, <4>3 DEF HeaderGone, MarkComesBack
      <4>5. HeaderGone'
        BY <3>2, <3>3, <4>3, <4>4, Zenon DEF HeaderGone, Quarantine
      <4> QED
        BY <2>1, <2>2, <3>2, <4>5 DEF LoopInv
    <3>4. CASE AccountedInv /\ ~Left
      <4>1. AccountedInv' /\ ~Left'
        BY <2>1, <3>1, <3>2, <3>4 DEF AccountedInv, Left
      <4> QED
        BY <2>1, <2>2, <3>2, <4>1 DEF LoopInv
    <3> QED
      BY <2>2, <3>2, <3>3, <3>4
  <2>7. CASE ReadRow
    <3>1. AccountedInv'
      BY <1>4, <2>7, RowAccounted
    <3>2. parser' = parser /\ parser \in Layouts /\ line' = line + 1 /\ line <= Len(Body)
      BY <2>1, <2>7 DEF ReadRow
    <3> QED
      BY <2>1, <2>2, <3>1, <3>2 DEF LoopInv, Layouts
  <2>8. CASE RefuseFile
    BY <2>3, <2>8 DEF RefuseFile
  <2>9. CASE UNCHANGED vars
    <3>1. parser' = parser /\ line' = line /\ UNCHANGED result
      BY <2>9 DEF vars
    <3>2. (AccountedInv => AccountedInv') /\ (HeaderGone => HeaderGone') /\ (Left' <=> Left)
      BY <1>1, <2>1, <3>1
         DEF AccountedInv, HeaderGone, ReadLines, RefusedLines, result, Left, Quarantine
    <3> QED
      BY <2>1, <2>2, <3>1, <3>2 DEF LoopInv
  <2>10. parser # "mt940" /\ parser # "slice"
    BY <2>2 DEF Layouts
  <2> QED
    BY <2>4, <2>5, <2>6, <2>7, <2>8, <2>9, <2>10
       DEF Next, ReadTag, SettleStatement, ReadLine, EndOfPages, ValidateChain
<1>5. ~IsCsv => ~IsCsv'
  BY <1>1 DEF IsCsv, Body
<1>6. NothingYet'
  <2>1. CASE UNCHANGED <<parser, result>>
    BY <2>1 DEF IntakeInv, NothingYet, result
  <2>2. parser' # "unread" \/ UNCHANGED <<parser, result>>
    BY DEF Next, RefuseFile, Open, EndRows, Answer, ReadRow, ReadTag, SettleStatement, ReadLine,
           EndOfPages, ValidateChain, vars, Adapters, Layouts, Winners
  <2> QED
    BY <2>1, <2>2 DEF NothingYet
<1> QED
  BY <1>1, <1>2, <1>4, <1>5, <1>3, <1>6 DEF IntakeInv, LoopInv

LEMMA InitIntake == Init => IntakeInv
<1> SUFFICES ASSUME Init PROVE IntakeInv
  OBVIOUS
<1>1. /\ parser = "unread" /\ line = 1
      /\ records = {} /\ quarantined = {} /\ skipped = {}
      /\ \E i \in DOMAIN Files : \E j \in DOMAIN Files[i] : file \in Files[i][j]
  BY DEF Init
<1>2. ReadLines = {} /\ RefusedLines = {}
  BY <1>1 DEF ReadLines, RefusedLines
<1>3. AccountedInv
  BY <1>1, <1>2 DEF AccountedInv
<1>4. IsCsv => Len(Body) \in Nat
  <2> SUFFICES ASSUME IsCsv PROVE Len(Body) \in Nat
    OBVIOUS
  <2>1. Body \in Seq(Range(Body))
    BY <1>1, FilesAssumption DEF Body
  <2> QED
    BY <2>1
<1>5. parser \notin Adapters
  BY <1>1 DEF Adapters, Layouts
<1> QED
  BY <1>1, <1>3, <1>4, <1>5 DEF IntakeInv, LoopInv, ChosenInv, NothingYet

----------------------------------------------------------------------------
\* The theorems.

THEOREM IntakeInvariance == Spec => []IntakeInv
  BY InitIntake, NextIntake, PTL DEF Spec

\* registry.py: a file is read as a format whose columns it has, and no other
\* format shows in its head whole.
THEOREM NeverGuesses == Spec => []DetectionNeverGuesses
<1>1. IntakeInv => DetectionNeverGuesses
  <2> SUFFICES ASSUME IntakeInv, parser \in Adapters
               PROVE  /\ parser \in file.formats
                      /\ \A other \in file.formats \ {parser} : ~ShowsAll(other, file.head)
    BY DEF DetectionNeverGuesses
  <2>1. /\ parser \in file.formats
        /\ \A b \in Adapters \ {parser} : ~ShowsAll(b, file.head)
    BY WinnerIsSure DEF IntakeInv, ChosenInv
  <2>2. file.formats \subseteq Adapters
    BY FilesAssumption DEF IntakeInv
  <2> QED
    BY <2>1, <2>2
<1> QED
  BY <1>1, IntakeInvariance, PTL

\* Every line of a CSV export of any length is the line of a record, of a
\* refused row or of a skipped one, and of one only, but for the file whose mark
\* comes back: none of its lines is read, and that is said in one row.  And no
\* answer is empty.
THEOREM LinesAccounted == Spec => []EveryLineIsAccounted
<1>1. IntakeInv => EveryLineIsAccounted
  <2> SUFFICES ASSUME IntakeInv PROVE EveryLineIsAccounted
    OBVIOUS
  <2>1. parser = "done" => records # {} \/ quarantined # {}
    BY DEF IntakeInv, Empty
  <2>2. ASSUME CsvRead, ~HeaderGone
        PROVE  /\ ReadLines \union RefusedLines \union skipped = DOMAIN Body
               /\ ReadLines \intersect RefusedLines = {}
               /\ (ReadLines \union RefusedLines) \intersect skipped = {}
    <3>1. IsCsv /\ LoopInv /\ parser = "done"
      BY <2>2 DEF CsvRead, IsCsv, IntakeInv
    <3>2. Len(Body) \in Nat /\ DOMAIN Body = 1..Len(Body)
      BY <3>1, CsvFile
    <3>3. line - 1 = Len(Body) /\ AccountedInv
      BY <2>2, <3>1, <3>2 DEF LoopInv, Left
    <3> QED
      BY <3>2, <3>3 DEF AccountedInv
  <2>3. CsvRead /\ ~HeaderGone => LinesClose
    BY <2>2 DEF LinesClose, ReadLines, RefusedLines
  <2> QED
    BY <2>1, <2>3, Zenon DEF EveryLineIsAccounted, HeaderGone
<1> QED
  BY <1>1, IntakeInvariance, PTL

----------------------------------------------------------------------------
\* Records are the rows.  Identities first: what the loop over the rows of a
\* layout knows of the records it has made.

\* A part put before a sequence of parts can be told from it.
LEMMA PartsOfAny ==
    ASSUME NEW p, NEW q, NEW s \in Seq(STRING), NEW t \in Seq(STRING)
    PROVE  /\ <<p>> \o s = <<q>> \o t => p = q /\ s = t
           /\ <<p>> \o s # s
<1> DEFINE Words == STRING \union {p, q}
<1>1. s \in Seq(Words) /\ t \in Seq(Words) /\ p \in Words /\ q \in Words
  OBVIOUS
<1> HIDE DEF Words
<1>2. \A parts \in Seq(Words) : \A c \in Words :
        /\ Head(<<c>> \o parts) = c /\ Tail(<<c>> \o parts) = parts
        /\ Len(<<c>> \o parts) # Len(parts)
  OBVIOUS
<1> QED
  BY <1>1, <1>2

\* A charge is named under its own prefix, whatever it is the charge of.
LEMMA NamesUnder ==
    ASSUME NEW p, NEW q, NEW name \in Names, NEW other \in Names
    PROVE  /\ Under(p, name) = Under(q, other) => p = q /\ name = other
           /\ Under(p, name) # name
<1>1. /\ name = <<name[1], name[2]>> /\ other = <<other[1], other[2]>>
      /\ name[1] \in Seq(STRING) /\ other[1] \in Seq(STRING)
  BY DEF Names
<1>3. ASSUME Under(p, name) = Under(q, other) PROVE p = q /\ name = other
  <2> DEFINE s == name[1]
             t == other[1]
  <2>1. <<p>> \o s = <<q>> \o t /\ name[2] = other[2]
    BY <1>3 DEF Under
  <2>2. s \in Seq(STRING) /\ t \in Seq(STRING)
    BY <1>1
  <2> HIDE DEF s, t
  <2>3. p = q /\ s = t
    BY <2>1, <2>2, PartsOfAny
  <2> QED
    BY <1>1, <2>1, <2>3 DEF s, t
<1>4. Under(p, name) # name
  <2>1. Under(p, name) = name => <<p>> \o name[1] = name[1]
    BY <1>1 DEF Under
  <2> QED
    BY <1>1, <2>1, PartsOfAny
<1> QED
  BY <1>3, <1>4

LEMMA LineNames ==
    ASSUME NEW n \in Nat
    PROVE  LineName(n) \in Names /\ LineName(n)[2] = n /\ \A p : Under(p, LineName(n))[2] = n
<1>1. <<>> \in Seq(STRING)
  OBVIOUS
<1>2. LineName(n) \in Names
  BY <1>1 DEF LineName, Names
<1>3. LineName(n)[2] = n /\ \A p : Under(p, LineName(n))[2] = n
  BY DEF LineName, Under
<1> QED
  BY <1>2, <1>3

LEMMA ExportKeys ==
    ASSUME IntakeInv, file.formats \intersect Layouts # {}
    PROVE  /\ DOMAIN Body \subseteq Nat
           /\ \A n \in DOMAIN Body : Body[n].key \in Names /\ Subject(n) \in Names
<1>1. Body \in Seq(Range(Body)) /\ \A n \in DOMAIN Body : Body[n].key \in Names
  <2>1. \E i \in DOMAIN Files : \E j \in DOMAIN Files[i] : file \in Files[i][j]
    BY DEF IntakeInv
  <2> QED
    BY <2>1, FilesAssumption DEF Body
<1>2. DOMAIN Body \subseteq Nat
  BY <1>1
<1> QED
  BY <1>1, <1>2, LineNames DEF Subject

LEMMA KeysAreNames ==
    ASSUME IntakeInv, parser \in Layouts
    PROVE  /\ DOMAIN Body \subseteq Nat
           /\ \A n \in DOMAIN Body : Body[n].key \in Names /\ Subject(n) \in Names
<1>1. parser \in file.formats
  BY WinnerIsSure DEF IntakeInv, ChosenInv, Adapters
<1>2. file.formats \intersect Layouts # {}
  BY <1>1
<1> QED
  BY <1>2, ExportKeys

\* The next row of an export is a line of it.
LEMMA LineInBody ==
    ASSUME IntakeInv, ReadRow, \A n \in DOMAIN Body : n \in Nat, line \in Nat \ {0}
    PROVE  line \in DOMAIN Body
  BY DEF ReadRow, Left

LegPrefixes == IF parser = "cod" THEN {"cod", "frt", "gst"} ELSE {"fee", "tax"}

\* A record of a row is named by the row or, a leg, under what the row is
\* called.
OwnName(r) == parser # "cod" /\ Body[r.line].key # NoName /\ r.id = Body[r.line].key
LegName(r) ==
    /\ parser \in {"razorpay", "cod"}
    /\ parser = "razorpay" => Body[r.line].key # NoName
    /\ \E prefix \in LegPrefixes : r.id = Under(prefix, Subject(r.line))

Whose(r) ==
    IF parser \in Bank THEN r.id = LineId(r.line)
    ELSE /\ OwnName(r) \/ LegName(r)
         /\ parser = "shopify" => Body[r.line].shape # "more"

MadeInv ==
    parser \in Layouts =>
        /\ line \in Nat \ {0}
        /\ \A r \in records : r.line \in WholeRows /\ r.line \in 1..line - 1 /\ Whose(r)
        /\ \A r, s \in records : r.line = s.line =>
             /\ parser \in Bank => r = s
             /\ r.id = s.id => r = s
        /\ parser \notin Bank =>
             \A r, s \in records :
                r.line # s.line /\ Body[r.line].key # NoName => Body[r.line].key # Body[s.line].key

UniqueIds ==
    \A r, s \in records :
        r.id = s.id => r = s \/ Namesake(r.line, s.line) \/ Namesake(s.line, r.line)

OneNaming ==
    file.formats \subseteq Bank =>
        \/ \A r \in records : r.id = Body[r.line].key
        \/ \E f \in Bank : \A r \in records : r.id = Under(f, LineName(r.line))

LEMMA BankIds ==
    ASSUME MadeInv, parser \in Bank, IntakeInv
    PROVE  /\ \A r, s \in records : r.id = s.id => r = s
           /\ \/ \A r \in records : r.id = Body[r.line].key
              \/ \E f \in Bank : \A r \in records : r.id = Under(f, LineName(r.line))
<1>1. parser \in Layouts
  BY DEF Bank, Layouts
<1>2. \A r \in records : r.line \in WholeRows /\ r.line \in Nat /\ r.id = LineId(r.line)
  <2>1. line \in Nat \ {0}
    BY <1>1 DEF MadeInv
  <2> QED
    BY <1>1, <2>1 DEF MadeInv, Whose
<1>3. \A r, s \in records : r.line = s.line => r = s
  BY <1>1 DEF MadeInv
<1>4. CASE CarriesIds
  <2>1. \A n \in WholeRows : LineId(n) = Body[n].key
    BY <1>4 DEF CarriesIds, LineId
  <2>2. \A n, m \in WholeRows : Body[n].key = Body[m].key => n = m
    BY <1>4 DEF CarriesIds
  <2>3. \A r \in records : r.line \in WholeRows /\ r.id = Body[r.line].key
    BY <1>2, <2>1
  <2>4. \A r, s \in records : r.id = s.id => r.line = s.line
    BY <2>2, <2>3
  <2> QED
    BY <1>3, <2>3, <2>4
<1>5. CASE ~CarriesIds
  <2>1. \A n : LineId(n) = Under(parser, LineName(n))
    BY <1>5 DEF LineId
  <2>2. \A r \in records : r.id = Under(parser, LineName(r.line)) /\ r.id[2] = r.line
    BY <1>2, <2>1, LineNames
  <2>3. \A r, s \in records : r.id = s.id => r.line = s.line
    BY <2>2
  <2> QED
    BY <1>3, <2>2, <2>3
<1> QED
  BY <1>4, <1>5

\* Two rows of an export with ids of its own, two names alike.
LEMMA AlikeIsNamesake ==
    ASSUME MadeInv, IntakeInv, parser \in Layouts \ Bank,
           NEW r \in records, NEW s \in records, r.id = s.id, r.line # s.line
    PROVE  Namesake(r.line, s.line) \/ Namesake(s.line, r.line)
<1> DEFINE kr == Body[r.line].key
           ks == Body[s.line].key
<1>1. parser \in file.formats
  BY WinnerIsSure DEF IntakeInv, ChosenInv, Adapters
<1>2. r.line \in DOMAIN Body /\ s.line \in DOMAIN Body /\ Whose(r) /\ Whose(s)
  BY DEF MadeInv, WholeRows
<1>3. /\ r.line \in Nat /\ s.line \in Nat /\ kr \in Names /\ ks \in Names
      /\ Subject(r.line) \in Names /\ Subject(s.line) \in Names
  BY <1>2, KeysAreNames
<1>4. kr # NoName \/ ks # NoName => kr # ks
  BY DEF MadeInv
<1>6. /\ OwnName(r) \/ LegName(r)
      /\ OwnName(s) \/ LegName(s)
  BY <1>2 DEF Whose
<1>7. ~(OwnName(r) /\ OwnName(s))
  BY <1>4 DEF OwnName
<1>8. ASSUME OwnName(r), LegName(s) PROVE Namesake(r.line, s.line)
  <2>1. parser = "razorpay" /\ LegPrefixes = {"fee", "tax"} /\ ks # NoName
    BY <1>8 DEF OwnName, LegName, LegPrefixes
  <2>2. PICK prefix \in {"fee", "tax"} : s.id = Under(prefix, Subject(s.line))
    BY <1>8, <2>1 DEF LegName
  <2>3. kr = Under(prefix, ks)
    BY <1>8, <2>1, <2>2 DEF OwnName, Subject
  <2> QED
    BY <1>1, <2>1, <2>3 DEF Namesake
<1>9. ASSUME OwnName(s), LegName(r) PROVE Namesake(s.line, r.line)
  <2>1. parser = "razorpay" /\ LegPrefixes = {"fee", "tax"} /\ kr # NoName
    BY <1>9 DEF OwnName, LegName, LegPrefixes
  <2>2. PICK prefix \in {"fee", "tax"} : r.id = Under(prefix, Subject(r.line))
    BY <1>9, <2>1 DEF LegName
  <2>3. ks = Under(prefix, kr)
    BY <1>9, <2>1, <2>2 DEF OwnName, Subject
  <2> QED
    BY <1>1, <2>1, <2>3 DEF Namesake
<1>10. ASSUME LegName(r), LegName(s)
       PROVE  Namesake(r.line, s.line) \/ Namesake(s.line, r.line)
  <2>1. PICK p \in LegPrefixes : r.id = Under(p, Subject(r.line))
    BY <1>10 DEF LegName
  <2>2. PICK q \in LegPrefixes : s.id = Under(q, Subject(s.line))
    BY <1>10 DEF LegName
  <2>3. Subject(r.line) = Subject(s.line)
    BY <1>3, <2>1, <2>2, NamesUnder, Zenon
  <2>4. ~(kr = NoName /\ ks = NoName)
    <3>1. LineName(r.line) # LineName(s.line)
      BY <1>3, LineNames
    <3> QED
      BY <2>3, <3>1 DEF Subject
  <2>5. ~(kr # NoName /\ ks # NoName)
    BY <1>4, <2>3 DEF Subject
  <2>6. parser = "cod"
    BY <1>10, <2>4, <2>5 DEF LegName
  <2>7. CASE ks = NoName /\ kr # NoName
    BY <1>1, <2>3, <2>6, <2>7 DEF Subject, Namesake
  <2>8. CASE kr = NoName /\ ks # NoName
    BY <1>1, <2>3, <2>6, <2>8 DEF Subject, Namesake
  <2> QED
    BY <2>4, <2>5, <2>7, <2>8
<1> QED
  BY <1>6, <1>7, <1>8, <1>9, <1>10

LEMMA MadeAreUnique ==
    ASSUME IntakeInv, MadeInv, parser \in Layouts
    PROVE  /\ UniqueIds
           /\ parser \in Bank =>
                \/ \A r \in records : r.id = Body[r.line].key
                \/ \E f \in Bank : \A r \in records : r.id = Under(f, LineName(r.line))
<1>1. CASE parser \in Bank
  BY <1>1, BankIds DEF UniqueIds
<1>2. CASE parser \notin Bank
  <2> SUFFICES ASSUME NEW r \in records, NEW s \in records, r.id = s.id
               PROVE  r = s \/ Namesake(r.line, s.line) \/ Namesake(s.line, r.line)
    BY <1>2 DEF UniqueIds
  <2>1. r.line = s.line => r = s
    BY DEF MadeInv
  <2> QED
    BY <1>2, <2>1, AlikeIsNamesake
<1> QED
  BY <1>1, <1>2

\* A leg is named under its row's id or its line.
NamedBy(r, n, prefix) == r.line = n /\ r.id = Under(prefix, Subject(n))

LEMMA LegIsNamed ==
    ASSUME NEW n, NEW prefix, NEW amount, NEW r \in Leg(n, prefix, amount)
    PROVE  NamedBy(r, n, prefix)
<1> DEFINE id == Under(prefix, Subject(n))
<1>1. r = Record(n, id, amount, 0)
  BY Zenon DEF Leg
<1> HIDE DEF id
<1>2. r.line = n /\ r.id = id
  BY <1>1 DEF Record
<1> QED
  BY <1>2 DEF NamedBy, id

LEMMA LegIsOne ==
    ASSUME NEW n, NEW prefix, NEW amount,
           NEW r \in Leg(n, prefix, amount), NEW s \in Leg(n, prefix, amount)
    PROVE  r = s
  BY Zenon DEF Leg

LEMMA NamedIsNamed ==
    ASSUME NEW n, NEW amount
    PROVE  Named(n, amount).line = n /\ Named(n, amount).id = Body[n].key
  BY DEF Named, Record

\* Legs of one row under different prefixes are not named alike.
LEMMA LegsApart ==
    ASSUME NEW n, Subject(n) \in Names, NEW p, NEW q, p # q,
           NEW x, NamedBy(x, n, p), NEW y, NamedBy(y, n, q)
    PROVE  x.id # y.id
  BY NamesUnder DEF NamedBy

\* Nothing speaks against the row, so the first question was answered no.
LEMMA FirstQuestion ==
    ASSUME NEW row, Defects(row) = {}
    PROVE  /\ parser = "razorpay" => row.key # NoName /\ Balances(row)
           /\ parser = "shopify" => row.key # NoName /\ row.shape # "more"
<1>1. CASE parser = "razorpay"
  <2>1. /\ 1 \in DOMAIN RazorpayAsks(row) /\ RazorpayAsks(row)[1][1] = (row.key = NoName)
        /\ 6 \in DOMAIN RazorpayAsks(row) /\ RazorpayAsks(row)[6][1] = ~Balances(row)
    BY DEF RazorpayAsks
  <2> QED
    BY <1>1, <2>1, AskedOf DEF Defects
<1>2. CASE parser = "shopify"
  <2>1. /\ 1 \in DOMAIN ShopifyAsks(row)
        /\ ShopifyAsks(row)[1][1] = (row.key = NoName \/ row.shape = "more")
    BY DEF ShopifyAsks
  <2> QED
    BY <1>2, <2>1, AskedOf DEF Defects
<1> QED
  BY <1>1, <1>2

\* The records of one row name the row, and differ in their prefixes.
LEMMA RowNamesItsRecords ==
    ASSUME parser \in Layouts, NEW n, Defects(Body[n]) = {}, Subject(n) \in Names
    PROVE  /\ \A r \in RecordsFromRow(n) : r.line = n /\ Whose(r)
           /\ \A r, s \in RecordsFromRow(n) :
                /\ parser \in Bank => r = s
                /\ r.id = s.id => r = s
<1>1. CASE parser \in Bank
  <2> DEFINE r == Record(n, LineId(n), Net(Body[n]), Body[n].balance)
  <2>1. RecordsFromRow(n) = {r}
    BY <1>1, RecordsOf, Zenon
  <2>2. r.line = n /\ r.id = LineId(n)
    BY DEF Record
  <2> HIDE DEF r
  <2> QED
    BY <1>1, <2>1, <2>2 DEF Whose
<1>2. CASE parser = "razorpay"
  <2> DEFINE r == Named(n, Principal(Body[n]))
             fee == Leg(n, "fee", -Body[n].fee)
             tax == Leg(n, "tax", -Body[n].tax)
  <2>1. RecordsFromRow(n) = {r} \union fee \union tax
    BY <1>2, RecordsOf, Zenon
  <2>2. Body[n].key # NoName
    BY <1>2, FirstQuestion
  <2>3. r.line = n /\ r.id = Body[n].key /\ r.id = Subject(n)
    BY <2>2, NamedIsNamed, Zenon DEF Subject
  <2>4. (\A x \in fee : NamedBy(x, n, "fee")) /\ (\A x \in tax : NamedBy(x, n, "tax"))
    BY LegIsNamed, Zenon
  <2>5. (\A x, y \in fee : x = y) /\ (\A x, y \in tax : x = y)
    BY LegIsOne, Zenon
  <2> HIDE DEF r, fee, tax
  <2>6. \A x \in {r} \union fee \union tax :
          x.line = n /\ (x = r \/ \E prefix \in {"fee", "tax"} : x.id = Under(prefix, Subject(n)))
    BY <2>3, <2>4 DEF NamedBy
  <2>7. /\ \A x \in fee \union tax : x.id # r.id
        /\ \A x \in fee : \A y \in tax : x.id # y.id
    <3>1. "fee" # "tax"
      OBVIOUS
    <3>2. \A x \in fee \union tax : x.id # Subject(n)
      BY <2>4, NamesUnder DEF NamedBy
    <3>3. \A x \in fee : \A y \in tax : x.id # y.id
      BY <2>4, <3>1, LegsApart
    <3> QED
      BY <2>3, <3>2, <3>3
  <2>8. \A x, y \in {r} \union fee \union tax : x.id = y.id => x = y
    BY <2>5, <2>7
  <2>9. LegPrefixes = {"fee", "tax"} /\ parser \notin Bank
    BY <1>2 DEF LegPrefixes, Bank
  <2>10. \A x \in {r} \union fee \union tax : Whose(x)
    BY <1>2, <2>2, <2>3, <2>6, <2>9 DEF Whose, OwnName, LegName
  <2> QED
    BY <2>1, <2>6, <2>8, <2>9, <2>10
<1>3. CASE parser = "shopify"
  <2> DEFINE r == Named(n, Body[n].amount)
  <2>1. RecordsFromRow(n) = {r}
    BY <1>3, RecordsOf, Zenon
  <2>2. Body[n].key # NoName /\ Body[n].shape # "more"
    BY <1>3, FirstQuestion
  <2>3. r.line = n /\ r.id = Body[n].key
    BY NamedIsNamed, Zenon
  <2> HIDE DEF r
  <2> QED
    BY <1>3, <2>1, <2>2, <2>3 DEF OwnName, Whose, Bank
<1>4. CASE parser = "cod"
  <2> DEFINE collected == IF Body[n].kind = "COD" THEN Body[n].amount ELSE 0
             cod == Leg(n, "cod", collected)
             frt == Leg(n, "frt", -Body[n].fee)
             gst == Leg(n, "gst", -Body[n].tax)
  <2>1. RecordsFromRow(n) = cod \union frt \union gst
    BY <1>4, RecordsOf, Zenon
  <2> HIDE DEF collected
  <2>2. /\ \A x \in cod : NamedBy(x, n, "cod")
        /\ \A x \in frt : NamedBy(x, n, "frt")
        /\ \A x \in gst : NamedBy(x, n, "gst")
    BY LegIsNamed, Zenon
  <2>3. (\A x, y \in cod : x = y) /\ (\A x, y \in frt : x = y) /\ (\A x, y \in gst : x = y)
    BY LegIsOne, Zenon
  <2> HIDE DEF cod, frt, gst
  <2>4. \A x \in cod \union frt \union gst :
          x.line = n /\ \E prefix \in {"cod", "frt", "gst"} : x.id = Under(prefix, Subject(n))
    BY <2>2 DEF NamedBy
  <2>5. /\ \A x \in cod : \A y \in frt \union gst : x.id # y.id
        /\ \A x \in frt : \A y \in gst : x.id # y.id
    <3>1. "cod" # "frt" /\ "cod" # "gst" /\ "frt" # "gst"
      OBVIOUS
    <3>2. \A x \in cod : \A y \in frt : x.id # y.id
      BY <2>2, <3>1, LegsApart
    <3>3. \A x \in cod : \A y \in gst : x.id # y.id
      BY <2>2, <3>1, LegsApart
    <3>4. \A x \in frt : \A y \in gst : x.id # y.id
      BY <2>2, <3>1, LegsApart
    <3> QED
      BY <3>2, <3>3, <3>4
  <2>6. \A x, y \in cod \union frt \union gst : x.id = y.id => x = y
    BY <2>3, <2>5
  <2>7. LegPrefixes = {"cod", "frt", "gst"} /\ parser \notin Bank
    BY <1>4 DEF LegPrefixes, Bank
  <2>8. \A x \in cod \union frt \union gst : Whose(x)
    BY <1>4, <2>4, <2>7 DEF Whose, LegName
  <2> QED
    BY <2>1, <2>4, <2>6, <2>7, <2>8
<1> QED
  BY <1>1, <1>2, <1>3, <1>4 DEF Layouts, Bank

\* One turn of the loop keeps what it knows.
LEMMA MadeStep ==
    ASSUME IntakeInv, MadeInv, ReadRow
    PROVE  MadeInv'
<1> DEFINE row == Body[line]
           new == RecordsFromRow(line)
<1>1. /\ parser \in Layouts /\ parser' = parser /\ file' = file /\ line' = line + 1
      /\ line \in Nat \ {0} /\ Body' = Body /\ WholeRows' = WholeRows
  BY DEF ReadRow, MadeInv, Body, WholeRows
<1>2. line' \in Nat \ {0}
  <2> HIDE DEF row, new
  <2> QED
    BY <1>1
<1>3. \A r \in records : r.line \in WholeRows /\ r.line \in 1..line - 1 /\ Whose(r)
  BY <1>1 DEF MadeInv
<1>4. \A r : Whose(r)' <=> Whose(r)
  <2>1. \A n : LineId(n)' = LineId(n)
    BY <1>1 DEF LineId, CarriesIds
  <2>2. LegPrefixes' = LegPrefixes /\ \A n : Subject(n)' = Subject(n)
    BY <1>1 DEF LegPrefixes, Subject
  <2>3. \A r : (OwnName(r)' <=> OwnName(r)) /\ (LegName(r)' <=> LegName(r))
    BY <1>1, <2>2 DEF OwnName, LegName
  <2> QED
    BY <1>1, <2>1, <2>3 DEF Whose
<1>5. SUFFICES
        /\ \A r \in records' : r.line \in WholeRows /\ r.line \in 1..line' - 1 /\ Whose(r)
        /\ \A r, s \in records' : r.line = s.line =>
             (parser \in Bank => r = s) /\ (r.id = s.id => r = s)
        /\ \A r, s \in records' :
             parser \notin Bank /\ r.line # s.line /\ Body[r.line].key # NoName
             => Body[r.line].key # Body[s.line].key
  <2>2. \A n : Body'[n] = Body[n]
    BY <1>1
  <2> HIDE DEF row, new
  <2> QED
    BY <1>1, <1>4, <1>5, <1>2, <2>2 DEF MadeInv
<1>6. CASE records' = records
  <2>1. \A r \in records : r.line \in 1..line' - 1
    BY <1>1, <1>3
  <2>2. /\ \A r, s \in records : r.line = s.line =>
             (parser \in Bank => r = s) /\ (r.id = s.id => r = s)
        /\ \A r, s \in records :
             parser \notin Bank /\ r.line # s.line /\ Body[r.line].key # NoName
             => Body[r.line].key # Body[s.line].key
    BY <1>1 DEF MadeInv
  <2> HIDE DEF row, new
  <2> QED
    BY <1>3, <1>6, <2>1, <2>2
<1>7. CASE /\ records' = records \union new /\ line \in WholeRows /\ ~IsSkippedRow(row)
           /\ DuplicateKey(row) \notin Seen(line) /\ Defects(row) = {}
  <2>0. Subject(line) \in Names
    BY <1>1, <1>7, KeysAreNames DEF WholeRows
  <2>1. \A r \in new : r.line = line /\ Whose(r)
    BY <1>1, <1>7, <2>0, RowNamesItsRecords
  <2>2. \A r, s \in new : (parser \in Bank => r = s) /\ (r.id = s.id => r = s)
    BY <1>1, <1>7, <2>0, RowNamesItsRecords
  <2>3. ASSUME parser \notin Bank, NEW r \in records, row.key # NoName
        PROVE  Body[r.line].key # row.key
    <3>1. ~IsSkippedRow(Body[r.line])
      BY <1>3, <2>3 DEF Whose, IsSkippedRow
    <3>2. DuplicateKey(Body[r.line]) # DuplicateKey(row)
      BY <1>1, <1>3, <1>7, <3>1 DEF Seen
    <3> QED
      BY <2>3, <3>2 DEF DuplicateKey
  <2> HIDE DEF new, row
  <2>4. \A r \in records' : r.line \in WholeRows /\ r.line \in 1..line' - 1 /\ Whose(r)
    BY <1>1, <1>3, <1>7, <2>1
  <2>5. \A r, s \in records' : r.line = s.line =>
          (r \in records /\ s \in records) \/ (r \in new /\ s \in new)
    BY <1>1, <1>3, <1>7, <2>1
  <2>6. \A r, s \in records' : r.line = s.line =>
          (parser \in Bank => r = s) /\ (r.id = s.id => r = s)
    BY <1>1, <2>2, <2>5 DEF MadeInv
  <2>7. ASSUME parser \notin Bank, NEW r \in records', NEW s \in records',
               r.line # s.line, Body[r.line].key # NoName
        PROVE  Body[r.line].key # Body[s.line].key
    <3>1. CASE r \in records /\ s \in records
      BY <1>1, <2>7, <3>1 DEF MadeInv
    <3>2. CASE r \in new /\ s \in new
      BY <2>1, <2>7, <3>2
    <3>3. CASE r \in records /\ s \in new
      BY <2>1, <2>3, <2>7, <3>3 DEF row
    <3>4. CASE r \in new /\ s \in records
      BY <2>1, <2>3, <2>7, <3>4 DEF row
    <3> QED
      BY <1>7, <3>1, <3>2, <3>3, <3>4
  <2> QED
    BY <2>4, <2>6, <2>7
<1>8. \/ records' = records
      \/ /\ records' = records \union new /\ line \in WholeRows /\ ~IsSkippedRow(row)
         /\ DuplicateKey(row) \notin Seen(line) /\ Defects(row) = {}
  BY Zenon DEF ReadRow, Skip, Reject, Emit
<1> QED
  BY <1>7, <1>8, <1>6

----------------------------------------------------------------------------
\* The legs of a row come to the row.

RazorpayLegs(n) ==
    {Named(n, Principal(Body[n]))} \union Leg(n, "fee", -Body[n].fee)
    \union Leg(n, "tax", -Body[n].tax)
CodLegs(n) ==
    Leg(n, "cod", IF Body[n].kind = "COD" THEN Body[n].amount ELSE 0)
    \union Leg(n, "frt", -Body[n].fee) \union Leg(n, "gst", -Body[n].tax)

LegsAt(n) == {r \in records : r.line = n}
Keyed(row) == row.key # NoName

LegsInv ==
    \A n \in ReadLines :
        /\ file.formats = {"razorpay"} =>
             LegsAt(n) = RazorpayLegs(n) /\ Balances(Body[n]) /\ Keyed(Body[n])
        /\ file.formats = {"cod"} => LegsAt(n) = CodLegs(n)

LEMMA SameLegs ==
    ASSUME file' = file
    PROVE  /\ Body' = Body
           /\ \A n : /\ RazorpayLegs(n)' = RazorpayLegs(n) /\ CodLegs(n)' = CodLegs(n)
                     /\ Balances(Body[n])' <=> Balances(Body[n])
                     /\ Keyed(Body[n])' <=> Keyed(Body[n])
<1>1. Body' = Body
  BY DEF Body
<1>2. \A n, prefix, amount : Leg(n, prefix, amount)' = Leg(n, prefix, amount)
  BY <1>1 DEF Leg, Record, Subject, LineName, Under, NoName
<1>3. \A n, amount : Named(n, amount)' = Named(n, amount)
  BY <1>1 DEF Named, Record
<1>4. \A n : Principal(Body[n])' = Principal(Body[n]) /\ Net(Body[n])' = Net(Body[n])
  BY <1>1 DEF Principal, Net
<1>5. \A n : /\ Balances(Body[n])' <=> Balances(Body[n])
            /\ Keyed(Body[n])' <=> Keyed(Body[n])
  BY <1>1, <1>4 DEF Balances, Keyed
<1>6. \A n : RazorpayLegs(n)' = RazorpayLegs(n)
  BY <1>1, <1>2, <1>3, <1>4 DEF RazorpayLegs
<1>7. \A n : CodLegs(n)' = CodLegs(n)
  BY <1>1, <1>2 DEF CodLegs
<1> QED
  BY <1>1, <1>5, <1>6, <1>7

LEMMA LegsKept ==
    ASSUME LegsInv, file' = file, records' = records
    PROVE  LegsInv'
<1>1. ReadLines' = ReadLines /\ \A n : LegsAt(n)' = LegsAt(n)
  BY DEF ReadLines, LegsAt
<1> QED
  BY <1>1, SameLegs DEF LegsInv

LEMMA LegsStep ==
    ASSUME IntakeInv, MadeInv, LegsInv, ReadRow
    PROVE  LegsInv'
<1> DEFINE new == RecordsFromRow(line)
<1>1. parser \in Layouts /\ file' = file
  BY DEF ReadRow
<1>2. parser \in file.formats
  BY <1>1, WinnerIsSure DEF IntakeInv, ChosenInv, Adapters
<1>3. CASE records' = records
  BY <1>1, <1>3, LegsKept
<1>4. CASE records' = records \union new /\ Defects(Body[line]) = {}
  <2>0. line \in DOMAIN Body /\ line \in Nat \ {0}
    <3>1. line \in Nat \ {0} /\ \A n \in DOMAIN Body : n \in Nat
      BY <1>1, KeysAreNames DEF MadeInv
    <3> QED
      BY <3>1, LineInBody
  <2>1. (\A r \in new : r.line = line) /\ (\A r \in records : r.line \in 1..line - 1)
    <3>1. Subject(line) \in Names
      BY <1>1, <2>0, KeysAreNames
    <3> QED
      BY <1>1, <1>4, <3>1, RowNamesItsRecords DEF MadeInv
  <2>2. /\ parser = "razorpay" =>
             new = RazorpayLegs(line) /\ Balances(Body[line]) /\ Keyed(Body[line])
        /\ parser = "cod" => new = CodLegs(line)
    BY <1>4, RecordsOf, FirstQuestion DEF RazorpayLegs, CodLegs, Keyed
  <2> HIDE DEF new
  <2>3. line \in Nat
    BY <1>1 DEF MadeInv
  <2>4. \A n \in ReadLines' : n # line => n \in ReadLines /\ LegsAt(n)' = LegsAt(n)
    BY <1>4, <2>1 DEF ReadLines, LegsAt
  <2>5. {r \in records' : r.line = line} = new
    <3>1. \A r \in records : r.line # line
      BY <2>1, <2>3
    <3> QED
      BY <1>4, <2>1, <3>1
  <2>6. file.formats = {"razorpay"} => parser = "razorpay"
    BY <1>2
  <2>7. file.formats = {"cod"} => parser = "cod"
    BY <1>2
  <2> SUFFICES ASSUME NEW n \in ReadLines'
               PROVE  /\ file.formats = {"razorpay"} =>
                            /\ LegsAt(n)' = RazorpayLegs(n)
                            /\ Balances(Body[n]) /\ Keyed(Body[n])
                      /\ file.formats = {"cod"} => LegsAt(n)' = CodLegs(n)
    BY <1>1, SameLegs DEF LegsInv
  <2>8. CASE n = line
    <3>1. LegsAt(n)' = new
      BY <2>5, <2>8 DEF LegsAt
    <3> QED
      BY <2>2, <2>6, <2>7, <2>8, <3>1
  <2>9. CASE n # line
    BY <2>4, <2>9 DEF LegsInv
  <2> QED
    BY <2>8, <2>9
<1>5. records' = records \/ (records' = records \union new /\ Defects(Body[line]) = {})
  BY Zenon DEF ReadRow, Skip, Reject, Emit
<1> QED
  BY <1>3, <1>4, <1>5

\* A leg adds its amount to a sum, a zero one as well.
Reads(v, S) == \A r \in S : v[r] = r.amount
Adds(v, more, amount) == (more = {} /\ amount = 0) \/ \E x : more = {x} /\ v[x] = amount

LEMMA LegAdds ==
    ASSUME NEW n, NEW prefix, NEW amount, NEW v, Reads(v, Leg(n, prefix, amount))
    PROVE  Adds(v, Leg(n, prefix, amount), amount)
<1>1. CASE amount = 0
  BY <1>1 DEF Leg, Adds
<1>2. ASSUME NEW r, Leg(n, prefix, amount) = {r}, r.amount = amount
      PROVE  Adds(v, Leg(n, prefix, amount), amount)
  BY <1>2 DEF Adds, Reads
<1>3. CASE amount # 0
  <2> DEFINE r == Record(n, Under(prefix, Subject(n)), amount, 0)
  <2>1. Leg(n, prefix, amount) = {r}
    BY <1>3, Zenon DEF Leg
  <2>2. r.amount = amount
    BY DEF Record
  <2> QED
    BY <1>2, <2>1, <2>2, Zenon
<1> QED
  BY <1>1, <1>3

Sums(v, S, sum) ==
    IsFiniteSet(S) /\ (\A x \in S : v[x] \in Int) /\ sum \in Int /\ Total(v, S) = sum

LEMMA SumAdds ==
    ASSUME NEW v, NEW S, NEW sum, Sums(v, S, sum), NEW amount \in Int,
           NEW more, more \intersect S = {}, Adds(v, more, amount)
    PROVE  Sums(v, S \union more, sum + amount)
<1>1. (more = {} /\ amount = 0) \/ \E x : more = {x} /\ v[x] = amount
  BY Zenon DEF Adds
<1>2. /\ IsFiniteSet(S \union more) /\ \A x \in S \union more : v[x] \in Int
      /\ Total(v, S \union more) = Total(v, S) + amount
  BY <1>1, TotalMore, Zenon DEF Sums
<1>3. sum + amount \in Int /\ Total(v, S) = sum
  BY DEF Sums
<1> QED
  BY <1>2, <1>3, Zenon DEF Sums

LEMMA SumOfThree ==
    ASSUME NEW v, NEW A, NEW B, NEW C, NEW a \in Int, NEW b \in Int, NEW c \in Int,
           Adds(v, A, a), Adds(v, B, b), Adds(v, C, c),
           B \intersect A = {}, C \intersect (A \union B) = {}
    PROVE  Total(v, A \union B \union C) = a + b + c
<1>1. Sums(v, {}, 0)
  BY FS_EmptySet, TotalEmpty DEF Sums
<1>2. Sums(v, {} \union A, 0 + a)
  <2>1. A \intersect {} = {}
    OBVIOUS
  <2> QED
    BY <1>1, <2>1, SumAdds, Zenon
<1>3. Sums(v, A, a)
  <2>1. {} \union A = A /\ 0 + a = a
    OBVIOUS
  <2> QED
    BY <1>2, <2>1, Zenon
<1>4. Sums(v, A \union B, a + b)
  BY <1>3, SumAdds, Zenon
<1>5. Sums(v, A \union B \union C, a + b + c)
  BY <1>4, SumAdds, Zenon
<1> QED
  BY <1>5, Zenon DEF Sums

LEMMA RowComesTo ==
    ASSUME NEW row, RowTyped(row), Balances(row)
    PROVE  /\ Principal(row) \in Int /\ -row.fee \in Int /\ -row.tax \in Int
           /\ Principal(row) + (-row.fee) + (-row.tax) = Net(row)
<1>1. row.fee \in Int /\ row.tax \in Int /\ row.amount \in Int
  BY DEF RowTyped
<1>2. \A k \in Int : -k \in Int
  OBVIOUS
<1>3. Principal(row) \in Int
  BY <1>1, <1>2, Zenon DEF Principal
<1>4. -row.fee \in Int /\ -row.tax \in Int
  BY <1>1, <1>2, Zenon
<1>5. Principal(row) - row.fee - row.tax = Net(row)
  BY Zenon DEF Balances
<1>6. \A k, f, t \in Int : k + (-f) + (-t) = k - f - t
  OBVIOUS
<1> QED
  BY <1>1, <1>3, <1>4, <1>5, <1>6, Zenon

LEMMA RazorpaySum ==
    ASSUME NEW n, RowTyped(Body[n]), Subject(n) \in Names, Keyed(Body[n]), Balances(Body[n]),
           NEW v, Reads(v, RazorpayLegs(n))
    PROVE  Total(v, RazorpayLegs(n)) = Net(Body[n])
<1> DEFINE principal == Principal(Body[n])
           f == -Body[n].fee
           t == -Body[n].tax
           r == Named(n, principal)
           fee == Leg(n, "fee", f)
           tax == Leg(n, "tax", t)
<1>1. f \in Int /\ t \in Int /\ principal \in Int /\ principal + f + t = Net(Body[n])
  BY RowComesTo, Zenon
<1>2. r.amount = principal
  BY DEF Named, Record
<1>3. /\ r.id = Subject(n)
      /\ (\A x \in fee : NamedBy(x, n, "fee")) /\ (\A x \in tax : NamedBy(x, n, "tax"))
  <2>1. r.id = Subject(n)
    BY NamedIsNamed, Zenon DEF Keyed, Subject
  <2> QED
    BY <2>1, LegIsNamed, Zenon
<1>4. RazorpayLegs(n) = {r} \union fee \union tax
  BY Zenon DEF RazorpayLegs
<1>5. v[r] = principal /\ Reads(v, fee) /\ Reads(v, tax)
  <2> HIDE DEF r, fee, tax
  <2> QED
    BY <1>2, <1>4, Zenon DEF Reads
<1>6. Adds(v, {r}, principal) /\ Adds(v, fee, f) /\ Adds(v, tax, t)
  <2>1. Adds(v, fee, f) /\ Adds(v, tax, t)
    BY <1>5, LegAdds, Zenon
  <2>2. Adds(v, {r}, principal)
    BY <1>5, Zenon DEF Adds
  <2> QED
    BY <2>1, <2>2, Zenon
<1> HIDE DEF principal, f, t, r, fee, tax
<1>7. fee \intersect {r} = {} /\ tax \intersect ({r} \union fee) = {}
  <2>1. "fee" # "tax"
    OBVIOUS
  <2>2. \A x \in fee \union tax : x.id # Subject(n)
    BY <1>3, NamesUnder DEF NamedBy
  <2>3. \A x \in fee : \A y \in tax : x.id # y.id
    BY <1>3, <2>1, LegsApart
  <2> QED
    BY <1>3, <2>2, <2>3
<1>8. Total(v, {r} \union fee \union tax) = principal + f + t
  <2> DEFINE only == {r}
  <2>1. /\ Adds(v, only, principal) /\ Adds(v, fee, f) /\ Adds(v, tax, t)
        /\ fee \intersect only = {} /\ tax \intersect (only \union fee) = {}
        /\ principal \in Int /\ f \in Int /\ t \in Int
    BY <1>1, <1>6, <1>7
  <2> HIDE DEF only
  <2>2. Total(v, only \union fee \union tax) = principal + f + t
    BY <2>1, SumOfThree
  <2> QED
    BY <2>2 DEF only
<1> QED
  BY <1>1, <1>4, <1>8, Zenon

LEMMA CodSum ==
    ASSUME NEW n, RowTyped(Body[n]), Subject(n) \in Names, NEW v, Reads(v, CodLegs(n))
    PROVE  Total(v, CodLegs(n)) =
             (IF Body[n].kind = "COD" THEN Body[n].amount ELSE 0) - Body[n].fee - Body[n].tax
<1> DEFINE collected == IF Body[n].kind = "COD" THEN Body[n].amount ELSE 0
           f == -Body[n].fee
           t == -Body[n].tax
           cod == Leg(n, "cod", collected)
           frt == Leg(n, "frt", f)
           gst == Leg(n, "gst", t)
<1>1. /\ collected \in Int /\ f \in Int /\ t \in Int
      /\ collected - Body[n].fee - Body[n].tax = collected + f + t
  <2>1. Body[n].fee \in Int /\ Body[n].tax \in Int /\ Body[n].amount \in Int
    BY DEF RowTyped
  <2>2. 0 \in Int
    OBVIOUS
  <2>3. collected \in Int
    BY <2>1, <2>2, Zenon
  <2> HIDE DEF collected
  <2> QED
    BY <2>1, <2>3
<1>2. CodLegs(n) = cod \union frt \union gst
  BY Zenon DEF CodLegs
<1> HIDE DEF collected
<1>3. /\ \A x \in cod : NamedBy(x, n, "cod")
      /\ \A x \in frt : NamedBy(x, n, "frt")
      /\ \A x \in gst : NamedBy(x, n, "gst")
  BY LegIsNamed, Zenon
<1>4. Reads(v, cod) /\ Reads(v, frt) /\ Reads(v, gst)
  <2> HIDE DEF cod, frt, gst
  <2> QED
    BY <1>2, Zenon DEF Reads
<1>5. Adds(v, cod, collected) /\ Adds(v, frt, f) /\ Adds(v, gst, t)
  BY <1>4, LegAdds, Zenon
<1> HIDE DEF f, t, cod, frt, gst
<1>6. frt \intersect cod = {} /\ gst \intersect (cod \union frt) = {}
  <2>1. "cod" # "frt" /\ "cod" # "gst" /\ "frt" # "gst"
    OBVIOUS
  <2>2. \A x \in frt : \A y \in cod : x.id # y.id
    BY <1>3, <2>1, LegsApart
  <2>3. \A x \in gst : \A y \in cod : x.id # y.id
    BY <1>3, <2>1, LegsApart
  <2>4. \A x \in gst : \A y \in frt : x.id # y.id
    BY <1>3, <2>1, LegsApart
  <2> QED
    BY <2>2, <2>3, <2>4
<1>7. Total(v, cod \union frt \union gst) = collected + f + t
  BY <1>1, <1>5, <1>6, SumOfThree
<1>8. Total(v, CodLegs(n)) = collected - Body[n].fee - Body[n].tax
  BY <1>1, <1>2, <1>7, Zenon
<1> QED
  BY <1>8 DEF collected

----------------------------------------------------------------------------
\* An MT940 message: every movement of the statements that wait is named by its
\* line, and so is every record of the ones that were emitted.

Movement == [line : Nat, narration : Nat]
StatementType == [at : Nat, opening : Nat, closing : Nat, lines : Seq(Movement)]

MoveLine(s, i, k) == s[i].lines[k].line

MovesApart(s) ==
    \A i, j \in DOMAIN s : \A k \in DOMAIN s[i].lines : \A l \in DOMAIN s[j].lines :
        MoveLine(s, i, k) = MoveLine(s, j, l) => i = j /\ k = l

IsMove(s, n) == \E i \in DOMAIN s : \E k \in DOMAIN s[i].lines : MoveLine(s, i, k) = n

EmittedByLine(R) ==
    /\ \A r \in R : r.id[2] = r.line
    /\ \A r, s \in R : r.line = s.line => r = s

MtState ==
    /\ line \in Nat \ {0} /\ statements \in Seq(StatementType)
    /\ MovesApart(statements) /\ EmittedByLine(records)
    /\ \A n : IsMove(statements, n) => n \in 1..line - 1
    /\ \A r \in records : r.line \in 1..line - 1 /\ ~IsMove(statements, r.line)

\* A block changes the statement it belongs to by one movement at most.
Grown(s, t, n) ==
    /\ Len(t.lines) \in {Len(s.lines), Len(s.lines) + 1}
    /\ \A k \in 1..Len(s.lines) : t.lines[k].line = s.lines[k].line
    /\ Len(t.lines) = Len(s.lines) + 1 => t.lines[Len(s.lines) + 1].line = n

LEMMA PlacedLines ==
    ASSUME line \in Nat, NEW s \in StatementType, NEW l
    PROVE  Placed(s, l) \in StatementType /\ Grown(s, Placed(s, l), line)
<1> USE DEF Grown
<1> DEFINE Fits(t) == t \in StatementType /\ Grown(s, t, line)
<1>1. s.lines \in Seq(Movement) /\ Len(s.lines) \in Nat
  BY DEF StatementType
<1>2. Fits(s)
  BY <1>1
<1>3. Fits([s EXCEPT !.opening = line]) /\ Fits([s EXCEPT !.closing = line])
  BY <1>1 DEF StatementType
<1>4. Fits([s EXCEPT !.lines = Append(@, [line |-> line, narration |-> 0])])
  <2> DEFINE m == [line |-> line, narration |-> 0]
             e == Append(s.lines, m)
             t == [s EXCEPT !.lines = e]
  <2>1. m \in Movement /\ m.line = line
    BY DEF Movement
  <2>2. t \in StatementType /\ t.lines = e
    <3>1. e \in Seq(Movement)
      BY <1>1, <2>1
    <3> HIDE DEF e
    <3> QED
      BY <3>1 DEF StatementType
  <2> HIDE DEF m
  <2>3. /\ Len(e) = Len(s.lines) + 1 /\ e[Len(s.lines) + 1] = m
        /\ \A k \in 1..Len(s.lines) : e[k] = s.lines[k]
    BY <1>1, <2>1
  <2> HIDE DEF e, t
  <2>4. Fits(t)
    BY <1>1, <2>1, <2>2, <2>3
  <2> QED
    BY <2>4 DEF t, e, m
<1>5. ASSUME Unnarrated(s.lines)
      PROVE  Fits([s EXCEPT !.lines[Len(s.lines)].narration = line])
  <2> DEFINE n == Len(s.lines)
             m == [s.lines[n] EXCEPT !.narration = line]
             e == [s.lines EXCEPT ![n] = m]
             t == [s EXCEPT !.lines = e]
  <2>1. n \in 1..Len(s.lines) /\ s.lines[n] \in Movement
    BY <1>1, <1>5 DEF Unnarrated
  <2>2. m \in Movement /\ m.line = s.lines[n].line
    BY <2>1 DEF Movement
  <2> HIDE DEF m
  <2>3. /\ e \in Seq(Movement) /\ Len(e) = Len(s.lines)
        /\ \A k \in 1..Len(s.lines) : e[k].line = s.lines[k].line
    BY <1>1, <2>1, <2>2
  <2> HIDE DEF e
  <2>4. t \in StatementType /\ t.lines = e
    BY <2>3 DEF StatementType
  <2> HIDE DEF t
  <2>5. Fits(t)
    BY <1>1, <2>3, <2>4
  <2>6. t = [s EXCEPT !.lines[Len(s.lines)].narration = line]
    BY DEF t, e, m
  <2> QED
    BY <2>5, <2>6
<1>6. Fits(Placed(s, l))
  <2> HIDE DEF Fits
  <2> QED
    BY <1>2, <1>3, <1>4, <1>5, Zenon DEF Placed
<1> QED
  BY <1>6

\* So the movements that wait stay apart, the new one named by its line.
LEMMA MovesGrow ==
    ASSUME NEW s \in Seq(StatementType), s # <<>>, NEW t \in StatementType, NEW n,
           Grown(s[Len(s)], t, n), MovesApart(s), ~IsMove(s, n)
    PROVE  /\ [s EXCEPT ![Len(s)] = t] \in Seq(StatementType)
           /\ MovesApart([s EXCEPT ![Len(s)] = t])
           /\ \A m : IsMove([s EXCEPT ![Len(s)] = t], m) => IsMove(s, m) \/ m = n
<1> DEFINE u == [s EXCEPT ![Len(s)] = t]
           Stays(i, k) == k \in DOMAIN s[i].lines /\ MoveLine(u, i, k) = MoveLine(s, i, k)
           Added(i, k) == i = Len(s) /\ k = Len(s[i].lines) + 1 /\ MoveLine(u, i, k) = n
<1>1. /\ Len(s) \in DOMAIN s /\ u \in Seq(StatementType) /\ DOMAIN u = DOMAIN s
      /\ \A i \in DOMAIN s : u[i] = IF i = Len(s) THEN t ELSE s[i]
  OBVIOUS
<1>2. /\ t.lines \in Seq(Movement) /\ \A i \in DOMAIN s : s[i].lines \in Seq(Movement)
  <2>1. \A x \in StatementType : x.lines \in Seq(Movement)
    BY DEF StatementType
  <2>2. \A i \in DOMAIN s : s[i] \in StatementType
    OBVIOUS
  <2> QED
    BY <2>1, <2>2, Zenon
<1> HIDE DEF u
<1>3. ASSUME NEW i \in DOMAIN s, NEW k \in DOMAIN u[i].lines
      PROVE  Stays(i, k) \/ Added(i, k)
  <2>1. CASE i # Len(s)
    BY <1>1, <1>2, <2>1 DEF MoveLine
  <2>2. CASE i = Len(s)
    <3>1. u[i] = t /\ Len(s[i].lines) \in Nat /\ Len(t.lines) \in Nat
      BY <1>1, <1>2, <2>2
    <3>2. CASE k \in 1..Len(s[i].lines)
      BY <1>2, <2>2, <3>1, <3>2 DEF MoveLine, Grown
    <3>3. CASE k \notin 1..Len(s[i].lines)
      BY <1>2, <2>2, <3>1, <3>3 DEF MoveLine, Grown
    <3> QED
      BY <3>2, <3>3
  <2> QED
    BY <2>1, <2>2
<1>4. \A i \in DOMAIN s : \A k \in DOMAIN s[i].lines : MoveLine(s, i, k) # n
  BY DEF IsMove
<1>5. \A i, j \in DOMAIN s : \A k \in DOMAIN s[i].lines : \A l \in DOMAIN s[j].lines :
        MoveLine(s, i, k) = MoveLine(s, j, l) => i = j /\ k = l
  BY DEF MovesApart
<1>6. ASSUME NEW i \in DOMAIN u, NEW j \in DOMAIN u,
             NEW k \in DOMAIN u[i].lines, NEW l \in DOMAIN u[j].lines,
             MoveLine(u, i, k) = MoveLine(u, j, l)
      PROVE  i = j /\ k = l
  <2>1. (Stays(i, k) \/ Added(i, k)) /\ (Stays(j, l) \/ Added(j, l))
    BY <1>1, <1>3
  <2> QED
    BY <1>1, <1>4, <1>5, <1>6, <2>1
<1>7. MovesApart(u)
  BY <1>6 DEF MovesApart
<1>8. \A m : IsMove(u, m) => IsMove(s, m) \/ m = n
  BY <1>1, <1>3 DEF IsMove
<1> QED
  BY <1>1, <1>7, <1>8 DEF u

LEMMA OpenStatement ==
    ASSUME MtState, NEW l
    PROVE  /\ Current(l) \in Seq(StatementType) /\ Current(l) # <<>>
           /\ MovesApart(Current(l))
           /\ \A n : IsMove(Current(l), n) <=> IsMove(statements, n)
<1>1. statements \in Seq(StatementType) /\ MovesApart(statements) /\ line \in Nat
  BY DEF MtState
<1> DEFINE a == Append(statements, Statement(line))
<1>2. Statement(line) \in StatementType /\ DOMAIN Statement(line).lines = {}
  BY <1>1 DEF Statement, StatementType
<1>3. /\ a \in Seq(StatementType) /\ a # <<>> /\ DOMAIN a = DOMAIN statements \union {Len(a)}
      /\ DOMAIN a[Len(a)].lines = {} /\ Len(a) \notin DOMAIN statements
      /\ \A i \in DOMAIN statements : a[i] = statements[i]
  BY <1>1, <1>2
<1> HIDE DEF a
<1>4. \A i \in DOMAIN a : \A k \in DOMAIN a[i].lines :
        /\ i \in DOMAIN statements /\ k \in DOMAIN statements[i].lines
        /\ MoveLine(a, i, k) = MoveLine(statements, i, k)
  BY <1>3 DEF MoveLine
<1>5. MovesApart(a)
  BY <1>1, <1>4 DEF MovesApart
<1>6. \A n : IsMove(a, n) <=> IsMove(statements, n)
  <2>1. \A i \in DOMAIN statements : \A k \in DOMAIN statements[i].lines :
          i \in DOMAIN a /\ k \in DOMAIN a[i].lines /\ MoveLine(a, i, k) = MoveLine(statements, i, k)
    BY <1>3 DEF MoveLine
  <2>2. \A n : IsMove(a, n) => IsMove(statements, n)
    BY <1>4 DEF IsMove
  <2>3. \A n : IsMove(statements, n) => IsMove(a, n)
    BY <2>1, Zenon DEF IsMove
  <2> QED
    BY <2>2, <2>3
<1> QED
  BY <1>1, <1>3, <1>5, <1>6 DEF Current, a

LEMMA MtReadTag ==
    ASSUME MtState, ReadTag
    PROVE  MtState'
<1> DEFINE l == Body[line]
           open == Current(l)
           t == Placed(open[Len(open)], l)
<1>1. /\ line \in Nat \ {0} /\ line' = line + 1 /\ records' = records
      /\ statements \in Seq(StatementType) /\ MovesApart(statements) /\ EmittedByLine(records)
      /\ \A n : IsMove(statements, n) => n \in 1..line - 1
      /\ \A r \in records : r.line \in 1..line - 1 /\ ~IsMove(statements, r.line)
  BY DEF MtState, ReadTag, result
<1>2. line' \in Nat \ {0} /\ line \notin 1..line - 1 /\ line \in 1..line' - 1
      /\ \A n : n \in 1..line - 1 => n \in 1..line' - 1
  <2> HIDE DEF l, open, t
  <2> QED
    BY <1>1
<1>3. CASE statements' = statements
  <2> HIDE DEF l, open, t
  <2> QED
    BY <1>1, <1>2, <1>3 DEF MtState
<1>4. CASE statements' = [open EXCEPT ![Len(open)] = t]
  <2>1. /\ open \in Seq(StatementType) /\ open # <<>> /\ MovesApart(open)
        /\ \A n : IsMove(open, n) <=> IsMove(statements, n)
    BY OpenStatement, Zenon
  <2>2. ~IsMove(open, line)
    <3> HIDE DEF l, open, t
    <3> QED
      BY <1>1, <1>2, <2>1
  <2>3. open[Len(open)] \in StatementType
    <3> HIDE DEF l, open, t
    <3> QED
      BY <2>1
  <2>4. t \in StatementType /\ Grown(open[Len(open)], t, line)
    BY <1>1, <2>3, PlacedLines, Zenon
  <2> HIDE DEF l, open, t
  <2>5. /\ statements' \in Seq(StatementType) /\ MovesApart(statements')
        /\ \A m : IsMove(statements', m) => IsMove(open, m) \/ m = line
    BY <1>4, <2>1, <2>2, <2>4, MovesGrow, Zenon
  <2>6. /\ \A n : IsMove(statements', n) => n \in 1..line' - 1
        /\ \A r \in records' : r.line \in 1..line' - 1 /\ ~IsMove(statements', r.line)
    BY <1>1, <1>2, <2>1, <2>5
  <2> QED
    BY <1>1, <1>2, <2>5, <2>6 DEF MtState
<1>5. statements' = statements \/ statements' = [open EXCEPT ![Len(open)] = t]
  BY Zenon DEF ReadTag
<1> QED
  BY <1>3, <1>4, <1>5

\* Settling a statement emits its movements or none, and it waits no more.
LEMMA MtSettle ==
    ASSUME MtState, SettleStatement
    PROVE  MtState' /\ EmittedByLine(records')
<1>1. /\ line \in Nat \ {0} /\ line' = line
      /\ statements \in Seq(StatementType) /\ MovesApart(statements) /\ EmittedByLine(records)
      /\ \A n : IsMove(statements, n) => n \in 1..line - 1
      /\ \A r \in records : r.line \in 1..line - 1 /\ ~IsMove(statements, r.line)
  BY DEF MtState, SettleStatement
<1>2. CASE UNCHANGED <<statements, records>>
  BY <1>1, <1>2 DEF MtState
<1>3. CASE statements # <<>> /\ Settle(Head(statements)) /\ statements' = Tail(statements)
  <2> DEFINE s == Head(statements)
             u == Tail(statements)
             rec(i) == Record(s.lines[i].line, Under("mt940", LineName(s.lines[i].line)),
                              Body[s.lines[i].line].amount, Running(s, i))
  <2>1. /\ u \in Seq(StatementType) /\ s = statements[1] /\ 1 \in DOMAIN statements
        /\ \A i \in DOMAIN u : i + 1 \in DOMAIN statements /\ u[i] = statements[i + 1] /\ i + 1 # 1
    BY <1>1, <1>3
  <2>2. records' = records \/ records' = records \union {rec(i) : i \in DOMAIN s.lines}
    BY <1>3, Zenon DEF Settle, Refuse, Emit
  <2> HIDE DEF s, u
  <2>3. \A i \in DOMAIN u : \A k \in DOMAIN u[i].lines :
          /\ i + 1 \in DOMAIN statements /\ k \in DOMAIN statements[i + 1].lines
          /\ MoveLine(u, i, k) = MoveLine(statements, i + 1, k)
    BY <2>1 DEF MoveLine
  <2>4. MovesApart(u)
    <3>1. DOMAIN u \subseteq Nat
      BY <2>1
    <3>2. \A i, j \in Nat : i + 1 = j + 1 => i = j
      OBVIOUS
    <3> QED
      BY <1>1, <2>3, <3>1, <3>2 DEF MovesApart
  <2>5. \A n : IsMove(u, n) => IsMove(statements, n)
    BY <2>3 DEF IsMove
  <2>6. \A k \in DOMAIN s.lines : IsMove(statements, s.lines[k].line) /\ ~IsMove(u, s.lines[k].line)
    <3> SUFFICES ASSUME NEW k \in DOMAIN s.lines
                 PROVE  IsMove(statements, s.lines[k].line) /\ ~IsMove(u, s.lines[k].line)
      OBVIOUS
    <3>1. MoveLine(statements, 1, k) = s.lines[k].line /\ k \in DOMAIN statements[1].lines
      BY <2>1 DEF MoveLine
    <3>2. IsMove(statements, s.lines[k].line)
      BY <2>1, <3>1 DEF IsMove
    <3>3. ASSUME NEW i \in DOMAIN u, NEW l \in DOMAIN u[i].lines,
                 MoveLine(u, i, l) = s.lines[k].line
          PROVE  FALSE
      <4>1. i + 1 = 1
        BY <1>1, <2>1, <2>3, <3>1, <3>3 DEF MovesApart
      <4> QED
        BY <2>1, <4>1
    <3> QED
      BY <3>2, <3>3 DEF IsMove
  <2>7. \A k, l \in DOMAIN s.lines : s.lines[k].line = s.lines[l].line => k = l
    BY <1>1, <2>1 DEF MovesApart, MoveLine
  <2>8. \A k \in DOMAIN s.lines :
          /\ rec(k).line = s.lines[k].line
          /\ rec(k).id[2] = s.lines[k].line
    BY DEF Record, Under, LineName
  <2> HIDE DEF rec
  <2>9. \A r \in records' : r.line \in 1..line - 1 /\ ~IsMove(u, r.line)
    BY <1>1, <2>2, <2>5, <2>6, <2>8
  <2>10. EmittedByLine(records')
    <3>1. \A r \in records : \A k \in DOMAIN s.lines : r.line # rec(k).line
      BY <1>1, <2>6, <2>8
    <3>2. \A r \in records' : r.id[2] = r.line
      BY <1>1, <2>2, <2>8 DEF EmittedByLine
    <3>3. \A k, l \in DOMAIN s.lines : rec(k).line = rec(l).line => rec(k) = rec(l)
      BY <2>7, <2>8
    <3>4. \A r, q \in records' : r.line = q.line => r = q
      BY <1>1, <2>2, <3>1, <3>3 DEF EmittedByLine
    <3> QED
      BY <3>2, <3>4 DEF EmittedByLine
  <2>11. statements' = u
    BY <1>3 DEF u
  <2> QED
    BY <1>1, <2>1, <2>4, <2>5, <2>9, <2>10, <2>11 DEF MtState
<1>4. CASE statements = <<>> /\ UNCHANGED <<statements, records>>
  BY <1>2, <1>4
<1>5. \/ UNCHANGED <<statements, records>>
      \/ statements # <<>> /\ Settle(Head(statements)) /\ statements' = Tail(statements)
  BY Zenon DEF SettleStatement, Reject
<1>6. EmittedByLine(records)' => EmittedByLine(records')
  BY DEF EmittedByLine
<1> QED
  BY <1>2, <1>3, <1>5, <1>6 DEF MtState

LEMMA EmittedAreUnique ==
    ASSUME EmittedByLine(records)
    PROVE  UniqueIds
  BY DEF EmittedByLine, UniqueIds

----------------------------------------------------------------------------
\* A PDF statement: the rows rebuilt so far and the one being rebuilt begin on
\* lines of their own.

Pending == IF pending = <<>> THEN line ELSE Head(pending)

SliceState ==
    /\ records = {} /\ line \in Nat \ {0}
    /\ pending \in Seq(Nat) /\ Pending \in 1..line
    /\ \E S : rows \in Seq(S)
    /\ \A i \in DOMAIN rows : rows[i].line \in 1..Pending - 1
    /\ \A i, j \in DOMAIN rows : rows[i].line = rows[j].line => i = j

\* Reading a line moves on where the row being rebuilt begins, or keeps it; a
\* row that is finished began there.
LEMMA SliceMoves ==
    ASSUME SliceState, ReadLine \/ EndOfPages
    PROVE  /\ records' = records /\ line' \in {line, line + 1}
           /\ \/ pending' = pending /\ rows' = rows /\ (pending = <<>> => line' = line + 1)
              \/ pending' = <<>> /\ rows' = rows
              \/ pending' = Append(pending, line) /\ rows' = rows /\ line' = line + 1
              \/ /\ pending' = <<>> /\ line' = line + 1
                 /\ \E row : rows' = Append(rows, row) /\ row.line = Head(Append(pending, line))
<1> DEFINE lines == Append(pending, line)
<1>1. Rebuilt(lines).line = Head(lines)
  BY DEF Rebuilt
<1> HIDE DEF lines
<1>2. CASE EndOfPages
  BY <1>2, Zenon DEF EndOfPages, Unterminated, Reject
<1>3. CASE ReadLine
  <2>1. line' = line + 1
    BY <1>3, Zenon DEF ReadLine
  <2>2. FinishRow(lines) =>
          /\ records' = records /\ pending' = <<>>
          /\ rows' = rows \/ (rows' = Append(rows, Rebuilt(lines)))
    BY Zenon DEF FinishRow, Reject, result
  <2>3. \/ records' = records /\ pending' = pending /\ rows' = rows
        \/ records' = records /\ pending' = <<>> /\ rows' = rows
        \/ records' = records /\ pending' = lines /\ rows' = rows
        \/ FinishRow(lines)
    BY <1>3, Zenon DEF ReadLine, Unterminated, Reject, Skip, result, sliceVars, lines
  <2> QED
    BY <1>1, <2>1, <2>2, <2>3, Zenon DEF lines
<1> QED
  BY <1>2, <1>3

\* Where the row being rebuilt begins never moves up.
LEMMA StartMoves ==
    ASSUME SliceState, ReadLine \/ EndOfPages
    PROVE  Pending' \in Pending..line' /\ Pending' \in Int /\ (pending' = <<>> => Pending' = line')
<1>1. pending \in Seq(Nat) /\ Pending \in 1..line /\ line \in Nat \ {0}
  BY DEF SliceState
<1>2. line' \in {line, line + 1}
  BY SliceMoves
<1>3. CASE pending' = pending /\ (pending = <<>> => line' = line + 1)
  BY <1>1, <1>2, <1>3 DEF Pending
<1>4. CASE pending' = <<>>
  BY <1>1, <1>2, <1>4 DEF Pending
<1>5. CASE pending' = Append(pending, line) /\ line' = line + 1
  <2>1. Append(pending, line) # <<>> /\ Head(Append(pending, line)) = Pending
    <3>1. CASE pending = <<>>
      BY <1>1, <3>1 DEF Pending
    <3>2. CASE pending # <<>>
      BY <1>1, <3>2 DEF Pending
    <3> QED
      BY <3>1, <3>2
  <2> QED
    BY <1>1, <1>5, <2>1 DEF Pending
<1> QED
  BY <1>3, <1>4, <1>5, SliceMoves

LEMMA SliceStep ==
    ASSUME SliceState, ReadLine \/ EndOfPages
    PROVE  SliceState'
<1>1. /\ records = {} /\ line \in Nat \ {0}
      /\ pending \in Seq(Nat) /\ Pending \in 1..line
      /\ \A i \in DOMAIN rows : rows[i].line \in 1..Pending - 1
      /\ \A i, j \in DOMAIN rows : rows[i].line = rows[j].line => i = j
  BY DEF SliceState
<1>2. PICK S : rows \in Seq(S)
  BY DEF SliceState
<1>3. records' = {} /\ line' \in Nat \ {0} /\ pending' \in Seq(Nat)
  <2>1. pending' \in {pending, <<>>, Append(pending, line)} /\ line' \in {line, line + 1}
        /\ records' = records
    BY SliceMoves, Zenon
  <2>2. Append(pending, line) \in Seq(Nat) /\ <<>> \in Seq(Nat)
    BY <1>1
  <2>3. line + 1 \in Nat \ {0}
    BY <1>1
  <2> QED
    BY <1>1, <2>1, <2>2, <2>3, Zenon
<1>4. ASSUME rows' = rows, Pending' \in Pending..line'
      PROVE  SliceState'
  <2>1. \A i \in DOMAIN rows : rows[i].line \in 1..Pending' - 1
    BY <1>1, <1>3, <1>4
  <2>2. Pending' \in 1..line'
    BY <1>1, <1>3, <1>4
  <2> QED
    BY <1>1, <1>2, <1>3, <1>4, <2>1, <2>2 DEF SliceState
<1>5. CASE rows' = rows
  <2>1. Pending' \in Pending..line'
    BY StartMoves
  <2> QED
    BY <1>4, <1>5, <2>1
<1>6. ASSUME pending' = <<>>, line' = line + 1, NEW row,
             rows' = Append(rows, row), row.line = Head(Append(pending, line))
      PROVE  SliceState'
  <2>1. Pending' = line + 1 /\ row.line = Pending
    BY <1>1, <1>6 DEF Pending
  <2> DEFINE a == Append(rows, row)
  <2>2. /\ a \in Seq(S \union {row}) /\ DOMAIN a = DOMAIN rows \union {Len(a)}
        /\ a[Len(a)] = row /\ Len(a) \notin DOMAIN rows
        /\ \A i \in DOMAIN rows : a[i] = rows[i]
    <3>1. rows \in Seq(S \union {row})
      BY <1>2
    <3> QED
      BY <3>1
  <2> HIDE DEF a
  <2>3. \A i \in DOMAIN rows : rows[i].line \in 1..Pending' - 1 /\ rows[i].line # row.line
    BY <1>1, <2>1
  <2>4. row.line \in 1..Pending' - 1
    BY <1>1, <2>1
  <2>5. \A i \in DOMAIN a : a[i].line \in 1..Pending' - 1
    BY <2>2, <2>3, <2>4
  <2>6. \A i, j \in DOMAIN a : a[i].line = a[j].line => i = j
    BY <1>1, <2>2, <2>3
  <2>7. Pending' \in 1..line'
    BY <1>1, <1>6, <2>1
  <2> QED
    BY <1>3, <1>6, <2>2, <2>5, <2>6, <2>7 DEF SliceState, a
<1> QED
  BY <1>5, <1>6, SliceMoves, Zenon

\* The rows that keep their place in the chain become records of their own.
LEMMA ChainedAreUnique ==
    ASSUME SliceState, ValidateChain
    PROVE  UniqueIds'
<1> DEFINE rec(i) == Record(rows[i].line, Under("slice", LineName(rows[i].line)), rows[i].amount,
                            rows[i].balance)
<1>1. \A r \in records' : \E i \in DOMAIN rows : r = rec(i)
  BY Zenon DEF ValidateChain
<1>2. \A i \in DOMAIN rows : rec(i).id[2] = rows[i].line
  BY DEF Record, Under, LineName
<1> HIDE DEF rec
<1>3. \A i, j \in DOMAIN rows : rec(i).id = rec(j).id => i = j
  BY <1>2 DEF SliceState
<1> QED
  BY <1>1, <1>3 DEF UniqueIds

----------------------------------------------------------------------------
\* The records of any file.

\* Before an adapter has begun there is nothing, and where none did no records.
FreshInv ==
    /\ parser \in {"unread", "refused", "raised"} => records = {}
    /\ parser = "unread" => line = 1 /\ statements = <<>> /\ pending = <<>> /\ rows = <<>>

ReportInv == parser \in {"parsed", "done"} => UniqueIds /\ OneNaming

RecordsInv ==
    /\ FreshInv /\ MadeInv /\ LegsInv /\ ReportInv
    /\ parser = "mt940" => MtState
    /\ parser = "slice" => SliceState

LEMMA NoRecords ==
    ASSUME records = {}
    PROVE  UniqueIds /\ OneNaming /\ LegsInv /\ EmittedByLine(records)
  BY DEF UniqueIds, OneNaming, LegsInv, ReadLines, EmittedByLine

LEMMA InitRecords == Init => RecordsInv
<1> SUFFICES ASSUME Init PROVE RecordsInv
  OBVIOUS
<1>1. /\ parser = "unread" /\ line = 1 /\ records = {}
      /\ statements = <<>> /\ pending = <<>> /\ rows = <<>>
  BY DEF Init, Mt940Init, SliceInit
<1> QED
  BY <1>1, NoRecords DEF RecordsInv, FreshInv, MadeInv, ReportInv, Layouts

\* An adapter begins where nothing was read.
LEMMA OpenRecords ==
    ASSUME RecordsInv, Open
    PROVE  RecordsInv'
<1>1. /\ parser = "unread" /\ line = 1 /\ records = {}
      /\ statements = <<>> /\ pending = <<>> /\ rows = <<>>
      /\ line' = line /\ statements' = statements /\ pending' = pending /\ rows' = rows
  BY DEF Open, RecordsInv, FreshInv, mt940Vars, sliceVars
<1>2. records' = records /\ parser' \in Adapters \union {"raised", "parsed"}
  BY Zenon DEF Open, Reject, result, Winners
<1>3. parser' # "unread"
  BY <1>2 DEF Adapters, Layouts
<1>4. FreshInv' /\ MadeInv'
  BY <1>1, <1>2, <1>3 DEF FreshInv, MadeInv
<1>5. UniqueIds' /\ OneNaming' /\ LegsInv' /\ EmittedByLine(records')
  BY <1>1, <1>2 DEF UniqueIds, OneNaming, LegsInv, ReadLines, EmittedByLine
<1>6. MtState'
  <2>1. DOMAIN statements' = {} /\ statements' \in Seq(StatementType)
    BY <1>1
  <2>2. MovesApart(statements') /\ \A n : ~IsMove(statements', n)
    BY <2>1 DEF MovesApart, IsMove
  <2> QED
    BY <1>1, <1>2, <1>5, <2>1, <2>2 DEF MtState
<1>7. SliceState'
  <2>1. DOMAIN rows' = {} /\ rows' \in Seq({}) /\ pending' \in Seq(Nat)
    BY <1>1
  <2> QED
    BY <1>1, <1>2, <2>1 DEF SliceState, Pending
<1> QED
  BY <1>4, <1>5, <1>6, <1>7 DEF RecordsInv, ReportInv

\* The formats of the file name the adapter that reads it.
LEMMA OnlyFormat ==
    ASSUME IntakeInv
    PROVE  /\ parser \in Layouts /\ file.formats \subseteq Bank => parser \in Bank
           /\ parser \in {"mt940", "slice"} =>
                /\ ~(file.formats \subseteq Bank)
                /\ file.formats # {"razorpay"} /\ file.formats # {"cod"}
<1>1. parser \in Adapters => parser \in file.formats
  BY WinnerIsSure DEF IntakeInv, ChosenInv
<1> QED
  BY <1>1 DEF Adapters, Bank

LEMMA NextRecords == IntakeInv /\ RecordsInv /\ [Next]_vars => RecordsInv'
<1> SUFFICES ASSUME IntakeInv, RecordsInv, [Next]_vars PROVE RecordsInv'
  OBVIOUS
<1>1. file' = file
  BY DEF Next, RefuseFile, Open, EndRows, Answer, ReadRow, ReadTag, SettleStatement, ReadLine,
         EndOfPages, ValidateChain, vars
<1>2. FreshInv /\ MadeInv /\ LegsInv /\ ReportInv
      /\ (parser = "mt940" => MtState) /\ (parser = "slice" => SliceState)
  BY DEF RecordsInv
<1>3. ASSUME records' = records
      PROVE  /\ LegsInv' /\ (UniqueIds => UniqueIds') /\ (OneNaming => OneNaming')
  <2>1. Body' = Body /\ \A n, m : Namesake(n, m)' <=> Namesake(n, m)
    BY <1>1 DEF Body, Namesake
  <2> QED
    BY <1>1, <1>2, <1>3, <2>1, LegsKept DEF UniqueIds, OneNaming
<1>4. CASE Open
  BY <1>4, OpenRecords
<1>5. CASE RefuseFile
  <2>1. records' = records /\ parser' = "refused" /\ parser = "unread"
    BY <1>5 DEF RefuseFile, result
  <2> QED
    BY <1>2, <1>3, <2>1 DEF RecordsInv, FreshInv, MadeInv, ReportInv, Layouts
<1>6. CASE EndRows
  <2>1. records' = records /\ parser' = "parsed" /\ parser \in Layouts
    BY <1>6 DEF EndRows, result
  <2>2. UniqueIds /\ OneNaming
    BY <1>2, <2>1, MadeAreUnique, OnlyFormat DEF OneNaming
  <2> QED
    BY <1>2, <1>3, <2>1, <2>2 DEF RecordsInv, FreshInv, MadeInv, ReportInv, Layouts
<1>7. CASE Answer
  <2>1. records' = records /\ parser' = "done" /\ parser = "parsed"
    BY <1>7 DEF Answer, Reject, result
  <2> QED
    BY <1>2, <1>3, <2>1 DEF RecordsInv, FreshInv, MadeInv, ReportInv, Layouts
<1>8. CASE ReadRow
  <2>1. parser \in Layouts /\ parser' = parser
    BY <1>8 DEF ReadRow
  <2>2. MadeInv' /\ LegsInv'
    BY <1>2, <1>8, MadeStep, LegsStep
  <2> QED
    BY <2>1, <2>2 DEF RecordsInv, FreshInv, ReportInv, Layouts
<1>9. CASE ReadTag
  <2>1. records' = records /\ parser = "mt940" /\ parser' = "mt940"
    BY <1>9 DEF ReadTag, result
  <2>2. MtState'
    BY <1>2, <1>9, <2>1, MtReadTag
  <2> QED
    BY <1>3, <2>1, <2>2 DEF RecordsInv, FreshInv, MadeInv, ReportInv, Layouts
<1>10. CASE SettleStatement
  <2>1. parser = "mt940" /\ parser' \in {"mt940", "parsed"}
    BY <1>10, Zenon DEF SettleStatement
  <2>2. MtState' /\ UniqueIds'
    BY <1>2, <1>10, <2>1, MtSettle DEF EmittedByLine, UniqueIds
  <2>3. OneNaming' /\ LegsInv'
    BY <1>1, <2>1, OnlyFormat DEF OneNaming, LegsInv
  <2> QED
    BY <2>1, <2>2, <2>3 DEF RecordsInv, FreshInv, MadeInv, ReportInv, Layouts
<1>11. CASE ReadLine \/ EndOfPages
  <2>1. parser = "slice" /\ parser' = "slice"
    BY <1>11 DEF ReadLine, EndOfPages
  <2>2. SliceState'
    BY <1>2, <1>11, <2>1, SliceStep
  <2>3. LegsInv'
    BY <1>1, <2>1, OnlyFormat DEF LegsInv
  <2> QED
    BY <2>1, <2>2, <2>3 DEF RecordsInv, FreshInv, MadeInv, ReportInv, Layouts
<1>12. CASE ValidateChain
  <2>1. parser = "slice" /\ parser' = "parsed"
    BY <1>12 DEF ValidateChain
  <2>2. UniqueIds'
    BY <1>2, <1>12, <2>1, ChainedAreUnique
  <2>3. OneNaming' /\ LegsInv'
    BY <1>1, <2>1, OnlyFormat DEF OneNaming, LegsInv
  <2> QED
    BY <2>1, <2>2, <2>3 DEF RecordsInv, FreshInv, MadeInv, ReportInv, Layouts
<1>13. CASE UNCHANGED vars
  <2>1. /\ records' = records /\ parser' = parser /\ line' = line /\ statements' = statements
        /\ pending' = pending /\ rows' = rows
    BY <1>13 DEF vars, result, mt940Vars, sliceVars
  <2>2. FreshInv' /\ ReportInv'
    BY <1>2, <1>3, <2>1 DEF FreshInv, ReportInv
  <2>3. (MtState => MtState') /\ (SliceState => SliceState')
    BY <2>1 DEF MtState, SliceState, Pending
  <2>4. MadeInv'
    <3>1. Body' = Body /\ WholeRows' = WholeRows
      BY <1>1 DEF Body, WholeRows
    <3>2. \A n : LineId(n)' = LineId(n)
      BY <2>1, <3>1 DEF LineId, CarriesIds
    <3>3. LegPrefixes' = LegPrefixes /\ \A n : Subject(n)' = Subject(n)
      BY <2>1, <3>1 DEF LegPrefixes, Subject
    <3>4. \A r : (OwnName(r)' <=> OwnName(r)) /\ (LegName(r)' <=> LegName(r))
      BY <2>1, <3>1, <3>3 DEF OwnName, LegName
    <3>5. \A r : Whose(r)' <=> Whose(r)
      BY <2>1, <3>1, <3>2, <3>4 DEF Whose
    <3> QED
      BY <1>2, <2>1, <3>1, <3>5 DEF MadeInv
  <2> QED
    BY <1>2, <1>3, <2>1, <2>2, <2>3, <2>4 DEF RecordsInv
<1> QED
  BY <1>4, <1>5, <1>6, <1>7, <1>8, <1>9, <1>10, <1>11, <1>12, <1>13 DEF Next

\* csv_source.py, mt940.py and bank_slice.py: two records of a file share an
\* identity only where a row carries the name made up for another's leg, a
\* statement names its lines in one way, and the legs of a settlement or
\* remittance row of any file come to what the row says.
THEOREM RecordsFollowRows == Spec => []RecordsAreTheRows
<1>1. Spec => []RecordsInv
  BY InitRecords, NextRecords, IntakeInvariance, PTL DEF Spec
<1>2. IntakeInv /\ RecordsInv => RecordsAreTheRows
  <2> SUFFICES ASSUME IntakeInv, RecordsInv, parser = "done"
               PROVE  IdsNameOneRecord /\ LegsNetToTheRow
    BY DEF RecordsAreTheRows, IdsNameOneRecord, LegsNetToTheRow
  <2>1. IdsNameOneRecord
    BY DEF RecordsInv, ReportInv, UniqueIds, OneNaming, IdsNameOneRecord
  <2>2. ASSUME file.formats \in {{"razorpay"}, {"cod"}}, NEW n \in ReadLines
        PROVE  LET row == Body[n]
                   legs == {r \in records : r.line = n}
                   amount == [r \in legs |-> r.amount]
               IN  MapThenSumSet(LAMBDA r : amount[r], legs) =
                     IF file.formats = {"razorpay"} THEN Net(row)
                     ELSE (IF row.kind = "COD" THEN row.amount ELSE 0) - row.fee - row.tax
    <3> DEFINE legs == LegsAt(n)
               amount == [r \in legs |-> r.amount]
    <3>1. RowTyped(Body[n]) /\ Subject(n) \in Names
      <4>1. IsCsv /\ file.formats \intersect Layouts # {}
        BY <2>2 DEF IsCsv, Layouts
      <4>2. ~HeaderGone
        BY <2>2 DEF HeaderGone, ReadLines
      <4>3. n \in 1..line - 1 /\ line \in 1..Len(Body) + 1
        BY <2>2, <4>1, <4>2 DEF IntakeInv, LoopInv, AccountedInv
      <4>4. n \in DOMAIN Body
        BY <4>1, <4>3, CsvFile
      <4> QED
        BY <4>1, <4>4, CsvFile, ExportKeys
    <3>2. Reads(amount, legs)
      BY DEF Reads
    <3>3. /\ file.formats = {"razorpay"} =>
               legs = RazorpayLegs(n) /\ Balances(Body[n]) /\ Keyed(Body[n])
          /\ file.formats = {"cod"} => legs = CodLegs(n)
      BY <2>2 DEF RecordsInv, LegsInv
    <3> HIDE DEF amount
    <3>4. file.formats = {"razorpay"} => Total(amount, legs) = Net(Body[n])
      <4> HIDE DEF legs
      <4> QED
        BY <3>1, <3>2, <3>3, RazorpaySum
    <3>5. file.formats = {"cod"} =>
            Total(amount, legs) = (IF Body[n].kind = "COD" THEN Body[n].amount ELSE 0)
                                  - Body[n].fee - Body[n].tax
      <4> HIDE DEF legs
      <4> QED
        BY <3>1, <3>2, <3>3, CodSum
    <3>6. {"cod"} # {"razorpay"}
      OBVIOUS
    <3> USE DEF amount
    <3> QED
      BY <2>2, <3>4, <3>5, <3>6, Zenon DEF Total, LegsAt
  <2>3. LegsNetToTheRow
    BY <2>2, Zenon DEF LegsNetToTheRow, ReadLines
  <2> QED
    BY <2>1, <2>3
<1> QED
  BY <1>1, <1>2, IntakeInvariance, PTL

----------------------------------------------------------------------------
\* A PDF statement: the rows rebuilt of its lines, and the printed rows they are
\* rebuilt of.

IsStatement == file.formats = {"slice"} /\ Body # <<>>

Of(n) == Body[n].of

\* Line n is the money of the row it finished.
Finishes(n, row) ==
    /\ n \in DOMAIN Body /\ Body[n].piece \in Paid
    /\ row.paid = Of(n) /\ row.amount = Body[n].amount /\ row.balance = Body[n].balance

\* The rows rebuilt of the lines above a given one follow the printed ones.
Follow(built, next) ==
    /\ \E S : built \in Seq(S)
    /\ \A i \in DOMAIN built : \E n \in 1..next - 1 : Finishes(n, built[i])
    /\ \A i, j \in DOMAIN built : i <= j => built[i].paid <= built[j].paid

\* The row being rebuilt begins with a start and has no money yet.
PendingInv ==
    pending # <<>> =>
        /\ Head(pending) < line /\ Body[Head(pending)].piece = "start"
        /\ \A n \in Head(pending)..line - 1 : Body[n].piece \notin Paid

Kept(built, m) == \E i \in DOMAIN built : built[i].paid = m
Reviewed(refused, m) == \E q \in refused : Of(q.line) = m

\* Row m, whose first line is above the next one and whose last is not: it is
\* being rebuilt, or was swallowed by the hurt row above it.
UnderWay(lines, refused, next, m, hurt, first) ==
    \/ lines # <<>> /\ Head(lines) = first /\ Len(lines) = next - first
    \/ m = hurt + 1 /\ lines # <<>> /\ Of(Head(lines)) = hurt
    \/ m = hurt + 1 /\ lines = <<>> /\ Reviewed(refused, hurt)

\* Rows that stand are kept, but the one below the hurt row may be lost with a
\* line of the hurt row to review.
KeptOrReviewed(built, lines, refused, next, hurt) ==
    \A m \in DOMAIN file.printed \ {hurt} : \A first, last \in DOMAIN Body :
        StandsAt(file, m, first, last) =>
            /\ last < next => Kept(built, m) \/ (m = hurt + 1 /\ Reviewed(refused, hurt))
            /\ first < next /\ next <= last => UnderWay(lines, refused, next, m, hurt, first)

\* A row with another's date has the money of the row below the hurt one, which
\* itself was not kept.
DatedOrBroken(built, hurt) ==
    \A i \in DOMAIN built :
        \/ built[i].dated = built[i].paid
        \/ /\ built[i].paid = hurt + 1
           /\ \A j \in DOMAIN built : j < i => built[j].paid # hurt

HurtInv(built, lines, refused, next) ==
    file.damage <= 1 =>
        \A hurt \in 0..Len(file.printed) :
            OnlyHurt(file, hurt) =>
                /\ KeptOrReviewed(built, lines, refused, next, hurt)
                /\ DatedOrBroken(built, hurt)

StatementInv ==
    IsStatement =>
        /\ parser = "slice" =>
             /\ line \in 1..Len(Body) + 1
             /\ Follow(rows, Pending) /\ PendingInv
             /\ HurtInv(rows, pending, quarantined, line)
        /\ parser \in {"parsed", "done"} =>
             \/ rows = <<>>
             \/ /\ line = Len(Body) + 1 /\ pending = <<>>
                /\ Follow(rows, line) /\ HurtInv(rows, pending, quarantined, line)

LEMMA StatementFile ==
    ASSUME IntakeInv, IsStatement
    PROVE  /\ MaxRowLines \in Nat \ {0}
           /\ Body \in Seq(Range(Body)) /\ file.printed \in Seq(Range(file.printed))
           /\ Chained(file) /\ PrintedInOrder(file)
           /\ file.damage <= 1 => \E hurt \in 0..Len(file.printed) : OnlyHurt(file, hurt)
<1>1. PICK i \in DOMAIN Files : \E j \in DOMAIN Files[i] : file \in Files[i][j]
  BY DEF IntakeInv
<1>2. PICK j \in DOMAIN Files[i] : file \in Files[i][j]
  BY <1>1
<1>3. file.formats = {"slice"} /\ file.formats \in {{"slice"}, {"mt940"}} /\ file.body # <<>>
  BY DEF Body, IsStatement
<1> QED
  BY <1>2, <1>3, StatementsAssumption, Zenon DEF Body

LEMMA OnlyTheSlice ==
    ASSUME IntakeInv, IsStatement
    PROVE  parser \in Adapters => parser = "slice"
  BY WinnerIsSure DEF IntakeInv, ChosenInv, IsStatement

\* What the lines of a statement are of, and what money they carry.
LEMMA LinesOf ==
    ASSUME IntakeInv, IsStatement
    PROVE  /\ Len(Body) \in Nat /\ DOMAIN Body = 1..Len(Body)
           /\ Len(file.printed) \in Nat /\ DOMAIN file.printed = 1..Len(file.printed)
           /\ \A n \in DOMAIN Body :
                /\ Of(n) \in 0..Len(file.printed)
                /\ Body[n].piece \in Paid \union {"start"} => Of(n) \in DOMAIN file.printed
                /\ Body[n].piece \in Paid =>
                     /\ Body[n].amount = file.printed[Of(n)].amount
                     /\ Body[n].balance = file.printed[Of(n)].balance
                     /\ Body[n].amount # 0
           /\ \A n, later \in DOMAIN Body : n < later /\ Of(later) # 0 => Of(n) <= Of(later)
<1>1. /\ Body \in Seq(Range(Body)) /\ file.printed \in Seq(Range(file.printed))
      /\ Chained(file) /\ PrintedInOrder(file)
  BY StatementFile
<1>2. /\ Len(Body) \in Nat /\ DOMAIN Body = 1..Len(Body)
      /\ Len(file.printed) \in Nat /\ DOMAIN file.printed = 1..Len(file.printed)
  BY <1>1
<1>3. \A m \in DOMAIN file.printed : file.printed[m].amount # 0
  BY <1>1 DEF Chained
<1>4. ASSUME NEW n \in DOMAIN Body
      PROVE  /\ Of(n) \in 0..Len(file.printed)
             /\ Body[n].piece \in Paid \union {"start"} => Of(n) # 0
             /\ Body[n].piece \in Paid =>
                  /\ Body[n].amount = file.printed[Of(n)].amount
                  /\ Body[n].balance = file.printed[Of(n)].balance
             /\ \A later \in DOMAIN Body : n < later /\ Of(later) # 0 => Of(n) <= Of(later)
  BY <1>1, Zenon DEF PrintedInOrder, Of, Body
<1>5. ASSUME NEW n \in DOMAIN Body, Of(n) # 0 PROVE Of(n) \in DOMAIN file.printed
  BY <1>2, <1>4, <1>5
<1> QED
  BY <1>2, <1>3, <1>4, <1>5, Zenon

\* A row that stands ends in its money, and its lines are between its ends.
LEMMA Standing ==
    ASSUME IntakeInv, IsStatement, NEW m \in DOMAIN file.printed,
           NEW first \in DOMAIN Body, NEW last \in DOMAIN Body, StandsAt(file, m, first, last)
    PROVE  /\ \A n \in DOMAIN Body : Of(n) = m <=> first <= n /\ n <= last
           /\ first <= last /\ last < first + MaxRowLines
           /\ Of(first) = m /\ Of(last) = m
           /\ Body[first].fault = "" /\ Body[last].fault = ""
           /\ Body[last].piece \in Paid /\ (first = last => Body[last].piece = "row")
           /\ first # last => Body[first].piece = "start"
           /\ \A n \in DOMAIN Body : first < n /\ n < last => Body[n].piece = "text"
<1>1. first \in Int /\ last \in Int /\ \A n \in DOMAIN Body : n \in Int
  BY LinesOf
<1>2. /\ {n \in DOMAIN Body : Of(n) = m} = first..last
      /\ first <= last /\ last < first + MaxRowLines
  BY Zenon DEF StandsAt, Body, Of
<1>3. \A n \in first..last :
        /\ Body[n].fault = ""
        /\ Body[n].piece \in IF first = last THEN {"row"}
                             ELSE IF n = first THEN {"start"}
                             ELSE IF n = last THEN {"end", "tail"} ELSE {"text"}
  BY Zenon DEF StandsAt, Body
<1>4. \A n \in DOMAIN Body : Of(n) = m <=> first <= n /\ n <= last
  BY <1>1, <1>2
<1>5. first \in first..last /\ last \in first..last
  BY <1>1, <1>2
<1>6. \A n \in DOMAIN Body : first < n /\ n < last => n \in first..last /\ n # first /\ n # last
  BY <1>1
<1>7. Body[last].piece \in Paid
  <2>1. CASE first = last
    BY <1>3, <1>5, <2>1 DEF Paid
  <2>2. CASE first # last
    BY <1>3, <1>5, <2>2 DEF Paid
  <2> QED
    BY <2>1, <2>2
<1>8. (first = last => Body[last].piece = "row") /\ (first # last => Body[first].piece = "start")
  <2>1. CASE first = last
    BY <1>3, <1>5, <2>1
  <2>2. CASE first # last
    BY <1>3, <1>5, <2>2
  <2> QED
    BY <2>1, <2>2
<1>9. ASSUME NEW n \in DOMAIN Body, first < n, n < last PROVE Body[n].piece = "text"
  <2>1. n \in first..last /\ n # first /\ n # last /\ first # last
    BY <1>1, <1>9
  <2> QED
    BY <1>3, <2>1
<1>10. Of(first) = m /\ Of(last) = m
  BY <1>1, <1>2, <1>4
<1>11. Body[first].fault = "" /\ Body[last].fault = ""
  BY <1>3, <1>5
<1> QED
  BY <1>2, <1>4, <1>7, <1>8, <1>9, <1>10, <1>11

LEMMA LastLine ==
    ASSUME IntakeInv, IsStatement, NEW hurt, OnlyHurt(file, hurt),
           NEW m \in DOMAIN file.printed, m # hurt
    PROVE  \E last \in DOMAIN Body :
             Of(last) = m /\ Body[last].piece \in Paid /\ \A n \in DOMAIN Body : Of(n) = m => n <= last
<1>1. PICK first, last \in DOMAIN Body : StandsAt(file, m, first, last)
  BY Zenon DEF OnlyHurt, Body
<1>2. /\ Of(last) = m /\ Body[last].piece \in Paid
      /\ \A n \in DOMAIN Body : Of(n) = m <=> first <= n /\ n <= last
  <2>1. \A n \in DOMAIN Body : Of(n) = m <=> first <= n /\ n <= last
    BY <1>1, Standing, Zenon
  <2>2. first <= last /\ last <= last
    <3>1. first <= last
      BY <1>1, Standing, Zenon
    <3> QED
      BY <3>1, LinesOf
  <2>3. Body[last].piece \in Paid
    BY <1>1, Standing, Zenon
  <2> QED
    BY <2>1, <2>2, <2>3, Zenon
<1> QED
  BY <1>2

\* A row being rebuilt ends with money of its own, but the hurt row may end with
\* that of the row below it.
LEMMA WhoseMoney ==
    ASSUME IntakeInv, IsStatement, line \in DOMAIN Body, Of(line) # 0,
           pending \in Seq(Nat), pending # <<>>, Head(pending) \in DOMAIN Body, PendingInv,
           NEW hurt \in 0..Len(file.printed), OnlyHurt(file, hurt)
    PROVE  \/ Of(Head(pending)) = Of(line)
           \/ Of(Head(pending)) = hurt /\ Of(line) = hurt + 1
<1> DEFINE head == Head(pending)
<1>1. /\ head \in DOMAIN Body /\ head \in Int /\ line \in Int /\ head < line
      /\ Of(head) \in DOMAIN file.printed /\ Of(line) \in DOMAIN file.printed
      /\ DOMAIN file.printed = 1..Len(file.printed) /\ DOMAIN Body = 1..Len(Body)
      /\ Len(Body) \in Nat /\ Len(file.printed) \in Nat
  <2>1. Body[head].piece = "start" /\ head < line
    BY DEF PendingInv
  <2>2. Of(line) \in 0..Len(file.printed) /\ DOMAIN file.printed = 1..Len(file.printed)
        /\ Len(file.printed) \in Nat
    BY LinesOf
  <2>3. Of(line) \in DOMAIN file.printed
    BY <2>2
  <2> QED
    BY <2>1, <2>2, <2>3, LinesOf
<1>2. \A n, later \in DOMAIN Body : n < later /\ Of(later) # 0 => Of(n) <= Of(later)
  BY LinesOf
<1>3. \A n \in head..line - 1 : Body[n].piece \notin Paid
  BY DEF PendingInv
<1>4. ASSUME NEW m \in DOMAIN file.printed, m # hurt, Of(head) <= m, m < Of(line)
      PROVE  FALSE
  <2>2. PICK last \in DOMAIN Body :
          Of(last) = m /\ Body[last].piece \in Paid /\ \A n \in DOMAIN Body : Of(n) = m => n <= last
    BY <1>4, LastLine
  <2>3. last < line
    <3>1. line < last => Of(line) <= m
      BY <1>1, <1>2, <2>2
    <3>2. last \in Int /\ last # line /\ m \in Int
      BY <1>1, <1>4, <2>2
    <3> QED
      BY <1>1, <1>4, <3>1, <3>2
  <2>4. head <= last
    <3>1. CASE Of(head) = m
      BY <1>1, <2>2, <3>1
    <3>2. CASE Of(head) # m
      <4>1. Of(head) < m /\ last \in Int /\ m # 0
        BY <1>1, <1>4, <3>2
      <4>2. last < head => Of(last) <= Of(head)
        BY <1>1, <1>2
      <4>3. head # last
        BY <2>2, <3>2
      <4> QED
        BY <1>1, <2>2, <4>1, <4>2, <4>3
    <3> QED
      BY <3>1, <3>2
  <2> QED
    BY <1>1, <1>3, <2>2, <2>3, <2>4
<1> HIDE DEF head
<1>5. Of(head) <= Of(line)
  BY <1>1, <1>2
<1>6. ASSUME Of(head) # Of(line) PROVE Of(head) = hurt
  <2> SUFFICES ASSUME Of(head) # hurt PROVE FALSE
    OBVIOUS
  <2>1. Of(head) <= Of(head) /\ Of(head) < Of(line)
    BY <1>1, <1>5, <1>6
  <2> QED
    BY <1>1, <1>4, <2>1
<1>7. ASSUME Of(head) = hurt, Of(head) # Of(line) PROVE Of(line) = hurt + 1
  <2> SUFFICES ASSUME Of(line) # hurt + 1 PROVE FALSE
    OBVIOUS
  <2>1. hurt + 1 \in DOMAIN file.printed /\ hurt + 1 < Of(line) /\ hurt <= hurt + 1
    BY <1>1, <1>5, <1>7
  <2> QED
    BY <1>4, <1>7, <2>1
<1> QED
  BY <1>6, <1>7 DEF head

----------------------------------------------------------------------------
\* What reading a line does.

Keeps == rows' = rows /\ quarantined \subseteq quarantined'

\* The line is narration of nothing, or furniture.
Passes ==
    /\ Keeps /\ pending' = pending
    /\ Body[line].piece = "header" \/ (pending = <<>> /\ Body[line].piece \in {"page", "tail", "text", "end"})

\* The row being rebuilt is given up.
GivesUp(lines) == Keeps /\ pending' = <<>> /\ \E reason : Quarantine(Head(lines), reason) \in quarantined'

Lines == Append(pending, line)

Leaves ==
    \/ pending # <<>> /\ Body[line].piece = "page" /\ GivesUp(pending)
    \/ /\ pending # <<>> \/ Body[line].piece = "start"
       /\ Body[line].piece \in {"start", "text"} /\ Full(Lines) /\ GivesUp(Lines)

GoesOn ==
    /\ pending # <<>> \/ Body[line].piece = "start"
    /\ Body[line].piece \in {"start", "text"} /\ ~Full(Lines)
    /\ Keeps /\ pending' = Lines

Ends ==
    /\ pending # <<>> \/ Body[line].piece = "row"
    /\ Body[line].piece \in Paid
    /\ \/ /\ Rebuilt(Lines).fault = "" /\ pending' = <<>>
          /\ rows' = Append(rows, Rebuilt(Lines)) /\ quarantined \subseteq quarantined'
       \/ Rebuilt(Lines).fault # "" /\ GivesUp(Lines)

LEMMA LineOutcome ==
    ASSUME ReadLine
    PROVE  line' = line + 1 /\ line <= Len(Body) /\ (Passes \/ Leaves \/ GoesOn \/ Ends)
<1>1. line' = line + 1 /\ line <= Len(Body)
  BY Zenon DEF ReadLine, Left
<1> SUFFICES Passes \/ Leaves \/ GoesOn \/ Ends
  BY <1>1
<1>2. ASSUME NEW lines, Unterminated(lines) PROVE GivesUp(lines)
  BY <1>2, Zenon DEF Unterminated, Reject, GivesUp, Keeps
<1>3. ASSUME NEW n, NEW reason, Reject(n, reason) PROVE quarantined \subseteq quarantined'
  BY <1>3 DEF Reject
<1>10. (UNCHANGED <<result, sliceVars>> => Keeps /\ pending' = pending)
       /\ (UNCHANGED sliceVars /\ quarantined \subseteq quarantined' => Keeps /\ pending' = pending)
       /\ (UNCHANGED <<rows, result>> => Keeps) /\ (Skip(line) => quarantined \subseteq quarantined')
  BY DEF Keeps, result, sliceVars, Skip
<1>4. CASE Body[line].piece = "page" /\ IF pending = <<>> THEN UNCHANGED <<result, sliceVars>> ELSE Unterminated(pending)
  <2>1. CASE pending = <<>>
    BY <1>4, <1>10, <2>1, Zenon DEF Passes
  <2>2. CASE pending # <<>>
    BY <1>2, <1>4, <2>2, Zenon DEF Leaves
  <2> QED
    BY <2>1, <2>2
<1>5. CASE Body[line].piece = "header" /\ Skip(line) /\ UNCHANGED sliceVars
  BY <1>5, <1>10, Zenon DEF Passes
<1>6. CASE /\ Body[line].piece = "tail" /\ pending = <<>>
           /\ Reject(line, "TRUNCATED_ROW") /\ UNCHANGED sliceVars
  BY <1>3, <1>6, <1>10, Zenon DEF Passes
<1>7. CASE /\ Body[line].piece \in {"text", "end"} /\ pending = <<>>
           /\ Skip(line) /\ UNCHANGED sliceVars
  BY <1>7, <1>10, Zenon DEF Passes
<1>8. CASE /\ Body[line].piece \in Paid /\ (pending # <<>> \/ Body[line].piece = "row")
           /\ FinishRow(Lines)
  <2>1. Rebuilt(Lines).line = Head(Lines)
    BY DEF Rebuilt
  <2>2. \/ Rebuilt(Lines).fault = "" /\ pending' = <<>> /\ rows' = Append(rows, Rebuilt(Lines))
           /\ quarantined' = quarantined
        \/ Rebuilt(Lines).fault # "" /\ pending' = <<>> /\ rows' = rows
           /\ Reject(Head(Lines), Rebuilt(Lines).fault)
    BY <1>8, <2>1, Zenon DEF FinishRow, result
  <2>3. ASSUME Reject(Head(Lines), Rebuilt(Lines).fault)
        PROVE  \E reason : Quarantine(Head(Lines), reason) \in quarantined'
    BY <2>3, Zenon DEF Reject
  <2> QED
    <3>1. quarantined' = quarantined => quarantined \subseteq quarantined'
      OBVIOUS
    <3> QED
      BY <1>3, <1>8, <2>2, <2>3, <3>1, Zenon DEF Ends, GivesUp, Keeps
<1>9. CASE /\ Body[line].piece \in {"start", "text"} /\ (pending # <<>> \/ Body[line].piece = "start")
           /\ IF Full(Lines) THEN Unterminated(Lines) ELSE pending' = Lines /\ UNCHANGED <<rows, result>>
  BY <1>2, <1>9, <1>10, Zenon DEF Leaves, GoesOn
<1> QED
  BY <1>4, <1>5, <1>6, <1>7, <1>8, <1>9, Zenon DEF ReadLine, Lines

----------------------------------------------------------------------------
\* The rows rebuilt.

\* A row rebuilt of some lines and the next one is dated by the first and paid
\* by the next.
LEMMA RebuiltOf ==
    ASSUME pending \in Seq(Nat), line \in Nat
    PROVE  /\ Lines \in Seq(Nat) /\ Lines # <<>> /\ Len(Lines) = Len(pending) + 1
           /\ Head(Lines) = Pending
           /\ Rebuilt(Lines).dated = Of(Pending) /\ Rebuilt(Lines).paid = Of(line)
           /\ Rebuilt(Lines).amount = Body[line].amount
           /\ Rebuilt(Lines).balance = Body[line].balance
           /\ Body[Pending].fault = "" /\ Body[line].fault = "" /\ Body[line].amount # 0
              => Rebuilt(Lines).fault = ""
<1>1. Lines \in Seq(Nat) /\ Lines # <<>> /\ Len(Lines) = Len(pending) + 1
  <2>1. Lines \in Seq(Nat) /\ Len(Lines) = Len(pending) + 1 /\ Len(pending) \in Nat
    BY DEF Lines
  <2> QED
    BY <2>1
<1>2. Head(Lines) = Pending
  <2>1. CASE pending = <<>>
    BY <2>1 DEF Lines, Pending
  <2>2. CASE pending # <<>>
    BY <2>2 DEF Lines, Pending
  <2> QED
    BY <2>1, <2>2
<1>3. Last(Lines) = line
  BY DEF Lines, Last
<1> QED
  BY <1>1, <1>2, <1>3 DEF Rebuilt, Of

LEMMA FollowOn ==
    ASSUME NEW built, NEW next, NEW later, next \in Int, later \in Int, next <= later,
           Follow(built, next)
    PROVE  Follow(built, later)
<1>1. \A n \in 1..next - 1 : n \in 1..later - 1
  OBVIOUS
<1> QED
  BY <1>1, Zenon DEF Follow

LEMMA FollowIs ==
    ASSUME NEW built, NEW next, NEW S, built \in Seq(S),
           \A i \in DOMAIN built : \E n \in 1..next - 1 : Finishes(n, built[i]),
           \A i, j \in DOMAIN built : i <= j => built[i].paid <= built[j].paid
    PROVE  Follow(built, next)
  BY Zenon DEF Follow

\* One row more, finished by a line below the ones that finished the others.
LEMMA FollowMore ==
    ASSUME IntakeInv, IsStatement, NEW built, NEW next \in Int, Follow(built, next),
           NEW n \in DOMAIN Body, next <= n, NEW row, Finishes(n, row)
    PROVE  /\ Follow(Append(built, row), n + 1)
           /\ DOMAIN Append(built, row) = DOMAIN built \union {Len(built) + 1}
           /\ Append(built, row)[Len(built) + 1] = row
           /\ \A i \in DOMAIN built : i < Len(built) + 1 /\ Append(built, row)[i] = built[i]
           /\ Len(built) \in Nat /\ DOMAIN built = 1..Len(built)
<1> DEFINE a == Append(built, row)
<1>1. PICK S : built \in Seq(S)
  BY DEF Follow
<1>2. /\ Len(built) \in Nat /\ DOMAIN built = 1..Len(built)
      /\ a \in Seq(S \union {row}) /\ DOMAIN a = DOMAIN built \union {Len(built) + 1}
      /\ a[Len(built) + 1] = row /\ \A i \in DOMAIN built : a[i] = built[i]
  <2>1. built \in Seq(S \union {row})
    BY <1>1
  <2> QED
    BY <2>1
<1>3. n \in Int /\ Of(n) # 0 /\ Of(n) \in Int /\ \A k \in DOMAIN Body : k < n => Of(k) <= Of(n)
  BY LinesOf DEF Finishes
<1> HIDE DEF a
<1>4. \A i \in DOMAIN built : \E k \in 1..next - 1 : Finishes(k, built[i])
  BY DEF Follow
<1>5. ASSUME NEW i \in DOMAIN a PROVE \E k \in 1..n : Finishes(k, a[i])
  <2>1. n \in 1..n /\ \A k \in 1..next - 1 : k \in 1..n
    BY <1>3, LinesOf
  <2> QED
    BY <1>2, <1>4, <2>1, Zenon
<1>6. \A i \in DOMAIN built : built[i].paid <= row.paid
  <2> TAKE i \in DOMAIN built
  <2>1. PICK k \in 1..next - 1 : Finishes(k, built[i])
    BY <1>4
  <2>2. k < n
    BY <1>3
  <2> QED
    BY <1>3, <2>1, <2>2 DEF Finishes
<1>7. \A i, j \in DOMAIN built : i <= j => built[i].paid <= built[j].paid
  BY DEF Follow
<1>8. row.paid <= row.paid
  BY <1>3 DEF Finishes
<1>9. \A i, j \in DOMAIN a : i <= j => a[i].paid <= a[j].paid
  BY <1>2, <1>6, <1>7, <1>8
<1>10. \A k \in 1..n : k \in 1..(n + 1) - 1
  BY <1>3
<1>11. Follow(a, n + 1)
  <2>1. \A i \in DOMAIN a : \E k \in 1..(n + 1) - 1 : Finishes(k, a[i])
    BY <1>5, <1>10, Zenon
  <2>2. a \in Seq(S \union {row})
    BY <1>2
  <2> QED
    BY <1>9, <2>1, <2>2, FollowIs, Zenon
<1> QED
  BY <1>2, <1>11 DEF a

\* Reading a line keeps the rows in the order of the printed ones.
LEMMA RowsStep ==
    ASSUME IntakeInv, IsStatement, SliceState, ReadLine, line \in DOMAIN Body,
           Follow(rows, Pending), PendingInv
    PROVE  Follow(rows', Pending') /\ PendingInv'
<1>1. file' = file /\ Body' = Body /\ line' = line + 1
  BY LineOutcome DEF ReadLine, Body
<1>2. /\ pending \in Seq(Nat) /\ line \in Nat /\ Pending \in 1..line
      /\ Pending' \in Int /\ Pending <= Pending' /\ (pending' = <<>> => Pending' = line')
  BY StartMoves DEF SliceState
<1>3. ASSUME rows' = rows PROVE Follow(rows', Pending')
  BY <1>2, <1>3, FollowOn
<1>4. ASSUME Body[line].piece \in Paid, pending' = <<>>, rows' = Append(rows, Rebuilt(Lines))
      PROVE  Follow(rows', Pending')
  <2>1. Finishes(line, Rebuilt(Lines))
    BY <1>2, <1>4, RebuiltOf DEF Finishes
  <2>2. Follow(Append(rows, Rebuilt(Lines)), line + 1)
    BY <1>2, <2>1, FollowMore
  <2> QED
    BY <1>1, <1>2, <1>4, <2>2
<1>5. Follow(rows', Pending')
  BY <1>3, <1>4, LineOutcome, Zenon DEF Passes, Leaves, GivesUp, GoesOn, Ends, Keeps
<1>6. ASSUME pending' # <<>>
      PROVE  /\ Head(pending') < line + 1 /\ Body[Head(pending')].piece = "start"
             /\ \A n \in Head(pending')..line : Body[n].piece \notin Paid
  <2>1. Body[line].piece \notin Paid /\ (pending' = pending \/ (GoesOn /\ pending' = Lines))
    <3>1. Passes \/ GoesOn
      BY <1>6, LineOutcome, Zenon DEF Leaves, Ends, GivesUp
    <3>2. {"header", "start", "text"} \intersect Paid = {}
      BY DEF Paid
    <3>3. CASE Passes
      BY <1>6, <3>2, <3>3 DEF Passes
    <3>4. CASE GoesOn
      BY <3>2, <3>4 DEF GoesOn
    <3> QED
      BY <3>1, <3>3, <3>4
  <2>2. CASE pending # <<>>
    <3>1. /\ Head(pending) < line /\ Body[Head(pending)].piece = "start"
          /\ \A n \in Head(pending)..line - 1 : Body[n].piece \notin Paid
      BY <2>2 DEF PendingInv
    <3>2. Head(pending') = Head(pending) /\ Head(pending) \in Int
      BY <1>2, <2>1, <2>2, RebuiltOf DEF Pending
    <3>3. \A n \in Head(pending)..line : n = line \/ n \in Head(pending)..line - 1
      BY <1>2, <3>2
    <3> QED
      BY <1>2, <2>1, <3>1, <3>2, <3>3
  <2>3. CASE pending = <<>>
    <3>1. GoesOn /\ pending' = Lines /\ Head(Lines) = line
      BY <1>2, <1>6, <2>1, <2>3, RebuiltOf DEF Pending
    <3>2. Body[line].piece = "start"
      BY <2>3, <3>1, Zenon DEF GoesOn
    <3>3. \A n \in line..line : n = line
      BY <1>2
    <3> QED
      BY <1>2, <2>1, <3>1, <3>2, <3>3
  <2> QED
    BY <2>2, <2>3
<1>7. (line + 1) - 1 = line
  BY <1>2
<1>8. PendingInv'
  <2> SUFFICES ASSUME (pending # <<>>)'
               PROVE  (/\ Head(pending) < line /\ Body[Head(pending)].piece = "start"
                       /\ \A n \in Head(pending)..line - 1 : Body[n].piece \notin Paid)'
    BY Zenon DEF PendingInv
  <2> QED
    BY <1>1, <1>6, <1>7
<1> QED
  BY <1>5, <1>8

----------------------------------------------------------------------------
\* The rows that stand.

LEMMA GivenUp ==
    ASSUME NEW lines, GivesUp(lines)
    PROVE  Reviewed(quarantined', Of(Head(lines)))
<1>1. PICK reason : Quarantine(Head(lines), reason) \in quarantined'
  BY DEF GivesUp
<1>2. Quarantine(Head(lines), reason).line = Head(lines)
  BY DEF Quarantine
<1> QED
  BY <1>1, <1>2, Zenon DEF Reviewed

LEMMA StillReviewed ==
    ASSUME ReadLine, NEW m, Reviewed(quarantined, m)
    PROVE  Reviewed(quarantined', m)
<1>1. quarantined \subseteq quarantined'
  BY LineOutcome, Zenon DEF Passes, Leaves, GivesUp, GoesOn, Ends, Keeps
<1> QED
  BY <1>1 DEF Reviewed

LEMMA StillKept ==
    ASSUME IntakeInv, IsStatement, SliceState, line \in DOMAIN Body, Follow(rows, Pending),
           ReadLine, NEW m, Kept(rows, m)
    PROVE  Kept(rows', m)
<1>1. CASE rows' = rows
  BY <1>1
<1>2. CASE Ends /\ Rebuilt(Lines).fault = ""
  <2>1. \E S : rows \in Seq(S)
    BY DEF Follow
  <2>2. rows' = Append(rows, Rebuilt(Lines))
    BY <1>2, Zenon DEF Ends
  <2>3. \A i \in DOMAIN rows : i \in DOMAIN rows' /\ rows'[i] = rows[i]
    BY <2>1, <2>2
  <2> QED
    BY <2>3, Zenon DEF Kept
<1> QED
  BY <1>1, <1>2, LineOutcome, Zenon DEF Passes, Leaves, GivesUp, GoesOn, Ends, Keeps

\* A row that ends is kept, or has a defect of its own to review.
LEMMA EndsOutcome ==
    ASSUME IntakeInv, IsStatement, SliceState, line \in DOMAIN Body, Follow(rows, Pending), Ends
    PROVE  \/ Kept(rows', Of(line))
           \/ /\ ~(Body[Pending].fault = "" /\ Body[line].fault = "")
              /\ Reviewed(quarantined', Of(Pending))
<1>1. pending \in Seq(Nat) /\ line \in Nat
  BY DEF SliceState
<1>2. CASE Rebuilt(Lines).fault = ""
  <2>1. rows' = Append(rows, Rebuilt(Lines)) /\ Rebuilt(Lines).paid = Of(line)
    BY <1>1, <1>2, RebuiltOf, Zenon DEF Ends
  <2>2. \E S : rows \in Seq(S)
    BY DEF Follow
  <2>3. Len(rows) + 1 \in DOMAIN rows' /\ rows'[Len(rows) + 1] = Rebuilt(Lines)
    BY <2>1, <2>2
  <2> QED
    BY <2>1, <2>3, Zenon DEF Kept
<1>3. CASE Rebuilt(Lines).fault # ""
  <2>1. GivesUp(Lines) /\ Body[line].piece \in Paid
    BY <1>3, Zenon DEF Ends
  <2>2. Reviewed(quarantined', Of(Pending))
    BY <1>1, <2>1, GivenUp, RebuiltOf
  <2>3. Body[line].amount # 0
    BY <2>1, LinesOf
  <2> QED
    BY <1>1, <1>3, <2>2, <2>3, RebuiltOf
<1> QED
  BY <1>2, <1>3

LEMMA PieceNames ==
    /\ {"header", "start", "text", "page"} \intersect Paid = {} /\ "row" \in Paid
    /\ "row" \notin {"header", "page", "tail", "text", "end"}
    /\ "start" \notin {"header", "page", "tail", "text", "end"}
  BY DEF Paid

\* The next line is the last of a row that stands.
LEMMA AtItsLast ==
    ASSUME IntakeInv, IsStatement, SliceState, ReadLine, line \in DOMAIN Body,
           Follow(rows, Pending), PendingInv,
           NEW hurt \in 0..Len(file.printed), OnlyHurt(file, hurt),
           NEW m \in DOMAIN file.printed, NEW first \in DOMAIN Body,
           StandsAt(file, m, first, line),
           first # line => UnderWay(pending, quarantined, line, m, hurt, first)
    PROVE  Kept(rows', m) \/ (m = hurt + 1 /\ Reviewed(quarantined', hurt))
<1>1. /\ Of(first) = m /\ Of(line) = m /\ Body[line].piece \in Paid
      /\ (first = line => Body[line].piece = "row")
      /\ Body[first].fault = "" /\ Body[line].fault = ""
  <2>1. Of(first) = m /\ Body[line].piece \in Paid
    BY Standing
  <2>4. Of(line) = m
    <3>1. \A n \in DOMAIN Body : Of(n) = m <=> first <= n /\ n <= line
      BY Standing
    <3>2. first <= line
      BY Zenon DEF StandsAt
    <3>3. line \in Int
      BY LinesOf
    <3> QED
      BY <3>1, <3>2, <3>3
  <2>2. first = line => Body[line].piece = "row"
    BY Standing
  <2>3. Body[first].fault = "" /\ Body[line].fault = ""
    BY Standing
  <2> QED
    BY <2>1, <2>2, <2>3, <2>4
<1>2. \A n \in DOMAIN Body : Of(n) = m <=> first <= n /\ n <= line
  BY Standing
<1>3. Ends \/ (pending = <<>> /\ first # line)
  <2>1. ~Leaves /\ ~GoesOn
    BY <1>1, PieceNames DEF Leaves, GoesOn
  <2>2. Passes => pending = <<>> /\ first # line
    BY <1>1, PieceNames DEF Passes
  <2> QED
    BY <2>1, <2>2, LineOutcome
<1>4. pending \in Seq(Nat) /\ line \in Int /\ first \in Int /\ m # 0 /\ Pending \in 1..line
      /\ DOMAIN Body = 1..Len(Body) /\ Len(Body) \in Int
  BY LinesOf DEF SliceState
<1>5. ASSUME pending # <<>> PROVE Pending = Head(pending) /\ Head(pending) \in DOMAIN Body
  BY <1>4, <1>5 DEF Pending
<1>6. ASSUME Ends, Of(Pending) = hurt, m = hurt + 1
      PROVE  Kept(rows', m) \/ (m = hurt + 1 /\ Reviewed(quarantined', hurt))
  BY <1>1, <1>6, EndsOutcome
<1>7. CASE first = line
  <2>1. CASE pending = <<>>
    <3>1. Pending = line
      BY <2>1 DEF Pending
    <3> QED
      BY <1>1, <1>3, <1>7, <3>1, EndsOutcome
  <2>2. CASE pending # <<>>
    <3>1. Head(pending) < line
      BY <2>2 DEF PendingInv
    <3>2. Of(Head(pending)) # m
      BY <1>2, <1>4, <1>5, <1>7, <2>2, <3>1
    <3>3. Of(Pending) = hurt /\ m = hurt + 1
      BY <1>1, <1>4, <1>5, <2>2, <3>2, WhoseMoney
    <3> QED
      BY <1>3, <1>6, <1>7, <3>3
  <2> QED
    BY <2>1, <2>2
<1>8. CASE first # line
  <2>1. CASE pending # <<>> /\ Head(pending) = first
    <3>1. Pending = first /\ Ends
      BY <1>3, <1>5, <2>1
    <3> QED
      BY <1>1, <3>1, EndsOutcome
  <2>2. CASE m = hurt + 1 /\ pending # <<>> /\ Of(Head(pending)) = hurt
    BY <1>3, <1>5, <1>6, <2>2
  <2>3. CASE m = hurt + 1 /\ pending = <<>> /\ Reviewed(quarantined, hurt)
    BY <2>3, StillReviewed
  <2> QED
    BY <1>8, <2>1, <2>2, <2>3, Zenon DEF UnderWay
<1> QED
  BY <1>7, <1>8

\* The next line is one of a row that stands, and not its last.
LEMMA AboveItsLast ==
    ASSUME IntakeInv, IsStatement, SliceState, ReadLine, line \in DOMAIN Body,
           Follow(rows, Pending), PendingInv,
           NEW hurt \in 0..Len(file.printed), OnlyHurt(file, hurt),
           NEW m \in DOMAIN file.printed, NEW first \in DOMAIN Body, NEW last \in DOMAIN Body,
           StandsAt(file, m, first, last), first <= line, line < last,
           first # line => UnderWay(pending, quarantined, line, m, hurt, first)
    PROVE  UnderWay(pending', quarantined', line + 1, m, hurt, first)
<1>1. /\ Of(first) = m /\ last < first + MaxRowLines /\ MaxRowLines \in Int
      /\ (first = line => Body[line].piece = "start") /\ (first # line => Body[line].piece = "text")
  <2>1. first \in Int /\ line \in Int /\ last \in Int
    BY LinesOf
  <2>2. /\ Of(first) = m /\ last < first + MaxRowLines
        /\ (first # last => Body[first].piece = "start")
    BY Standing
  <2>3. \A n \in DOMAIN Body : first < n /\ n < last => Body[n].piece = "text"
    BY Standing
  <2> QED
    BY <2>1, <2>2, <2>3, StatementFile
<1>2. \A n \in DOMAIN Body : Of(n) = m <=> first <= n /\ n <= last
  BY Standing
<1>3. pending \in Seq(Nat) /\ line \in Nat /\ first \in Int /\ last \in Int /\ m # 0
      /\ Pending \in 1..line /\ DOMAIN Body = 1..Len(Body) /\ Len(Body) \in Int
  BY LinesOf DEF SliceState
<1>4. ASSUME pending # <<>> PROVE Pending = Head(pending) /\ Head(pending) \in DOMAIN Body
  BY <1>3, <1>4 DEF Pending
<1>5. /\ Lines # <<>> /\ Len(Lines) = Len(pending) + 1 /\ Head(Lines) = Pending
  BY <1>3, RebuiltOf
<1>6. Of(line) = m
  BY <1>2, <1>3
<1>7. ASSUME pending # <<>> \/ first = line
      PROVE  (Full(Lines) /\ GivesUp(Lines)) \/ (~Full(Lines) /\ pending' = Lines)
  <2>1. Body[line].piece \in {"start", "text"} /\ Body[line].piece \notin {"header", "page"}
        /\ Body[line].piece \notin Paid
    BY <1>1, PieceNames
  <2>2. ~Passes /\ ~Ends
    BY <1>1, <1>7, <2>1, PieceNames DEF Passes, Ends
  <2>3. Leaves => Full(Lines) /\ GivesUp(Lines)
    BY <2>1 DEF Leaves
  <2>4. GoesOn => ~Full(Lines) /\ pending' = Lines
    BY DEF GoesOn
  <2> QED
    BY <2>2, <2>3, <2>4, LineOutcome
<1>8. ASSUME pending # <<>>, Of(Head(pending)) = hurt, m = hurt + 1
      PROVE  UnderWay(pending', quarantined', line + 1, m, hurt, first)
  <2>1. Of(Head(Lines)) = hurt
    BY <1>4, <1>5, <1>8
  <2>2. CASE pending' = Lines
    BY <1>5, <1>8, <2>1, <2>2 DEF UnderWay
  <2>3. CASE GivesUp(Lines)
    <3>1. pending' = <<>> /\ Reviewed(quarantined', hurt)
      BY <2>1, <2>3, GivenUp DEF GivesUp
    <3> QED
      BY <1>8, <3>1 DEF UnderWay
  <2> QED
    BY <1>7, <1>8, <2>2, <2>3
<1>9. ASSUME Pending = first, Len(Lines) = (line + 1) - first, pending # <<>> \/ first = line
      PROVE  UnderWay(pending', quarantined', line + 1, m, hurt, first)
  <2>1. ~Full(Lines)
    BY <1>1, <1>3, <1>9 DEF Full
  <2>2. pending' = Lines
    BY <1>7, <1>9, <2>1
  <2> QED
    BY <1>5, <1>9, <2>2 DEF UnderWay
<1>10. CASE first = line
  <2>1. CASE pending = <<>>
    <3>1. Pending = first /\ Len(Lines) = (line + 1) - first
      BY <1>3, <1>5, <1>10, <2>1 DEF Pending
    <3> QED
      BY <1>9, <1>10, <3>1
  <2>2. CASE pending # <<>>
    <3>1. Head(pending) < line
      BY <2>2 DEF PendingInv
    <3>2. Of(Head(pending)) # m
      BY <1>2, <1>3, <1>4, <1>10, <2>2, <3>1
    <3>3. Of(Head(pending)) = hurt /\ m = hurt + 1
      BY <1>3, <1>4, <1>6, <2>2, <3>2, WhoseMoney
    <3> QED
      BY <1>8, <2>2, <3>3
  <2> QED
    BY <2>1, <2>2
<1>11. CASE first # line
  <2>1. CASE pending # <<>> /\ Head(pending) = first /\ Len(pending) = line - first
    <3>1. Pending = first /\ Len(Lines) = (line + 1) - first
      BY <1>3, <1>4, <1>5, <2>1
    <3> QED
      BY <1>9, <2>1, <3>1
  <2>2. CASE m = hurt + 1 /\ pending # <<>> /\ Of(Head(pending)) = hurt
    BY <1>8, <2>2
  <2>3. CASE m = hurt + 1 /\ pending = <<>> /\ Reviewed(quarantined, hurt)
    <3>1. Body[line].piece = "text"
      BY <1>1, <1>11
    <3>2. ~Leaves /\ ~GoesOn /\ ~Ends
      BY <2>3, <3>1 DEF Leaves, GoesOn, Ends
    <3>3. pending' = <<>>
      BY <2>3, <3>2, LineOutcome DEF Passes
    <3> QED
      BY <2>3, <3>3, StillReviewed DEF UnderWay
  <2> QED
    BY <1>11, <2>1, <2>2, <2>3, Zenon DEF UnderWay
<1> QED
  BY <1>10, <1>11

LEMMA KeptStep ==
    ASSUME IntakeInv, IsStatement, SliceState, ReadLine, line \in DOMAIN Body,
           Follow(rows, Pending), PendingInv,
           NEW hurt \in 0..Len(file.printed), OnlyHurt(file, hurt),
           KeptOrReviewed(rows, pending, quarantined, line, hurt)
    PROVE  KeptOrReviewed(rows', pending', quarantined', line + 1, hurt)
<1> SUFFICES ASSUME NEW m \in DOMAIN file.printed \ {hurt}, NEW first \in DOMAIN Body,
                    NEW last \in DOMAIN Body, StandsAt(file, m, first, last)
             PROVE  /\ last < line + 1 =>
                         Kept(rows', m) \/ (m = hurt + 1 /\ Reviewed(quarantined', hurt))
                    /\ first < line + 1 /\ line + 1 <= last =>
                         UnderWay(pending', quarantined', line + 1, m, hurt, first)
  BY Zenon DEF KeptOrReviewed
<1>1. /\ last < line => Kept(rows, m) \/ (m = hurt + 1 /\ Reviewed(quarantined, hurt))
      /\ first < line /\ line <= last => UnderWay(pending, quarantined, line, m, hurt, first)
  BY Zenon DEF KeptOrReviewed
<1>2. line \in Int /\ first \in Int /\ last \in Int /\ m \in DOMAIN file.printed
  BY LinesOf
<1>3. CASE last < line
  BY <1>1, <1>2, <1>3, StillKept, StillReviewed
<1>4. CASE last = line
  <2>1. first <= last
    BY <1>2, Standing
  <2>2. first # line => UnderWay(pending, quarantined, line, m, hurt, first)
    BY <1>1, <1>2, <1>4, <2>1
  <2>3. Kept(rows', m) \/ (m = hurt + 1 /\ Reviewed(quarantined', hurt))
    BY <1>2, <1>4, <2>2, AtItsLast
  <2> QED
    BY <1>2, <1>4, <2>3
<1>5. CASE line < last
  <2>1. CASE first <= line
    <3>1. first # line => UnderWay(pending, quarantined, line, m, hurt, first)
      BY <1>1, <1>2, <1>5, <2>1
    <3>2. UnderWay(pending', quarantined', line + 1, m, hurt, first)
      BY <1>2, <1>5, <2>1, <3>1, AboveItsLast
    <3> QED
      BY <1>2, <1>5, <3>2
  <2>2. CASE ~(first <= line)
    BY <1>2, <1>5, <2>2
  <2> QED
    BY <2>1, <2>2
<1> QED
  BY <1>2, <1>3, <1>4, <1>5

\* A row with another's date is the hurt row's, and no row above it has the
\* hurt row's money.
LEMMA DatedStep ==
    ASSUME IntakeInv, IsStatement, SliceState, ReadLine, line \in DOMAIN Body,
           Follow(rows, Pending), PendingInv,
           NEW hurt \in 0..Len(file.printed), OnlyHurt(file, hurt), DatedOrBroken(rows, hurt)
    PROVE  DatedOrBroken(rows', hurt)
<1>1. CASE rows' = rows
  BY <1>1
<1>2. CASE Ends /\ Rebuilt(Lines).fault = ""
  <2> DEFINE row == Rebuilt(Lines)
             n == Len(rows) + 1
  <2>1. /\ pending \in Seq(Nat) /\ line \in Nat /\ Pending \in 1..line
        /\ DOMAIN Body = 1..Len(Body) /\ Len(Body) \in Nat
    BY LinesOf DEF SliceState
  <2>2. row.dated = Of(Pending) /\ row.paid = Of(line)
    BY <2>1, RebuiltOf
  <2>3. Finishes(line, row) /\ Of(line) # 0
    <3>1. Body[line].piece \in Paid
      BY <1>2 DEF Ends
    <3>2. Of(line) # 0
      BY <3>1, LinesOf
    <3> QED
      BY <2>1, <3>1, <3>2, RebuiltOf DEF Finishes
  <2>4. rows' = Append(rows, row)
    BY <1>2, Zenon DEF Ends
  <2> HIDE DEF row
  <2>5. /\ DOMAIN rows' = DOMAIN rows \union {n} /\ rows'[n] = row
        /\ \A i \in DOMAIN rows : i < n /\ rows'[i] = rows[i]
        /\ Len(rows) \in Nat /\ DOMAIN rows = 1..Len(rows)
    BY <2>1, <2>3, <2>4, FollowMore
  <2>6. row.dated = row.paid \/ (row.paid = hurt + 1 /\ \A j \in DOMAIN rows : rows[j].paid # hurt)
    <3>1. CASE pending = <<>>
      BY <2>2, <3>1 DEF Pending
    <3>2. CASE pending # <<>>
      <4>1. Pending = Head(pending) /\ Pending \in DOMAIN Body
        BY <2>1, <3>2 DEF Pending
      <4>2. Body[Pending].piece = "start"
        BY <3>2, <4>1 DEF PendingInv
      <4>3. row.dated = row.paid \/ (Of(Pending) = hurt /\ row.paid = hurt + 1)
        BY <2>1, <2>2, <2>3, <3>2, <4>1, WhoseMoney
      <4>4. ASSUME Of(Pending) = hurt, NEW j \in DOMAIN rows, rows[j].paid = hurt PROVE FALSE
        <5>1. PICK k \in 1..Pending - 1 : Finishes(k, rows[j])
          BY DEF Follow
        <5>2. k < Pending /\ k \in DOMAIN Body /\ Of(k) = hurt /\ Body[k].piece \in Paid
          BY <2>1, <4>4, <5>1 DEF Finishes
        <5>3. Of(Pending) # hurt
          BY <4>1, <4>2, <5>2, Zenon DEF OnlyHurt, Of, Body
        <5> QED
          BY <4>4, <5>3
      <4> QED
        BY <4>3, <4>4
    <3> QED
      BY <3>1, <3>2
  <2>7. \A i \in DOMAIN rows :
          \/ rows[i].dated = rows[i].paid
          \/ rows[i].paid = hurt + 1 /\ \A j \in DOMAIN rows : j < i => rows[j].paid # hurt
    BY Zenon DEF DatedOrBroken
  <2>8. ~(n < n) /\ \A i \in DOMAIN rows : ~(n < i)
    BY <2>5
  <2> HIDE DEF n
  <2>9. ASSUME NEW i \in DOMAIN rows'
        PROVE  \/ rows'[i].dated = rows'[i].paid
               \/ /\ rows'[i].paid = hurt + 1
                  /\ \A j \in DOMAIN rows' : j < i => rows'[j].paid # hurt
    <3>1. CASE i = n
      BY <2>5, <2>6, <2>8, <3>1
    <3>2. CASE i \in DOMAIN rows
      BY <2>5, <2>7, <2>8, <3>2
    <3> QED
      BY <2>5, <3>1, <3>2
  <2> QED
    BY <2>9 DEF DatedOrBroken
<1> QED
  BY <1>1, <1>2, LineOutcome, Zenon DEF Passes, Leaves, GivesUp, GoesOn, Ends, Keeps

----------------------------------------------------------------------------
\* A statement from its first line to its report.

LEMMA SameStatement ==
    ASSUME file' = file
    PROVE  /\ IsStatement' <=> IsStatement
           /\ Body' = Body
           /\ Follow(rows', Pending') => Follow(rows, Pending)'
           /\ Follow(rows', line') => Follow(rows, line)'
           /\ HurtInv(rows', pending', quarantined', line')
              => HurtInv(rows, pending, quarantined, line)'
<1>1. Body' = Body
  BY DEF Body
<1>2. \A n : Of(n)' = Of(n)
  BY <1>1 DEF Of
<1>3. \A n, row : Finishes(n, row)' <=> Finishes(n, row)
  BY <1>1, <1>2 DEF Finishes
<1>4. /\ Follow(rows', Pending') => Follow(rows, Pending)'
      /\ Follow(rows', line') => Follow(rows, line)'
  BY <1>3, Zenon DEF Follow
<1>5. \A m : Reviewed(quarantined', m) <=> Reviewed(quarantined, m)'
  BY <1>2, Zenon DEF Reviewed
<1>6. \A m : Kept(rows', m) <=> Kept(rows, m)'
  BY Zenon DEF Kept
<1>7. \A m, hurt, first :
        UnderWay(pending', quarantined', line', m, hurt, first)
        => UnderWay(pending, quarantined, line, m, hurt, first)'
  BY <1>2, <1>5, Zenon DEF UnderWay
<1>8. \A hurt : KeptOrReviewed(rows', pending', quarantined', line', hurt)
                => KeptOrReviewed(rows, pending, quarantined, line, hurt)'
  BY <1>1, <1>5, <1>6, <1>7, Zenon DEF KeptOrReviewed
<1>9. \A hurt : DatedOrBroken(rows', hurt) => DatedOrBroken(rows, hurt)'
  BY Zenon DEF DatedOrBroken
<1>10. HurtInv(rows', pending', quarantined', line') => HurtInv(rows, pending, quarantined, line)'
  BY <1>8, <1>9, Zenon DEF HurtInv
<1> QED
  BY <1>1, <1>4, <1>10 DEF IsStatement

LEMMA StatementStep ==
    ASSUME IntakeInv, RecordsInv, StatementInv, IsStatement, ReadLine
    PROVE  StatementInv'
<1>1. /\ parser = "slice" /\ parser' = "slice" /\ file' = file /\ line <= Len(Body)
      /\ line' = line + 1
  BY LineOutcome, Zenon DEF ReadLine
<1>2. /\ SliceState /\ line \in 1..Len(Body) + 1 /\ Follow(rows, Pending) /\ PendingInv
      /\ HurtInv(rows, pending, quarantined, line)
  BY <1>1 DEF StatementInv, RecordsInv
<1>3. line \in DOMAIN Body /\ line' \in 1..Len(Body) + 1
  BY <1>1, <1>2, LinesOf
<1>4. Follow(rows', Pending') /\ PendingInv'
  BY <1>2, <1>3, RowsStep
<1>5. HurtInv(rows', pending', quarantined', line + 1)
  <2> SUFFICES ASSUME file.damage <= 1, NEW hurt \in 0..Len(file.printed), OnlyHurt(file, hurt)
               PROVE  /\ KeptOrReviewed(rows', pending', quarantined', line + 1, hurt)
                      /\ DatedOrBroken(rows', hurt)
    BY Zenon DEF HurtInv
  <2>1. KeptOrReviewed(rows, pending, quarantined, line, hurt) /\ DatedOrBroken(rows, hurt)
    BY <1>2, Zenon DEF HurtInv
  <2> QED
    BY <1>2, <1>3, <2>1, KeptStep, DatedStep
<1>6. HurtInv(rows', pending', quarantined', line')
  BY <1>1, <1>5
<1> QED
  BY <1>1, <1>3, <1>4, <1>6, SameStatement DEF StatementInv

\* What happens once the pages are read keeps the rows, and adds to review.
LEMMA AfterPages ==
    ASSUME IntakeInv, IsStatement, line = Len(Body) + 1, HurtInv(rows, pending, quarantined, line),
           rows' = rows, line' = line, quarantined \subseteq quarantined', pending' = <<>>
    PROVE  HurtInv(rows', pending', quarantined', line')
<1> SUFFICES ASSUME file.damage <= 1, NEW hurt \in 0..Len(file.printed), OnlyHurt(file, hurt)
             PROVE  /\ KeptOrReviewed(rows', pending', quarantined', line', hurt)
                    /\ DatedOrBroken(rows', hurt)
  BY Zenon DEF HurtInv
<1>1. KeptOrReviewed(rows, pending, quarantined, line, hurt) /\ DatedOrBroken(rows, hurt)
  BY Zenon DEF HurtInv
<1>2. \A m : Reviewed(quarantined, m) => Reviewed(quarantined', m)
  BY DEF Reviewed
<1>3. \A last \in DOMAIN Body : last < line /\ ~(line <= last)
  BY LinesOf
<1>4. KeptOrReviewed(rows', pending', quarantined', line', hurt)
  BY <1>1, <1>2, <1>3, Zenon DEF KeptOrReviewed
<1> QED
  BY <1>1, <1>4

LEMMA NextStatement == IntakeInv /\ RecordsInv /\ StatementInv /\ [Next]_vars => StatementInv'
<1> SUFFICES ASSUME IntakeInv, RecordsInv, StatementInv, [Next]_vars PROVE StatementInv'
  OBVIOUS
<1>1. file' = file /\ Body' = Body
  BY DEF Next, RefuseFile, Open, EndRows, Answer, ReadRow, ReadTag, SettleStatement, ReadLine,
         EndOfPages, ValidateChain, vars, Body
<1> SUFFICES ASSUME IsStatement PROVE StatementInv'
  BY <1>1, SameStatement DEF StatementInv
<1>2. parser \in Layouts \/ parser = "mt940" => FALSE
  BY OnlyTheSlice DEF Adapters, Layouts
<1>3. CASE RefuseFile
  <2>1. parser' = "refused"
    BY <1>3 DEF RefuseFile
  <2> QED
    BY <2>1 DEF StatementInv
<1>4. CASE Open
  <2>1. /\ parser = "unread" /\ line = 1 /\ pending = <<>> /\ rows = <<>>
        /\ line' = 1 /\ pending' = <<>> /\ rows' = <<>>
    BY <1>4 DEF Open, RecordsInv, FreshInv, sliceVars
  <2>2. Follow(rows', Pending')
    BY <2>1 DEF Follow
  <2>3. \A n \in DOMAIN Body : ~(n < 1)
    BY LinesOf
  <2>4. HurtInv(rows', pending', quarantined', line')
    <3>1. \A hurt : KeptOrReviewed(rows', pending', quarantined', line', hurt)
      BY <2>1, <2>3, Zenon DEF KeptOrReviewed
    <3>2. \A hurt : DatedOrBroken(rows', hurt)
      BY <2>1 DEF DatedOrBroken
    <3> QED
      BY <3>1, <3>2 DEF HurtInv
  <2>5. PendingInv' /\ line' \in 1..Len(Body) + 1
    BY <2>1, LinesOf DEF PendingInv
  <2> QED
    BY <1>1, <2>1, <2>2, <2>4, <2>5, SameStatement DEF StatementInv
<1>5. CASE EndRows \/ ReadRow \/ ReadTag \/ SettleStatement
  BY <1>2, <1>5 DEF EndRows, ReadRow, ReadTag, SettleStatement
<1>6. CASE Answer
  <2>1. /\ parser = "parsed" /\ parser' = "done" /\ line' = line /\ rows' = rows
        /\ pending' = pending /\ quarantined \subseteq quarantined'
    BY <1>6 DEF Answer, Reject, result, sliceVars
  <2>2. CASE rows = <<>>
    BY <2>1, <2>2 DEF StatementInv
  <2>3. CASE rows # <<>>
    <3>1. line = Len(Body) + 1 /\ pending = <<>> /\ Follow(rows, line)
          /\ HurtInv(rows, pending, quarantined, line)
      BY <2>1, <2>3 DEF StatementInv
    <3>2. HurtInv(rows', pending', quarantined', line')
      BY <2>1, <3>1, AfterPages
    <3> QED
      BY <1>1, <2>1, <3>1, <3>2, SameStatement DEF StatementInv
  <2> QED
    BY <2>2, <2>3
<1>7. CASE ReadLine
  BY <1>7, StatementStep
<1>8. CASE EndOfPages \/ ValidateChain
  <2>1. /\ parser = "slice" /\ parser' \in {"slice", "parsed"} /\ ~(line <= Len(Body))
        /\ line' = line /\ rows' = rows /\ pending' = <<>> /\ quarantined \subseteq quarantined'
        /\ parser' = "parsed" => pending = <<>>
    BY <1>8 DEF EndOfPages, ValidateChain, Unterminated, Reject, Left, sliceVars
  <2>2. /\ SliceState /\ line \in 1..Len(Body) + 1 /\ Follow(rows, Pending)
        /\ HurtInv(rows, pending, quarantined, line)
    BY <2>1 DEF StatementInv, RecordsInv
  <2>3. line = Len(Body) + 1 /\ line \in Int /\ Pending \in Int /\ Pending <= line /\ Pending' = line
    BY <2>1, <2>2, LinesOf DEF SliceState, Pending
  <2>4. Follow(rows', Pending') /\ Follow(rows', line')
    BY <2>1, <2>2, <2>3, FollowOn
  <2>5. HurtInv(rows', pending', quarantined', line')
    BY <2>1, <2>2, <2>3, AfterPages
  <2>6. PendingInv'
    BY <2>1 DEF PendingInv
  <2> QED
    BY <1>1, <2>1, <2>2, <2>3, <2>4, <2>5, <2>6, SameStatement DEF StatementInv
<1>9. CASE UNCHANGED vars
  <2>1. parser' = parser /\ line' = line /\ rows' = rows /\ pending' = pending
        /\ quarantined' = quarantined
    BY <1>9 DEF vars, result, sliceVars
  <2>2. Pending' = Pending
    BY <2>1 DEF Pending
  <2>3. PendingInv => PendingInv'
    BY <1>1, <2>1 DEF PendingInv
  <2> QED
    BY <1>1, <2>1, <2>2, <2>3, SameStatement DEF StatementInv
<1> QED
  BY <1>3, <1>4, <1>5, <1>6, <1>7, <1>8, <1>9 DEF Next

----------------------------------------------------------------------------
\* What a chain that goes on passes over.

PrintedBetween(p, q) == {m \in DOMAIN file.printed : p < m /\ m < q}

LEMMA PrintedChain ==
    ASSUME IntakeInv, IsStatement
    PROVE  /\ \A m \in DOMAIN file.printed :
                /\ file.printed[m].amount \in Int /\ file.printed[m].amount # 0
                /\ file.printed[m].balance \in Int /\ Amounts[m] = file.printed[m].amount
                /\ m > 1 => file.printed[m].balance
                              = file.printed[m - 1].balance + file.printed[m].amount
           /\ IsFiniteSet(DOMAIN file.printed) /\ \A p, q : IsFiniteSet(PrintedBetween(p, q))
           /\ DOMAIN file.printed = 1..Len(file.printed) /\ Len(file.printed) \in Nat
<1>1. DOMAIN file.printed = 1..Len(file.printed) /\ Len(file.printed) \in Nat
  BY LinesOf
<1>2. IsFiniteSet(DOMAIN file.printed)
  BY <1>1, FS_Interval
<1>3. \A p, q : PrintedBetween(p, q) \subseteq DOMAIN file.printed
  BY DEF PrintedBetween
<1>4. Chained(file)
  BY StatementFile
<1>5. \A m \in DOMAIN file.printed : Amounts[m] = file.printed[m].amount
  BY DEF Amounts
<1>6. \A m \in DOMAIN file.printed :
        /\ file.printed[m].amount \in Int /\ file.printed[m].amount # 0
        /\ file.printed[m].balance \in Int
        /\ m > 1 => file.printed[m].balance
                      = file.printed[m - 1].balance + file.printed[m].amount
  BY <1>4 DEF Chained
<1> QED
  BY <1>1, <1>2, <1>3, <1>5, <1>6, FS_Subset, Zenon

\* The rows between two come to what the balance above the lower one is more
\* than the upper one's: the lowest one of which this were wrong is right.
LEMMA Telescopes ==
    ASSUME IntakeInv, IsStatement, NEW p \in DOMAIN file.printed, NEW q \in DOMAIN file.printed,
           p < q
    PROVE  Total(Amounts, PrintedBetween(p, q))
           = file.printed[q - 1].balance - file.printed[p].balance
<1> DEFINE Right(k) == Total(Amounts, PrintedBetween(p, k))
                       = file.printed[k - 1].balance - file.printed[p].balance
           Wrong == {k \in DOMAIN file.printed : p < k /\ ~Right(k)}
<1>1. DOMAIN file.printed = 1..Len(file.printed) /\ Len(file.printed) \in Nat
  BY PrintedChain
<1>2. Wrong \subseteq Int /\ IsFiniteSet(Wrong)
  <2>1. Wrong \subseteq DOMAIN file.printed
    OBVIOUS
  <2> HIDE DEF Wrong
  <2>2. IsFiniteSet(DOMAIN file.printed)
    BY PrintedChain
  <2> QED
    BY <1>1, <2>1, <2>2, FS_Subset
<1>3. ASSUME NEW k \in DOMAIN file.printed, p < k, \A l \in DOMAIN file.printed : p < l /\ l < k => Right(l)
      PROVE  Right(k)
  <2>1. CASE k = p + 1
    <3>1. PrintedBetween(p, k) = {}
      BY <1>1, <2>1 DEF PrintedBetween
    <3>2. k - 1 = p /\ file.printed[p].balance \in Int
      BY <1>1, <2>1, PrintedChain
    <3> QED
      BY <3>1, <3>2, TotalEmpty
  <2>2. CASE k # p + 1
    <3> DEFINE l == k - 1
    <3>1. l \in DOMAIN file.printed /\ p < l /\ l < k /\ l > 1 /\ l # 0
      BY <1>1, <1>3, <2>2
    <3>2. Right(l)
      BY <1>3, <3>1
    <3>3. PrintedBetween(p, k) = PrintedBetween(p, l) \union {l} /\ PrintedBetween(p, l) \intersect {l} = {}
      BY <1>1, <3>1 DEF PrintedBetween
    <3>4. /\ IsFiniteSet(PrintedBetween(p, l)) /\ Amounts[l] \in Int
          /\ file.printed[l].balance = file.printed[l - 1].balance + file.printed[l].amount
          /\ Amounts[l] = file.printed[l].amount
          /\ file.printed[p].balance \in Int
      BY <3>1, PrintedChain
    <3>6. l - 1 \in DOMAIN file.printed
      BY <1>1, <3>1
    <3>7. file.printed[l - 1].balance \in Int
      BY <3>6, PrintedChain
    <3>5. \A m \in PrintedBetween(p, l) : Amounts[m] \in Int
      BY PrintedChain DEF PrintedBetween
    <3>8. Total(Amounts, PrintedBetween(p, l) \union {l}) = Total(Amounts, PrintedBetween(p, l)) + Amounts[l]
      <4> DEFINE S == PrintedBetween(p, l)
                 more == {l}
                 amount == Amounts[l]
      <4>1. IsFiniteSet(S) /\ amount \in Int /\ more \intersect S = {}
        BY <3>3, <3>4
      <4>2. \A m \in S : Amounts[m] \in Int
        BY <3>5
      <4>3. \E x : more = {x} /\ Amounts[x] = amount
        OBVIOUS
      <4> HIDE DEF S, more, amount
      <4>4. Total(Amounts, S \union more) = Total(Amounts, S) + amount
        BY <4>1, <4>2, <4>3, TotalMore
      <4> QED
        BY <4>4 DEF S, more, amount
    <3> QED
      BY <3>2, <3>3, <3>4, <3>7, <3>8
  <2> QED
    BY <2>1, <2>2
<1>4. Wrong = {}
  <2> SUFFICES ASSUME Wrong # {} PROVE FALSE
    OBVIOUS
  <2> DEFINE k == Min(Wrong)
  <2>1. k \in Wrong /\ \A l \in Wrong : k <= l
    <3> HIDE DEF Wrong
    <3> QED
      BY <1>2, LeastElement
  <2> HIDE DEF k
  <2>2. \A l \in DOMAIN file.printed : p < l /\ l < k => Right(l)
    <3> HIDE DEF Right
    <3> QED
      BY <1>1, <2>1
  <2>3. k \in DOMAIN file.printed /\ p < k /\ ~Right(k)
    BY <2>1
  <2> HIDE DEF Right
  <2> QED
    BY <1>3, <2>2, <2>3
<1>5. Right(q)
  <2> HIDE DEF Right
  <2> QED
    BY <1>4
<1> QED
  BY <1>5

\* One row that comes to something is passed over by no chain that goes on.
LEMMA OneRowShows ==
    ASSUME IntakeInv, IsStatement, NEW m \in DOMAIN file.printed
    PROVE  Total(Amounts, {m}) # 0
<1>1. Amounts[m] \in Int /\ Amounts[m] # 0
  BY PrintedChain
<1>2. Total(Amounts, {m}) = Amounts[m] + Total(Amounts, {m} \ {m})
  <2>1. IsFiniteSet({m}) /\ m \in {m} /\ \A x \in {m} : Amounts[x] \in Int
    BY <1>1, FS_Singleton
  <2> QED
    BY <2>1, TotalTake
<1>3. {m} \ {m} = {}
  OBVIOUS
<1> QED
  BY <1>1, <1>2, <1>3, TotalEmpty

\* Of two neighbours in the chain the lower one is the money of a lower row, and
\* what is between comes to nothing.
LEMMA Neighbours ==
    ASSUME IntakeInv, IsStatement, Follow(rows, line), NEW i \in 2..Len(rows), ~Broken(i)
    PROVE  /\ i \in DOMAIN rows /\ i - 1 \in DOMAIN rows /\ DOMAIN rows = 1..Len(rows) /\ Len(rows) \in Nat
           /\ rows[i - 1].paid \in DOMAIN file.printed /\ rows[i].paid \in DOMAIN file.printed
           /\ rows[i - 1].paid < rows[i].paid
           /\ Between(i) = PrintedBetween(rows[i - 1].paid, rows[i].paid)
           /\ Total(Amounts, Between(i)) = 0
<1> DEFINE p == rows[i - 1].paid
           q == rows[i].paid
<1>1. DOMAIN rows = 1..Len(rows) /\ Len(rows) \in Nat
  <2>1. \E S : rows \in Seq(S)
    BY DEF Follow
  <2> QED
    BY <2>1
<1>2. i \in DOMAIN rows /\ i - 1 \in DOMAIN rows /\ i > 1 /\ i - 1 <= i
  BY <1>1
<1>3. \A j \in DOMAIN rows : \E n \in DOMAIN Body : Finishes(n, rows[j])
  BY DEF Follow, Finishes
<1>4. PICK n \in DOMAIN Body : Finishes(n, rows[i])
  BY <1>2, <1>3
<1>5. PICK l \in DOMAIN Body : Finishes(l, rows[i - 1])
  BY <1>2, <1>3
<1>6. /\ q \in DOMAIN file.printed /\ rows[i].amount = file.printed[q].amount
      /\ rows[i].balance = file.printed[q].balance
  BY <1>4, LinesOf DEF Finishes
<1>7. p \in DOMAIN file.printed /\ rows[i - 1].balance = file.printed[p].balance
  BY <1>5, LinesOf DEF Finishes
<1>8. p <= q
  BY <1>2 DEF Follow
<1>9. rows[i - 1].balance + rows[i].amount = rows[i].balance
  BY <1>2 DEF Broken
<1> HIDE DEF p, q
<1>10. file.printed[p].balance + file.printed[q].amount = file.printed[q].balance
  BY <1>6, <1>7, <1>9
<1>11. /\ file.printed[p].balance \in Int /\ file.printed[q].balance \in Int
       /\ file.printed[q].amount \in Int /\ file.printed[q].amount # 0
       /\ q > 1 => file.printed[q].balance = file.printed[q - 1].balance + file.printed[q].amount
       /\ DOMAIN file.printed = 1..Len(file.printed) /\ Len(file.printed) \in Nat
  BY <1>6, <1>7, PrintedChain
<1>12. p # q
  BY <1>10, <1>11
<1>13. p < q /\ q > 1 /\ q - 1 \in DOMAIN file.printed
  BY <1>6, <1>7, <1>8, <1>11, <1>12
<1>14. file.printed[q - 1].balance \in Int
  BY <1>13, PrintedChain
<1>15. file.printed[q - 1].balance - file.printed[p].balance = 0
  BY <1>10, <1>11, <1>13, <1>14
<1>16. Total(Amounts, PrintedBetween(p, q)) = 0
  BY <1>6, <1>7, <1>13, <1>15, Telescopes
<1>17. Between(i) = PrintedBetween(p, q)
  BY DEF Between, PrintedBetween, p, q
<1> QED
  BY <1>1, <1>2, <1>6, <1>7, <1>13, <1>16, <1>17 DEF p, q

\* With one row hurt, the row is the printed one and what is missing above it is
\* the hurt row and the one below it, with a line to review.
LEMMA OneRowHurt ==
    ASSUME IntakeInv, IsStatement, Follow(rows, line), line = Len(Body) + 1,
           NEW hurt \in 0..Len(file.printed), OnlyHurt(file, hurt),
           KeptOrReviewed(rows, pending, quarantined, line, hurt), DatedOrBroken(rows, hurt),
           NEW i \in 2..Len(rows), ~Broken(i)
    PROVE  /\ rows[i].dated = rows[i].paid
           /\ Between(i) # {} => \E r \in quarantined : Of(r.line) \in Between(i)
<1> DEFINE p == rows[i - 1].paid
           q == rows[i].paid
<1>1. /\ i \in DOMAIN rows /\ i - 1 \in DOMAIN rows /\ DOMAIN rows = 1..Len(rows) /\ Len(rows) \in Nat
      /\ p \in DOMAIN file.printed /\ q \in DOMAIN file.printed /\ p < q
      /\ Between(i) = PrintedBetween(p, q) /\ Total(Amounts, Between(i)) = 0
  BY Neighbours
<1>2. DOMAIN file.printed = 1..Len(file.printed) /\ Len(file.printed) \in Nat
  BY PrintedChain
<1>3. \A j \in DOMAIN rows : (j <= i - 1 => rows[j].paid <= p) /\ (i <= j => q <= rows[j].paid)
  BY <1>1 DEF Follow
<1> HIDE DEF p, q
<1>4. \A m \in Between(i) : m \in DOMAIN file.printed /\ m \in Int /\ p < m /\ m < q
  BY <1>1, <1>2 DEF PrintedBetween
<1>5. ASSUME NEW m \in Between(i), m # hurt
      PROVE  m = hurt + 1 /\ Reviewed(quarantined, hurt)
  <2>1. PICK first, last \in DOMAIN Body : StandsAt(file, m, first, last)
    BY <1>4, <1>5, Zenon DEF OnlyHurt, Body
  <2>2. last < line
    BY LinesOf
  <2>3. Kept(rows, m) \/ (m = hurt + 1 /\ Reviewed(quarantined, hurt))
    BY <1>4, <1>5, <2>1, <2>2 DEF KeptOrReviewed
  <2>4. ASSUME NEW j \in DOMAIN rows, rows[j].paid = m PROVE FALSE
    <3>1. j <= i - 1 \/ i <= j
      BY <1>1
    <3> QED
      BY <1>1, <1>2, <1>3, <1>4, <2>4, <3>1
  <2> QED
    BY <2>3, <2>4 DEF Kept
<1>6. \A m \in Between(i) : Between(i) # {m}
  BY <1>1, <1>4, OneRowShows
<1>7. ASSUME Between(i) # {}
      PROVE  hurt \in Between(i) /\ hurt + 1 \in Between(i) /\ Reviewed(quarantined, hurt)
  <2>1. \A m \in Between(i) : m = hurt \/ (m = hurt + 1 /\ Reviewed(quarantined, hurt))
    BY <1>5
  <2>2. PICK m \in Between(i) : TRUE
    BY <1>7
  <2>3. PICK l \in Between(i) : l # m
    BY <1>6, <2>2
  <2> QED
    BY <2>1, <2>2, <2>3
<1>8. ASSUME rows[i].dated # rows[i].paid PROVE FALSE
  <2>1. q = hurt + 1 /\ p # hurt
    <3>1. i - 1 < i
      BY <1>1
    <3> QED
      BY <1>1, <1>8, <3>1 DEF DatedOrBroken, p, q
  <2>2. hurt \in PrintedBetween(p, q)
    BY <1>1, <1>2, <2>1 DEF PrintedBetween
  <2> QED
    BY <1>1, <1>4, <1>7, <2>1, <2>2
<1> QED
  BY <1>7, <1>8 DEF Reviewed

\* bank_slice.py and its balance chain: whatever lines of a PDF statement were
\* lost, doubled or unreadable, a row that keeps its place passes over nothing
\* that comes to money, and with one line hurt nothing it does not show.
THEOREM GapsShow == Spec => []GapsAreNeverSilent
<1>1. Init => StatementInv
  BY DEF Init, StatementInv
<1>2. Spec => []StatementInv
  <2>1. Spec => []RecordsInv
    BY InitRecords, NextRecords, IntakeInvariance, PTL DEF Spec
  <2> QED
    BY <1>1, <2>1, NextStatement, IntakeInvariance, PTL DEF Spec
<1>3. IntakeInv /\ StatementInv => GapsAreNeverSilent
  <2> SUFFICES ASSUME IntakeInv, StatementInv, Read("slice"), NEW i \in 2..Len(rows), ~Broken(i)
               PROVE  /\ MapThenSumSet(LAMBDA m : Amounts[m], Between(i)) = 0
                      /\ file.damage <= 1 =>
                           /\ rows[i].dated = rows[i].paid
                           /\ Between(i) # {} => \E q \in quarantined : Body[q.line].of \in Between(i)
    BY Zenon DEF GapsAreNeverSilent
  <2>1. IsStatement /\ parser = "done"
    BY DEF Read, IsStatement
  <2>2. rows # <<>>
    OBVIOUS
  <2>3. line = Len(Body) + 1 /\ Follow(rows, line) /\ HurtInv(rows, pending, quarantined, line)
    BY <2>1, <2>2 DEF StatementInv
  <2>4. Total(Amounts, Between(i)) = 0
    BY <2>1, <2>3, Neighbours
  <2>5. ASSUME file.damage <= 1
        PROVE  /\ rows[i].dated = rows[i].paid
               /\ Between(i) # {} => \E q \in quarantined : Of(q.line) \in Between(i)
    <3>1. PICK hurt \in 0..Len(file.printed) : OnlyHurt(file, hurt)
      BY <2>1, <2>5, StatementFile
    <3>2. KeptOrReviewed(rows, pending, quarantined, line, hurt) /\ DatedOrBroken(rows, hurt)
      BY <2>3, <2>5, <3>1, Zenon DEF HurtInv
    <3> QED
      BY <2>1, <2>3, <3>1, <3>2, OneRowHurt
  <2> QED
    BY <2>4, <2>5, Zenon DEF Total, Of
<1> QED
  BY <1>2, <1>3, IntakeInvariance, PTL
----------------------------------------------------------------------------
\* An MT940 message: the balances a statement runs through.

IsMessage == file.formats = {"mt940"} /\ Body # <<>>

Taken(s, k) == [j \in 1..k |-> Body[s.lines[j].line].amount]

LEMMA RunningIs ==
    ASSUME NEW s, s.lines \in Seq(Movement), Body[s.opening].amount \in Int,
           \A j \in DOMAIN s.lines : Body[s.lines[j].line].amount \in Int,
           NEW k \in 0..Len(s.lines)
    PROVE  /\ Running(s, k) = Body[s.opening].amount + Total(Taken(s, k), 1..k)
           /\ Total(Taken(s, k), 1..k) \in Int
<1> DEFINE t == Taken(s, k)
<1>1. Running(s, k) = LeftSum(Body[s.opening].amount, t)
  BY Zenon DEF Running, LeftSum, Taken
<1>2. k \in Nat /\ DOMAIN t = 1..k /\ \A j \in 1..k : t[j] \in Int
  BY DEF Taken
<1>3. IsFiniteSet(1..k)
  BY <1>2, FS_Interval
<1> HIDE DEF t
<1>4. Total(t, 1..k) \in Int
  BY <1>2, <1>3, TotalInt
<1>5. LeftSum(Body[s.opening].amount, t) = Body[s.opening].amount + Total(t, 1..k)
  BY <1>2, LeftSumIs
<1> QED
  BY <1>1, <1>4, <1>5 DEF t

\* Each movement moves the balance by its amount, from the opening one.
LEMMA RunningMoves ==
    ASSUME NEW s, s.lines \in Seq(Movement), Body[s.opening].amount \in Int,
           \A j \in DOMAIN s.lines : Body[s.lines[j].line].amount \in Int
    PROVE  /\ Running(s, 0) = Body[s.opening].amount
           /\ \A k \in DOMAIN s.lines :
                /\ Running(s, k) = Running(s, k - 1) + Body[s.lines[k].line].amount
                /\ Running(s, k) \in Int
<1>1. Running(s, 0) = Body[s.opening].amount
  <2>1. 0 \in 0..Len(s.lines) /\ 1..0 = {}
    OBVIOUS
  <2>2. Running(s, 0) = Body[s.opening].amount + Total(Taken(s, 0), 1..0)
    BY <2>1, RunningIs
  <2> QED
    BY <2>1, <2>2, TotalEmpty
<1>2. ASSUME NEW k \in DOMAIN s.lines
      PROVE  Running(s, k) = Running(s, k - 1) + Body[s.lines[k].line].amount /\ Running(s, k) \in Int
  <2> DEFINE t == Taken(s, k)
             u == Taken(s, k - 1)
             a == Body[s.lines[k].line].amount
             b == Body[s.opening].amount
  <2>1. k \in 0..Len(s.lines) /\ k - 1 \in 0..Len(s.lines) /\ k \in 1..k /\ k \in Nat \ {0}
    OBVIOUS
  <2>2. /\ \A j \in 1..k : t[j] \in Int
        /\ t[k] = a /\ \A j \in 1..k - 1 : t[j] = u[j]
    BY <2>1 DEF Taken
  <2>3. /\ Running(s, k) = b + Total(t, 1..k) /\ Running(s, k - 1) = b + Total(u, 1..k - 1)
        /\ Total(t, 1..k) \in Int /\ Total(u, 1..k - 1) \in Int
    BY <2>1, RunningIs
  <2>4. IsFiniteSet(1..k) /\ IsFiniteSet(1..k - 1) /\ (1..k) \ {k} = 1..k - 1
    <3>1. k \in Int /\ k - 1 \in Int /\ 1 \in Int
      BY <2>1
    <3>2. IsFiniteSet(1..k) /\ IsFiniteSet(1..k - 1)
      BY <3>1, FS_Interval
    <3>3. (1..k) \ {k} = 1..k - 1
      BY <3>1
    <3> QED
      BY <3>2, <3>3
  <2>5. a \in Int /\ b \in Int
    OBVIOUS
  <2> HIDE DEF t, u, a, b
  <2>6. Total(t, 1..k) = t[k] + Total(t, (1..k) \ {k})
    BY <2>1, <2>2, <2>4, TotalTake
  <2>7. Total(t, 1..k - 1) = Total(u, 1..k - 1)
    BY <2>2, <2>4, TotalSame
  <2>8. Total(t, 1..k) = a + Total(u, 1..k - 1)
    BY <2>2, <2>4, <2>6, <2>7
  <2>9. Running(s, k) = Running(s, k - 1) + a /\ Running(s, k) \in Int
    BY <2>3, <2>5, <2>8
  <2> QED
    BY <2>9 DEF a
<1> QED
  BY <1>1, <1>2

----------------------------------------------------------------------------
\* Where the account stands at a line of a message.

LEMMA MessageFile ==
    ASSUME IntakeInv, IsMessage
    PROVE  /\ Body \in Seq(Range(Body)) /\ file.printed \in Seq(Range(file.printed))
           /\ Chained(file) /\ MessageInOrder(file)
           /\ file.damage <= 1 => \E hurt \in 0..Len(file.printed) : OneMoveHurt(file, hurt)
<1>1. PICK i \in DOMAIN Files : \E j \in DOMAIN Files[i] : file \in Files[i][j]
  BY DEF IntakeInv
<1>2. PICK j \in DOMAIN Files[i] : file \in Files[i][j]
  BY <1>1
<1>3. file.formats # {"slice"} /\ file.formats \in {{"slice"}, {"mt940"}} /\ file.body # <<>>
  BY DEF Body, IsMessage
<1> QED
  BY <1>2, <1>3, StatementsAssumption, Zenon DEF Body

Move(n) == Moved(file, n)
Balance(n) == Opens(file, n) \/ Shuts(file, n)

LEMMA MessageLines ==
    ASSUME IntakeInv, IsMessage
    PROVE  /\ Len(Body) \in Nat /\ DOMAIN Body = 1..Len(Body)
           /\ Len(file.printed) \in Nat /\ DOMAIN file.printed = 1..Len(file.printed)
           /\ Len(file.printed) # 0
           /\ \A n \in DOMAIN Body :
                /\ Body[n].amount \in Int /\ Of(n) \in 0..Len(file.printed)
                /\ Move(n) => Of(n) \in DOMAIN file.printed
                /\ Balance(n) => ~Move(n)
           /\ \A n, later \in DOMAIN Body :
                /\ n < later /\ Move(n) /\ (Move(later) \/ Balance(later)) => Of(n) <= Of(later)
                /\ n < later /\ Balance(n) /\ Move(later) => Of(n) < Of(later)
<1>1. /\ Body \in Seq(Range(Body)) /\ file.printed \in Seq(Range(file.printed))
      /\ MessageInOrder(file)
  BY MessageFile
<1>2. file.printed # <<>>
  BY <1>1 DEF MessageInOrder
<1>3. /\ Len(Body) \in Nat /\ DOMAIN Body = 1..Len(Body)
      /\ Len(file.printed) \in Nat /\ DOMAIN file.printed = 1..Len(file.printed)
      /\ Len(file.printed) # 0
  BY <1>1, <1>2
<1>4. ASSUME NEW n \in DOMAIN Body
      PROVE  /\ Body[n].amount \in Int /\ Of(n) \in 0..Len(file.printed)
             /\ Move(n) => Of(n) # 0
             /\ \A later \in DOMAIN Body :
                  /\ n < later /\ Move(n) /\ (Move(later) \/ Balance(later)) => Of(n) <= Of(later)
                  /\ n < later /\ Balance(n) /\ Move(later) => Of(n) < Of(later)
  BY <1>1, Zenon DEF MessageInOrder, Of, Body, Move, Balance
<1>5. ASSUME NEW n \in DOMAIN Body, Move(n) PROVE Of(n) \in DOMAIN file.printed
  BY <1>3, <1>4, <1>5
<1>6. ASSUME NEW n \in DOMAIN Body, Balance(n) PROVE ~Move(n)
  BY <1>6 DEF Balance, Move, Moved, Opens, Shuts
<1> QED
  BY <1>3, <1>4, <1>5, <1>6, Zenon

\* What the account holds after so many movements goes on by their amounts.
After(m) == BalanceAfter(file, m)

LEMMA Chain ==
    ASSUME IntakeInv, IsMessage
    PROVE  /\ \A m \in DOMAIN file.printed :
                /\ file.printed[m].amount \in Int \ {0} /\ file.printed[m].balance = After(m)
                /\ After(m) = After(m - 1) + file.printed[m].amount
           /\ \A m \in 0..Len(file.printed) : After(m) \in Int
<1>1. Chained(file) /\ DOMAIN file.printed = 1..Len(file.printed) /\ Len(file.printed) \in Nat
      /\ Len(file.printed) # 0
  BY MessageFile, MessageLines
<1>2. \A m \in DOMAIN file.printed :
        /\ file.printed[m].amount \in Int \ {0} /\ file.printed[m].balance \in Int
        /\ m > 1 => file.printed[m].balance = file.printed[m - 1].balance + file.printed[m].amount
  BY <1>1 DEF Chained
<1>3. 1 \in DOMAIN file.printed
  BY <1>1
<1>4. /\ After(0) = file.printed[1].balance - file.printed[1].amount
      /\ \A m \in DOMAIN file.printed : After(m) = file.printed[m].balance
  BY <1>1 DEF After, BalanceAfter
<1>5. ASSUME NEW m \in DOMAIN file.printed
      PROVE  After(m) = After(m - 1) + file.printed[m].amount
  <2>1. CASE m = 1
    BY <1>2, <1>3, <1>4, <2>1
  <2>2. CASE m # 1
    <3>1. m > 1 /\ m - 1 \in DOMAIN file.printed
      BY <1>1, <2>2
    <3> QED
      BY <1>2, <1>4, <3>1
  <2> QED
    BY <2>1, <2>2
<1>6. ASSUME NEW m \in 0..Len(file.printed) PROVE After(m) \in Int
  <2>1. CASE m = 0
    BY <1>2, <1>3, <1>4, <2>1
  <2>2. CASE m # 0
    BY <1>1, <1>2, <1>4, <2>2
  <2> QED
    BY <2>1, <2>2
<1> QED
  BY <1>2, <1>4, <1>5, <1>6

\* What the lines of a hurt movement come to beyond what was printed of it.
ErrorOf(hurt, e) ==
    LET amount == file.printed[hurt].amount
        lines == MoveLines(file, hurt)
    IN  \/ lines = {} /\ e = 0 - amount
        \/ \E n \in DOMAIN Body : lines = {n} /\ e = Body[n].amount - amount
        \/ \E n, again \in DOMAIN Body :
             /\ n < again /\ lines = {n, again}
             /\ Body[n].amount = amount /\ Body[again].amount = amount /\ e = amount

LEMMA HurtShows ==
    ASSUME IntakeInv, IsMessage, NEW hurt \in DOMAIN file.printed, MoveHurt(file, hurt)
    PROVE  \E e \in Int \ {0} : ErrorOf(hurt, e)
<1> DEFINE amount == file.printed[hurt].amount
           lines == MoveLines(file, hurt)
<1>1. amount \in Int \ {0} /\ \A n \in DOMAIN Body : Body[n].amount \in Int
  BY Chain, MessageLines
<1>2. \/ lines = {}
      \/ \E n \in DOMAIN Body : lines = {n} /\ Body[n].amount # amount
      \/ \E n, again \in DOMAIN Body :
           /\ n < again /\ lines = {n, again}
           /\ Body[n].amount = amount /\ Body[again].amount = amount
  BY Zenon DEF MoveHurt, Body
<1> HIDE DEF amount, lines
<1>3. CASE lines = {}
  <2>1. 0 - amount \in Int \ {0}
    BY <1>1
  <2> QED
    BY <1>3, <2>1, Zenon DEF ErrorOf, amount, lines
<1>4. CASE \E n \in DOMAIN Body : lines = {n} /\ Body[n].amount # amount
  <2>1. PICK n \in DOMAIN Body : lines = {n} /\ Body[n].amount # amount
    BY <1>4
  <2>2. Body[n].amount - amount \in Int \ {0}
    BY <1>1, <2>1
  <2> QED
    BY <2>1, <2>2, Zenon DEF ErrorOf, amount, lines
<1>5. CASE \E n, again \in DOMAIN Body :
             /\ n < again /\ lines = {n, again}
             /\ Body[n].amount = amount /\ Body[again].amount = amount
  BY <1>1, <1>5, Zenon DEF ErrorOf, amount, lines
<1> QED
  BY <1>2, <1>3, <1>4, <1>5

\* The hurt movement is behind: no line of it is below n.
Past(n, hurt) ==
    hurt # 0 /\ hurt <= Of(n) /\ \A later \in MoveLines(file, hurt) : ~(n < later)

\* What the movements on the lines down to n leave, from the balance at the top.
Level(n, hurt, e) == After(Of(n)) + (IF Past(n, hurt) THEN e ELSE 0)

\* The hurt movement, if there is one, and what is wrong with its lines.
OneError(hurt, e) ==
    /\ hurt \in 0..Len(file.printed) /\ e \in Int \ {0}
    /\ \A m \in DOMAIN file.printed \ {hurt} : MoveStands(file, m)
    /\ hurt # 0 => ErrorOf(hurt, e)

NoMoveBetween(n, later) == \A k \in DOMAIN Body : n < k /\ k < later => ~Move(k)

\* A movement of which there should be a line and is none is the hurt one.
LEMMA NoneBetween ==
    ASSUME IntakeInv, IsMessage, NEW hurt, NEW e, OneError(hurt, e),
           NEW n \in DOMAIN Body, NEW later \in DOMAIN Body, n < later,
           Move(n) \/ Balance(n), Move(later) \/ Balance(later), NoMoveBetween(n, later),
           NEW m \in DOMAIN file.printed, Of(n) < m,
           m < Of(later) \/ (m <= Of(later) /\ Balance(later))
    PROVE  m = hurt /\ MoveLines(file, m) = {}
<1>1. /\ n \in Int /\ later \in Int /\ Of(n) \in Int /\ Of(later) \in Int /\ m \in Int
      /\ \A k \in DOMAIN Body : k \in Int /\ Of(k) \in Int
  BY MessageLines
<1>2. ASSUME NEW k \in DOMAIN Body, Move(k), Of(k) = m PROVE FALSE
  <2>1. ~(k < n)
    <3>1. k < n => Of(k) <= Of(n)
      BY <1>2, MessageLines
    <3> QED
      BY <1>1, <1>2, <3>1
  <2>2. k # n
    BY <1>1, <1>2
  <2>3. ~(later < k)
    <3>1. later < k /\ Move(later) => Of(later) <= Of(k)
      BY <1>2, MessageLines
    <3>2. later < k /\ Balance(later) => Of(later) < Of(k)
      BY <1>2, MessageLines
    <3> QED
      BY <1>1, <1>2, <3>1, <3>2
  <2>4. k # later
    <3>1. CASE Balance(later)
      BY <1>2, <3>1, MessageLines
    <3>2. CASE ~Balance(later)
      BY <1>1, <1>2, <3>2
    <3> QED
      BY <3>1, <3>2
  <2> QED
    BY <1>1, <1>2, <2>1, <2>2, <2>3, <2>4 DEF NoMoveBetween
<1>3. MoveLines(file, m) = {}
  BY <1>2 DEF MoveLines, Move, Of, Body
<1>4. m # hurt => MoveStands(file, m)
  BY DEF OneError
<1> QED
  BY <1>3, <1>4 DEF MoveStands

\* A line of a movement that stands has its amount, and no other line has.
LEMMA MoveAsPrinted ==
    ASSUME IntakeInv, IsMessage, NEW hurt, NEW e, OneError(hurt, e),
           NEW n \in DOMAIN Body, Move(n), Of(n) # hurt
    PROVE  /\ Body[n].amount = file.printed[Of(n)].amount
           /\ \A k \in DOMAIN Body : Move(k) /\ Of(k) = Of(n) => k = n
<1>1. Of(n) \in DOMAIN file.printed \ {hurt}
  BY MessageLines
<1>2. MoveStands(file, Of(n))
  BY <1>1 DEF OneError
<1>3. PICK k \in DOMAIN Body :
        MoveLines(file, Of(n)) = {k} /\ Body[k].amount = file.printed[Of(n)].amount
  BY <1>2, Zenon DEF MoveStands, Body
<1>4. \A l \in DOMAIN Body : Move(l) /\ Of(l) = Of(n) => l \in MoveLines(file, Of(n))
  BY Zenon DEF MoveLines, Move, Of, Body
<1> QED
  BY <1>3, <1>4

\* From a line to the next movement the level moves by the amount on its line.
LEMMA NextMove ==
    ASSUME IntakeInv, IsMessage, NEW hurt, NEW e, OneError(hurt, e),
           NEW n \in DOMAIN Body, NEW next \in DOMAIN Body, n < next,
           Move(n) \/ Opens(file, n), Move(next), NoMoveBetween(n, next)
    PROVE  Level(next, hurt, e) = Level(n, hurt, e) + Body[next].amount
<1> DEFINE x == Of(n)
           y == Of(next)
           N == Len(file.printed)
<1>1. /\ n \in Int /\ next \in Int /\ x \in 0..N /\ y \in DOMAIN file.printed
      /\ DOMAIN file.printed = 1..N /\ N \in Nat /\ hurt \in 0..N /\ e \in Int
      /\ \A k \in DOMAIN Body : k \in Int /\ Body[k].amount \in Int
  BY MessageLines DEF OneError
<1>2. /\ After(x) \in Int /\ After(y) \in Int /\ file.printed[y].amount \in Int
      /\ After(y) = After(y - 1) + file.printed[y].amount
  BY <1>1, Chain
<1>3. x <= y /\ (Opens(file, n) => x < y)
  BY MessageLines DEF Balance
<1>4. \A k \in DOMAIN Body :
        /\ k \in MoveLines(file, hurt) <=> Move(k) /\ Of(k) = hurt
        /\ Move(k) /\ k < n => Of(k) <= x
        /\ Move(k) /\ next < k => y <= Of(k)
        /\ n < k /\ k < next => ~Move(k)
  <2>1. \A k \in DOMAIN Body : k \in MoveLines(file, hurt) <=> Move(k) /\ Of(k) = hurt
    BY Zenon DEF MoveLines, Move, Of, Body
  <2>2. \A k \in DOMAIN Body : n < k /\ k < next => ~Move(k)
    BY DEF NoMoveBetween
  <2>3. \A k \in DOMAIN Body : Move(k) /\ k < n => Of(k) <= x
    BY MessageLines DEF Balance
  <2>4. \A k \in DOMAIN Body : Move(k) /\ next < k => y <= Of(k)
    BY MessageLines
  <2> QED
    BY <2>1, <2>2, <2>3, <2>4
<1>5. MoveLines(file, hurt) \subseteq DOMAIN Body
  BY DEF MoveLines, Body
<1>6. \A m \in DOMAIN file.printed : x < m /\ m < y => m = hurt /\ MoveLines(file, m) = {}
  BY NoneBetween DEF Balance
<1>7. Opens(file, n) => ~Move(n)
  BY MessageLines DEF Balance
<1> HIDE DEF x, y, N
<1>8. /\ Past(n, hurt) <=> hurt # 0 /\ hurt <= x /\ \A k \in MoveLines(file, hurt) : ~(n < k)
      /\ Past(next, hurt) <=> hurt # 0 /\ hurt <= y /\ \A k \in MoveLines(file, hurt) : ~(next < k)
  BY DEF Past, x, y
<1>9. /\ Level(n, hurt, e) = After(x) + (IF Past(n, hurt) THEN e ELSE 0)
      /\ Level(next, hurt, e) = After(y) + (IF Past(next, hurt) THEN e ELSE 0)
  BY DEF Level, x, y
\* The next movement stands and is the one after, or the hurt one is passed over.
<1>10. CASE y # hurt /\ x < y
  <2>1. Body[next].amount = file.printed[y].amount
    BY <1>10, MoveAsPrinted DEF y
  <2>2. CASE y = x + 1
    <3>1. hurt <= x <=> hurt <= y
      BY <1>1, <1>10, <2>2
    <3>2. ASSUME NEW k \in MoveLines(file, hurt), n < k, hurt <= x PROVE FALSE
      <4>1. k \in DOMAIN Body /\ k \in Int /\ Move(k) /\ Of(k) = hurt
        BY <1>1, <1>4, <1>5, <3>2
      <4>2. k # next
        BY <1>10, <4>1 DEF y
      <4>3. next < k
        BY <1>1, <1>4, <3>2, <4>1, <4>2
      <4>4. y <= hurt
        BY <1>4, <4>1, <4>3
      <4> QED
        BY <1>1, <2>2, <3>2, <4>4
    <3>3. hurt <= x => \A k \in MoveLines(file, hurt) : ~(n < k) /\ ~(next < k)
      <4>1. \A k \in MoveLines(file, hurt) : next < k => n < k
        BY <1>1, <1>5
      <4> QED
        BY <3>2, <4>1
    <3>4. Past(n, hurt) <=> Past(next, hurt)
      BY <1>8, <3>1, <3>3
    <3>5. y - 1 = x
      BY <1>1, <2>2
    <3> QED
      BY <1>1, <1>2, <1>9, <2>1, <3>4, <3>5
  <2>3. CASE y # x + 1
    <3>1. x + 1 \in DOMAIN file.printed /\ x < x + 1 /\ x + 1 < y
      BY <1>1, <1>10, <2>3
    <3>2. x + 1 = hurt /\ MoveLines(file, hurt) = {}
      BY <1>6, <3>1
    <3>3. y = x + 2
      <4> SUFFICES ASSUME y # x + 2 PROVE FALSE
        OBVIOUS
      <4>1. x + 2 \in DOMAIN file.printed /\ x < x + 2 /\ x + 2 < y
        BY <1>1, <3>1
      <4>2. x + 2 = hurt
        BY <1>6, <4>1
      <4> QED
        BY <1>1, <3>2, <4>2
    <3>4. ~Past(n, hurt) /\ Past(next, hurt)
      BY <1>1, <1>8, <3>2, <3>3
    <3>5. e = 0 - file.printed[hurt].amount
      <4>1. hurt # 0 /\ ErrorOf(hurt, e)
        BY <1>1, <3>2 DEF OneError
      <4> QED
        BY <3>2, <4>1 DEF ErrorOf
    <3>6. file.printed[hurt].amount \in Int /\ After(hurt) = After(x) + file.printed[hurt].amount
      <4>1. hurt \in DOMAIN file.printed /\ hurt - 1 = x
        BY <1>1, <3>1, <3>2
      <4> QED
        BY <4>1, Chain
    <3>7. After(y) = After(hurt) + file.printed[y].amount
      <4>1. y - 1 = hurt
        BY <1>1, <3>2, <3>3
      <4> QED
        BY <1>2, <4>1
    <3>8. Level(n, hurt, e) = After(x) /\ Level(next, hurt, e) = After(y) + e
      BY <1>2, <1>9, <3>4
    <3> DEFINE p == file.printed[y].amount
               h == file.printed[hurt].amount
    <3>9. /\ p \in Int /\ h \in Int /\ After(x) \in Int /\ e = 0 - h /\ Body[next].amount = p
          /\ After(y) = (After(x) + h) + p
      BY <1>2, <2>1, <3>5, <3>6, <3>7
    <3> HIDE DEF p, h
    <3> QED
      BY <3>8, <3>9
  <2> QED
    BY <2>2, <2>3
\* The next movement is the hurt one.
<1>11. CASE y = hurt
  <2>1. hurt # 0 /\ ErrorOf(hurt, e) /\ next \in MoveLines(file, hurt)
    BY <1>1, <1>4, <1>11 DEF OneError, y
  <2>2. x = y \/ y = x + 1
    <3> SUFFICES ASSUME x # y, y # x + 1 PROVE FALSE
      OBVIOUS
    <3>1. x + 1 \in DOMAIN file.printed /\ x < x + 1 /\ x + 1 < y
      BY <1>1, <1>3
    <3>2. x + 1 = hurt
      BY <1>6, <3>1
    <3> QED
      BY <1>1, <1>11, <3>1, <3>2
  <2>3. CASE \E k \in DOMAIN Body :
               MoveLines(file, hurt) = {k} /\ e = Body[k].amount - file.printed[hurt].amount
    <3>1. MoveLines(file, hurt) = {next} /\ e = Body[next].amount - file.printed[hurt].amount
      BY <2>1, <2>3
    <3>2. x # y
      <4> SUFFICES ASSUME x = y PROVE FALSE
        OBVIOUS
      <4>1. Move(n) /\ Of(n) = hurt
        BY <1>1, <1>3, <1>11 DEF x
      <4>2. n \in MoveLines(file, hurt)
        BY <1>4, <4>1
      <4> QED
        BY <1>1, <3>1, <4>2
    <3>3. y = x + 1 /\ ~Past(n, hurt) /\ Past(next, hurt)
      BY <1>1, <1>8, <1>11, <2>1, <2>2, <3>1, <3>2
    <3>4. After(y) = After(x) + file.printed[y].amount
      <4>1. y - 1 = x
        BY <1>1, <3>3
      <4> QED
        BY <1>2, <4>1
    <3>5. Level(n, hurt, e) = After(x) /\ Level(next, hurt, e) = After(y) + e
      <4>1. Level(n, hurt, e) = After(x) + 0
        BY <1>9, <3>3
      <4> QED
        BY <1>2, <1>9, <3>3, <4>1
    <3>6. Body[next].amount \in Int /\ e = Body[next].amount - file.printed[y].amount
      BY <1>1, <1>11, <3>1
    <3> DEFINE ax == After(x)
               ay == After(y)
               p == file.printed[y].amount
               b == Body[next].amount
               ln == Level(n, hurt, e)
               lx == Level(next, hurt, e)
    <3>7. /\ ax \in Int /\ ay \in Int /\ p \in Int /\ b \in Int
          /\ ay = ax + p /\ ln = ax /\ lx = ay + e /\ e = b - p
      BY <1>2, <3>4, <3>5, <3>6
    <3> HIDE DEF ax, ay, p, b, ln, lx
    <3>8. lx = ln + b
      BY <3>7
    <3> QED
      BY <3>8 DEF lx, ln, b
  <2>4. CASE \E k, again \in DOMAIN Body :
               /\ k < again /\ MoveLines(file, hurt) = {k, again}
               /\ Body[k].amount = file.printed[hurt].amount
               /\ Body[again].amount = file.printed[hurt].amount
               /\ e = file.printed[hurt].amount
    <3>1. PICK k, again \in DOMAIN Body :
               /\ k < again /\ MoveLines(file, hurt) = {k, again}
               /\ Body[k].amount = file.printed[hurt].amount
               /\ Body[again].amount = file.printed[hurt].amount
               /\ e = file.printed[hurt].amount
      BY <2>4
    <3>2. k \in Int /\ again \in Int /\ Move(k) /\ Move(again) /\ Of(k) = hurt /\ Of(again) = hurt
      BY <1>1, <1>4, <3>1
    <3>3. Body[next].amount = file.printed[hurt].amount /\ (next = k \/ next = again)
      BY <2>1, <3>1
    <3>4. CASE x = y
      <4>1. Move(n) /\ Of(n) = hurt
        BY <1>1, <1>3, <1>11, <3>4 DEF x
      <4>2. n \in MoveLines(file, hurt)
        BY <1>4, <4>1
      <4>3. n = k /\ next = again
        BY <1>1, <3>1, <3>2, <3>3, <4>2
      <4>4. ~Past(n, hurt)
        BY <1>8, <3>1, <4>3
      <4>5. Past(next, hurt)
        BY <1>1, <1>8, <1>11, <2>1, <3>1, <3>2, <4>3
      <4> QED
        BY <1>1, <1>2, <1>9, <1>11, <3>1, <3>3, <3>4, <4>4, <4>5
    <3>5. CASE y = x + 1
      <4>1. ASSUME next = again PROVE FALSE
        <5>1. k # n
          BY <1>1, <1>11, <3>2, <3>5 DEF x
        <5>2. ~(k < n)
          <6>1. k < n => Of(k) <= x
            BY <1>4, <3>2
          <6> QED
            BY <1>1, <1>11, <3>2, <3>5, <6>1
        <5>3. n < k /\ k < next
          BY <1>1, <3>1, <3>2, <4>1, <5>1, <5>2
        <5> QED
          BY <1>4, <3>2, <5>3
      <4>2. next = k /\ ~Past(next, hurt)
        BY <1>8, <3>1, <3>3, <4>1
      <4>3. ~Past(n, hurt)
        BY <1>1, <1>8, <1>11, <3>5
      <4>4. After(y) = After(x) + file.printed[y].amount
        <5>1. y - 1 = x
          BY <1>1, <3>5
        <5> QED
          BY <1>2, <5>1
      <4> QED
        BY <1>1, <1>2, <1>9, <1>11, <3>3, <4>2, <4>3, <4>4
    <3> QED
      BY <2>2, <3>4, <3>5
  <2> QED
    BY <2>1, <2>3, <2>4 DEF ErrorOf
\* A second line of a movement that stands.
<1>12. CASE y # hurt /\ x = y
  <2>1. Move(n)
    BY <1>1, <1>3, <1>12
  <2>2. n = next
    BY <1>12, <2>1, MoveAsPrinted DEF x, y
  <2> QED
    BY <1>1, <2>2
<1> QED
  BY <1>1, <1>3, <1>10, <1>11, <1>12

\* A closing balance is on the level of the last movement above it.
LEMMA AtClosing ==
    ASSUME IntakeInv, IsMessage, NEW hurt, NEW e, OneError(hurt, e),
           NEW n \in DOMAIN Body, NEW c \in DOMAIN Body, n < c,
           Move(n), Shuts(file, c), NoMoveBetween(n, c)
    PROVE  Level(c, hurt, e) = Level(n, hurt, e)
<1> DEFINE x == Of(n)
           z == Of(c)
           N == Len(file.printed)
<1>1. /\ n \in Int /\ c \in Int /\ x \in 1..N /\ z \in 0..N /\ x <= z
      /\ DOMAIN file.printed = 1..N /\ N \in Nat /\ hurt \in 0..N /\ e \in Int
      /\ \A k \in DOMAIN Body : k \in Int
  BY MessageLines DEF OneError, Balance
<1>2. After(x) \in Int /\ After(z) \in Int
  BY <1>1, Chain
<1>3. ASSUME NEW k \in MoveLines(file, hurt), n < k PROVE c < k /\ z < hurt
  <2>1. k \in DOMAIN Body /\ Move(k) /\ Of(k) = hurt
    BY <1>3 DEF MoveLines, Move, Of, Body
  <2>2. k # c /\ ~(k < c)
    BY <1>3, <2>1, MessageLines DEF NoMoveBetween, Balance
  <2>3. c < k
    BY <1>1, <2>1, <2>2
  <2> QED
    BY <2>1, <2>3, MessageLines DEF Balance
<1>4. \A k \in MoveLines(file, hurt) : k \in DOMAIN Body
  BY DEF MoveLines, Body
<1>5. \A m \in DOMAIN file.printed : x < m /\ m <= z => m = hurt /\ MoveLines(file, m) = {}
  BY NoneBetween DEF Balance
<1> HIDE DEF x, z, N
<1>6. /\ Past(n, hurt) <=> hurt # 0 /\ hurt <= x /\ \A k \in MoveLines(file, hurt) : ~(n < k)
      /\ Past(c, hurt) <=> hurt # 0 /\ hurt <= z /\ \A k \in MoveLines(file, hurt) : ~(c < k)
  BY DEF Past, x, z
<1>7. /\ Level(n, hurt, e) = After(x) + (IF Past(n, hurt) THEN e ELSE 0)
      /\ Level(c, hurt, e) = After(z) + (IF Past(c, hurt) THEN e ELSE 0)
  BY DEF Level, x, z
<1>8. CASE x = z
  <2>1. hurt <= x => \A k \in MoveLines(file, hurt) : ~(n < k) /\ ~(c < k)
    <3>1. \A k \in MoveLines(file, hurt) : c < k => n < k
      BY <1>1, <1>4
    <3> QED
      BY <1>1, <1>3, <1>8, <3>1
  <2>2. Past(n, hurt) <=> Past(c, hurt)
    BY <1>6, <1>8, <2>1
  <2> QED
    BY <1>7, <1>8, <2>2
<1>9. CASE x # z
  <2>1. x + 1 \in DOMAIN file.printed /\ x < x + 1 /\ x + 1 <= z
    BY <1>1, <1>9
  <2>2. x + 1 = hurt /\ MoveLines(file, hurt) = {}
    BY <1>5, <2>1
  <2>3. z = x + 1
    <3> SUFFICES ASSUME z # x + 1 PROVE FALSE
      OBVIOUS
    <3>1. x + 2 \in DOMAIN file.printed /\ x < x + 2 /\ x + 2 <= z
      BY <1>1, <2>1
    <3>2. x + 2 = hurt
      BY <1>5, <3>1
    <3> QED
      BY <1>1, <2>2, <3>2
  <2>4. ~Past(n, hurt) /\ Past(c, hurt)
    BY <1>1, <1>6, <2>2, <2>3
  <2>5. e = 0 - file.printed[hurt].amount
    <3>1. hurt # 0 /\ ErrorOf(hurt, e)
      BY <1>1, <2>2 DEF OneError
    <3> QED
      BY <2>2, <3>1 DEF ErrorOf
  <2>6. file.printed[hurt].amount \in Int /\ After(z) = After(x) + file.printed[hurt].amount
    <3>1. hurt \in DOMAIN file.printed /\ hurt - 1 = x /\ hurt = z
      BY <1>1, <2>1, <2>2, <2>3
    <3> QED
      BY <3>1, Chain
  <2> QED
    BY <1>1, <1>2, <1>7, <2>4, <2>5, <2>6
<1> QED
  BY <1>8, <1>9

\* Where both ends of a statement are on the bank's own level, the hurt movement
\* is of another statement.
LEMMA Spared ==
    ASSUME IntakeInv, IsMessage, NEW hurt, NEW e, OneError(hurt, e), hurt # 0,
           NEW o \in DOMAIN Body, NEW c \in DOMAIN Body, Opens(file, o), Shuts(file, c),
           Past(o, hurt) <=> Past(c, hurt),
           NEW n \in DOMAIN Body, Move(n), o < n, n < c
    PROVE  /\ (hurt <= Of(o) /\ Of(o) < Of(n)) \/ (Of(n) <= Of(c) /\ Of(c) < hurt)
           /\ Of(n) # hurt /\ (Past(n, hurt) <=> Past(o, hurt))
<1>1. /\ o \in Int /\ c \in Int /\ n \in Int /\ \A k \in DOMAIN Body : k \in Int
      /\ Of(o) \in Int /\ Of(c) \in Int /\ Of(n) \in Int /\ hurt \in Int
      /\ Of(o) < Of(n) /\ Of(n) <= Of(c)
  BY MessageLines DEF OneError, Balance
<1>2. \A k \in MoveLines(file, hurt) : k \in DOMAIN Body /\ Move(k) /\ Of(k) = hurt
  BY DEF MoveLines, Move, Of, Body
<1>3. CASE Past(o, hurt)
  <2>1. hurt <= Of(o) /\ \A k \in MoveLines(file, hurt) : ~(o < k)
    BY <1>3 DEF Past
  <2>2. \A k \in MoveLines(file, hurt) : ~(n < k)
    BY <1>1, <1>2, <2>1
  <2>3. Past(n, hurt)
    BY <1>1, <2>1, <2>2 DEF Past
  <2> QED
    BY <1>1, <1>3, <2>1, <2>3
<1>4. CASE ~Past(o, hurt)
  <2>1. ~(hurt <= Of(c)) \/ \E k \in MoveLines(file, hurt) : c < k
    BY <1>4 DEF Past
  <2>2. \A k \in MoveLines(file, hurt) : c < k => Of(c) < hurt
    BY <1>2, MessageLines DEF Balance
  <2>3. Of(c) < hurt
    BY <1>1, <2>1, <2>2
  <2>4. ~Past(n, hurt)
    BY <1>1, <2>3 DEF Past
  <2> QED
    BY <1>1, <1>4, <2>3, <2>4
<1> QED
  BY <1>3, <1>4

----------------------------------------------------------------------------
\* A statement as it was put together from the lines it takes up.

MoveAt(s, k) == s.lines[k].line

\* The lines from where it was opened down to the end are its own.
Sits(s, end) ==
    /\ end \in 0..Len(Body) /\ s.at \in DOMAIN Body /\ s.at <= end + 1
    /\ \A n \in s.at + 1..end : Body[n].tag # "20"
    /\ Body[s.at].tag = "20" \/ \A n \in 1..s.at - 1 : Body[n].tag = ""
    /\ s.opening # 0 => s.opening \in s.at..end /\ Opens(file, s.opening)
    /\ s.closing # 0 =>
         /\ s.closing \in s.at..end /\ Shuts(file, s.closing)
         /\ \A n \in s.closing + 1..end : ~Shuts(file, n)
    /\ s.lines \in Seq(Movement)
    /\ \A k \in DOMAIN s.lines : MoveAt(s, k) \in s.at..end /\ Move(MoveAt(s, k))
    /\ \A k, l \in DOMAIN s.lines : k < l => MoveAt(s, k) < MoveAt(s, l)
    /\ \A n \in s.at..end : Move(n) => \E k \in DOMAIN s.lines : MoveAt(s, k) = n

\* Below it the next statement begins, or nothing is left.
Complete(end) == end = Len(Body) \/ Body[end + 1].tag = "20"

LEMMA SitsIn ==
    ASSUME IntakeInv, IsMessage, NEW s, NEW end, Sits(s, end)
    PROVE  /\ s.at \in Int /\ end \in Int /\ s.at..end \subseteq DOMAIN Body
           /\ DOMAIN s.lines = 1..Len(s.lines) /\ Len(s.lines) \in Nat
           /\ \A k \in DOMAIN s.lines :
                /\ MoveAt(s, k) \in DOMAIN Body /\ MoveAt(s, k) \in Int
                /\ Body[MoveAt(s, k)].amount \in Int
                /\ s.at <= MoveAt(s, k) /\ MoveAt(s, k) <= end
           /\ \A n, later \in DOMAIN Body :
                s.at <= n /\ later <= end => Together(file, n, later)
<1>1. /\ end \in 0..Len(Body) /\ s.at \in DOMAIN Body /\ s.at <= end + 1 /\ s.lines \in Seq(Movement)
      /\ \A k \in DOMAIN s.lines : MoveAt(s, k) \in s.at..end
      /\ \A n \in s.at + 1..end : Body[n].tag # "20"
  BY Zenon DEF Sits
<1>2. /\ Len(Body) \in Nat /\ DOMAIN Body = 1..Len(Body)
      /\ \A n \in DOMAIN Body : Body[n].amount \in Int
  BY MessageLines
<1>3. s.at \in Int /\ end \in Int /\ s.at..end \subseteq DOMAIN Body
  BY <1>1, <1>2
<1>4. DOMAIN s.lines = 1..Len(s.lines) /\ Len(s.lines) \in Nat
  BY <1>1
<1>5. ASSUME NEW k \in DOMAIN s.lines
      PROVE  /\ MoveAt(s, k) \in DOMAIN Body /\ MoveAt(s, k) \in Int
             /\ Body[MoveAt(s, k)].amount \in Int
             /\ s.at <= MoveAt(s, k) /\ MoveAt(s, k) <= end
  <2>1. MoveAt(s, k) \in s.at..end
    BY <1>1
  <2> QED
    BY <1>2, <1>3, <2>1
<1>6. ASSUME NEW n \in DOMAIN Body, NEW later \in DOMAIN Body, s.at <= n, later <= end
      PROVE  Together(file, n, later)
  <2>1. n + 1..later \subseteq s.at + 1..end
    BY <1>2, <1>3, <1>6
  <2> QED
    BY <1>1, <2>1 DEF Together, Body
<1> QED
  BY <1>3, <1>4, <1>5, <1>6

\* Its movements are the ones there, in order.
LEMMA NoneSkipped ==
    ASSUME IntakeInv, IsMessage, NEW s, NEW end, Sits(s, end), s.lines # <<>>
    PROVE  /\ \A k \in DOMAIN s.lines : k # 1 =>
                /\ k - 1 \in DOMAIN s.lines /\ MoveAt(s, k - 1) < MoveAt(s, k)
                /\ NoMoveBetween(MoveAt(s, k - 1), MoveAt(s, k))
           /\ \A n \in DOMAIN Body : s.at <= n => NoMoveBetween(n, MoveAt(s, 1))
           /\ \A n \in DOMAIN Body : n <= end => NoMoveBetween(MoveAt(s, Len(s.lines)), n)
           /\ 1 \in DOMAIN s.lines /\ Len(s.lines) \in DOMAIN s.lines
<1>1. /\ s.at \in Int /\ end \in Int /\ DOMAIN s.lines = 1..Len(s.lines) /\ Len(s.lines) \in Nat
      /\ \A k \in DOMAIN s.lines :
           MoveAt(s, k) \in Int /\ s.at <= MoveAt(s, k) /\ MoveAt(s, k) <= end
  BY SitsIn
<1>2. /\ \A k, l \in DOMAIN s.lines : k < l => MoveAt(s, k) < MoveAt(s, l)
      /\ \A n \in s.at..end : Move(n) => \E k \in DOMAIN s.lines : MoveAt(s, k) = n
      /\ s.lines \in Seq(Movement)
  BY Zenon DEF Sits
<1>3. 1 \in DOMAIN s.lines /\ Len(s.lines) \in DOMAIN s.lines
  BY <1>1, <1>2
<1>4. \A n \in DOMAIN Body : n \in Int
  BY MessageLines
<1>5. ASSUME NEW n \in DOMAIN Body, Move(n), s.at <= n, n <= end
      PROVE  \E k \in DOMAIN s.lines : MoveAt(s, k) = n
  <2>1. n \in s.at..end
    BY <1>1, <1>4, <1>5
  <2> QED
    BY <1>2, <1>5, <2>1
<1>6. ASSUME NEW k \in DOMAIN s.lines, k # 1
      PROVE  /\ k - 1 \in DOMAIN s.lines /\ MoveAt(s, k - 1) < MoveAt(s, k)
             /\ NoMoveBetween(MoveAt(s, k - 1), MoveAt(s, k))
  <2>1. k - 1 \in DOMAIN s.lines /\ k - 1 < k /\ k \in Int
    BY <1>1, <1>6
  <2>2. MoveAt(s, k - 1) < MoveAt(s, k)
    BY <1>2, <2>1
  <2>3. ASSUME NEW n \in DOMAIN Body, MoveAt(s, k - 1) < n, n < MoveAt(s, k), Move(n) PROVE FALSE
    <3>1. PICK l \in DOMAIN s.lines : MoveAt(s, l) = n
      BY <1>1, <1>4, <1>5, <2>1, <2>3
    <3>2. l < k - 1 \/ l = k - 1 \/ l = k \/ k < l
      BY <1>1, <2>1
    <3>3. l < k - 1 => MoveAt(s, l) < MoveAt(s, k - 1)
      BY <1>2, <2>1
    <3>4. k < l => MoveAt(s, k) < MoveAt(s, l)
      BY <1>2
    <3> QED
      BY <1>1, <1>4, <2>1, <2>3, <3>1, <3>2, <3>3, <3>4
  <2> QED
    BY <2>1, <2>2, <2>3 DEF NoMoveBetween
<1>7. ASSUME NEW n \in DOMAIN Body, s.at <= n PROVE NoMoveBetween(n, MoveAt(s, 1))
  <2>1. ASSUME NEW k \in DOMAIN Body, n < k, k < MoveAt(s, 1), Move(k) PROVE FALSE
    <3>1. PICK l \in DOMAIN s.lines : MoveAt(s, l) = k
      BY <1>1, <1>3, <1>4, <1>5, <1>7, <2>1
    <3>2. 1 < l => MoveAt(s, 1) < MoveAt(s, l)
      BY <1>2, <1>3
    <3> QED
      BY <1>1, <1>3, <1>4, <2>1, <3>1, <3>2
  <2> QED
    BY <2>1 DEF NoMoveBetween
<1>8. ASSUME NEW n \in DOMAIN Body, n <= end PROVE NoMoveBetween(MoveAt(s, Len(s.lines)), n)
  <2>1. ASSUME NEW k \in DOMAIN Body, MoveAt(s, Len(s.lines)) < k, k < n, Move(k) PROVE FALSE
    <3>1. PICK l \in DOMAIN s.lines : MoveAt(s, l) = k
      BY <1>1, <1>3, <1>4, <1>5, <1>8, <2>1
    <3>2. l < Len(s.lines) => MoveAt(s, l) < MoveAt(s, Len(s.lines))
      BY <1>2, <1>3
    <3> QED
      BY <1>1, <1>3, <1>4, <2>1, <3>1, <3>2
  <2> QED
    BY <2>1 DEF NoMoveBetween
<1> QED
  BY <1>3, <1>6, <1>7, <1>8

\* So the running balance keeps its distance from the level of the lines.
LEMMA LevelAlong ==
    ASSUME IntakeInv, IsMessage, NEW hurt, NEW e, OneError(hurt, e),
           NEW s, NEW end, Sits(s, end), s.lines # <<>>, Body[s.opening].amount \in Int
    PROVE  \A k \in DOMAIN s.lines :
             /\ Running(s, k) \in Int /\ Level(MoveAt(s, k), hurt, e) \in Int
             /\ Running(s, k) + Level(MoveAt(s, 1), hurt, e)
                = Running(s, 1) + Level(MoveAt(s, k), hurt, e)
<1> DEFINE L(k) == Level(MoveAt(s, k), hurt, e)
           R(k) == Running(s, k)
           Bad == {k \in DOMAIN s.lines : R(k) + L(1) # R(1) + L(k)}
<1>1. /\ DOMAIN s.lines = 1..Len(s.lines) /\ Len(s.lines) \in Nat
      /\ \A k \in DOMAIN s.lines : MoveAt(s, k) \in DOMAIN Body /\ Body[MoveAt(s, k)].amount \in Int
  BY SitsIn
<1>2. s.lines \in Seq(Movement) /\ \A k \in DOMAIN s.lines : Move(MoveAt(s, k))
  BY Zenon DEF Sits
<1>3. ASSUME NEW k \in DOMAIN s.lines PROVE L(k) \in Int
  <2>1. Of(MoveAt(s, k)) \in 0..Len(file.printed)
    BY <1>1, MessageLines
  <2>2. After(Of(MoveAt(s, k))) \in Int /\ e \in Int
    BY <2>1, Chain DEF OneError
  <2> QED
    BY <2>2 DEF Level
<1>4. ASSUME NEW k \in DOMAIN s.lines
      PROVE  R(k) \in Int /\ R(k) = R(k - 1) + Body[MoveAt(s, k)].amount
  BY <1>1, <1>2, RunningMoves DEF MoveAt
<1>5. ASSUME NEW k \in DOMAIN s.lines, k # 1
      PROVE  k - 1 \in DOMAIN s.lines /\ L(k) = L(k - 1) + Body[MoveAt(s, k)].amount
  <2>1. /\ k - 1 \in DOMAIN s.lines /\ MoveAt(s, k - 1) < MoveAt(s, k)
        /\ NoMoveBetween(MoveAt(s, k - 1), MoveAt(s, k))
    BY <1>5, NoneSkipped
  <2> QED
    BY <1>1, <1>2, <2>1, NextMove
<1> HIDE DEF L, R
<1>6. Bad = {}
  <2> SUFFICES ASSUME Bad # {} PROVE FALSE
    OBVIOUS
  <2>1. Bad \subseteq Int /\ IsFiniteSet(Bad)
    <3>1. Bad \subseteq 1..Len(s.lines)
      BY <1>1
    <3>2. IsFiniteSet(1..Len(s.lines)) /\ 1..Len(s.lines) \subseteq Int
      BY <1>1, FS_Interval
    <3> HIDE DEF Bad
    <3> QED
      BY <3>1, <3>2, FS_Subset
  <2>2. PICK k \in Bad : \A j \in Bad : k <= j
    <3> HIDE DEF Bad
    <3> QED
      BY <2>1, LeastElement
  <2>3. k \in DOMAIN s.lines /\ R(k) + L(1) # R(1) + L(k) /\ k \in Int
    BY <2>1, <2>2
  <2>4. k # 1
    BY <2>3
  <2>5. k - 1 \in DOMAIN s.lines /\ L(k) = L(k - 1) + Body[MoveAt(s, k)].amount
    BY <1>5, <2>3, <2>4
  <2>6. R(k - 1) + L(1) = R(1) + L(k - 1)
    <3>1. k - 1 \notin Bad
      <4>1. ~(k <= k - 1)
        BY <2>3
      <4> QED
        BY <2>2, <4>1
    <3> QED
      BY <2>5, <3>1
  <2>7. 1 \in DOMAIN s.lines
    BY <1>1, <2>3
  <2>8. /\ R(k) \in Int /\ R(k - 1) \in Int /\ R(1) \in Int
        /\ L(k) \in Int /\ L(k - 1) \in Int /\ L(1) \in Int
        /\ R(k) = R(k - 1) + Body[MoveAt(s, k)].amount /\ Body[MoveAt(s, k)].amount \in Int
    BY <1>1, <1>3, <1>4, <2>3, <2>5, <2>7
  <2> DEFINE rk == R(k)
             rj == R(k - 1)
             r1 == R(1)
             lk == L(k)
             lj == L(k - 1)
             l1 == L(1)
             a == Body[MoveAt(s, k)].amount
  <2>9. /\ rk \in Int /\ rj \in Int /\ r1 \in Int /\ lk \in Int /\ lj \in Int /\ l1 \in Int
        /\ a \in Int /\ rk = rj + a /\ lk = lj + a /\ rj + l1 = r1 + lj
    BY <2>3, <2>5, <2>6, <2>8
  <2> HIDE DEF rk, rj, r1, lk, lj, l1, a
  <2>10. rk + l1 = r1 + lk
    BY <2>9
  <2> QED
    BY <2>3, <2>10 DEF rk, r1, lk, l1
<1>7. \A k \in DOMAIN s.lines : R(k) \in Int /\ L(k) \in Int /\ R(k) + L(1) = R(1) + L(k)
  BY <1>3, <1>4, <1>6
<1> QED
  BY <1>7 DEF R, L

LEMMA FileError ==
    ASSUME IntakeInv, IsMessage, NEW hurt \in 0..Len(file.printed), OneMoveHurt(file, hurt)
    PROVE  \E e : OneError(hurt, e)
<1>1. \A m \in DOMAIN file.printed : IF m = hurt THEN MoveHurt(file, m) ELSE MoveStands(file, m)
  BY Zenon DEF OneMoveHurt
<1>2. \A m \in DOMAIN file.printed \ {hurt} : MoveStands(file, m)
  BY <1>1
<1>3. CASE hurt = 0
  <2>1. OneError(hurt, 1)
    BY <1>2, <1>3 DEF OneError
  <2> QED
    BY <2>1
<1>4. CASE hurt # 0
  <2>1. hurt \in DOMAIN file.printed
    BY <1>4, MessageLines
  <2>2. PICK e \in Int \ {0} : ErrorOf(hurt, e)
    BY <1>1, <2>1, HurtShows
  <2>3. OneError(hurt, e)
    BY <1>2, <2>2 DEF OneError
  <2> QED
    BY <2>3
<1> QED
  BY <1>3, <1>4

LEMMA LevelInt ==
    ASSUME IntakeInv, IsMessage, NEW hurt, NEW e, OneError(hurt, e), NEW n \in DOMAIN Body
    PROVE  /\ Level(n, hurt, e) \in Int /\ After(Of(n)) \in Int /\ e \in Int
           /\ Past(n, hurt) => Level(n, hurt, e) = After(Of(n)) + e
           /\ ~Past(n, hurt) => Level(n, hurt, e) = After(Of(n))
<1>1. Of(n) \in 0..Len(file.printed)
  BY MessageLines
<1>2. After(Of(n)) \in Int /\ e \in Int
  BY <1>1, Chain DEF OneError
<1> QED
  BY <1>2 DEF Level

\* Under a printed opening balance the running one starts on the level there.
LEMMA FromOpening ==
    ASSUME IntakeInv, IsMessage, NEW hurt, NEW e, OneError(hurt, e),
           NEW s, NEW end, Sits(s, end), s.lines # <<>>, s.opening # 0, OpeningsHold(file)
    PROVE  /\ s.opening < MoveAt(s, 1)
           /\ \A k \in DOMAIN s.lines :
                Running(s, k) + Level(s.opening, hurt, e)
                = After(Of(s.opening)) + Level(MoveAt(s, k), hurt, e)
<1> DEFINE o == s.opening
           first == MoveAt(s, 1)
<1>1. s.opening \in s.at..end /\ Opens(file, s.opening) /\ s.lines \in Seq(Movement)
      /\ \A k \in DOMAIN s.lines : Move(MoveAt(s, k))
  BY Zenon DEF Sits
<1>2. /\ o \in DOMAIN Body /\ o \in Int /\ s.at <= o /\ o <= end /\ Body[o].amount \in Int
      /\ s.at \in Int /\ end \in Int
  BY <1>1, SitsIn, MessageLines
<1>3. /\ 1 \in DOMAIN s.lines /\ first \in DOMAIN Body /\ first \in Int /\ Move(first)
      /\ s.at <= first /\ first <= end
      /\ \A j \in DOMAIN s.lines : Body[s.lines[j].line].amount \in Int
  BY <1>1, NoneSkipped, SitsIn DEF MoveAt
<1>4. Body[o].amount = After(Of(o))
      /\ \A above \in DOMAIN Body : above < o /\ Move(above) => ~Together(file, above, o)
  BY <1>1, <1>2, Zenon DEF OpeningsHold, Body, After, Of, Move
<1>5. o < first
  <2>1. o # first
    BY <1>1, <1>3, MessageLines, <1>2 DEF Balance
  <2>2. ~(first < o)
    <3>1. Together(file, first, o)
      BY <1>2, <1>3, SitsIn
    <3> QED
      BY <1>3, <1>4, <3>1
  <2> QED
    BY <1>2, <1>3, <2>1, <2>2
<1>6. NoMoveBetween(o, first)
  BY <1>2, NoneSkipped
<1>7. Level(first, hurt, e) = Level(o, hurt, e) + Body[first].amount
  BY <1>1, <1>2, <1>3, <1>5, <1>6, NextMove
<1>8. Running(s, 0) = Body[o].amount /\ Running(s, 1) = Running(s, 1 - 1) + Body[first].amount
      /\ Body[first].amount \in Int
  BY <1>1, <1>2, <1>3, RunningMoves DEF MoveAt
<1>9. ASSUME NEW k \in DOMAIN s.lines
      PROVE  Running(s, k) + Level(o, hurt, e) = After(Of(o)) + Level(MoveAt(s, k), hurt, e)
  <2> DEFINE R(j) == Running(s, j)
             L(j) == Level(MoveAt(s, j), hurt, e)
             lo == Level(o, hurt, e)
             a == Body[first].amount
             b == Body[o].amount
  <2>1. R(k) \in Int /\ L(k) \in Int /\ R(1) \in Int /\ L(1) \in Int /\ R(k) + L(1) = R(1) + L(k)
    BY <1>2, <1>3, LevelAlong
  <2>2. lo \in Int /\ a \in Int /\ b \in Int /\ After(Of(o)) = b
    BY <1>2, <1>4, <1>8, LevelInt
  <2>3. R(1) = b + a /\ L(1) = lo + a
    BY <1>7, <1>8
  <2> HIDE DEF R, L, lo, a, b
  <2>4. R(k) + lo = b + L(k)
    BY <2>1, <2>2, <2>3
  <2> QED
    BY <2>2, <2>4 DEF R, L, lo
<1> QED
  BY <1>5, <1>9

\* Over a printed closing balance one that comes to it ends on the level there.
LEMMA ToClosing ==
    ASSUME IntakeInv, IsMessage, NEW hurt, NEW e, OneError(hurt, e),
           NEW s, NEW end, Sits(s, end), Complete(end), s.lines # <<>>, s.closing # 0,
           Body[s.opening].amount \in Int, Closes(s), ClosingsHold(file)
    PROVE  /\ MoveAt(s, Len(s.lines)) < s.closing
           /\ \A k \in DOMAIN s.lines :
                Running(s, k) + Level(s.closing, hurt, e)
                = After(Of(s.closing)) + Level(MoveAt(s, k), hurt, e)
<1> DEFINE c == s.closing
           K == Len(s.lines)
           last == MoveAt(s, K)
<1>1. /\ c \in s.at..end /\ Shuts(file, c) /\ end \in 0..Len(Body)
      /\ \A n \in c + 1..end : ~Shuts(file, n)
      /\ \A k \in DOMAIN s.lines : Move(MoveAt(s, k))
  BY Zenon DEF Sits
<1>2. /\ c \in DOMAIN Body /\ c \in Int /\ s.at <= c /\ c <= end /\ s.at \in Int /\ end \in Int
      /\ end <= Len(Body) /\ DOMAIN Body = 1..Len(Body) /\ Len(Body) \in Nat
  <2>1. s.at \in Int /\ end \in Int /\ s.at..end \subseteq DOMAIN Body
    BY SitsIn
  <2>2. DOMAIN Body = 1..Len(Body) /\ Len(Body) \in Nat
    BY MessageLines
  <2> HIDE DEF c
  <2> QED
    BY <1>1, <2>1, <2>2
<1>3. /\ K \in DOMAIN s.lines /\ last \in DOMAIN Body /\ last \in Int /\ Move(last)
      /\ s.at <= last /\ last <= end
  BY <1>1, NoneSkipped, SitsIn
<1>4. Body[c].amount = After(Of(c))
      /\ \A below \in DOMAIN Body : c < below /\ Move(below) /\ Together(file, c, below) =>
           \E n \in DOMAIN Body : below < n /\ Shuts(file, n) /\ Together(file, below, n)
  BY <1>1, <1>2, Zenon DEF ClosingsHold, Body, After, Of, Move
<1>5. last < c
  <2>1. c # last
    BY <1>1, <1>2, <1>3, MessageLines DEF Balance
  <2>2. ASSUME c < last PROVE FALSE
    <3>1. Together(file, c, last)
      BY <1>2, <1>3, SitsIn
    <3>2. PICK n \in DOMAIN Body : last < n /\ Shuts(file, n) /\ Together(file, last, n)
      BY <1>3, <1>4, <2>2, <3>1
    <3>3. n \in Int /\ ~(n \in c + 1..end)
      BY <1>1, <1>2, <3>2
    <3>4. end + 1 <= n /\ end + 1 \in last + 1..n /\ end # Len(Body)
      <4>1. n <= Len(Body) /\ last < n
        BY <1>2, <3>2
      <4> HIDE DEF c, last
      <4>2. end < n
        BY <1>2, <1>3, <2>2, <3>3, <4>1
      <4> QED
        BY <1>2, <1>3, <3>3, <4>1, <4>2
    <3>5. Body[end + 1].tag = "20"
      BY <3>4 DEF Complete
    <3> QED
      BY <3>2, <3>4, <3>5 DEF Together, Body
  <2> QED
    BY <1>2, <1>3, <2>1, <2>2
<1>6. NoMoveBetween(last, c)
  BY <1>2, NoneSkipped
<1>7. Level(c, hurt, e) = Level(last, hurt, e)
  BY <1>1, <1>2, <1>3, <1>5, <1>6, AtClosing
<1>8. Running(s, K) = After(Of(c))
  BY <1>4 DEF Closes
<1>9. ASSUME NEW k \in DOMAIN s.lines
      PROVE  Running(s, k) + Level(c, hurt, e) = After(Of(c)) + Level(MoveAt(s, k), hurt, e)
  <2> DEFINE R(j) == Running(s, j)
             L(j) == Level(MoveAt(s, j), hurt, e)
  <2>1. 1 \in DOMAIN s.lines
    BY NoneSkipped
  <2>2. /\ R(k) \in Int /\ L(k) \in Int /\ R(1) \in Int /\ L(1) \in Int /\ R(K) \in Int /\ L(K) \in Int
        /\ R(k) + L(1) = R(1) + L(k) /\ R(K) + L(1) = R(1) + L(K)
    BY <1>3, <2>1, LevelAlong
  <2>3. R(k) + L(K) = R(K) + L(k)
    <3> DEFINE rk == R(k)
               r1 == R(1)
               rl == R(K)
               lk == L(k)
               l1 == L(1)
               ll == L(K)
    <3>1. /\ rk \in Int /\ r1 \in Int /\ rl \in Int /\ lk \in Int /\ l1 \in Int /\ ll \in Int
          /\ rk + l1 = r1 + lk /\ rl + l1 = r1 + ll
      BY <2>2
    <3> HIDE DEF rk, r1, rl, lk, l1, ll
    <3>2. rk + ll = rl + lk
      BY <3>1
    <3> QED
      BY <3>2 DEF rk, rl, lk, ll
  <2> QED
    BY <1>7, <1>8, <2>3
<1> QED
  BY <1>5, <1>9

\* A statement that is emitted runs through the bank's own balances, and the
\* hurt movement is on neither side of one of its own.
LEMMA RunsTrue ==
    ASSUME IntakeInv, IsMessage, NEW hurt \in 0..Len(file.printed), OneMoveHurt(file, hurt),
           NEW s, NEW end, Sits(s, end), Complete(end), s.opening # 0, s.closing # 0, Closes(s),
           NEW k \in DOMAIN s.lines
    PROVE  /\ Running(s, k) = After(Of(MoveAt(s, k))) /\ Of(MoveAt(s, k)) # hurt
           /\ hurt # 0 =>
                \/ hurt <= Of(s.opening) /\ Of(s.opening) < Of(MoveAt(s, k))
                \/ Of(MoveAt(s, k)) <= Of(s.closing) /\ Of(s.closing) < hurt
<1> DEFINE o == s.opening
           c == s.closing
           n == MoveAt(s, k)
<1>1. PICK e : OneError(hurt, e)
  BY FileError
<1>2. /\ o \in s.at..end /\ Opens(file, o) /\ c \in s.at..end /\ Shuts(file, c)
      /\ Move(n) /\ s.lines \in Seq(Movement)
      /\ \A i, j \in DOMAIN s.lines : i < j => MoveAt(s, i) < MoveAt(s, j)
  BY Zenon DEF Sits
<1>3. /\ o \in DOMAIN Body /\ c \in DOMAIN Body /\ n \in DOMAIN Body /\ Body[o].amount \in Int
      /\ o \in Int /\ c \in Int /\ n \in Int
      /\ DOMAIN s.lines = 1..Len(s.lines) /\ Len(s.lines) \in Nat
      /\ \A j \in DOMAIN s.lines : MoveAt(s, j) \in Int
  <2>1. /\ s.at \in Int /\ end \in Int /\ s.at..end \subseteq DOMAIN Body
        /\ DOMAIN s.lines = 1..Len(s.lines) /\ Len(s.lines) \in Nat
        /\ \A j \in DOMAIN s.lines : MoveAt(s, j) \in DOMAIN Body /\ MoveAt(s, j) \in Int
    BY SitsIn, Zenon
  <2>2. o \in DOMAIN Body /\ c \in DOMAIN Body /\ n \in DOMAIN Body /\ n \in Int
    BY <1>2, <2>1, Zenon
  <2>3. Body[o].amount \in Int
    BY <2>2, MessageLines, Zenon
  <2>4. o \in Int /\ c \in Int
    <3>1. o \in s.at..end /\ c \in s.at..end
      BY <1>2, Zenon
    <3> QED
      BY <3>1, <2>1
  <2> QED
    BY <2>1, <2>2, <2>3, <2>4, Zenon
<1>4. s.lines # <<>>
  BY <1>3
<1>5. Running(s, k) \in Int
  BY <1>1, <1>3, <1>4, LevelAlong
<1>6. \A l \in {o, c, n} :
        /\ Level(l, hurt, e) \in Int /\ After(Of(l)) \in Int /\ e \in Int \ {0}
        /\ Past(l, hurt) => Level(l, hurt, e) = After(Of(l)) + e
        /\ ~Past(l, hurt) => Level(l, hurt, e) = After(Of(l))
  <2>1. e \in Int \ {0}
    BY <1>1 DEF OneError
  <2>2. {o, c, n} \subseteq DOMAIN Body
    BY <1>3
  <2> QED
    BY <1>1, <2>1, <2>2, LevelInt, Zenon
<1>7. OpeningsHold(file) =>
        o < MoveAt(s, 1) /\ Running(s, k) + Level(o, hurt, e) = After(Of(o)) + Level(n, hurt, e)
  BY <1>1, <1>4, FromOpening
<1>8. ClosingsHold(file) =>
        /\ MoveAt(s, Len(s.lines)) < c
        /\ Running(s, k) + Level(c, hurt, e) = After(Of(c)) + Level(n, hurt, e)
  BY <1>1, <1>3, <1>4, ToClosing
<1>9. CASE hurt = 0
  <2>1. OpeningsHold(file) \/ ClosingsHold(file)
    BY <1>9 DEF OneMoveHurt
  <2>2. \A l : ~Past(l, hurt)
    BY <1>9 DEF Past
  <2>3. Level(o, hurt, e) = After(Of(o)) /\ Level(c, hurt, e) = After(Of(c))
        /\ Level(n, hurt, e) = After(Of(n))
    BY <1>6, <2>2
  <2>4. After(Of(o)) \in Int /\ After(Of(c)) \in Int /\ After(Of(n)) \in Int
    BY <1>6
  <2>5. Of(n) # 0
    BY <1>2, <1>3, MessageLines
  <2> HIDE DEF o, c, n
  <2>6. Running(s, k) = After(Of(n))
    BY <1>5, <1>7, <1>8, <2>1, <2>3, <2>4
  <2> QED
    BY <1>9, <2>5, <2>6 DEF n
<1>10. CASE hurt # 0
  <2>1. OpeningsHold(file) /\ ClosingsHold(file)
    BY <1>10 DEF OneMoveHurt
  <2>2. o < n /\ n < c
    <3>1. 1 = k \/ 1 < k
      BY <1>3
    <3>2. k = Len(s.lines) \/ k < Len(s.lines)
      BY <1>3
    <3>3. 1 \in DOMAIN s.lines /\ Len(s.lines) \in DOMAIN s.lines
      BY <1>3
    <3>4. MoveAt(s, 1) <= n /\ n <= MoveAt(s, Len(s.lines))
      BY <1>2, <1>3, <3>1, <3>2, <3>3
    <3> QED
      BY <1>3, <1>7, <1>8, <2>1, <3>3, <3>4, SMTT(30)
  <2> HIDE DEF o, c, n
  <2>3. Past(o, hurt) <=> Past(c, hurt)
    <3> DEFINE lo == Level(o, hurt, e)
               lc == Level(c, hurt, e)
               ln == Level(n, hurt, e)
               ao == After(Of(o))
               ac == After(Of(c))
    <3>1. /\ lo \in Int /\ lc \in Int /\ ln \in Int /\ ao \in Int /\ ac \in Int /\ e \in Int \ {0}
          /\ Past(o, hurt) => lo = ao + e
          /\ ~Past(o, hurt) => lo = ao
          /\ Past(c, hurt) => lc = ac + e
          /\ ~Past(c, hurt) => lc = ac
      BY <1>6
    <3>2. Running(s, k) + lo = ao + ln /\ Running(s, k) + lc = ac + ln
      BY <1>7, <1>8, <2>1
    <3> HIDE DEF lo, lc, ln, ao, ac
    <3>3. lo - ao = lc - ac
      BY <1>5, <3>1, <3>2
    <3> QED
      BY <3>1, <3>3
  <2>4. /\ (hurt <= Of(o) /\ Of(o) < Of(n)) \/ (Of(n) <= Of(c) /\ Of(c) < hurt)
        /\ Of(n) # hurt /\ (Past(n, hurt) <=> Past(o, hurt))
    BY <1>1, <1>2, <1>3, <1>10, <2>2, <2>3, Spared
  <2>5. Running(s, k) = After(Of(n))
    <3> DEFINE lo == Level(o, hurt, e)
               ln == Level(n, hurt, e)
               ao == After(Of(o))
               an == After(Of(n))
    <3>1. /\ lo \in Int /\ ln \in Int /\ ao \in Int /\ an \in Int /\ e \in Int
          /\ Past(o, hurt) => lo = ao + e /\ ln = an + e
          /\ ~Past(o, hurt) => lo = ao /\ ln = an
      BY <1>6, <2>4
    <3>2. Running(s, k) + lo = ao + ln
      BY <1>7, <2>1
    <3> HIDE DEF lo, ln, ao, an
    <3>3. Running(s, k) = an
      BY <1>5, <3>1, <3>2
    <3> QED
      BY <3>3 DEF an
  <2> QED
    BY <2>4, <2>5 DEF o, c, n
<1> QED
  BY <1>9, <1>10

\* No movement of its printed statement is missing.
LEMMA NoneMissing ==
    ASSUME IntakeInv, IsMessage, NEW hurt \in 0..Len(file.printed), OneMoveHurt(file, hurt),
           NEW s, NEW end, Sits(s, end), Complete(end), s.opening # 0, s.closing # 0, Closes(s),
           NEW k \in DOMAIN s.lines, NEW m \in DOMAIN file.printed,
           file.printed[m].statement = file.printed[Of(MoveAt(s, k))].statement
    PROVE  \E j \in DOMAIN s.lines : Of(MoveAt(s, j)) = m
<1> DEFINE o == s.opening
           c == s.closing
           n == MoveAt(s, k)
           N == Len(file.printed)
           st(x) == file.printed[x].statement
<1>1. /\ o \in s.at..end /\ Opens(file, o) /\ c \in s.at..end /\ Shuts(file, c)
      /\ Move(n) /\ end \in 0..Len(Body) /\ s.at \in DOMAIN Body
      /\ Body[s.at].tag = "20" \/ \A l \in 1..s.at - 1 : Body[l].tag = ""
      /\ \A l \in s.at..end : Move(l) => \E j \in DOMAIN s.lines : MoveAt(s, j) = l
  BY Zenon DEF Sits
<1>2. /\ o \in DOMAIN Body /\ c \in DOMAIN Body /\ n \in DOMAIN Body
      /\ s.at \in Int /\ end \in Int /\ n \in Int /\ s.at <= n /\ n <= end
      /\ Of(n) \in DOMAIN file.printed /\ Of(o) \in 0..N /\ Of(c) \in 0..N
      /\ DOMAIN file.printed = 1..N /\ N \in Nat /\ DOMAIN Body = 1..Len(Body) /\ Len(Body) \in Nat
  <2>1. s.at..end \subseteq DOMAIN Body /\ s.at \in Int /\ end \in Int /\ n \in DOMAIN Body
        /\ n \in Int /\ s.at <= n /\ n <= end
    BY SitsIn
  <2>2. o \in DOMAIN Body /\ c \in DOMAIN Body
    BY <1>1, <2>1
  <2> HIDE DEF o, c, n
  <2> QED
    BY <1>1, <2>1, <2>2, MessageLines
<1>3. /\ \A x \in DOMAIN file.printed : st(x) \in Int
      /\ \A x, y \in DOMAIN file.printed : x < y => st(x) <= st(y)
      /\ \A l \in DOMAIN Body : Opens(file, l) \/ Shuts(file, l) =>
           Of(l) \in {0, N} \/ st(Of(l)) # st(Of(l) + 1)
      /\ \A l, later \in DOMAIN Body :
           l < later /\ Move(l) /\ Move(later) /\ ~Together(file, l, later) => st(Of(l)) # st(Of(later))
  BY MessageFile, Zenon DEF MessageInOrder, Of, Body, Move
<1>4. st(m) = st(Of(n))
  OBVIOUS
<1> HIDE DEF o, c, n, N, st
<1>12. \A x, y \in DOMAIN file.printed : x = y \/ x < y => st(x) <= st(y)
  BY <1>3
<1>11. ASSUME NEW x \in DOMAIN Body, NEW later \in DOMAIN Body, x < later, Move(x), Move(later),
              ~Together(file, x, later)
       PROVE  st(Of(x)) # st(Of(later))
  BY <1>3, <1>11
\* The hurt movement is on the other side of a boundary.
<1>5. m # hurt
  <2> SUFFICES ASSUME m = hurt PROVE FALSE
    OBVIOUS
  <2>1. hurt # 0 /\ hurt \in Int
    BY <1>2
  <2>2. (hurt <= Of(o) /\ Of(o) < Of(n)) \/ (Of(n) <= Of(c) /\ Of(c) < hurt)
    BY <2>1, RunsTrue DEF o, c, n
  <2>5. hurt \in DOMAIN file.printed /\ Of(n) \in DOMAIN file.printed
    BY <1>2, <2>1
  <2>3. CASE hurt <= Of(o) /\ Of(o) < Of(n)
    <3>1. /\ Of(o) \in DOMAIN file.printed /\ Of(o) + 1 \in DOMAIN file.printed
          /\ Of(o) \notin {0, N}
      BY <1>2, <2>1, <2>3, SMTT(30)
    <3>2. st(Of(o)) # st(Of(o) + 1)
      BY <1>1, <1>2, <1>3, <3>1
    <3>3. st(hurt) <= st(Of(o))
      <4>1. hurt = Of(o) \/ hurt < Of(o)
        BY <1>2, <2>1, <2>3
      <4> QED
        BY <1>12, <2>5, <3>1, <4>1, Zenon
    <3>4. st(Of(o)) <= st(Of(o) + 1)
      <4>1. Of(o) < Of(o) + 1
        BY <1>2
      <4> QED
        BY <1>12, <2>5, <3>1, <4>1, Zenon
    <3>5. st(Of(o) + 1) <= st(Of(n))
      <4>1. Of(o) + 1 = Of(n) \/ Of(o) + 1 < Of(n)
        BY <1>2, <2>3
      <4> QED
        BY <1>12, <2>5, <3>1, <4>1, Zenon
    <3>6. st(hurt) \in Int /\ st(Of(o)) \in Int /\ st(Of(o) + 1) \in Int /\ st(Of(n)) \in Int
      BY <1>2, <1>3, <3>1
    <3> QED
      BY <1>4, <3>2, <3>3, <3>4, <3>5, <3>6
  <2>4. CASE Of(n) <= Of(c) /\ Of(c) < hurt
    <3>1. /\ Of(c) \in DOMAIN file.printed /\ Of(c) + 1 \in DOMAIN file.printed
          /\ Of(c) \notin {0, N}
      BY <1>2, <2>1, <2>4, SMTT(30)
    <3>2. st(Of(c)) # st(Of(c) + 1)
      BY <1>1, <1>2, <1>3, <3>1
    <3>3. st(Of(n)) <= st(Of(c))
      <4>1. Of(n) = Of(c) \/ Of(n) < Of(c)
        BY <1>2, <2>4
      <4> QED
        BY <1>12, <2>5, <3>1, <4>1, Zenon
    <3>4. st(Of(c)) <= st(Of(c) + 1)
      <4>1. Of(c) < Of(c) + 1
        BY <1>2
      <4> QED
        BY <1>12, <2>5, <3>1, <4>1, Zenon
    <3>5. st(Of(c) + 1) <= st(hurt)
      <4>1. Of(c) + 1 = hurt \/ Of(c) + 1 < hurt
        <5>1. Of(c) \in Int /\ hurt \in Int
          BY <1>2, <2>1
        <5> QED
          BY <2>4, <5>1
      <4> QED
        BY <1>12, <2>5, <3>1, <4>1, Zenon
    <3>6. st(hurt) \in Int /\ st(Of(c)) \in Int /\ st(Of(c) + 1) \in Int /\ st(Of(n)) \in Int
      BY <1>2, <1>3, <3>1
    <3> QED
      BY <1>4, <3>2, <3>3, <3>4, <3>5, <3>6
  <2> QED
    BY <2>2, <2>3, <2>4
\* So it is on a line, and no other statement begins between that and this one.
<1>6. PICK l \in DOMAIN Body : Move(l) /\ Of(l) = m
  <2>1. MoveStands(file, m)
    BY <1>5 DEF OneMoveHurt
  <2>2. PICK l \in DOMAIN Body : MoveLines(file, m) = {l}
    BY <2>1, Zenon DEF MoveStands, Body
  <2>3. l \in MoveLines(file, m)
    BY <2>2
  <2> QED
    BY <2>3 DEF MoveLines, Move, Of, Body
<1>7. l \in Int /\ 1 <= l /\ l <= Len(Body)
  BY <1>2, <1>6
<1>8. s.at <= l
  <2> SUFFICES ASSUME l < s.at PROVE FALSE
    BY <1>2, <1>7
  <2>1. l \in 1..s.at - 1
    BY <1>2, <1>7
  <2>2. Body[l].tag # ""
    BY <1>6 DEF Move, Moved, Body
  <2>3. Body[s.at].tag = "20"
    BY <1>1, <2>1, <2>2
  <2>4. s.at \in l + 1..n
    BY <1>2, <1>7
  <2>5. ~Together(file, l, n)
    BY <2>3, <2>4 DEF Together, Body
  <2>6. l < n
    BY <1>2, <1>7
  <2> QED
    BY <1>1, <1>2, <1>4, <1>6, <1>11, <2>5, <2>6
<1>9. l <= end
  <2> SUFFICES ASSUME end < l PROVE FALSE
    BY <1>2, <1>7
  <2>1. end # Len(Body) /\ end + 1 \in n + 1..l /\ n < l
    <3>1. end + 1 \in Int /\ n + 1 <= end + 1 /\ end + 1 <= l /\ n < l /\ end < Len(Body)
      BY <1>2, <1>7
    <3>2. n + 1 \in Int /\ l \in Int /\ end \in Int /\ Len(Body) \in Int
      BY <1>2, <1>7
    <3> QED
      BY <3>1, <3>2
  <2>2. Body[end + 1].tag = "20"
    BY <2>1 DEF Complete
  <2>3. ~Together(file, n, l)
    BY <2>1, <2>2 DEF Together, Body
  <2> QED
    BY <1>1, <1>2, <1>4, <1>6, <1>11, <2>1, <2>3
<1>10. l \in s.at..end
  BY <1>2, <1>7, <1>8, <1>9
<1> QED
  BY <1>1, <1>6, <1>10

\* What holds of the records of a message, whatever else is emitted.
AllOrNothing(R) ==
    \A r \in R :
        /\ r.amount = Printed(r).amount /\ r.balance = Printed(r).balance
        /\ \A m \in DOMAIN file.printed :
             file.printed[m].statement = Printed(r).statement => \E q \in R : Of(q.line) = m

Emitted(s) ==
    {LET n == s.lines[i].line
     IN  Record(n, Under("mt940", LineName(n)), Body[n].amount, Running(s, i)) : i \in DOMAIN s.lines}

LEMMA EmittedWhole ==
    ASSUME IntakeInv, IsMessage, file.damage <= 1, NEW s, NEW end, Sits(s, end), Complete(end),
           s.opening # 0, s.closing # 0, Closes(s)
    PROVE  AllOrNothing(Emitted(s))
<1>1. PICK hurt \in 0..Len(file.printed) : OneMoveHurt(file, hurt)
  BY MessageFile
<1> DEFINE rec(i) == Record(MoveAt(s, i), Under("mt940", LineName(MoveAt(s, i))), Body[MoveAt(s, i)].amount,
                            Running(s, i))
<1>2. Emitted(s) = {rec(i) : i \in DOMAIN s.lines}
  BY Zenon DEF Emitted, MoveAt
<1>3. \A i \in DOMAIN s.lines :
        /\ rec(i).line = MoveAt(s, i) /\ rec(i).amount = Body[MoveAt(s, i)].amount
        /\ rec(i).balance = Running(s, i) /\ Printed(rec(i)) = file.printed[Of(MoveAt(s, i))]
  BY DEF Record, Printed, Of
<1> HIDE DEF rec
<1>4. PICK e : OneError(hurt, e)
  BY <1>1, FileError
<1>5. ASSUME NEW i \in DOMAIN s.lines
      PROVE  /\ rec(i).amount = Printed(rec(i)).amount /\ rec(i).balance = Printed(rec(i)).balance
             /\ \A m \in DOMAIN file.printed :
                  file.printed[m].statement = Printed(rec(i)).statement
                  => \E q \in Emitted(s) : Of(q.line) = m
  <2> DEFINE n == MoveAt(s, i)
  <2>1. n \in DOMAIN Body /\ Move(n)
    <3>1. Move(n)
      BY Zenon DEF Sits
    <3> QED
      BY <3>1, SitsIn
  <2>2. Of(n) \in DOMAIN file.printed
    BY <2>1, MessageLines
  <2>3. Running(s, i) = After(Of(n)) /\ Of(n) # hurt
    BY <1>1, RunsTrue
  <2>4. Body[n].amount = file.printed[Of(n)].amount
    BY <1>4, <2>1, <2>3, MoveAsPrinted
  <2>5. Running(s, i) = file.printed[Of(n)].balance
    BY <2>2, <2>3, Chain
  <2>6. ASSUME NEW m \in DOMAIN file.printed, file.printed[m].statement = Printed(rec(i)).statement
        PROVE  \E q \in Emitted(s) : Of(q.line) = m
    <3>1. PICK j \in DOMAIN s.lines : Of(MoveAt(s, j)) = m
      BY <1>1, <1>3, <2>6, NoneMissing
    <3>2. rec(j) \in Emitted(s) /\ rec(j).line = MoveAt(s, j)
      BY <1>2, <1>3
    <3> QED
      BY <3>1, <3>2
  <2> QED
    BY <1>3, <2>4, <2>5, <2>6
<1> QED
  BY <1>2, <1>5, Zenon DEF AllOrNothing

LEMMA MoreRecords ==
    ASSUME NEW R, NEW S, AllOrNothing(R), AllOrNothing(S)
    PROVE  AllOrNothing(R \union S)
  BY Zenon DEF AllOrNothing

----------------------------------------------------------------------------
\* A statement takes up the lines of its message one by one.

Follows(s, t, n) ==
    /\ t.at = s.at
    /\ t.opening = IF Opens(file, n) THEN n ELSE s.opening
    /\ t.closing = IF Shuts(file, n) THEN n ELSE s.closing
    /\ t.lines \in Seq(Movement)
    /\ Len(t.lines) = IF Move(n) THEN Len(s.lines) + 1 ELSE Len(s.lines)
    /\ \A k \in 1..Len(s.lines) : MoveAt(t, k) = MoveAt(s, k)
    /\ Move(n) => MoveAt(t, Len(s.lines) + 1) = n

LEMMA PlacedFollows ==
    ASSUME line \in Nat, NEW s \in StatementType
    PROVE  Follows(s, Placed(s, Body[line]), line)
<1> DEFINE l == Body[line]
           t == Placed(s, l)
<1>1. /\ t \in StatementType /\ Len(t.lines) \in {Len(s.lines), Len(s.lines) + 1}
      /\ \A k \in 1..Len(s.lines) : t.lines[k].line = s.lines[k].line
      /\ Len(t.lines) = Len(s.lines) + 1 => t.lines[Len(s.lines) + 1].line = line
  BY PlacedLines, Zenon DEF Grown
<1>2. t.lines \in Seq(Movement) /\ s.lines \in Seq(Movement) /\ Len(s.lines) \in Nat
  BY <1>1 DEF StatementType
<1> DEFINE Right(u) ==
             /\ u.at = s.at
             /\ u.opening = IF l.tag \in {"60F", "60M"} THEN line ELSE s.opening
             /\ u.closing = IF l.tag \in {"62F", "62M"} THEN line ELSE s.closing
             /\ Len(u.lines) = IF l.tag = "61" THEN Len(s.lines) + 1 ELSE Len(s.lines)
<1>3. l.tag \in {"60F", "60M"} => Right([s EXCEPT !.opening = line])
  BY DEF StatementType
<1>4. l.tag \in {"62F", "62M"} => Right([s EXCEPT !.closing = line])
  BY DEF StatementType
<1>5. l.tag = "61" => Right([s EXCEPT !.lines = Append(@, [line |-> line, narration |-> 0])])
  <2> DEFINE e == Append(s.lines, [line |-> line, narration |-> 0])
  <2>1. Len(e) = Len(s.lines) + 1
    BY <1>2
  <2> HIDE DEF e
  <2>2. l.tag = "61" => Right([s EXCEPT !.lines = e])
    BY <2>1 DEF StatementType
  <2> QED
    BY <2>2 DEF e
<1> DEFINE Other == l.tag \notin {"60F", "60M", "62F", "62M", "61"}
<1>6. Other => Right(s)
  BY DEF StatementType
<1>7. Other => Right([s EXCEPT !.lines[Len(s.lines)].narration = line])
  <2> DEFINE e == [s.lines EXCEPT ![Len(s.lines)].narration = line]
  <2>1. Len(e) = Len(s.lines)
    BY <1>2
  <2> HIDE DEF e
  <2>2. Other => Right([s EXCEPT !.lines = e])
    BY <2>1 DEF StatementType
  <2>3. [s EXCEPT !.lines[Len(s.lines)].narration = line] = [s EXCEPT !.lines = e]
    BY DEF e
  <2> QED
    BY <2>2, <2>3
<1>8. /\ "60F" # "62F" /\ "60F" # "62M" /\ "60M" # "62F" /\ "60M" # "62M" /\ "61" # "60F"
      /\ "61" # "60M" /\ "61" # "62F" /\ "61" # "62M" /\ "86" # "60F" /\ "86" # "60M"
      /\ "86" # "62F" /\ "86" # "62M" /\ "86" # "61"
  OBVIOUS
<1>9. Right(t)
  <2> HIDE DEF Right
  <2> QED
    BY <1>3, <1>4, <1>5, <1>6, <1>7, <1>8, Zenon DEF Placed
<1>10. /\ Opens(file, line) <=> l.tag \in {"60F", "60M"}
       /\ Shuts(file, line) <=> l.tag \in {"62F", "62M"}
       /\ Move(line) <=> l.tag = "61"
  BY DEF Opens, Shuts, Move, Moved, Body
<1> HIDE DEF t, l
<1>11. Follows(s, t, line)
  BY <1>1, <1>2, <1>9, <1>10 DEF Follows, MoveAt
<1> QED
  BY <1>11 DEF t, l

LEMMA SitsOn ==
    ASSUME IntakeInv, IsMessage, NEW n \in DOMAIN Body, NEW s, NEW t, Sits(s, n - 1),
           Follows(s, t, n), Body[n].tag = "20" => s.at = n
    PROVE  Sits(t, n)
<1>1. /\ s.at \in DOMAIN Body /\ s.at <= (n - 1) + 1
      /\ \A k \in s.at + 1..n - 1 : Body[k].tag # "20"
      /\ Body[s.at].tag = "20" \/ \A k \in 1..s.at - 1 : Body[k].tag = ""
      /\ s.opening # 0 => s.opening \in s.at..n - 1 /\ Opens(file, s.opening)
      /\ s.closing # 0 =>
           /\ s.closing \in s.at..n - 1 /\ Shuts(file, s.closing)
           /\ \A k \in s.closing + 1..n - 1 : ~Shuts(file, k)
      /\ s.lines \in Seq(Movement)
      /\ \A k \in DOMAIN s.lines : MoveAt(s, k) \in s.at..n - 1 /\ Move(MoveAt(s, k))
      /\ \A k, l \in DOMAIN s.lines : k < l => MoveAt(s, k) < MoveAt(s, l)
      /\ \A k \in s.at..n - 1 : Move(k) => \E i \in DOMAIN s.lines : MoveAt(s, i) = k
  BY Zenon DEF Sits
<1>2. DOMAIN Body = 1..Len(Body) /\ Len(Body) \in Nat
  BY MessageLines
<1>3. /\ n \in Int /\ s.at \in Int /\ s.at <= n /\ n \in 0..Len(Body)
      /\ \A k : k \in s.at..n <=> k \in s.at..n - 1 \/ k = n
      /\ \A k \in s.at..n - 1 : k < n
      /\ \A k \in s.at + 1..n : k \in s.at + 1..n - 1 \/ (k = n /\ s.at # n)
  <2> DEFINE a == s.at
  <2>1. n \in Int /\ a \in Int /\ n \in 0..Len(Body) /\ a <= (n - 1) + 1
    <3>1. a \in DOMAIN Body /\ a <= (n - 1) + 1
      BY <1>1
    <3> HIDE DEF a
    <3>2. n \in 1..Len(Body) /\ a \in 1..Len(Body)
      BY <1>2, <3>1
    <3> QED
      BY <1>2, <3>1, <3>2
  <2> HIDE DEF a
  <2>2. a <= n
    BY <2>1
  <2>3. \A k : k \in a..n <=> k \in a..n - 1 \/ k = n
    BY <2>1, <2>2
  <2>4. \A k \in a..n - 1 : k < n
    BY <2>1
  <2>5. \A k \in a + 1..n : k \in a + 1..n - 1 \/ (k = n /\ a # n)
    BY <2>1, <2>2
  <2> QED
    BY <2>1, <2>2, <2>3, <2>4, <2>5 DEF a
<1>4. /\ t.at = s.at
      /\ t.opening = IF Opens(file, n) THEN n ELSE s.opening
      /\ t.closing = IF Shuts(file, n) THEN n ELSE s.closing
      /\ t.lines \in Seq(Movement)
      /\ Len(t.lines) = IF Move(n) THEN Len(s.lines) + 1 ELSE Len(s.lines)
      /\ \A k \in 1..Len(s.lines) : MoveAt(t, k) = MoveAt(s, k)
      /\ Move(n) => MoveAt(t, Len(s.lines) + 1) = n
  BY Zenon DEF Follows
<1>5. \A k \in t.at + 1..n : Body[k].tag # "20"
  BY <1>1, <1>3, <1>4
<1>6. t.opening # 0 => t.opening \in t.at..n /\ Opens(file, t.opening)
  BY <1>1, <1>3, <1>4
<1>7. t.closing # 0 =>
        /\ t.closing \in t.at..n /\ Shuts(file, t.closing)
        /\ \A k \in t.closing + 1..n : ~Shuts(file, k)
  <2>1. CASE Shuts(file, n)
    <3>1. \A k \in n + 1..n : FALSE
      BY <1>3
    <3> QED
      BY <1>3, <1>4, <2>1, <3>1
  <2>2. CASE ~Shuts(file, n)
    <3> SUFFICES ASSUME s.closing # 0
                 PROVE  /\ s.closing \in s.at..n /\ Shuts(file, s.closing)
                        /\ \A k \in s.closing + 1..n : ~Shuts(file, k)
      BY <1>4, <2>2
    <3> DEFINE c == s.closing
    <3>1. /\ c \in s.at..n - 1 /\ Shuts(file, c)
          /\ \A k \in c + 1..n - 1 : ~Shuts(file, k)
      BY <1>1
    <3> HIDE DEF c
    <3>2. c \in Int
      BY <1>3, <3>1
    <3>3. \A k \in c + 1..n : k \in c + 1..n - 1 \/ k = n
      BY <1>3, <3>2
    <3>4. c \in s.at..n /\ Shuts(file, c) /\ \A k \in c + 1..n : ~Shuts(file, k)
      BY <1>3, <2>2, <3>1, <3>3
    <3> QED
      BY <3>4 DEF c
  <2> QED
    BY <2>1, <2>2
<1> DEFINE K == Len(s.lines)
<1>8. K \in Nat /\ DOMAIN s.lines = 1..K /\ DOMAIN t.lines = 1..Len(t.lines)
      /\ Len(t.lines) = IF Move(n) THEN K + 1 ELSE K
  <2>1. s.lines \in Seq(Movement) /\ t.lines \in Seq(Movement)
    BY <1>1, <1>4
  <2>2. K \in Nat /\ DOMAIN s.lines = 1..K /\ DOMAIN t.lines = 1..Len(t.lines)
    BY <2>1
  <2> QED
    BY <1>4, <2>2
<1> HIDE DEF K
<1>9. \A k \in DOMAIN t.lines : k \in 1..K \/ (k = K + 1 /\ Move(n))
  BY <1>8
<1>10. 1..K \subseteq DOMAIN t.lines /\ (Move(n) => K + 1 \in DOMAIN t.lines)
  BY <1>8
<1>11. \A k \in 1..K : MoveAt(t, k) = MoveAt(s, k)
  BY <1>4 DEF K
<1>12. Move(n) => MoveAt(t, K + 1) = n
  BY <1>4 DEF K
<1>13. \A k \in DOMAIN t.lines : MoveAt(t, k) \in t.at..n /\ Move(MoveAt(t, k))
  <2>1. n \in s.at..n
    BY <1>3
  <2> QED
    BY <1>1, <1>3, <1>4, <1>8, <1>9, <1>11, <1>12, <2>1
<1>14. ASSUME NEW k \in DOMAIN t.lines, NEW l \in DOMAIN t.lines, k < l
       PROVE  MoveAt(t, k) < MoveAt(t, l)
  <2>1. k \in 1..K
    BY <1>8, <1>9, <1>14
  <2>2. CASE l \in 1..K
    BY <1>1, <1>8, <1>11, <1>14, <2>1, <2>2
  <2>3. CASE l = K + 1 /\ Move(n)
    BY <1>1, <1>3, <1>8, <1>11, <1>12, <2>1, <2>3
  <2> QED
    BY <1>9, <2>2, <2>3
<1>15. ASSUME NEW k \in t.at..n, Move(k)
       PROVE  \E i \in DOMAIN t.lines : MoveAt(t, i) = k
  <2>1. k \in s.at..n - 1 \/ k = n
    BY <1>3, <1>4
  <2>2. CASE k \in s.at..n - 1
    <3>1. PICK i \in DOMAIN s.lines : MoveAt(s, i) = k
      BY <1>1, <1>15, <2>2
    <3> QED
      BY <1>8, <1>10, <1>11, <3>1
  <2>3. CASE k = n
    BY <1>10, <1>12, <1>15, <2>3
  <2> QED
    BY <2>1, <2>2, <2>3
<1>16. t.at \in DOMAIN Body /\ t.at <= n + 1
  <2>1. s.at <= n + 1
    BY <1>3
  <2> QED
    BY <1>1, <1>4, <2>1
<1>17. Body[t.at].tag = "20" \/ \A k \in 1..t.at - 1 : Body[k].tag = ""
  BY <1>1, <1>4
<1> QED
  BY <1>3, <1>4, <1>5, <1>6, <1>7, <1>13, <1>14, <1>15, <1>16, <1>17, Zenon DEF Sits

----------------------------------------------------------------------------
\* A message from its first block to its report.

\* The statements above the last are complete; the last goes on.
Parsed(ss, n) ==
    /\ ss = <<>> => \A k \in 1..n - 1 : Body[k].tag = ""
    /\ \A i \in DOMAIN ss :
         IF i = Len(ss) THEN Sits(ss[i], n - 1)
         ELSE \E end \in 0..Len(Body) : Complete(end) /\ Sits(ss[i], end)

MessageInv ==
    IsMessage =>
        /\ parser = "mt940" => line \in 1..Len(Body) + 1 /\ Parsed(statements, line)
        /\ parser \in {"mt940", "parsed", "done"} /\ file.damage <= 1 => AllOrNothing(records)

LEMMA OnlyTheMessage ==
    ASSUME IntakeInv, IsMessage
    PROVE  parser \in Adapters => parser = "mt940"
  BY WinnerIsSure DEF IntakeInv, ChosenInv, IsMessage

LEMMA Appended ==
    ASSUME NEW S, NEW q \in Seq(S), NEW x
    PROVE  /\ Len(Append(q, x)) = Len(q) + 1 /\ Append(q, x)[Len(q) + 1] = x
           /\ DOMAIN Append(q, x) = DOMAIN q \union {Len(q) + 1}
           /\ \A i \in DOMAIN q : Append(q, x)[i] = q[i] /\ i # Len(q) + 1 /\ q # <<>>
<1>1. q \in Seq(S \union {x})
  OBVIOUS
<1> QED
  BY <1>1

LEMMA LineAbove ==
    ASSUME NEW L \in Nat, NEW n \in 1..L
    PROVE  /\ n - 1 \in 0..L /\ (n - 1) + 1 = n /\ n <= (n - 1) + 1
           /\ n..n - 1 = {} /\ n + 1..n - 1 = {}
  OBVIOUS

LEMMA NewStatement ==
    ASSUME NEW n
    PROVE  /\ Statement(n).at = n /\ Statement(n).opening = 0 /\ Statement(n).closing = 0
           /\ Statement(n).lines \in Seq(Movement) /\ DOMAIN Statement(n).lines = {}
  BY DEF Statement

LEMMA OpensHere ==
    ASSUME IntakeInv, IsMessage, line \in DOMAIN Body,
           Body[line].tag = "20" \/ \A k \in 1..line - 1 : Body[k].tag = ""
    PROVE  Sits(Statement(line), line - 1)
<1> DEFINE s == Statement(line)
<1>1. /\ s.at = line /\ s.opening = 0 /\ s.closing = 0
      /\ s.lines \in Seq(Movement) /\ DOMAIN s.lines = {}
  BY NewStatement, Zenon
<1>2. DOMAIN Body = 1..Len(Body) /\ Len(Body) \in Nat
  BY MessageLines
<1>3. /\ line - 1 \in 0..Len(Body) /\ line <= (line - 1) + 1
      /\ line..line - 1 = {} /\ line + 1..line - 1 = {}
  <2>1. line \in 1..Len(Body)
    BY <1>2
  <2> HIDE DEF s
  <2> QED
    BY <1>2, <2>1, LineAbove, Zenon
<1> HIDE DEF s
<1>4. Sits(s, line - 1)
  BY <1>1, <1>3, Zenon DEF Sits
<1> QED
  BY <1>4 DEF s

\* What was read with the line above stays right where a block belongs to the
\* statement it is under, or begins one.
LEMMA CurrentSits ==
    ASSUME IntakeInv, IsMessage, MtState, line \in DOMAIN Body, Parsed(statements, line),
           Body[line].tag # ""
    PROVE  LET open == Current(Body[line])
           IN  /\ \A i \in DOMAIN open :
                    IF i = Len(open) THEN Sits(open[i], line - 1)
                    ELSE \E end \in 0..Len(Body) : Complete(end) /\ Sits(open[i], end)
               /\ Body[line].tag = "20" => open[Len(open)].at = line
<1> DEFINE a == Append(statements, Statement(line))
           opens == Body[line].tag = "20" \/ statements = <<>>
           Held(i, ss) == IF i = Len(ss) THEN Sits(ss[i], line - 1)
                          ELSE \E end \in 0..Len(Body) : Complete(end) /\ Sits(ss[i], end)
<1>1. /\ statements = <<>> => \A k \in 1..line - 1 : Body[k].tag = ""
      /\ \A i \in DOMAIN statements : Held(i, statements)
  BY Zenon DEF Parsed
<1>2. CASE ~opens
  BY <1>1, <1>2 DEF Current
<1>3. CASE opens
  <2>1. Sits(Statement(line), line - 1)
    BY <1>1, <1>3, OpensHere
  <2>2. line - 1 \in 0..Len(Body) /\ (line - 1) + 1 = line
    <3>1. line \in 1..Len(Body) /\ Len(Body) \in Nat
      BY MessageLines
    <3> QED
      BY <3>1, LineAbove, Zenon
  <2>3. statements \in Seq(StatementType)
    BY DEF MtState
  <2> DEFINE t == Statement(line)
             L == Len(statements)
  <2>5. t.at = line
    BY DEF Statement
  <2> HIDE DEF t
  <2>6. /\ Len(a) = L + 1 /\ a[L + 1] = t /\ DOMAIN a = DOMAIN statements \union {L + 1}
        /\ \A i \in DOMAIN statements : a[i] = statements[i] /\ i # L + 1 /\ statements # <<>>
    BY <2>3, Appended DEF t
  <2> HIDE DEF a, L
  <2>7. ASSUME NEW i \in DOMAIN statements
        PROVE  \E end \in 0..Len(Body) : Complete(end) /\ Sits(statements[i], end)
    <3>1. CASE i # L
      BY <1>1, <2>7, <3>1 DEF L
    <3>2. CASE i = L
      <4>1. Body[line].tag = "20"
        <5>1. statements # <<>>
          BY <2>6, <2>7
        <5> QED
          BY <1>3, <5>1
      <4>2. Complete(line - 1)
        BY <2>2, <4>1 DEF Complete
      <4>3. Sits(statements[i], line - 1)
        BY <1>1, <2>7, <3>2 DEF L
      <4> QED
        BY <2>2, <4>2, <4>3
    <3> QED
      BY <3>1, <3>2
  <2>8. ASSUME NEW i \in DOMAIN a PROVE Held(i, a)
    <3>1. CASE i = L + 1
      BY <2>1, <2>6, <3>1 DEF t
    <3>2. CASE i # L + 1
      BY <2>6, <2>7, <2>8, <3>2
    <3> QED
      BY <3>1, <3>2
  <2>9. Current(Body[line]) = a
    BY <1>3 DEF Current, a
  <2> QED
    BY <2>5, <2>6, <2>8, <2>9
<1> QED
  BY <1>2, <1>3

LEMMA TagStep ==
    ASSUME IntakeInv, IsMessage, MtState, line \in 1..Len(Body) + 1, Parsed(statements, line), ReadTag
    PROVE  line' \in 1..Len(Body) + 1 /\ Parsed(statements', line')
<1>1. DOMAIN Body = 1..Len(Body) /\ Len(Body) \in Nat
  BY MessageLines
<1>2. line <= Len(Body) /\ line' = line + 1
  BY DEF ReadTag, Left
<1>3. line \in DOMAIN Body /\ line \in Nat /\ line' \in 1..Len(Body) + 1 /\ line' - 1 = line
  BY <1>1, <1>2
<1>4. statements \in Seq(StatementType)
  BY DEF MtState
<1>5. CASE Body[line].tag = ""
  <2>1. statements' = statements
    BY <1>5 DEF ReadTag
  <2>2. ASSUME statements = <<>>, NEW k \in 1..line PROVE Body[k].tag = ""
    <3>1. k \in 1..line - 1 \/ k = line
      BY <1>3
    <3> QED
      BY <1>5, <2>2, <3>1 DEF Parsed
  <2>3. ASSUME NEW i \in DOMAIN statements, i = Len(statements) PROVE Sits(statements[i], line)
    <3> DEFINE s == statements[i]
    <3>1. Sits(s, line - 1)
      BY <2>3 DEF Parsed
    <3>2. s.lines \in Seq(Movement)
      <4>1. s \in StatementType
        BY <1>4, <2>3
      <4> HIDE DEF s
      <4> QED
        BY <4>1 DEF StatementType
    <3> HIDE DEF s
    <3>3. Follows(s, s, line)
      BY <1>5, <3>2 DEF Follows, Opens, Shuts, Move, Moved, Body
    <3>4. Sits(s, line)
      BY <1>3, <1>5, <3>1, <3>3, SitsOn
    <3> QED
      BY <3>4 DEF s
  <2> QED
    BY <1>3, <2>1, <2>2, <2>3 DEF Parsed
<1>6. CASE Body[line].tag # ""
  <2> DEFINE open == Current(Body[line])
             t == Placed(open[Len(open)], Body[line])
  <2>1. statements' = [open EXCEPT ![Len(open)] = t]
    BY <1>6 DEF ReadTag
  <2>2. open \in Seq(StatementType) /\ open # <<>>
    BY OpenStatement, Zenon
  <2>3. /\ \A i \in DOMAIN open :
             IF i = Len(open) THEN Sits(open[i], line - 1)
             ELSE \E end \in 0..Len(Body) : Complete(end) /\ Sits(open[i], end)
        /\ Body[line].tag = "20" => open[Len(open)].at = line
    BY <1>3, <1>6, CurrentSits, Zenon
  <2> HIDE DEF open
  <2>4. open[Len(open)] \in StatementType /\ Len(open) \in DOMAIN open
    BY <2>2
  <2>5. Follows(open[Len(open)], t, line)
    BY <1>3, <2>4, PlacedFollows
  <2>6. Sits(t, line)
    BY <1>3, <2>3, <2>4, <2>5, SitsOn
  <2> HIDE DEF t
  <2>7. /\ statements' # <<>> /\ DOMAIN statements' = DOMAIN open /\ Len(statements') = Len(open)
        /\ \A i \in DOMAIN open : statements'[i] = IF i = Len(open) THEN t ELSE open[i]
    BY <2>1, <2>2
  <2> QED
    BY <1>3, <2>3, <2>6, <2>7 DEF Parsed
<1> QED
  BY <1>3, <1>5, <1>6

LEMMA Trimmed ==
    ASSUME NEW S, NEW q \in Seq(S), q # <<>>
    PROVE  /\ Head(q) = q[1] /\ 1 \in DOMAIN q /\ (Len(q) # 1 => Tail(q) # <<>>)
           /\ \A i \in DOMAIN Tail(q) :
                /\ i + 1 \in DOMAIN q /\ Tail(q)[i] = q[i + 1]
                /\ i = Len(Tail(q)) <=> i + 1 = Len(q)
<1>1. /\ Len(q) \in Nat \ {0} /\ Len(Tail(q)) = Len(q) - 1 /\ DOMAIN Tail(q) = 1..Len(q) - 1
      /\ DOMAIN q = 1..Len(q) /\ Head(q) = q[1]
      /\ \A i \in 1..Len(q) - 1 : Tail(q)[i] = q[i + 1]
  OBVIOUS
<1>2. Len(<<>>) = 0
  OBVIOUS
<1> DEFINE L == Len(q)
           u == Tail(q)
<1>3. /\ L \in Nat \ {0} /\ Len(u) = L - 1 /\ DOMAIN u = 1..L - 1 /\ DOMAIN q = 1..L
      /\ \A i \in 1..L - 1 : u[i] = q[i + 1]
  BY <1>1
<1> HIDE DEF L, u
<1>4. \A i \in DOMAIN u :
        i + 1 \in DOMAIN q /\ u[i] = q[i + 1] /\ (i = Len(u) <=> i + 1 = L)
  BY <1>3
<1>5. 1 \in DOMAIN q /\ (L # 1 => u # <<>>)
  BY <1>2, <1>3
<1> QED
  BY <1>1, <1>4, <1>5 DEF L, u

LEMMA SettleStep ==
    ASSUME IntakeInv, IsMessage, MtState, line \in 1..Len(Body) + 1, Parsed(statements, line),
           file.damage <= 1 => AllOrNothing(records), SettleStatement
    PROVE  /\ file.damage <= 1 => AllOrNothing(records')
           /\ parser' = "mt940" => Parsed(statements', line')
<1>1. Len(Body) \in Nat /\ line' = line /\ ~(line <= Len(Body))
  BY MessageLines DEF SettleStatement, Left
<1>2. line - 1 = Len(Body) /\ line - 1 \in 0..Len(Body)
  BY <1>1
<1>3. statements \in Seq(StatementType)
  BY DEF MtState
<1>4. CASE statements = <<>>
  BY <1>4 DEF SettleStatement, Reject
<1>5. CASE statements # <<>>
  <2> DEFINE s == Head(statements)
             u == Tail(statements)
  <2>1. /\ s = statements[1] /\ 1 \in DOMAIN statements /\ (Len(statements) # 1 => u # <<>>)
        /\ \A i \in DOMAIN u :
             /\ i + 1 \in DOMAIN statements /\ u[i] = statements[i + 1]
             /\ i = Len(u) <=> i + 1 = Len(statements)
    BY <1>3, <1>5, Trimmed, Zenon
  <2>2. /\ Settle(s) /\ statements' = u
        /\ parser' = IF Len(statements) = 1 THEN "parsed" ELSE parser
    BY <1>5, Zenon DEF SettleStatement
  <2> HIDE DEF s, u
  <2>3. \A i \in DOMAIN statements :
          IF i = Len(statements) THEN Sits(statements[i], line - 1)
          ELSE \E end \in 0..Len(Body) : Complete(end) /\ Sits(statements[i], end)
    BY Zenon DEF Parsed
  <2>4. PICK end \in 0..Len(Body) : Complete(end) /\ Sits(s, end)
    BY <1>2, <2>1, <2>3 DEF Complete
  <2>5. \/ records' = records
        \/ /\ records' = records \union Emitted(s)
           /\ s.opening # 0 /\ s.closing # 0 /\ Closes(s)
    BY <2>2, Zenon DEF Settle, Refuse, Emit, Emitted
  <2>6. ASSUME file.damage <= 1 PROVE AllOrNothing(records')
    <3>1. CASE records' = records
      BY <2>6, <3>1
    <3>2. CASE /\ records' = records \union Emitted(s)
               /\ s.opening # 0 /\ s.closing # 0 /\ Closes(s)
      <4>1. AllOrNothing(Emitted(s))
        BY <2>4, <2>6, <3>2, EmittedWhole
      <4> QED
        BY <2>6, <3>2, <4>1, MoreRecords
    <3> QED
      BY <2>5, <3>1, <3>2
  <2>7. ASSUME parser' = "mt940" PROVE Parsed(statements', line')
    <3>1. u # <<>>
      BY <2>1, <2>2, <2>7
    <3>2. ASSUME NEW i \in DOMAIN u
          PROVE  IF i = Len(u) THEN Sits(u[i], line - 1)
                 ELSE \E e \in 0..Len(Body) : Complete(e) /\ Sits(u[i], e)
      BY <2>1, <2>3, <3>2
    <3> QED
      BY <1>1, <2>2, <3>1, <3>2, Zenon DEF Parsed
  <2> QED
    BY <2>6, <2>7
<1> QED
  BY <1>4, <1>5

LEMMA SameMessage ==
    ASSUME file' = file
    PROVE  /\ IsMessage' <=> IsMessage
           /\ Body' = Body
           /\ Parsed(statements', line') => Parsed(statements, line)'
           /\ AllOrNothing(records') => AllOrNothing(records)'
<1>1. Body' = Body
  BY DEF Body
<1>2. \A n : Of(n)' = Of(n)
  BY <1>1 DEF Of
<1>3. ASSUME NEW s, NEW end, Sits(s, end) PROVE Sits(s, end)'
  <2>1. \A n : /\ Opens(file, n) <=> Opens(file', n)
               /\ Shuts(file, n) <=> Shuts(file', n)
               /\ Move(n) <=> Moved(file', n)
    BY DEF Move
  <2>2. /\ end \in 0..Len(Body') /\ s.at \in DOMAIN Body' /\ s.at <= end + 1
        /\ \A n \in s.at + 1..end : Body'[n].tag # "20"
        /\ Body'[s.at].tag = "20" \/ \A n \in 1..s.at - 1 : Body'[n].tag = ""
    BY <1>1, <1>3, Zenon DEF Sits
  <2>3. /\ s.opening # 0 => s.opening \in s.at..end /\ Opens(file', s.opening)
        /\ s.closing # 0 =>
             /\ s.closing \in s.at..end /\ Shuts(file', s.closing)
             /\ \A n \in s.closing + 1..end : ~Shuts(file', n)
    BY <1>3, <2>1, Zenon DEF Sits
  <2>4. /\ s.lines \in Seq(Movement)
        /\ \A k \in DOMAIN s.lines : s.lines[k].line \in s.at..end /\ Moved(file', s.lines[k].line)
        /\ \A k, l \in DOMAIN s.lines : k < l => s.lines[k].line < s.lines[l].line
        /\ \A n \in s.at..end : Moved(file', n) => \E k \in DOMAIN s.lines : s.lines[k].line = n
    <3>1. /\ s.lines \in Seq(Movement)
          /\ \A k \in DOMAIN s.lines : s.lines[k].line \in s.at..end /\ Move(s.lines[k].line)
          /\ \A k, l \in DOMAIN s.lines : k < l => s.lines[k].line < s.lines[l].line
          /\ \A n \in s.at..end : Move(n) => \E k \in DOMAIN s.lines : s.lines[k].line = n
      BY <1>3, Zenon DEF Sits, MoveAt
    <3> QED
      BY <2>1, <3>1, Zenon
  <2> QED
    BY <2>2, <2>3, <2>4, Zenon DEF Sits, MoveAt, Move
<1>4. \A end : Complete(end)' <=> Complete(end)
  BY <1>1 DEF Complete
<1>5. Parsed(statements', line') => Parsed(statements, line)'
  BY <1>1, <1>3, <1>4, Zenon DEF Parsed
<1>6. \A r : Printed(r)' = Printed(r)
  BY <1>1 DEF Printed
<1>7. AllOrNothing(records') => AllOrNothing(records)'
  BY <1>2, <1>6, Zenon DEF AllOrNothing
<1> QED
  BY <1>1, <1>5, <1>7 DEF IsMessage

LEMMA NextMessage == IntakeInv /\ RecordsInv /\ MessageInv /\ [Next]_vars => MessageInv'
<1> SUFFICES ASSUME IntakeInv, RecordsInv, MessageInv, [Next]_vars PROVE MessageInv'
  OBVIOUS
<1>1. file' = file /\ Body' = Body
  BY DEF Next, RefuseFile, Open, EndRows, Answer, ReadRow, ReadTag, SettleStatement, ReadLine,
         EndOfPages, ValidateChain, vars, Body
<1> SUFFICES ASSUME IsMessage PROVE MessageInv'
  BY <1>1, SameMessage DEF MessageInv
<1>2. parser \in Layouts \/ parser = "slice" => FALSE
  BY OnlyTheMessage DEF Adapters, Layouts
<1>3. ASSUME parser' = "mt940" => line' \in 1..Len(Body) + 1 /\ Parsed(statements', line'),
             parser' \in {"mt940", "parsed", "done"} /\ file.damage <= 1 => AllOrNothing(records')
      PROVE  MessageInv'
  BY <1>1, <1>3, SameMessage DEF MessageInv
<1>4. CASE RefuseFile
  <2>1. parser' = "refused"
    BY <1>4 DEF RefuseFile
  <2> QED
    BY <1>3, <2>1
<1>5. CASE Open
  <2>1. /\ line' = 1 /\ statements' = <<>> /\ records = {}
    BY <1>5 DEF Open, RecordsInv, FreshInv, mt940Vars
  <2>2. records' = {}
    BY <1>5, <2>1, Zenon DEF Open, Reject, result
  <2>3. AllOrNothing(records')
    BY <2>2 DEF AllOrNothing
  <2>4. line' \in 1..Len(Body) + 1
    BY <2>1, MessageLines
  <2>5. Parsed(statements', line')
    BY <2>1 DEF Parsed
  <2> QED
    BY <1>3, <2>3, <2>4, <2>5
<1>6. CASE EndRows \/ ReadRow \/ ReadLine \/ EndOfPages \/ ValidateChain
  BY <1>2, <1>6 DEF EndRows, ReadRow, ReadLine, EndOfPages, ValidateChain
<1>7. CASE Answer
  <2>1. parser = "parsed" /\ parser' = "done" /\ records' = records
    BY <1>7 DEF Answer, Reject, result
  <2>2. file.damage <= 1 => AllOrNothing(records')
    BY <2>1 DEF MessageInv
  <2> QED
    BY <1>3, <2>1, <2>2
<1>8. CASE ReadTag
  <2>1. parser = "mt940" /\ records' = records
    BY <1>8 DEF ReadTag, result
  <2>2. /\ MtState /\ line \in 1..Len(Body) + 1 /\ Parsed(statements, line)
        /\ file.damage <= 1 => AllOrNothing(records')
    BY <2>1 DEF MessageInv, RecordsInv
  <2>3. line' \in 1..Len(Body) + 1 /\ Parsed(statements', line')
    BY <1>8, <2>2, TagStep
  <2> QED
    BY <1>3, <2>2, <2>3
<1>9. CASE SettleStatement
  <2>1. parser = "mt940" /\ line' = line
    BY <1>9 DEF SettleStatement
  <2>2. /\ MtState /\ line \in 1..Len(Body) + 1 /\ Parsed(statements, line)
        /\ file.damage <= 1 => AllOrNothing(records)
    BY <2>1 DEF MessageInv, RecordsInv
  <2>3. /\ file.damage <= 1 => AllOrNothing(records')
        /\ parser' = "mt940" => Parsed(statements', line')
    BY <1>9, <2>2, SettleStep
  <2> QED
    BY <1>3, <2>1, <2>2, <2>3
<1>10. CASE UNCHANGED vars
  <2>1. parser' = parser /\ line' = line /\ records' = records /\ statements' = statements
    BY <1>10 DEF vars, result, mt940Vars
  <2> QED
    BY <1>3, <2>1 DEF MessageInv
<1> QED
  BY <1>4, <1>5, <1>6, <1>7, <1>8, <1>9, <1>10 DEF Next

\* mt940.py: with one line of a message lost, doubled, altered, unreadable or
\* run into the line above, a statement is emitted with every movement the bank
\* printed and its true balances, or not at all.
THEOREM MessagesWhole == Spec => []StatementsAreAllOrNothing
<1>1. Init => MessageInv
  BY DEF Init, MessageInv
<1>2. Spec => []MessageInv
  <2>1. Spec => []RecordsInv
    BY InitRecords, NextRecords, IntakeInvariance, PTL DEF Spec
  <2> QED
    BY <1>1, <2>1, NextMessage, IntakeInvariance, PTL DEF Spec
<1>3. MessageInv => StatementsAreAllOrNothing
  <2> SUFFICES ASSUME MessageInv, Read("mt940"), file.damage <= 1
               PROVE  \A r \in records :
                        /\ r.amount = Printed(r).amount /\ r.balance = Printed(r).balance
                        /\ \A m \in DOMAIN file.printed :
                             file.printed[m].statement = Printed(r).statement
                             => \E s \in records : Body[s.line].of = m
    BY Zenon DEF StatementsAreAllOrNothing
  <2>1. IsMessage /\ parser = "done"
    BY DEF Read, IsMessage
  <2>2. AllOrNothing(records)
    BY <2>1 DEF MessageInv
  <2> QED
    BY <2>2, Zenon DEF AllOrNothing, Of
<1> QED
  BY <1>2, <1>3, PTL
=============================================================================
