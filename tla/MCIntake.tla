------------------------------- MODULE MCIntake -------------------------------
(* Heads of every layout, whole, short of a column, with one of another     *)
(* export or two exports at once, in bytes that do not all decode; short    *)
(* CSV bodies over every kind of row, some named like another's legs;       *)
(* an MT940 message of two statements and a PDF statement of six rows on    *)
(* two pages, with lines lost, doubled, altered, unreadable or run together.*)
EXTENDS Intake

Head0 == [cells |-> {}, spoilt |-> {}, bom |-> FALSE, cut |-> FALSE, foreign |-> "nowhere",
          nul |-> "nowhere", pdf |-> "no"]
AllColumns == UNION {Required[f] \union Distinctive[f] : f \in Adapters \ {"slice"}}
Columns(f) == {c \in AllColumns : c \in Required[f] \/ c \in Distinctive[f]}
Near(f, lost, gained) == {c \in AllColumns : c = gained \/ (c \in Columns(f) /\ c # lost)}
Both(f, g, lost) == {c \in AllColumns : c # lost /\ (c \in Columns(f) \/ c \in Columns(g))}
First == [hdfc |-> "Date", icici |-> "S No.", razorpay |-> "entity_id",
          cod |-> "Remittance Ref", shopify |-> "Name", mt940 |-> ":20:"]
HeadOf(cells, f) == [Head0 EXCEPT !.cells = cells, !.spoilt = {First[f]}]
File(head, formats, body) ==
    [head |-> head, formats |-> formats, body |-> body, printed |-> <<>>, damage |-> 0]

Texts == Layouts \union {"mt940"}
NearMisses ==
    [f \in Texts |->
       {File(HeadOf(Near(f, lost, gained), f), {f}, <<>>) :
          lost \in AllColumns, gained \in {"Value Date", "Waybill", "created_at"}}]
TwoAtOnce ==
    [f \in {"hdfc", "cod"} |->
       {File(HeadOf(Both(f, g, lost), f), {f, g}, <<>>) :
          g \in {"icici", "razorpay"}, lost \in AllColumns \union {"none"}} \union
       {File([HeadOf(Columns(f), f) EXCEPT !.bom = b, !.cut = c, !.nul = n, !.pdf = p],
             {f, "slice"}, <<>>) :
          b \in BOOLEAN, c \in BOOLEAN, n \in {"nowhere", "head"}, p \in {"slice", "uncompressed"}}]
Bytes ==
    [f \in Texts |->
       {File([HeadOf(Columns(f), f) EXCEPT !.bom = b, !.cut = c, !.nul = n], {f}, <<>>) :
          b \in BOOLEAN, c \in BOOLEAN, n \in {"nowhere", "head", "later"}}]

\* Heads with a byte that is no UTF-8, the first cell spoilt by a mark or, below
\* a line of comment, all of them.
Foreign(f) ==
    {[HeadOf(Columns(f), f) EXCEPT !.bom = b, !.foreign = n, !.spoilt = s] :
       b \in BOOLEAN, n \in {"head", "later"}, s \in {{First[f]}, Columns(f)}}
Pdfs ==
    [p \in {"no", "broken", "other", "slice", "uncompressed"} |->
       {File([Head0 EXCEPT !.pdf = p, !.nul = n], {"slice"}, <<>>) : n \in {"nowhere", "head"}}]

Key(k) == <<<<k>>, 0>>
Row0 == [shape |-> "row", key |-> NoName, kind |-> "", amount |-> 0, credit |-> 0, debit |-> 0,
         fee |-> 0, tax |-> 0, balance |-> 0, fault |-> ""]
Misshapen == {[Row0 EXCEPT !.shape = s] : s \in {"blank", "short", "long"}}
BankRows ==
    Misshapen \union {[Row0 EXCEPT !.fault = "BAD_DATE"]} \union
    {[Row0 EXCEPT !.key = k, !.credit = m[1], !.debit = m[2]] :
       k \in {NoName, Key("n1"), Key("n2")}, m \in {<<1, 0>>, <<0, 2>>}} \union
    {[Row0 EXCEPT !.key = Key("n1"), !.credit = 1, !.debit = 1]}
RazorpayRows ==
    {[Row0 EXCEPT !.key = k, !.kind = t, !.amount = 5, !.credit = m[1], !.debit = m[2],
                  !.fee = m[3], !.tax = m[4]] :
       k \in {NoName, Key("p1")}, t \in {"payment", "transfer", "other"},
       m \in {<<4, 0, 1, 0>>, <<3, 0, 1, 1>>, <<0, 5, 0, 0>>, <<0, 7, 1, 1>>, <<5, 0, 1, 0>>}} \union
    {[Row0 EXCEPT !.key = Under(t, k), !.kind = t, !.amount = 1, !.debit = 1] :
       k \in {Key("p1"), Key("p2")}, t \in {"fee", "tax"}}
CodRows ==
    {[Row0 EXCEPT !.key = k, !.kind = t, !.amount = a, !.fee = f, !.tax = x] :
       k \in {NoName, Key("w1"), LineName(2)}, t \in {"COD", "DEDUCTION", "other"}, a \in {0, 5, -1},
       f \in {0, 1, -1}, x \in {0}} \union
    {[Row0 EXCEPT !.key = Key("w2"), !.kind = t, !.amount = 5, !.fee = f, !.tax = x] :
       t \in {"COD", "DEDUCTION"}, f \in {0, 1}, x \in {1, -1}}
ShopifyRows ==
    {[Row0 EXCEPT !.shape = s, !.key = k, !.kind = t, !.amount = a] :
       s \in {"row", "more"}, k \in {NoName, Key("o1")}, t \in {"paid", "pending", "other"}, a \in {4, 0, -1}}

Rows(f) == CASE f \in Bank -> BankRows [] f = "razorpay" -> RazorpayRows
             [] f = "cod" -> CodRows [] f = "shopify" -> ShopifyRows

\* The files of one layout with one to size rows, by their first row.
Csv(f, size) ==
    LET head == HeadOf(Columns(f), f)
    IN  [first \in Rows(f) |->
           {File(head, {f}, <<first>> \o rest) : rest \in BoundedSeq(Rows(f), size - 1)}]

\* Two rows of a layout under such heads.
ForeignCsv ==
    [f \in Layouts |-> {File(h, {f}, <<row, row>>) : h \in Foreign(f), row \in Rows(f)}]

\* Damage to the body of a file, one line at a time.
Damaged(f, altered) ==
    UNION {{[f EXCEPT !.body = RemoveAt(@, i), !.damage = @ + 1],
            [f EXCEPT !.body = InsertAt(@, i, @[i]), !.damage = @ + 1],
            [f EXCEPT !.body[i].fault = "UNKNOWN_VALUE", !.damage = @ + 1]} \union
           (IF altered THEN {[f EXCEPT !.body[i].amount = @ + 1, !.damage = @ + 1],
                             [f EXCEPT !.body[i].tag = "", !.damage = @ + 1]} ELSE {}) :
              i \in DOMAIN f.body}

Tag(tag, of, amount, ref) == [tag |-> tag, of |-> of, amount |-> amount, ref |-> ref, fault |-> ""]
Message(m) ==
    LET b1 == m[1] b2 == b1 + m[2] b3 == b2 + m[3] b4 == b3 + m[4]
    IN  [File(HeadOf(Columns("mt940"), "mt940"), {"mt940"},
           <<Tag("20", 0, 1, FALSE), Tag("60F", 0, 0, FALSE), Tag("61", 1, m[1], FALSE),
             Tag("86", 1, 0, FALSE), Tag("61", 2, m[2], TRUE), Tag("62F", 2, b2, FALSE),
             Tag("20", 0, 2, FALSE), Tag("60F", 2, b2, FALSE), Tag("61", 3, m[3], FALSE),
             Tag("86", 3, 0, FALSE), Tag("", 3, 0, FALSE), Tag("61", 4, m[4], TRUE),
             Tag("86", 4, 0, FALSE), Tag("62F", 4, b4, FALSE)>>)
         EXCEPT !.printed = <<[amount |-> m[1], balance |-> b1, statement |-> 1],
                              [amount |-> m[2], balance |-> b2, statement |-> 1],
                              [amount |-> m[3], balance |-> b3, statement |-> 2],
                              [amount |-> m[4], balance |-> b4, statement |-> 2]>>]
Messages ==
    [m \in [1..4 -> {-1, 1, 2}] |->
       {Message(m)} \union Damaged(Message(m), TRUE) \union
       {[Message(m) EXCEPT !.head = h, !.body[1].tag = "", !.damage = 1] :
          h \in {h \in Foreign("mt940") : h.bom /\ h.spoilt = {First["mt940"]}}}]

Piece(piece, of, amount, balance) ==
    [piece |-> piece, of |-> of, amount |-> amount, balance |-> balance, fault |-> ""]
Statement6(m) ==
    LET b1 == m[1] b2 == b1 + m[2] b3 == b2 + m[3] b4 == b3 + m[4] b5 == b4 + m[5] b6 == b5 + m[6]
    IN  [File([Head0 EXCEPT !.pdf = "slice"], {"slice"},
           <<Piece("header", 0, 0, 0), Piece("text", 0, 0, 0), Piece("row", 1, m[1], b1),
             Piece("start", 2, 0, 0), Piece("tail", 2, m[2], b2), Piece("row", 3, m[3], b3),
             Piece("page", 0, 0, 0), Piece("header", 0, 0, 0), Piece("start", 4, 0, 0),
             Piece("text", 4, 0, 0), Piece("end", 4, m[4], b4), Piece("start", 5, 0, 0),
             Piece("tail", 5, m[5], b5), Piece("row", 6, m[6], b6)>>)
         EXCEPT !.printed = <<[amount |-> m[1], balance |-> b1, statement |-> 1],
                              [amount |-> m[2], balance |-> b2, statement |-> 1],
                              [amount |-> m[3], balance |-> b3, statement |-> 1],
                              [amount |-> m[4], balance |-> b4, statement |-> 1],
                              [amount |-> m[5], balance |-> b5, statement |-> 1],
                              [amount |-> m[6], balance |-> b6, statement |-> 1]>>]
Statements ==
    LET whole == {Statement6(m) : m \in {<<2, 1, -1, 3, -2, 1>>, <<1, -1, 1, -1, 1, -1>>, <<3, 1, 2, -3, 1, 2>>}}
        once == whole \union UNION {Damaged(f, FALSE) : f \in whole}
    IN  [f \in once |-> {f} \union Damaged(f, FALSE)]

MCFiles ==
    <<NearMisses, TwoAtOnce, Bytes, Pdfs, ForeignCsv, Csv("hdfc", 3), Csv("icici", 2), Csv("razorpay", 2),
      Csv("cod", 2), Csv("shopify", 2), Messages, Statements>>
=============================================================================
