------------------------------- MODULE Listing -------------------------------
(***************************************************************************)
(* A finished run as the console lists it, page by page: the settlements,  *)
(* matches, exceptions and PSP rows of core/store/repo.py, from the        *)
(* records, matches, exceptions and audit trail the run stored.  A matched *)
(* settlement shows the match, any other is summed again from the rows the *)
(* audit trail does not name as suppressed.                                *)
(***************************************************************************)
EXTENDS AcceptLoop, SequencesExt, FiniteSetsExt

\* What an exception says of a PSP row.
RowCodes == {"DUPLICATE_PSP_TXN", "ORPHAN_PSP_TXN", "MISSING_ORDER_REF"}

\* A code is a code, and a line is a line.
ASSUME ListingAssumption == None \notin RowCodes \union Lines

\* ORDER BY an id that is unique in a run: one total order, whichever it is.
ById(rows) == FoldSet(LAMBDA row, seq : Append(seq, row), <<>>, rows)

\* LIMIT and OFFSET.
Page(ordered, page, size) ==
    LET number == Max({1, page})
        rows == Max({1, size})
    IN  [items |-> SubSeq(ordered, (number - 1) * rows + 1, Min({number * rows, Len(ordered)})),
         total |-> Len(ordered)]

\* pageRange: the pages the console offers for a total.
PageCount(total, size) == Max({1, (total + size - 1) \div size})

----------------------------------------------------------------------------
\* Settlements.

\* _legs_by_settlement: every settlement a row names, matched or not.
Listed == {s \in Settlements : AllLegs(s) # {}}

\* _suppressed_txn_ids: the dedup entries of the run's own audit trail.
SuppressedIn(legs) == legs \ Kept(psp)

\* A slip: every row of the settlement.
RawLegs(s) == AllLegs(s)

\* settlement_legs.
ActiveLegs(s) == AllLegs(s) \ SuppressedIn(AllLegs(s))

MatchesOf(s) == {l \in Lines : Closed[l] = s}

\* The gross, fees, tax, refunds and holds of a row are one sum here.
Unmatched(s) ==
    [settlement |-> s, line |-> None, net |-> R!Reconstruct(psp, ActiveLegs(s)),
     parts |-> R!Reconstruct(psp, ActiveLegs(s)), payLegs |-> R!PaymentLegs(psp, ActiveLegs(s))]

Matched(s, l) ==
    [settlement |-> s, line |-> l, net |-> file.credit[l],
     parts |-> R!Reconstruct(psp, MatchedLegs(l)),
     payLegs |-> R!PaymentLegs(psp, AllLegs(s) \intersect MatchedLegs(l))]

FirstMatch(s) == CHOOSE l \in MatchesOf(s) : TRUE

Row(s) == IF MatchesOf(s) = {} THEN Unmatched(s) ELSE Matched(s, FirstMatch(s))

SettlementsPage(page, size) ==
    LET found == Page(ById(Listed), page, size)
    IN  [found EXCEPT !.items = [i \in DOMAIN found.items |-> Row(found.items[i])]]

\* The diagram a row links to; there is none without a match.
BatchNetting(s) ==
    IF MatchesOf(s) = {} THEN None
    ELSE [line |-> FirstMatch(s), net |-> file.credit[FirstMatch(s)],
          legs |-> MatchedLegs(FirstMatch(s))]

----------------------------------------------------------------------------
\* Matches, exceptions and rows.

MatchesPage(page, size) ==
    Page(ById({[line |-> l, settlement |-> Closed[l], legs |-> MatchedLegs(l)] :
                      l \in {k \in Lines : Closed[k] # None}}), page, size)

\* A row has one exception: a copy first, then a row in no batch.
ReasonOf(x, copies) ==
    CASE x \in Lines -> reason[x]
      [] x \in copies -> "DUPLICATE_PSP_TXN"
      [] x \in Txns \ copies /\ psp.settlement[x] = None -> "ORPHAN_PSP_TXN"
      [] OTHER -> "MISSING_ORDER_REF"

Exceptions ==
    LET copies == SuppressedIn(Txns)
    IN  {[subject |-> x, code |-> ReasonOf(x, copies), failed |-> verdict[x]] : x \in open}

Code(e) == e.code

ExceptionsPage(page, size, code) ==
    Page(ById({e \in Exceptions : code \in {None, Code(e)}}), page, size)

\* get_run_report: page after page, until there are as many as the total.
ReportExceptions(size) ==
    LET from[page \in 1..(Cardinality(open) + 1)] ==
            LET chunk == ExceptionsPage(page, size, None)
            IN  IF page * size >= chunk.total \/ chunk.items = <<>> THEN chunk.items
                ELSE chunk.items \o from[page + 1]
    IN  from[1]

RecordsPage(page, size) == Page(ById(Txns), page, size)

----------------------------------------------------------------------------
\* Walking the pages of a listing to the last one the console offers.
Walk(PageOf(_), size) ==
    FlattenSeq([page \in 1..PageCount(PageOf(1).total, size) |-> PageOf(page).items])

Items(seq) == {seq[i] : i \in DOMAIN seq}

\* Every settlement row shows what the run judged.  A row nobody closed has the
\* net and the payment legs the tiers compared, although it is summed again from
\* stored rows; a row a tier closed has those legs too and nets within the
\* tier's tolerance of them; a row the analyst closed adds up within the same
\* tolerance; and the diagram a row links to is of the same match.
RowIsHonest(row) ==
    LET s == row.settlement
        byTier == row.line # None /\ llmLegs[row.line] = {}
    IN  /\ row.line = None => row.net = file.net[s]
        /\ row.line = None \/ byTier =>
             row.parts = file.net[s] /\ row.payLegs = file.payLegs[s]
        /\ Abs(row.net - row.parts) <= TOLERANCE_PAISE
        /\ byTier /\ tierOf[row.line] # 3 => row.net = row.parts
        /\ IF row.line = None THEN BatchNetting(s) = None
           ELSE BatchNetting(s).line = row.line /\ BatchNetting(s).net = row.net

\* A rupee of the report is on the screens once: it is in the sum of a
\* settlement, or in an exception of a row no settlement counts.
MoneyIsShownOnce(rows, excepted) ==
    LET counted == UNION {MatchedLegs(l) : l \in Lines}
        loose == {e.subject : e \in {x \in excepted :
                    x.code \in {"DUPLICATE_PSP_TXN", "ORPHAN_PSP_TXN"}}} \ counted
        shown == [row \in rows |-> row.parts]
    IN  R!Reconstruct(psp, Txns) =
          MapThenSumSet(LAMBDA row : shown[row], rows) + R!Reconstruct(psp, loose)

\* Whatever the size of a page, the listings tell one story.  The settlement
\* pages hold every settlement once and the matches they show are those of the
\* match pages; the match and exception pages together hold every bank line
\* once; the totals by reason code add up to the whole, which the report reads in
\* full; every PSP row is listed; and the money on the screens is the report's.
ListingAt(size) ==
    LET rows == Walk(LAMBDA p : SettlementsPage(p, size), size)
        matches == Walk(LAMBDA p : MatchesPage(p, size), size)
        exceptions == Walk(LAMBDA p : ExceptionsPage(p, size, None), size)
        lines == {e.subject : e \in Items(exceptions)} \intersect Lines
        count == [c \in {Code(e) : e \in Items(exceptions)} |-> ExceptionsPage(1, size, c).total]
    IN  /\ {row.settlement : row \in Items(rows)} = file.known
        /\ Len(rows) = Cardinality(file.known)
        /\ \A row \in Items(rows) : RowIsHonest(row)
        /\ {<<row.line, row.settlement>> : row \in {r \in Items(rows) : r.line # None}}
             = {<<m.line, m.settlement>> : m \in Items(matches)}
        /\ lines \union {m.line : m \in Items(matches)} = Lines
        /\ Cardinality(lines) + Len(matches) = Cardinality(Lines)
        /\ Len(exceptions) = MapThenSumSet(LAMBDA c : count[c], DOMAIN count)
        /\ ReportExceptions(size) = exceptions
        /\ Items(Walk(LAMBDA p : RecordsPage(p, size), size)) = Txns
        /\ MoneyIsShownOnce(Items(rows), Items(exceptions))

\* A page of one row, and one that is neither filled nor everything.
PageSizes == {1, 3}

ListingIsHonest == pass = "merged" => \A size \in PageSizes : ListingAt(size)
=============================================================================
