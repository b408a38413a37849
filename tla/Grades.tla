-------------------------------- MODULE Grades --------------------------------
(***************************************************************************)
(* What is reported of a finished reconciliation: the metrics of           *)
(* scorer/score.py against an answer, and the input tax credit of          *)
(* core/itc/reconcile.py against the invoices of the payment provider.     *)
(* Both read the merged result of the matcher and the accept loop and      *)
(* nothing else of the run.  A metric is a fraction, numerator n over      *)
(* denominator d; an amount and the wall clock are fractions over one.     *)
(***************************************************************************)
EXTENDS AcceptLoop, FiniteSetsExt

CONSTANTS
    Truths(_),      \* the answers a report may have
    Invoices,       \* invoiced GST by period; a period without a row is absent
    Period(_)       \* the month of a day

\* A run, its answers and the invoices are finite.
ASSUME GradesAssumption ==
    /\ IsFiniteSet(Lines) /\ IsFiniteSet(Txns)
    /\ \A c \in Cases : \A truth \in Truths(c.psp) :
         /\ truth.linked \subseteq Lines /\ IsFiniteSet(truth.traps)
         /\ truth.legs \in [Lines -> SUBSET Txns]
    /\ \A invoice \in Invoices :
         IsFiniteSet(DOMAIN invoice) /\ \A p \in DOMAIN invoice : invoice[p] \in Int

\* What a function's values come to.
SumOf(v) == MapThenSumSet(LAMBDA x : v[x], DOMAIN v)

Amount(x) == [n |-> x, d |-> 1]

Rate(n, d, empty) == IF d = 0 THEN Amount(empty) ELSE [n |-> n, d |-> d]

AtMost(a, b) == a.n * b.d <= b.n * a.d
Plus(a, b) == [n |-> a.n * b.d + b.n * a.d, d |-> a.d * b.d]

Tax(legs) == -R!Reconstruct(psp, {t \in legs : psp.type[t] = "tax"})

Match(l) ==
    [line |-> l, settlement |-> Closed[l], legs |-> MatchedLegs(l),
     tax |-> Tax(MatchedLegs(l)), assisted |-> llmLegs[l] # {}]

\* A result of the run: its matches and the lines it excepts.
Result == [matches |-> {Match(l) : l \in {k \in Lines : Closed[k] # None}}, excepted |-> Reported]

LinesOf(matches) == {m.line : m \in matches}
Assisted(matches) == {m \in matches : m.assisted}

----------------------------------------------------------------------------
\* The scorer.  An answer is the lines it links, their settlements and legs,
\* and the lines it records as unresolvable.

Resolvable(truth) == truth.linked \ truth.traps

\* The order set of a match is read off its legs; it is left out here.
Agrees(m, truth) ==
    /\ m.line \in truth.linked
    /\ m.settlement = truth.settlement[m.line]
    /\ m.legs = truth.legs[m.line]

\* A slip: the subjects are the ones the result speaks of.
SubjectsOfResult(truth, result) == LinesOf(result.matches) \union result.excepted

SubjectsOf(truth, result) == truth.linked

Resolved(truth, matches) == LinesOf(matches) \intersect Resolvable(truth)

\* score.
Score(truth, result) ==
    LET matches == result.matches
        subjects == SubjectsOf(truth, result)
        agreed == {m \in matches : Agrees(m, truth)}
        of(some) == Rate(Cardinality(Resolved(truth, some)), Cardinality(Resolvable(truth)), 0)
        falsehood == Rate(Cardinality(matches \ agreed), Cardinality(matches), 0)
    IN  [auto |-> of(matches \ Assisted(matches)), assisted |-> of(Assisted(matches)),
         exception |-> Rate(Cardinality(subjects \ LinesOf(matches)), Cardinality(subjects), 0),
         false |-> falsehood, precision |-> [falsehood EXCEPT !.n = falsehood.d - falsehood.n],
         recall |-> of(agreed),
         traps |-> Rate(Cardinality(truth.traps \ LinesOf(matches)), Cardinality(truth.traps), 1)]

----------------------------------------------------------------------------
\* The input tax credit.

TaxIn(p, matches) ==
    SumOf([m \in {n \in matches : Period(file.txnDate[n.line]) = p} |-> m.tax])

Least(a, b) == IF a < b THEN a ELSE b
Greatest(a, b) == IF a < b THEN b ELSE a

Universe(invoice) == {Period(file.txnDate[l]) : l \in Lines} \union DOMAIN invoice

\* A slip: every shortfall is the provider's.
NothingOpen(matches) == {}

\* unmatched_periods: months with a credit the run did not close.
OpenPeriods(matches) ==
    {Period(file.txnDate[l]) : l \in {k \in Lines \ LinesOf(matches) : file.credit[k] # None}}

PeriodOf(invoice, matches, p) ==
    LET computed == TaxIn(p, matches)
        stated == IF p \in DOMAIN invoice THEN invoice[p] ELSE 0
    IN  [period |-> p, computed |-> computed, stated |-> stated, variance |-> computed - stated,
         status |-> CASE p \notin DOMAIN invoice -> "no_invoice"
                      [] p \in DOMAIN invoice /\ computed > stated -> "under_invoiced"
                      [] p \in DOMAIN invoice /\ computed = stated -> "substantiated"
                      [] OTHER -> IF p \in OpenPeriods(matches) THEN "unmatched_settlements"
                                  ELSE "over_invoiced"]

\* reconcile.
Reconcile(invoice, matches) ==
    LET rows == {PeriodOf(invoice, matches, p) : p \in Universe(invoice)}
    IN  [rows |-> rows,
         substantiated |-> SumOf([row \in rows |-> Least(row.computed, row.stated)]),
         atRisk |-> SumOf([row \in rows |-> Abs(row.variance)]),
         variance |-> SumOf([row \in rows |-> row.variance])]

----------------------------------------------------------------------------
\* The drift between two results, compare of core/drift/compare.py.

ExactMetrics == {"false", "precision", "traps"}
MagnitudeMetrics == {"substantiated", "atRisk", "variance"}
NeverMaterial == {"throughput"}

\* What a metric moved by, over the product of the denominators.
Delta(before, after) == after.n * before.d - before.n * after.d

IsMaterial(metric, before, after) ==
    LET delta == Abs(Delta(before, after))
    IN  /\ metric \notin NeverMaterial
        /\ delta # 0
        /\ \/ metric \in ExactMetrics
           \/ metric \in MagnitudeMetrics /\ (before.n = 0 \/ delta * 20 >= Abs(before.n) * after.d)
           \/ metric \notin MagnitudeMetrics /\ delta * 100 >= before.d * after.d

\* reason_code_census, of the lines a result excepts: a code that was never
\* given is absent.
CodeOf(l) == IF reason[l] = None THEN "NEWLY_EXCEPTED" ELSE reason[l]
Census(excepted) ==
    [code \in {CodeOf(l) : l \in excepted} |-> Cardinality({l \in excepted : CodeOf(l) = code})]

CountOf(census, code) == IF code \in DOMAIN census THEN census[code] ELSE 0

Moved(before, after, codes) ==
    [findings |-> {m \in DOMAIN before.metrics : IsMaterial(m, before.metrics[m], after.metrics[m])},
     codes |-> {<<c, CountOf(before.census, c), CountOf(after.census, c)>> :
                  c \in {c \in codes : CountOf(before.census, c) # CountOf(after.census, c)}}]

\* A slip: a code that stopped firing is not looked for.
CompareCurrent(before, after) == Moved(before, after, DOMAIN after.census)

Compare(before, after) ==
    Moved(before, after, DOMAIN before.census \union DOMAIN after.census)

\* The wall clock is any number.
Scored(truth, invoice, result, clock) ==
    LET itc == Reconcile(invoice, result.matches)
        score == Score(truth, result)
    IN  [metrics |-> [m \in DOMAIN score \union MagnitudeMetrics \union NeverMaterial |->
                        IF m \in NeverMaterial THEN Amount(clock)
                        ELSE IF m \in MagnitudeMetrics THEN Amount(itc[m]) ELSE score[m]],
         census |-> Census(result.excepted)]

----------------------------------------------------------------------------
\* Properties.  Each holds of what is reported of every result a run can reach.

Done == pass = "merged"

\* An answer links credits: nothing else is a settlement arriving.
Answers == {t \in Truths(psp) : \A l \in t.linked : file.credit[l] # None}

\* The invoice for exactly what an answer says its settlements bore.
HonestInvoice(truth) ==
    LET bore == {[line |-> l, tax |-> Tax(truth.legs[l])] : l \in truth.linked}
    IN  [p \in {Period(file.txnDate[l]) : l \in Lines} |-> TaxIn(p, bore)]

Without(result, l) == {m \in result.matches : m.line # l}

\* scorer/metrics.py: an engine cannot raise its score by losing work.  A match
\* lost never raises a match rate or lowers the exception rate, and one lost
\* together with its exception is the same as one excepted; nothing is recalled
\* that was not matched, nor any line counted above the line of a rate that is
\* not below it.
LosingWorkNeverPays ==
    Done => LET result == Result IN \A truth \in Answers :
        LET kept == Score(truth, result)
        IN  /\ \A rate \in DOMAIN kept : kept[rate].d > 0 /\ kept[rate].n \in 0..kept[rate].d
            /\ AtMost(kept.recall, Plus(kept.auto, kept.assisted))
            /\ AtMost(Plus(kept.auto, kept.assisted), Amount(1))
            /\ \A l \in Lines :
                 LET rest == Without(result, l)
                     lost == Score(truth, [matches |-> rest, excepted |-> result.excepted \ {l}])
                     told == Score(truth, [matches |-> rest, excepted |-> result.excepted \union {l}])
                 IN  /\ AtMost(lost.auto, kept.auto) /\ AtMost(lost.assisted, kept.assisted)
                     /\ AtMost(lost.recall, kept.recall) /\ AtMost(kept.exception, lost.exception)
                     /\ lost = told

\* Whatever is invoiced, the two headline figures place every rupee of GST: they
\* come to the larger of what was computed and what was invoiced.  And as long as
\* the provider took no GST back, an invoice for exactly what the answer says the
\* settlements bore never blames it while every match agrees with the answer.
NoGstTakenBack == \A t \in Txns : psp.type[t] = "tax" => psp.amount[t] <= 0

GstIsAccountedFor ==
    Done => LET result == Result IN
      /\ \A invoice \in Invoices :
           LET report == Reconcile(invoice, result.matches)
           IN  report.substantiated + report.atRisk =
                 SumOf([row \in report.rows |-> Greatest(row.computed, row.stated)])
      /\ \A truth \in Answers :
           NoGstTakenBack /\ (\A m \in result.matches : Agrees(m, truth)) =>
             \A row \in Reconcile(HonestInvoice(truth), result.matches).rows :
               row.status \in {"substantiated", "unmatched_settlements"}

\* A run that differs from its baseline by one match says so: the codes account
\* for every exception gained or lost, GST that was all at risk and is not is a
\* finding, and a run that only took another time has none.
DriftTellsWhatChanged ==
    Done => LET result == Result IN \A truth \in Answers :
        LET invoice == HonestInvoice(truth)
            now == Scored(truth, invoice, result, 1)
            again == Compare(Scored(truth, invoice, result, 7), now)
        IN  /\ again.findings = {} /\ again.codes = {}
            /\ \A l \in LinesOf(result.matches) :
                 LET baseline == [matches |-> Without(result, l), excepted |-> result.excepted \union {l}]
                     was == Scored(truth, invoice, baseline, 1)
                     drift == Compare(was, now)
                 IN  /\ was.metrics.substantiated.n = 0 /\ now.metrics.substantiated.n # 0
                        => "substantiated" \in drift.findings
                     /\ SumOf([c \in drift.codes |-> c[3] - c[2]]) = -1
=============================================================================
