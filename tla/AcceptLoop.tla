----------------------------- MODULE AcceptLoop -----------------------------
(***************************************************************************)
(* The second half of a reconciliation: run_llm_pass of                    *)
(* core/llm/pipeline.py with the checks of core/llm/verifier.py, started   *)
(* on the result the matcher leaves.  An analyst proposes, for open        *)
(* exceptions, which PSP rows a bank line is; each proposal is re-checked  *)
(* against everything accepted so far and either closes its line or leaves *)
(* the failed check on its exception.                                      *)
(*                                                                         *)
(* The matcher reads the file the pool derived from the report; the        *)
(* verifier reads the report itself, every row of it.                      *)
(***************************************************************************)
EXTENDS Matcher

CONSTANTS
    Txns, OrderIds,
    Invented,       \* an id the report does not hold
    Cases,          \* [psp, credit, txnDate, cites] tables a run may be given
    Hypotheses,     \* what the analyst may answer
    MaxHypotheses   \* bound: proposals in one answer

R == INSTANCE Rows

Subjects == Lines \union Txns

\* Rows proposed twice are in again.
Hypothesis ==
    [subject : Subjects,
     line    : Lines \union {None, Invented},
     legs    : SUBSET (Txns \union {Invented}),
     again   : SUBSET Txns]

CheckNames == {"existence", "exclusivity", "causality", "arithmetic", "uniqueness"}

ASSUME LoopAssumption ==
    /\ Invented \notin Lines \union Txns \union {None}
    /\ Lines \intersect Txns = {}
    /\ Txns \subseteq Nat       \* their order tells which row was issued first
    /\ Hypotheses \subseteq Hypothesis
    /\ MaxHypotheses \in Nat
    /\ None \notin CheckNames
    /\ IsFiniteSet(Settlements)

VARIABLES
    psp,        \* the PSP report
    pass,       \* "waiting" for the matcher, "asking", "verifying" or "merged"
    attempts,   \* calls of the analyst that found it unavailable
    answered,   \* whether a response came back
    said,       \* what the final stage says of the analyst
    considered, \* proposals read so far
    open,       \* open_subjects: subjects of the exceptions still standing
    llmLegs,    \* the rows of the line's LLM match, or {}
    taken,      \* claimed: rows some match holds
    verdict     \* failed_check on the subject's exception

callVars == <<attempts, answered, said>>
loopVars == <<psp, pass, callVars, considered, open, llmLegs, taken, verdict>>

allVars == <<vars, loopVars>>

----------------------------------------------------------------------------
\* From the report to the matcher's file.

Kept(p) == Txns \ R!SuppressedTxns(p)

Batch(p, s) == R!LegsAmong(p, Kept(p), s)

\* A citation counts only when the settlement has a leg.
FileOf(c) ==
    LET batch == [s \in Settlements |-> Batch(c.psp, s)]
        known == {s \in Settlements : batch[s] # {}}
    IN  [known     |-> known,
         net       |-> [s \in Settlements |-> R!Reconstruct(c.psp, batch[s])],
         settledOn |-> [s \in Settlements |->
                          IF s \in known THEN R!SettledOn(c.psp, batch[s]) ELSE 0],
         payLegs   |-> [s \in Settlements |-> R!PaymentLegs(c.psp, batch[s])],
         credit    |-> c.credit,
         txnDate   |-> c.txnDate,
         ref       |-> [l \in Lines |->
                          IF c.cites[l] \in known THEN c.cites[l] ELSE None]]

\* The matcher is given what the pool makes of a report.
ASSUME CasesAssumption ==
    /\ {c.psp : c \in Cases} \subseteq R!Report
    /\ {FileOf(c) : c \in Cases} \subseteq Files

LoopInit ==
    /\ \E c \in Cases : psp = c.psp /\ file = FileOf(c)
    /\ Start
    /\ pass = "waiting"
    /\ attempts = 0 /\ answered = FALSE /\ said = "no analyst"
    /\ considered = 0
    /\ open = {}
    /\ llmLegs = [l \in Lines |-> {}]
    /\ taken = {}
    /\ verdict = [x \in Subjects |-> None]

EngineStep == pass = "waiting" /\ Next /\ UNCHANGED loopVars

MatchedLegs(l) ==
    IF matchOf[l] = None THEN llmLegs[l] ELSE Batch(psp, matchOf[l])

Unsettled == {t \in Kept(psp) : psp.settlement[t] = None}

Anonymous ==
    {t \in Kept(psp) : psp.type[t] = "payment" /\ psp.order[t] = None}

\* What the engine reported.  Which anonymous payments kept their exception is
\* the pool's business.
Residue ==
    /\ pass = "waiting"
    /\ phase = "done"
    /\ taken' = UNION {MatchedLegs(l) : l \in Lines}
    /\ \E unrecovered \in SUBSET Anonymous :
         open' = {l \in Lines : reason[l] # None}
                 \union (Txns \ Kept(psp)) \union Unsettled \union unrecovered
    /\ UNCHANGED <<vars, psp, attempts, answered, considered, llmLegs, verdict>>

\* The run did not ask for the analyst, or no client could be built.
SkipPass == Residue /\ pass' = "merged" /\ UNCHANGED said

\* Without a residue there is nothing to ask.
StartPass ==
    /\ Residue
    /\ pass' = IF open' = {} THEN "merged" ELSE "asking"
    /\ said' = IF open' = {} THEN "analyst ran" ELSE said

----------------------------------------------------------------------------
\* The call.

GEMINI_MAX_ATTEMPTS == 4

Call == pass = "asking" /\ UNCHANGED <<vars, psp, considered, open, llmLegs, taken, verdict>>

\* Only a 503 is tried again, up to the last attempt.
Retry ==
    /\ Call
    /\ attempts + 1 < GEMINI_MAX_ATTEMPTS
    /\ attempts' = attempts + 1
    /\ UNCHANGED <<pass, answered, said>>

\* A declining or malformed response is an answer without proposals.
Answer ==
    /\ Call
    /\ pass' = "verifying" /\ answered' = TRUE /\ attempts' = 0
    /\ UNCHANGED said

SwallowFailure ==                \* a slip: the last failure reads as a decline
    Call /\ pass' = "verifying" /\ UNCHANGED <<attempts, answered, said>>

\* Any other error, or a 503 at the last attempt, is raised; the run keeps the
\* result it has and says so.
Fail ==
    /\ Call
    /\ pass' = "merged" /\ said' = "analyst failed" /\ attempts' = 0
    /\ UNCHANGED answered

----------------------------------------------------------------------------
\* The verifier, one operator per check.

\* Every settlement, with all of its ingested legs.
AllLegs(s) == R!LegsAmong(psp, Txns, s)

Existence(h) ==
    /\ h.line \in Lines
    /\ file.credit[h.line] # None
    /\ file.credit[h.line] > 0
    /\ h.legs # {}
    /\ h.legs \subseteq Txns
    /\ h.again = {}

FirstClaimsOnly(h) ==            \* a slip: a context hoisted out of the loop
    \A t \in h.legs, l \in Lines : matchOf[l] # None => t \notin MatchedLegs(l)

Exclusivity(h) == h.legs \intersect taken = {}

UndatedPasses(h) ==              \* a slip: None is not late
    \A t \in h.legs :
        psp.settledAt[t] # None => psp.settledAt[t] <= file.txnDate[h.line]

Causality(h) ==
    \A t \in h.legs :
        /\ psp.settledAt[t] # None
        /\ psp.settledAt[t] <= file.txnDate[h.line]

Closes(legs, l) == Abs(R!Reconstruct(psp, legs) - file.credit[l]) <= TOLERANCE_PAISE

Arithmetic(h) == Closes(h.legs, h.line)

Coherence(h) == \E s \in Settlements : h.legs = AllLegs(s)

CausalClosers(h) ==              \* a slip: rivals filtered by date
    {s \in Settlements :
        /\ AllLegs(s) # {}
        /\ AllLegs(s) \intersect taken = {}
        /\ Closes(AllLegs(s), h.line)
        /\ file.settledOn[s] <= file.txnDate[h.line]}

Closers(h) ==
    {s \in Settlements :
        /\ AllLegs(s) # {}
        /\ AllLegs(s) \intersect taken = {}
        /\ Closes(AllLegs(s), h.line)}

Uniqueness(h) == Cardinality(Closers(h)) <= 1

NoTie(h) == h.subject \in open /\ h.subject \in Lines      \* a slip

\* The caller's own check, reported as existence: a proposal closes the open
\* bank line it was made for and no other.
SubjectTie(h) ==
    /\ h.subject \in open
    /\ h.subject \in Lines
    /\ h.line = h.subject

CoherenceLabel == "existence"

FailedCheck(h) ==
    IF ~Existence(h) THEN "existence"
    ELSE IF ~Exclusivity(h) THEN "exclusivity"
    ELSE IF ~Causality(h) THEN "causality"
    ELSE IF ~Arithmetic(h) THEN "arithmetic"
    ELSE IF ~Coherence(h) THEN CoherenceLabel
    ELSE IF ~Uniqueness(h) THEN "uniqueness"
    ELSE IF ~SubjectTie(h) THEN "existence"
    ELSE None

----------------------------------------------------------------------------
\* The loop.

Consider(h) ==
    /\ pass = "verifying"
    /\ considered < MaxHypotheses
    /\ considered' = considered + 1
    /\ UNCHANGED <<vars, psp, pass, callVars>>

Accept(h) ==
    /\ Consider(h)
    /\ FailedCheck(h) = None
    /\ open' = open \ {h.subject}
    /\ llmLegs' = [llmLegs EXCEPT ![h.line] = h.legs]
    /\ taken' = taken \union h.legs
    /\ UNCHANGED verdict

\* A subject with no open exception has nowhere to keep the verdict.
Reject(h) ==
    /\ Consider(h)
    /\ FailedCheck(h) # None
    /\ verdict' = IF h.subject \in open
                  THEN [verdict EXCEPT ![h.subject] = FailedCheck(h)] ELSE verdict
    /\ UNCHANGED <<open, llmLegs, taken>>

Merge ==
    /\ pass = "verifying"
    /\ pass' = "merged" /\ said' = "analyst ran"
    /\ UNCHANGED <<vars, psp, attempts, answered, considered, open, llmLegs, taken, verdict>>

Merged == pass = "merged" /\ UNCHANGED allVars

LoopNext ==
    \/ EngineStep
    \/ SkipPass \/ StartPass
    \/ Retry \/ Answer \/ Fail
    \/ \E h \in Hypotheses : Accept(h) \/ Reject(h)
    \/ Merge
    \/ Merged

LoopSpec == LoopInit /\ [][LoopNext]_allVars

----------------------------------------------------------------------------
\* Properties.

\* The accept loop's bookkeeping has the shape the code gives it.
LoopTypeOK ==
    /\ pass \in {"waiting", "asking", "verifying", "merged"}
    /\ attempts \in 0..(GEMINI_MAX_ATTEMPTS - 1)
    /\ answered \in BOOLEAN
    /\ said \in {"no analyst", "analyst ran", "analyst failed"}
    /\ considered \in 0..MaxHypotheses
    /\ open \subseteq Subjects
    /\ llmLegs \in [Lines -> SUBSET Txns]
    /\ taken \subseteq Txns
    /\ verdict \in [Subjects -> CheckNames \union {None}]

\* No PSP row is a leg of two matches, whichever half of the run made them,
\* and the claimed rows each check reads are exactly the rows matches hold.
LegsClaimedOnce ==
    /\ \A k, l \in Lines : k # l => MatchedLegs(k) \intersect MatchedLegs(l) = {}
    /\ pass # "waiting" => taken = UNION {MatchedLegs(l) : l \in Lines}

\* An accepted proposal is one settlement of the report, all of its rows, whose
\* sum is within a rupee of a credit that really arrived, on a day no row
\* settled after.
AcceptedIsDefensible ==
    \A l \in Lines : llmLegs[l] # {} =>
        LET legs == llmLegs[l]
            sum == R!Reconstruct(psp, legs)
        IN  /\ \E s \in Settlements : legs = {t \in Txns : psp.settlement[t] = s}
            /\ file.credit[l] # None
            /\ file.credit[l] > 0
            /\ Abs(sum - file.credit[l]) <= 100
            /\ \A t \in legs : psp.settledAt[t] \in Int
                                /\ psp.settledAt[t] <= file.txnDate[l]

\* A line is only ever closed by the analyst's half when no other settlement
\* of the report was free to close it, at any date.
AcceptedWasUnique ==
    [][\A l \in Lines : llmLegs'[l] # llmLegs[l] =>
          \A s \in Settlements :
            LET legs == {t \in Txns : psp.settlement[t] = s}
            IN  (/\ legs # {}
                 /\ legs \intersect taken = {}
                 /\ Abs(R!Reconstruct(psp, legs) - file.credit[l]) <= 100)
                => legs = llmLegs'[l]]_allVars

\* Both halves together implement the ledger: an accepted proposal closes a
\* reported line and withdraws its report in the same step.
SettlementOf(legs) == CHOOSE s \in Settlements : \E t \in legs : psp.settlement[t] = s

Closed ==
    [l \in Lines |-> IF llmLegs[l] = {} THEN matchOf[l] ELSE SettlementOf(llmLegs[l])]

Reported ==
    IF pass = "waiting" THEN {l \in Lines : reason[l] # None}
    ELSE open \intersect Lines

Whole == INSTANCE Ledger WITH closed <- Closed, reported <- Reported

\* Every step of either half is a step of the ledger or leaves it alone.
LoopImplementsLedger == Whole!Spec

\* What the report says of the analyst, from the matches, the refusals the
\* exceptions carry or the metrics count, and the tokens billed.
AnalystState ==
    LET accepted == {l \in Lines : llmLegs[l] # {}}
        refused == \/ \E x \in open : verdict[x] # None
                   \/ considered > Cardinality(accepted)
    IN  CASE accepted # {} -> "accepted"
          [] accepted = {} /\ refused -> "all-rejected"
          [] OTHER -> IF answered THEN "called-silently" ELSE "no-evidence"

\* A run says the analyst ran only when it answered or had nothing to be asked,
\* and otherwise shows the engine's result alone and no trace of the analyst: a
\* failed call never reads as a model that weighed the evidence and declined,
\* nor a judged proposal as silence.
RanMeansAnswered ==
    pass = "merged" =>
        /\ IF said = "analyst ran"
           THEN answered \/ open = {}
           ELSE AnalystState = "no-evidence"
        /\ considered > 0 => AnalystState \in {"accepted", "all-rejected"}

----------------------------------------------------------------------------
\* A statement of the source that the pass does not keep.

\* verifier.py on the subjects within the window: "every subject it could still
\* be asked about is one T3 declined for ambiguity that `_uniqueness` declines
\* too".  The verifier sums suppressed copies, so it may not see one of the two
\* settlements the tiers saw.
AmbiguousStaysOpen ==
    \A l \in Lines :
        /\ ambiguity[l] # {}
        /\ \A s \in ambiguity[l] : AllLegs(s) \intersect taken \subseteq llmLegs[l]
        => llmLegs[l] = {}
=============================================================================
