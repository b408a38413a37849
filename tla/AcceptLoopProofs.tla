-------------------------- MODULE AcceptLoopProofs --------------------------
(***************************************************************************)
(* Theorems of AcceptLoop for every report, statement and analyst.  The    *)
(* matcher's invariant goes on holding under the accept loop, which only   *)
(* reads what the matcher wrote; beside it an open line is one that was    *)
(* reported and not closed since, the claimed rows are the rows of the     *)
(* matches, and nothing of the analyst is there until a response came.     *)
(*                                                                         *)
(* The second part is of Grades: what the scorer, the tax credit and the   *)
(* drift report say of a merged result.  They keep no state of their own,  *)
(* so each follows from the invariant and from how cardinalities and sums  *)
(* over the matches change with the matches.                               *)
(*                                                                         *)
(* The third part is of Listing: the screens of a merged result, for every *)
(* page size.  A lemma of pages says that they join to the whole listing;  *)
(* the rest is of the sets the listings are of.                            *)
(***************************************************************************)
EXTENDS Grades, Listing, MatcherProofs, FoldLemmas

\* The matcher's file and the verifier's report are of one case.
InputInv == \E c \in Cases : psp = c.psp /\ file = FileOf(c)

\* A settlement the tiers speak of has a leg.
KnownInv ==
    \A l \in Lines : /\ matchOf[l] # None => matchOf[l] \in file.known
                     /\ proposal[l] # None => proposal[l] \in file.known

Untouched ==
    /\ ~answered
    /\ considered = 0
    /\ verdict = [x \in Subjects |-> None]
    /\ llmLegs = [l \in Lines |-> {}]

CallInv ==
    /\ pass \in {"waiting", "asking", "verifying", "merged"}
    /\ pass \in {"waiting", "asking"} => Untouched /\ said = "no analyst"
    /\ pass = "verifying" => answered
    /\ pass = "merged" =>
         IF said = "analyst ran" THEN answered \/ open = {} ELSE Untouched

OpenInv ==
    /\ open \subseteq Subjects
    /\ llmLegs \in [Lines -> SUBSET Txns]
    /\ \A l \in Lines : llmLegs[l] # {} => matchOf[l] = None
    /\ pass # "waiting" =>
         /\ phase = "done"
         /\ open \intersect Lines = {l \in Lines : reason[l] # None /\ llmLegs[l] = {}}

LoopInv ==
    /\ Inv
    /\ InputInv
    /\ KnownInv
    /\ CallInv
    /\ OpenInv
    /\ LegsClaimedOnce
    /\ AcceptedIsDefensible

----------------------------------------------------------------------------
\* Rows.

\* The rows the pool keeps of two settlements are different rows.
LEMMA BatchesApart ==
    ASSUME NEW s, NEW u, s # u
    PROVE  Batch(psp, s) \intersect Batch(psp, u) = {}
  BY DEF Batch, R!LegsAmong

\* What the pool keeps of a settlement is among all of its rows.
LEMMA BatchAmongAll ==
    ASSUME NEW s
    PROVE  Batch(psp, s) \subseteq AllLegs(s) /\ AllLegs(s) \subseteq Txns
  BY DEF Batch, Kept, AllLegs, R!LegsAmong

\* The matcher's steps, and every other, are steps of its own specification.
LEMMA StepsOfMatcher == [LoopNext]_allVars => [Next]_vars
<1> SUFFICES ASSUME [LoopNext]_allVars PROVE [Next]_vars
  OBVIOUS
<1>1. CASE EngineStep
  BY <1>1 DEF EngineStep
<1>2. CASE SkipPass \/ StartPass
  BY <1>2 DEF SkipPass, StartPass, Residue
<1>3. CASE Retry \/ Answer \/ Fail
  BY <1>3 DEF Retry, Answer, Fail, Call
<1>4. CASE \E h \in Hypotheses : Accept(h) \/ Reject(h)
  BY <1>4 DEF Accept, Reject, Consider
<1>5. CASE Merge
  BY <1>5 DEF Merge
<1>6. CASE Merged \/ UNCHANGED allVars
  BY <1>6 DEF Merged, allVars
<1> QED
  BY <1>1, <1>2, <1>3, <1>4, <1>5, <1>6 DEF LoopNext

\* What a proposal that passed every check is.
LEMMA Passed ==
    ASSUME LoopInv, NEW h \in Hypotheses, Accept(h)
    PROVE  /\ pass = "verifying"
           /\ Existence(h) /\ Exclusivity(h) /\ Causality(h) /\ Arithmetic(h)
           /\ Coherence(h) /\ Uniqueness(h) /\ SubjectTie(h)
           /\ h.line \in Lines /\ h.line \in open /\ h.subject = h.line
           /\ matchOf[h.line] = None /\ reason[h.line] # None /\ llmLegs[h.line] = {}
           /\ h.legs # {} /\ h.legs \subseteq Txns
           /\ h.legs \intersect taken = {}
           /\ llmLegs' = [llmLegs EXCEPT ![h.line] = h.legs]
           /\ taken' = taken \union h.legs
           /\ open' = open \ {h.line}
           /\ UNCHANGED <<vars, psp, pass, answered, said, verdict>>
<1>1. FailedCheck(h) = None /\ pass = "verifying"
  BY DEF Accept, Consider
<1>2. /\ None # "existence" /\ None # "exclusivity" /\ None # "causality"
      /\ None # "arithmetic" /\ None # "uniqueness"
  BY LoopAssumption DEF CheckNames
<1>3. /\ Existence(h) /\ Exclusivity(h) /\ Causality(h) /\ Arithmetic(h)
      /\ Coherence(h) /\ Uniqueness(h) /\ SubjectTie(h)
  BY <1>1, <1>2 DEF FailedCheck, CoherenceLabel
<1>4. h.line \in Lines /\ h.line \in open /\ h.subject = h.line
  BY <1>3 DEF SubjectTie
<1>5. reason[h.line] # None /\ llmLegs[h.line] = {}
  BY <1>1, <1>4 DEF LoopInv, OpenInv
<1>6. matchOf[h.line] = None
  BY <1>4, <1>5 DEF LoopInv, Inv, MatchedOrExcepted
<1>7. h.legs # {} /\ h.legs \subseteq Txns /\ h.legs \intersect taken = {}
  BY <1>3 DEF Existence, Exclusivity
<1>8. /\ llmLegs' = [llmLegs EXCEPT ![h.line] = h.legs]
      /\ taken' = taken \union h.legs
      /\ open' = open \ {h.line}
      /\ UNCHANGED <<vars, psp, pass, answered, said, verdict>>
  BY <1>4 DEF Accept, Consider, callVars
<1> QED
  BY <1>1, <1>3, <1>4, <1>5, <1>6, <1>7, <1>8

----------------------------------------------------------------------------
\* The initial states.

LEMMA LoopInitInv == LoopInit => LoopInv
<1> SUFFICES ASSUME LoopInit PROVE LoopInv
  OBVIOUS
<1>1. Inv
  BY CasesAssumption, InitInv DEF LoopInit, Init
<1>2. InputInv
  BY DEF LoopInit, InputInv
<1>3. KnownInv
  BY DEF LoopInit, Start, KnownInv
<1>4. CallInv
  BY DEF LoopInit, CallInv, Untouched
<1>5. OpenInv
  BY DEF LoopInit, OpenInv
<1>6. LegsClaimedOnce
  BY DEF LoopInit, LegsClaimedOnce, MatchedLegs, Start
<1>7. AcceptedIsDefensible
  BY DEF LoopInit, AcceptedIsDefensible
<1> QED
  BY <1>1, <1>2, <1>3, <1>4, <1>5, <1>6, <1>7 DEF LoopInv

----------------------------------------------------------------------------
\* The steps.

\* The tiers only speak of settlements that have a leg.
LEMMA KnownStep == TypeOK /\ KnownInv /\ [Next]_vars => KnownInv'
<1> SUFFICES ASSUME TypeOK, KnownInv, [Next]_vars PROVE KnownInv'
  OBVIOUS
<1> USE DEF KnownInv, TypeOK
<1>1. ASSUME NEW l \in Lines, Propose(l) PROVE KnownInv'
  BY <1>1 DEF Propose, Visit, poolVars, Candidates
<1>2. ASSUME NEW l \in Lines, Build(l) PROVE KnownInv'
  BY <1>2 DEF Build, Visit
<1>3. CASE EndTier
  BY <1>3 DEF EndTier, poolVars
<1>4. ASSUME NEW l \in Lines, Pass(l) \/ NoteAmbiguity(l) \/ Contest(l) \/ Classify(l)
      PROVE  KnownInv'
  BY <1>4 DEF Pass, NoteAmbiguity, Contest, Classify, Visit, poolVars
<1>5. CASE StartResolve \/ Finish \/ UNCHANGED vars
  BY <1>5 DEF StartResolve, Finish, poolVars, vars
<1> QED
  BY <1>1, <1>2, <1>3, <1>4, <1>5 DEF Next, Terminated

\* Two lines the tiers closed hold different rows.
LEMMA EngineLegsApart ==
    OneClaimPerSettlement /\ llmLegs = [l \in Lines |-> {}]
    => \A k, l \in Lines : k # l => MatchedLegs(k) \intersect MatchedLegs(l) = {}
<1> SUFFICES ASSUME OneClaimPerSettlement, llmLegs = [l \in Lines |-> {}],
                    NEW k \in Lines, NEW l \in Lines, k # l
             PROVE  MatchedLegs(k) \intersect MatchedLegs(l) = {}
  OBVIOUS
<1>1. CASE matchOf[k] = None \/ matchOf[l] = None
  BY <1>1 DEF MatchedLegs
<1>2. CASE matchOf[k] # None /\ matchOf[l] # None
  <2>1. matchOf[k] # matchOf[l]
    BY <1>2 DEF OneClaimPerSettlement
  <2> QED
    BY <1>2, <2>1, BatchesApart DEF MatchedLegs
<1> QED
  BY <1>1, <1>2

LEMMA EngineKeeps == LoopInv /\ EngineStep => LoopInv'
<1> SUFFICES ASSUME LoopInv, EngineStep PROVE LoopInv'
  OBVIOUS
<1>1. /\ pass = "waiting" /\ [Next]_vars
      /\ UNCHANGED <<psp, pass, attempts, answered, said, considered, open, llmLegs,
                     taken, verdict>>
  BY DEF EngineStep, loopVars, callVars
<1>2. Inv' /\ KnownInv'
  BY <1>1, NextInv, KnownStep DEF LoopInv, Inv
<1>3. file' = file
  BY <1>1 DEF Next, Pass, NoteAmbiguity, Propose, Contest, Build, Classify, Visit,
              StartResolve, EndTier, Finish, Terminated, vars
<1>4. InputInv'
  BY <1>1, <1>3 DEF LoopInv, InputInv
<1>5. CallInv' /\ llmLegs = [l \in Lines |-> {}]
  BY <1>1 DEF LoopInv, CallInv, Untouched
<1>6. OpenInv'
  BY <1>1, <1>5 DEF LoopInv, OpenInv
<1>7. LegsClaimedOnce'
  <2>1. (OneClaimPerSettlement /\ llmLegs = [l \in Lines |-> {}])'
    BY <1>1, <1>2, <1>5 DEF Inv
  <2>2. (\A k, l \in Lines : k # l => MatchedLegs(k) \intersect MatchedLegs(l) = {})'
    BY <2>1, EngineLegsApart, PTL
  <2> QED
    BY <1>1, <2>2 DEF LegsClaimedOnce
<1>8. AcceptedIsDefensible'
  BY <1>1, <1>5 DEF AcceptedIsDefensible
<1> QED
  BY <1>2, <1>4, <1>5, <1>6, <1>7, <1>8 DEF LoopInv

LEMMA ResidueKeeps == LoopInv /\ (SkipPass \/ StartPass) => LoopInv'
<1> SUFFICES ASSUME LoopInv, SkipPass \/ StartPass PROVE LoopInv'
  OBVIOUS
<1>1. /\ pass = "waiting" /\ phase = "done" /\ Residue
      /\ UNCHANGED <<vars, psp, answered, considered, llmLegs, verdict>>
      /\ taken' = UNION {MatchedLegs(l) : l \in Lines}
      /\ pass' \in {"merged", "asking"}
  BY DEF SkipPass, StartPass, Residue
<1>2. Inv' /\ KnownInv' /\ InputInv'
  <2>1. [Next]_vars
    BY <1>1
  <2> QED
    BY <1>1, <2>1, NextInv, KnownStep DEF LoopInv, Inv, InputInv, vars
<1>3. Untouched /\ said = "no analyst"
  BY <1>1 DEF LoopInv, CallInv
<1>4. CallInv'
  BY <1>1, <1>3 DEF SkipPass, StartPass, CallInv, Untouched
<1>5. OpenInv'
  <2>1. PICK u \in SUBSET Anonymous :
          open' = {l \in Lines : reason[l] # None}
                  \union (Txns \ Kept(psp)) \union Unsettled \union u
    BY <1>1 DEF Residue
  <2>2. Unsettled \subseteq Txns /\ u \subseteq Txns
    BY DEF Unsettled, Anonymous, Kept
  <2>3. open' \intersect Lines = {l \in Lines : reason[l] # None}
    BY <2>1, <2>2, LoopAssumption
  <2>4. open' \subseteq Subjects
    BY <2>1, <2>2 DEF Subjects
  <2> QED
    BY <1>1, <1>3, <2>3, <2>4 DEF LoopInv, OpenInv, Untouched, vars
<1>6. LegsClaimedOnce'
  BY <1>1 DEF LoopInv, LegsClaimedOnce, MatchedLegs, vars
<1>7. AcceptedIsDefensible'
  BY <1>1, <1>3 DEF AcceptedIsDefensible, Untouched
<1> QED
  BY <1>2, <1>4, <1>5, <1>6, <1>7 DEF LoopInv

\* A step that leaves matches, exceptions and claims alone.
LEMMA Untouching ==
    ASSUME LoopInv, UNCHANGED <<vars, psp, open, llmLegs, taken>>,
           pass # "waiting"
    PROVE  /\ Inv' /\ InputInv' /\ KnownInv' /\ OpenInv'
           /\ LegsClaimedOnce' /\ AcceptedIsDefensible'
<1>1. Inv' /\ KnownInv' /\ InputInv'
  BY NextInv, KnownStep DEF LoopInv, Inv, InputInv, vars
<1>2. OpenInv'
  BY DEF LoopInv, OpenInv, vars
<1>3. LegsClaimedOnce'
  BY DEF LoopInv, LegsClaimedOnce, MatchedLegs, vars
<1>4. AcceptedIsDefensible'
  BY DEF LoopInv, AcceptedIsDefensible, vars
<1> QED
  BY <1>1, <1>2, <1>3, <1>4

LEMMA AcceptKeeps ==
    ASSUME LoopInv, NEW h \in Hypotheses, Accept(h)
    PROVE  LoopInv'
<1>0. /\ pass = "verifying"
      /\ h.line \in Lines /\ h.line \in open /\ h.subject = h.line
      /\ matchOf[h.line] = None /\ reason[h.line] # None /\ llmLegs[h.line] = {}
      /\ h.legs # {} /\ h.legs \subseteq Txns
      /\ h.legs \intersect taken = {}
      /\ llmLegs' = [llmLegs EXCEPT ![h.line] = h.legs]
      /\ taken' = taken \union h.legs
      /\ open' = open \ {h.line}
      /\ UNCHANGED <<vars, psp, pass, answered, said, verdict>>
  BY Passed
<1>1. Inv' /\ KnownInv' /\ InputInv'
  BY <1>0, NextInv, KnownStep DEF LoopInv, Inv, InputInv, vars
<1>2. CallInv'
  BY <1>0 DEF LoopInv, CallInv
<1>3. llmLegs \in [Lines -> SUBSET Txns]
  BY DEF LoopInv, OpenInv
<1>4. \A l \in Lines : llmLegs'[l] = IF l = h.line THEN h.legs ELSE llmLegs[l]
  BY <1>0, <1>3
<1>5. OpenInv'
  <2>1. /\ open' \subseteq Subjects
        /\ llmLegs' \in [Lines -> SUBSET Txns]
        /\ \A l \in Lines : llmLegs'[l] # {} => matchOf'[l] = None
    BY <1>0, <1>3, <1>4 DEF LoopInv, OpenInv, vars
  <2>2. open' \intersect Lines = {l \in Lines : reason'[l] # None /\ llmLegs'[l] = {}}
    BY <1>0, <1>4 DEF LoopInv, OpenInv, vars
  <2> QED
    BY <1>0, <2>1, <2>2 DEF LoopInv, OpenInv, vars
<1>6. \A l \in Lines : MatchedLegs(l)' = IF l = h.line THEN h.legs ELSE MatchedLegs(l)
  BY <1>0, <1>4 DEF MatchedLegs, vars
<1>7. LegsClaimedOnce'
  <2>1. taken = UNION {MatchedLegs(l) : l \in Lines} /\ MatchedLegs(h.line) = {}
    BY <1>0 DEF LoopInv, LegsClaimedOnce, MatchedLegs
  <2>2. \A l \in Lines : MatchedLegs(l) \subseteq taken
    BY <2>1
  <2>3. \A k, l \in Lines : k # l => MatchedLegs(k)' \intersect MatchedLegs(l)' = {}
    BY <1>0, <1>6, <2>2 DEF LoopInv, LegsClaimedOnce
  <2>4. taken' = UNION {MatchedLegs(l)' : l \in Lines}
    BY <1>0, <1>6, <2>1
  <2> QED
    BY <2>3, <2>4 DEF LegsClaimedOnce
<1>8. AcceptedIsDefensible'
  <2>1. /\ \E s \in Settlements : h.legs = {t \in Txns : psp.settlement[t] = s}
        /\ file.credit[h.line] # None /\ file.credit[h.line] > 0
        /\ Abs(R!Reconstruct(psp, h.legs) - file.credit[h.line]) <= 100
    BY Passed DEF Existence, Coherence, AllLegs, R!LegsAmong, Arithmetic, Closes,
                  TOLERANCE_PAISE
  <2>2. psp \in R!Report
    BY CasesAssumption DEF LoopInv, InputInv
  <2>3. \A t \in h.legs : psp.settledAt[t] \in Int
                          /\ psp.settledAt[t] <= file.txnDate[h.line]
    BY <1>0, <2>2, Passed DEF Causality, R!Report
  <2> QED
    BY <1>0, <1>4, <2>1, <2>3 DEF LoopInv, AcceptedIsDefensible, vars
<1> QED
  BY <1>1, <1>2, <1>5, <1>7, <1>8 DEF LoopInv

LEMMA LoopNextInv == LoopInv /\ [LoopNext]_allVars => LoopInv'
<1> SUFFICES ASSUME LoopInv, [LoopNext]_allVars PROVE LoopInv'
  OBVIOUS
<1>1. CASE EngineStep
  BY <1>1, EngineKeeps
<1>2. CASE SkipPass \/ StartPass
  BY <1>2, ResidueKeeps
<1>3. CASE Retry \/ Answer \/ Fail
  <2>1. pass = "asking" /\ UNCHANGED <<vars, psp, considered, open, llmLegs, taken, verdict>>
    BY <1>3 DEF Retry, Answer, Fail, Call
  <2>2. Untouched /\ said = "no analyst"
    BY <2>1 DEF LoopInv, CallInv
  <2>3. ASSUME Retry \/ Fail PROVE CallInv'
    <3>0. answered' = answered
      BY <2>3 DEF Retry, Fail
    <3>1. Untouched'
      BY <2>1, <2>2, <3>0 DEF Untouched
    <3>2. \/ pass' = "asking" /\ said' = "no analyst"
          \/ pass' = "merged" /\ said' = "analyst failed"
      BY <2>1, <2>2, <2>3 DEF Retry, Fail
    <3> QED
      BY <3>1, <3>2 DEF CallInv
  <2>4. ASSUME Answer PROVE CallInv'
    <3>1. pass' = "verifying" /\ answered'
      BY <2>4 DEF Answer
    <3> QED
      BY <3>1 DEF CallInv
  <2>5. CallInv'
    BY <1>3, <2>3, <2>4
  <2> QED
    BY <2>1, <2>5, Untouching DEF LoopInv
<1>4. ASSUME NEW h \in Hypotheses, Accept(h) PROVE LoopInv'
  BY <1>4, AcceptKeeps
<1>5. ASSUME NEW h \in Hypotheses, Reject(h) PROVE LoopInv'
  <2>1. /\ pass = "verifying"
        /\ UNCHANGED <<vars, psp, pass, answered, said, open, llmLegs, taken>>
    BY <1>5 DEF Reject, Consider, callVars
  <2>2. CallInv'
    BY <2>1 DEF LoopInv, CallInv
  <2> QED
    BY <2>1, <2>2, Untouching DEF LoopInv
<1>6. CASE Merge
  <2>1. /\ pass = "verifying" /\ pass' = "merged" /\ said' = "analyst ran"
        /\ UNCHANGED <<vars, psp, answered, considered, open, llmLegs, taken, verdict>>
    BY <1>6 DEF Merge
  <2>2. CallInv'
    BY <2>1 DEF LoopInv, CallInv
  <2> QED
    BY <2>1, <2>2, Untouching DEF LoopInv
<1>7. CASE Merged \/ UNCHANGED allVars
  <2>1. UNCHANGED <<vars, loopVars>>
    BY <1>7 DEF Merged, allVars
  <2>2. Inv' /\ KnownInv' /\ InputInv'
    BY <2>1, NextInv, KnownStep DEF LoopInv, Inv, InputInv, vars, loopVars
  <2>3. CallInv'
    BY <2>1 DEF LoopInv, CallInv, Untouched, loopVars, callVars
  <2>4. OpenInv' /\ LegsClaimedOnce' /\ AcceptedIsDefensible'
    BY <2>1 DEF LoopInv, OpenInv, LegsClaimedOnce, MatchedLegs, AcceptedIsDefensible,
                vars, loopVars
  <2> QED
    BY <2>2, <2>3, <2>4 DEF LoopInv
<1> QED
  BY <1>1, <1>2, <1>3, <1>4, <1>5, <1>6, <1>7 DEF LoopNext

\* What the accept loop and the matcher below it always satisfy.
THEOREM LoopInvariance == LoopSpec => []LoopInv
<1> QED
  BY LoopInitInv, LoopNextInv, PTL DEF LoopSpec

\* No row is a leg of two matches, and the claims a check reads are current.
THEOREM ClaimedOnce == LoopSpec => []LegsClaimedOnce
<1>1. LoopInv => LegsClaimedOnce
  BY DEF LoopInv
<1> QED
  BY <1>1, LoopInvariance, PTL

\* Whatever the analyst answers, what it closes is one whole settlement of the
\* report, due by the day and within a rupee of the credit.
THEOREM Defensible == LoopSpec => []AcceptedIsDefensible
<1>1. LoopInv => AcceptedIsDefensible
  BY DEF LoopInv
<1> QED
  BY <1>1, LoopInvariance, PTL

\* A failed call leaves the engine's result and no trace of an analyst.
THEOREM RanAnswered == LoopSpec => []RanMeansAnswered
<1>1. LoopInv => RanMeansAnswered
  <2> SUFFICES ASSUME LoopInv, pass = "merged" PROVE RanMeansAnswered
    BY DEF RanMeansAnswered
  <2>1. open \subseteq Subjects /\ Cardinality({}) = 0
    BY FS_EmptySet DEF LoopInv, OpenInv
  <2>2. CASE said # "analyst ran"
    <3>1. Untouched
      BY <2>2 DEF LoopInv, CallInv
    <3>2. {l \in Lines : llmLegs[l] # {}} = {}
      BY <3>1 DEF Untouched
    <3>3. ~ \E x \in open : verdict[x] # None
      BY <2>1, <3>1 DEF Untouched
    <3>4. ~(considered > Cardinality({l \in Lines : llmLegs[l] # {}}))
      BY <2>1, <3>1, <3>2 DEF Untouched
    <3>5. AnalystState = "no-evidence"
      BY <3>1, <3>2, <3>3, <3>4 DEF AnalystState, Untouched
    <3>6. ~(considered > 0)
      BY <3>1 DEF Untouched
    <3> QED
      BY <2>2, <3>5, <3>6 DEF RanMeansAnswered
  <2>3. CASE said = "analyst ran"
    <3>1. answered \/ open = {}
      BY <2>3 DEF LoopInv, CallInv
    <3>2. ASSUME considered > 0 PROVE AnalystState \in {"accepted", "all-rejected"}
      <4>1. CASE {l \in Lines : llmLegs[l] # {}} # {}
        BY <4>1 DEF AnalystState
      <4>2. CASE {l \in Lines : llmLegs[l] # {}} = {}
        <5>1. considered > Cardinality({l \in Lines : llmLegs[l] # {}})
          BY <2>1, <3>2, <4>2
        <5> QED
          BY <4>2, <5>1 DEF AnalystState
      <4> QED
        BY <4>1, <4>2
    <3> QED
      BY <2>3, <3>1, <3>2 DEF RanMeansAnswered
  <2> QED
    BY <2>2, <2>3
<1> QED
  BY <1>1, LoopInvariance, PTL

----------------------------------------------------------------------------
\* A line is closed only when nothing else was free to close it.

\* A set with at most one element has one at most.
LEMMA OneElement ==
    ASSUME NEW S, IsFiniteSet(S), Cardinality(S) <= 1, NEW a \in S, NEW b \in S
    PROVE  a = b
<1> SUFFICES ASSUME a # b PROVE FALSE
  OBVIOUS
<1>1. IsFiniteSet({a}) /\ Cardinality({a}) = 1
  BY FS_Singleton
<1>2. Cardinality({a} \union {b}) = 2
  <2>1. b \notin {a}
    OBVIOUS
  <2>2. Cardinality({a} \union {b}) = Cardinality({a}) + 1
    BY <1>1, <2>1, FS_AddElement
  <2> QED
    BY <1>1, <2>2
<1>3. Cardinality({a} \union {b}) <= Cardinality(S)
  BY FS_Subset, {a} \union {b} \subseteq S
<1>4. Cardinality(S) \in Nat
  BY FS_CardinalityType
<1> QED
  BY <1>2, <1>3, <1>4

LEMMA UniqueStep == LoopInv /\ [LoopNext]_allVars =>
    \A l \in Lines : llmLegs'[l] # llmLegs[l] =>
      \A s \in Settlements :
        LET legs == {t \in Txns : psp.settlement[t] = s}
        IN  (/\ legs # {}
             /\ legs \intersect taken = {}
             /\ Abs(R!Reconstruct(psp, legs) - file.credit[l]) <= 100)
            => legs = llmLegs'[l]
<1> SUFFICES ASSUME LoopInv, [LoopNext]_allVars,
                    NEW l \in Lines, llmLegs'[l] # llmLegs[l],
                    NEW s \in Settlements,
                    AllLegs(s) # {}, AllLegs(s) \intersect taken = {},
                    Closes(AllLegs(s), l)
             PROVE  AllLegs(s) = llmLegs'[l]
  BY DEF AllLegs, R!LegsAmong, Closes, TOLERANCE_PAISE
<1>1. PICK h \in Hypotheses : Accept(h)
  <2>1. llmLegs' # llmLegs
    OBVIOUS
  <2> QED
    BY <2>1 DEF LoopNext, EngineStep, SkipPass, StartPass, Residue, Retry, Answer, Fail, Call,
                Reject, Merge, Merged, allVars, loopVars
<1>2. /\ llmLegs' = [llmLegs EXCEPT ![h.line] = h.legs] /\ h.line \in Lines
      /\ h.legs # {} /\ h.legs \intersect taken = {}
      /\ Arithmetic(h) /\ Coherence(h) /\ Uniqueness(h)
  BY <1>1, Passed
<1>3. l = h.line /\ llmLegs'[l] = h.legs
  BY <1>2 DEF LoopInv, OpenInv
<1>4. PICK u \in Settlements : h.legs = AllLegs(u)
  BY <1>2 DEF Coherence
<1>5. u \in Closers(h) /\ s \in Closers(h)
  BY <1>2, <1>3, <1>4 DEF Closers, Arithmetic
<1>6. IsFiniteSet(Closers(h))
  BY LoopAssumption, FS_Subset DEF Closers
<1>7. u = s
  BY <1>2, <1>5, <1>6, OneElement DEF Uniqueness
<1> QED
  BY <1>3, <1>4, <1>7

\* The analyst's half closes a line only with the one settlement of the report
\* that was free to close it, at any date.
THEOREM AcceptedUnique == LoopSpec => AcceptedWasUnique
<1> QED
  BY LoopInvariance, UniqueStep, PTL DEF LoopSpec, AcceptedWasUnique

----------------------------------------------------------------------------
\* Both halves implement the ledger.

LEMMA LoopInitRefines == LoopInit => Whole!Init
<1> SUFFICES ASSUME LoopInit PROVE Whole!Init
  OBVIOUS
<1>1. Closed = [l \in Lines |-> None]
  BY DEF LoopInit, Start, Closed
<1>2. Reported = {}
  BY DEF LoopInit, Start, Reported
<1> QED
  BY <1>1, <1>2 DEF Whole!Init

\* While the tiers run the ledger is theirs.
LEMMA EngineRefines == LoopInv /\ EngineStep => [Whole!Next]_(Whole!vars)
<1> SUFFICES ASSUME LoopInv, EngineStep PROVE Whole!Next \/ UNCHANGED Whole!vars
  OBVIOUS
<1>1. /\ pass = "waiting" /\ pass' = "waiting"
      /\ llmLegs = [l \in Lines |-> {}] /\ llmLegs' = llmLegs
      /\ [Next]_vars
  BY DEF EngineStep, loopVars, LoopInv, CallInv, Untouched
<1>2. TypeOK /\ TypeOK'
  BY <1>1, NextTypeOK DEF LoopInv, Inv
<1>3. Closed = matchOf /\ Closed' = matchOf'
  BY <1>1, <1>2 DEF Closed, TypeOK
<1>4. /\ Reported = {l \in Lines : reason[l] # None}
      /\ Reported' = {l \in Lines : reason'[l] # None}
  BY <1>1 DEF Reported
<1>5. [L!Next]_(L!vars)
  BY <1>1, StepRefines DEF LoopInv
<1>6. CASE UNCHANGED L!vars
  BY <1>3, <1>4, <1>6 DEF L!vars, Whole!vars
<1>7. ASSUME NEW l \in Lines, L!Report(l) PROVE Whole!Next
  BY <1>3, <1>4, <1>7 DEF L!Report, Whole!Report, Whole!Next
<1>8. ASSUME NEW l \in Lines, NEW s \in Settlements, L!Close(l, s) PROVE Whole!Next
  BY <1>3, <1>4, <1>8 DEF L!Close, L!Taken, Whole!Close, Whole!Taken, Whole!Next
<1>9. ASSUME NEW l \in Lines, NEW s \in Settlements, L!Resolve(l, s) PROVE Whole!Next
  BY <1>3, <1>4, <1>9 DEF L!Resolve, L!Taken, Whole!Resolve, Whole!Taken, Whole!Next
<1> QED
  BY <1>5, <1>6, <1>7, <1>8, <1>9 DEF L!Next

\* An accepted proposal is a reported line closed by a settlement nobody took.
LEMMA AcceptRefines ==
    ASSUME LoopInv, NEW h \in Hypotheses, Accept(h)
    PROVE  Whole!Next
<1>1. /\ pass = "verifying" /\ pass' = pass
      /\ h.line \in Lines /\ h.line \in open
      /\ matchOf[h.line] = None /\ llmLegs[h.line] = {}
      /\ h.legs # {} /\ h.legs \intersect taken = {}
      /\ llmLegs' = [llmLegs EXCEPT ![h.line] = h.legs]
      /\ open' = open \ {h.line}
      /\ matchOf' = matchOf /\ psp' = psp
      /\ Coherence(h)
  BY Passed DEF vars
<1>2. llmLegs \in [Lines -> SUBSET Txns]
  BY DEF LoopInv, OpenInv
<1>3. PICK s \in Settlements : h.legs = AllLegs(s)
  BY <1>1 DEF Coherence
<1>4. ASSUME NEW legs, NEW u \in Settlements, legs # {}, legs = AllLegs(u)
      PROVE  SettlementOf(legs) = u
  BY <1>4 DEF SettlementOf, AllLegs, R!LegsAmong
<1>5. \A l \in Lines : MatchedLegs(l) \subseteq taken
  BY <1>1 DEF LoopInv, LegsClaimedOnce
<1>6. ASSUME NEW k \in Lines, Closed[k] = s PROVE FALSE
  <2>1. CASE llmLegs[k] = {}
    <3>1. matchOf[k] = s /\ s # None
      BY <1>6, <2>1, FilesAssumption DEF Closed
    <3>2. s \in file.known /\ MatchedLegs(k) = Batch(psp, s)
      BY <3>1 DEF LoopInv, KnownInv, MatchedLegs
    <3>3. Batch(psp, s) # {}
      BY <3>2 DEF LoopInv, InputInv, FileOf
    <3> QED
      BY <1>1, <1>3, <1>5, <3>2, <3>3, BatchAmongAll
  <2>2. CASE llmLegs[k] # {}
    <3>1. PICK u \in Settlements : llmLegs[k] = AllLegs(u)
      BY <2>2 DEF LoopInv, AcceptedIsDefensible, AllLegs, R!LegsAmong
    <3>2. u = s
      BY <1>4, <1>6, <2>2, <3>1 DEF Closed
    <3>3. MatchedLegs(k) = llmLegs[k]
      BY <2>2 DEF LoopInv, OpenInv, MatchedLegs
    <3> QED
      BY <1>1, <1>3, <1>5, <2>2, <3>1, <3>2, <3>3
  <2> QED
    BY <2>1, <2>2
<1>7. s \notin Whole!Taken
  BY <1>6 DEF Whole!Taken
<1>8. Closed' = [Closed EXCEPT ![h.line] = s]
  <2>1. (CHOOSE u \in Settlements : \E t \in h.legs : psp'.settlement[t] = u) = s
    BY <1>1, <1>3, <1>4 DEF SettlementOf
  <2>2. \A l \in Lines : llmLegs'[l] = IF l = h.line THEN h.legs ELSE llmLegs[l]
    BY <1>1, <1>2
  <2>3. Closed'[h.line] = s
    BY <1>1, <2>1, <2>2 DEF Closed, SettlementOf
  <2>4. ASSUME NEW l \in Lines, l # h.line PROVE Closed'[l] = Closed[l]
    <3>1. llmLegs'[l] = llmLegs[l]
      BY <2>2, <2>4
    <3>2. CASE llmLegs[l] = {}
      BY <1>1, <3>1, <3>2 DEF Closed
    <3>3. CASE llmLegs[l] # {}
      <4>1. PICK u \in Settlements : llmLegs[l] = AllLegs(u)
        BY <3>3 DEF LoopInv, AcceptedIsDefensible, AllLegs, R!LegsAmong
      <4>2. SettlementOf(llmLegs[l]) = u
        BY <1>4, <3>3, <4>1
      <4>3. (CHOOSE v \in Settlements : \E t \in llmLegs'[l] : psp'.settlement[t] = v) = u
        BY <1>1, <3>1, <4>2 DEF SettlementOf
      <4> QED
        BY <3>1, <3>3, <4>2, <4>3 DEF Closed, SettlementOf
    <3> QED
      BY <3>2, <3>3
  <2> QED
    BY <2>3, <2>4 DEF Closed
<1>9. /\ Closed[h.line] = None
      /\ h.line \in Reported
      /\ Reported' = Reported \ {h.line}
  BY <1>1 DEF Closed, Reported
<1>10. Whole!Resolve(h.line, s)
  BY <1>7, <1>8, <1>9 DEF Whole!Resolve
<1> QED
  BY <1>1, <1>10 DEF Whole!Next

LEMMA LoopStepRefines ==
    LoopInv /\ LoopInv' /\ [LoopNext]_allVars => [Whole!Next]_(Whole!vars)
<1> SUFFICES ASSUME LoopInv, LoopInv', [LoopNext]_allVars
             PROVE  Whole!Next \/ UNCHANGED Whole!vars
  OBVIOUS
<1>1. CASE EngineStep
  BY <1>1, EngineRefines
<1>2. ASSUME NEW h \in Hypotheses, Accept(h) PROVE Whole!Next
  BY <1>2, AcceptRefines
<1>3. ASSUME UNCHANGED <<matchOf, reason, psp, llmLegs>>,
             \/ UNCHANGED <<pass, open>>
             \/ pass # "waiting" /\ pass' # "waiting" /\ open' = open
             \/ SkipPass \/ StartPass
      PROVE  UNCHANGED Whole!vars
  <2>1. Closed' = Closed
    BY <1>3 DEF Closed, SettlementOf
  <2>2. Reported' = Reported
    <3>1. CASE SkipPass \/ StartPass
      <4>1. /\ pass = "waiting" /\ pass' # "waiting"
            /\ llmLegs' = [l \in Lines |-> {}]
        BY <1>3, <3>1 DEF SkipPass, StartPass, Residue, LoopInv, CallInv, Untouched
      <4>2. open' \intersect Lines = {l \in Lines : reason'[l] # None}
        BY <4>1 DEF LoopInv, OpenInv
      <4> QED
        BY <1>3, <4>1, <4>2 DEF Reported
    <3>2. CASE ~(SkipPass \/ StartPass)
      BY <1>3, <3>2 DEF Reported
    <3> QED
      BY <3>1, <3>2
  <2> QED
    BY <2>1, <2>2 DEF Whole!vars
<1>4. CASE SkipPass \/ StartPass
  BY <1>3, <1>4 DEF SkipPass, StartPass, Residue, vars
<1>5. CASE Retry \/ Answer \/ Fail \/ Merge
  BY <1>3, <1>5 DEF Retry, Answer, Fail, Merge, Call, vars
<1>6. ASSUME NEW h \in Hypotheses, Reject(h) PROVE UNCHANGED Whole!vars
  BY <1>3, <1>6 DEF Reject, Consider, vars
<1>7. CASE Merged \/ UNCHANGED allVars
  BY <1>3, <1>7 DEF Merged, allVars, loopVars, vars
<1> QED
  BY <1>1, <1>2, <1>4, <1>5, <1>6, <1>7 DEF LoopNext

\* Matcher and accept loop together are a run of the ledger, whatever the
\* analyst answers.
THEOREM LoopRefinement == LoopSpec => LoopImplementsLedger
<1>1. LoopInit => Whole!Init
  BY LoopInitRefines
<1> QED
  BY <1>1, LoopInvariance, LoopStepRefines, PTL
  DEF LoopSpec, LoopImplementsLedger, Whole!Spec

----------------------------------------------------------------------------
\* What is reported of a result.

\* A line has one match.
OneEach(matches) == \A m, n \in matches : m.line = n.line => m = n

\* What every result is, and what the answers to it are.
LEMMA Reporting ==
    ASSUME LoopInv, pass = "merged"
    PROVE  /\ IsFiniteSet(Lines) /\ IsFiniteSet(Txns)
           /\ IsFiniteSet(Result.matches) /\ OneEach(Result.matches)
           /\ LinesOf(Result.matches) \subseteq Lines
           /\ \A m \in Result.matches : m.legs \in SUBSET Txns /\ m.tax = Tax(m.legs)
           /\ \A truth \in Answers :
                /\ truth.linked \subseteq Lines /\ IsFiniteSet(truth.traps)
                /\ truth.legs \in [Lines -> SUBSET Txns]
                /\ \A l \in truth.linked : file.credit[l] # None
<1>1. PICK c \in Cases : psp = c.psp
  BY DEF LoopInv, InputInv
<1>2. \A truth \in Answers :
        /\ truth.linked \subseteq Lines /\ IsFiniteSet(truth.traps)
        /\ truth.legs \in [Lines -> SUBSET Txns]
        /\ \A l \in truth.linked : file.credit[l] # None
  BY <1>1, GradesAssumption DEF Answers
<1> DEFINE closed == {k \in Lines : Closed[k] # None}
           F == [k \in closed |-> Match(k)]
<1>3. Result.matches = {Match(l) : l \in closed} /\ Result.matches = {F[k] : k \in closed}
  BY DEF Result
<1>4. IsFiniteSet(Lines) /\ IsFiniteSet(Txns)
  BY GradesAssumption
<1>5. IsFiniteSet(Result.matches)
  <2>1. IsFiniteSet(closed)
    BY <1>4, FS_Subset, closed \in SUBSET Lines
  <2> HIDE DEF closed, F
  <2> QED
    BY <1>3, <2>1, ImageFinite
<1>6. \A k \in closed : Match(k).line = k
  BY DEF Match
<1>7. OneEach(Result.matches) /\ LinesOf(Result.matches) \subseteq Lines
  BY <1>3, <1>6 DEF OneEach, LinesOf
<1>8. \A l \in Lines : MatchedLegs(l) \subseteq Txns
  BY BatchAmongAll DEF MatchedLegs, LoopInv, OpenInv
<1>9. \A m \in Result.matches : m.legs \in SUBSET Txns /\ m.tax = Tax(m.legs)
  BY <1>3, <1>8 DEF Match
<1> QED
  BY <1>2, <1>4, <1>5, <1>7, <1>9

----------------------------------------------------------------------------
\* Rates.

LEMMA RateIsFraction ==
    ASSUME NEW d \in Nat, NEW n \in 0..d, NEW e \in 0..1
    PROVE  Rate(n, d, e).d \in Nat /\ Rate(n, d, e).d > 0 /\ Rate(n, d, e).n \in 0..Rate(n, d, e).d
  BY DEF Rate, Amount

LEMMA Scaled ==
    ASSUME NEW a \in Nat, NEW b \in Nat, a <= b, NEW d \in Nat
    PROVE  a * d <= b * d
<1>1. PICK k \in Nat : b = a + k
  BY b - a \in Nat
<1>2. (a + k) * d = a * d + k * d
  BY SMT
<1>3. k * d \in Nat /\ a * d \in Nat
  BY SMT
<1> QED
  BY <1>1, <1>2, <1>3

LEMMA RateGrows ==
    ASSUME NEW d \in Nat, NEW n \in 0..d, NEW m \in 0..d, n <= m, NEW e \in 0..1
    PROVE  AtMost(Rate(n, d, e), Rate(m, d, e))
<1>1. CASE d = 0
  BY <1>1 DEF AtMost, Rate, Amount
<1>2. CASE d # 0
  BY <1>2, Scaled DEF AtMost, Rate, Amount
<1> QED
  BY <1>1, <1>2

LEMMA RatesAdd ==
    ASSUME NEW d \in Nat, NEW n \in 0..d, NEW m \in 0..d, NEW k \in 0..d, k <= n + m
    PROVE  /\ AtMost(Rate(k, d, 0), Plus(Rate(n, d, 0), Rate(m, d, 0)))
           /\ n + m <= d => AtMost(Plus(Rate(n, d, 0), Rate(m, d, 0)), Amount(1))
<1>1. CASE d = 0
  BY <1>1 DEF AtMost, Rate, Amount, Plus
<1>2. CASE d # 0
  <2>1. k * d <= (n + m) * d
    BY Scaled, n + m \in Nat, k \in Nat
  <2>2. k * (d * d) <= (n * d + m * d) * d
    <3>1. k * (d * d) = (k * d) * d /\ (n + m) * d = n * d + m * d
      BY SMT
    <3>2. k * d \in Nat /\ (n + m) * d \in Nat
      BY SMT
    <3>3. (k * d) * d <= ((n + m) * d) * d
      BY <2>1, <3>2, Scaled
    <3> QED
      BY <3>1, <3>3
  <2>3. n + m <= d => n * d + m * d <= d * d
    <3>1. n * d + m * d = (n + m) * d
      BY SMT
    <3> QED
      BY <3>1, Scaled, n + m \in Nat
  <2>4. n * d + m * d \in Nat /\ d * d \in Nat
    BY SMT
  <2> QED
    BY <1>2, <2>2, <2>3, <2>4 DEF AtMost, Rate, Amount, Plus
<1> QED
  BY <1>1, <1>2

----------------------------------------------------------------------------
\* The score.

\* How many of the answer's lines some of the matches resolve.
Count(truth, some) == Cardinality(Resolved(truth, some))
Size(truth) == Cardinality(Resolvable(truth))
Agreed(truth, matches) == {m \in matches : Agrees(m, truth)}
Excepted(truth, matches) == Cardinality(truth.linked \ LinesOf(matches))

LEMMA ScoreFields ==
    ASSUME NEW truth, NEW result, NEW M, result.matches = M
    PROVE  LET s == Score(truth, result)
               f == Rate(Cardinality(M \ Agreed(truth, M)), Cardinality(M), 0)
           IN  s = [auto |-> Rate(Count(truth, M \ Assisted(M)), Size(truth), 0),
                    assisted |-> Rate(Count(truth, Assisted(M)), Size(truth), 0),
                    exception |-> Rate(Excepted(truth, M), Cardinality(truth.linked), 0),
                    false |-> f, precision |-> [f EXCEPT !.n = f.d - f.n],
                    recall |-> Rate(Count(truth, Agreed(truth, M)), Size(truth), 0),
                    traps |-> Rate(Cardinality(truth.traps \ LinesOf(M)),
                                   Cardinality(truth.traps), 1)]
  BY Zenon DEF Score, SubjectsOf, Count, Size, Agreed, Excepted

LEMMA ScoreRates ==
    ASSUME NEW truth, NEW result
    PROVE  LET M == result.matches
               s == Score(truth, result)
           IN  /\ s.auto = Rate(Count(truth, M \ Assisted(M)), Size(truth), 0)
               /\ s.assisted = Rate(Count(truth, Assisted(M)), Size(truth), 0)
               /\ s.recall = Rate(Count(truth, Agreed(truth, M)), Size(truth), 0)
               /\ s.exception = Rate(Excepted(truth, M), Cardinality(truth.linked), 0)
<1> DEFINE M == result.matches
           s == Score(truth, result)
           f == Rate(Cardinality(M \ Agreed(truth, M)), Cardinality(M), 0)
<1>1. s = [auto |-> Rate(Count(truth, M \ Assisted(M)), Size(truth), 0),
           assisted |-> Rate(Count(truth, Assisted(M)), Size(truth), 0),
           exception |-> Rate(Excepted(truth, M), Cardinality(truth.linked), 0),
           false |-> f, precision |-> [f EXCEPT !.n = f.d - f.n],
           recall |-> Rate(Count(truth, Agreed(truth, M)), Size(truth), 0),
           traps |-> Rate(Cardinality(truth.traps \ LinesOf(M)), Cardinality(truth.traps), 1)]
  BY ScoreFields
<1> HIDE DEF s
<1>2. /\ s.auto = Rate(Count(truth, M \ Assisted(M)), Size(truth), 0)
      /\ s.assisted = Rate(Count(truth, Assisted(M)), Size(truth), 0)
      /\ s.recall = Rate(Count(truth, Agreed(truth, M)), Size(truth), 0)
      /\ s.exception = Rate(Excepted(truth, M), Cardinality(truth.linked), 0)
  BY <1>1
<1> QED
  BY <1>2 DEF s

\* Counts stay below the line, grow with the matches and add up.
LEMMA Counts ==
    ASSUME NEW truth, IsFiniteSet(Lines), truth.linked \subseteq Lines,
           NEW M, NEW A \in SUBSET M
    PROVE  /\ Size(truth) \in Nat
           /\ Count(truth, M) \in 0..Size(truth) /\ Count(truth, A) \in 0..Size(truth)
           /\ Count(truth, A) <= Count(truth, M)
           /\ Count(truth, M) <= Count(truth, M \ A) + Count(truth, A)
           /\ OneEach(M) => Count(truth, M \ A) + Count(truth, A) <= Size(truth)
<1>1. IsFiniteSet(Resolvable(truth))
  BY FS_Subset, Resolvable(truth) \in SUBSET Lines DEF Resolvable
<1>2. /\ Resolved(truth, A) \in SUBSET Resolved(truth, M)
      /\ Resolved(truth, M \ A) \in SUBSET Resolved(truth, M)
      /\ Resolved(truth, M) \in SUBSET Resolvable(truth)
      /\ Resolved(truth, M) = Resolved(truth, M \ A) \union Resolved(truth, A)
      /\ OneEach(M) => Resolved(truth, M \ A) \intersect Resolved(truth, A) = {}
  BY DEF Resolved, LinesOf, OneEach
<1>3. /\ IsFiniteSet(Resolved(truth, M)) /\ IsFiniteSet(Resolved(truth, A))
      /\ IsFiniteSet(Resolved(truth, M \ A))
  BY <1>1, <1>2, FS_Subset
<1>4. /\ Size(truth) \in Nat /\ Count(truth, M) \in Nat /\ Count(truth, A) \in Nat
      /\ Count(truth, M \ A) \in Nat
  BY <1>1, <1>3, FS_CardinalityType DEF Size, Count
<1>5. Count(truth, A) <= Count(truth, M) /\ Count(truth, M) <= Size(truth)
  BY <1>1, <1>2, <1>3, FS_Subset DEF Size, Count
<1> DEFINE both == Resolved(truth, M \ A) \intersect Resolved(truth, A)
<1>6. Count(truth, M) = Count(truth, M \ A) + Count(truth, A) - Cardinality(both)
  BY <1>2, <1>3, FS_Union DEF Count
<1>7. Cardinality(both) \in Nat
  BY <1>3, FS_Intersection, FS_CardinalityType
<1>8. OneEach(M) => Cardinality(both) = 0
  BY <1>2, FS_EmptySet, Zenon
<1> HIDE DEF both
<1> QED
  BY <1>4, <1>5, <1>6, <1>7, <1>8

\* The answer's lines without a match are fewer with more of them.
LEMMA ExceptedShrinks ==
    ASSUME NEW truth, IsFiniteSet(Lines), truth.linked \subseteq Lines,
           NEW M, NEW A \in SUBSET M
    PROVE  /\ Cardinality(truth.linked) \in Nat
           /\ Excepted(truth, M) \in 0..Cardinality(truth.linked)
           /\ Excepted(truth, A) \in 0..Cardinality(truth.linked)
           /\ Excepted(truth, M) <= Excepted(truth, A)
<1>1. IsFiniteSet(truth.linked)
  BY FS_Subset
<1>2. /\ truth.linked \ LinesOf(M) \in SUBSET (truth.linked \ LinesOf(A))
      /\ truth.linked \ LinesOf(A) \in SUBSET truth.linked
  BY DEF LinesOf
<1>3. /\ IsFiniteSet(truth.linked \ LinesOf(A)) /\ IsFiniteSet(truth.linked \ LinesOf(M))
  BY <1>1, <1>2, FS_Subset
<1>4. /\ Excepted(truth, M) <= Excepted(truth, A)
      /\ Excepted(truth, A) <= Cardinality(truth.linked)
  BY <1>1, <1>2, <1>3, FS_Subset DEF Excepted
<1>5. /\ Excepted(truth, M) \in Nat /\ Excepted(truth, A) \in Nat
      /\ Cardinality(truth.linked) \in Nat
  BY <1>1, <1>3, FS_CardinalityType DEF Excepted
<1> QED
  BY <1>4, <1>5

\* Every metric is between nothing and one.
LEMMA ScoreIsFractions ==
    ASSUME NEW truth, IsFiniteSet(Lines), truth.linked \subseteq Lines, IsFiniteSet(truth.traps),
           NEW result, NEW M, result.matches = M, IsFiniteSet(M)
    PROVE  \A rate \in DOMAIN Score(truth, result) :
             LET s == Score(truth, result)
             IN  s[rate].d \in Nat /\ s[rate].d > 0 /\ s[rate].n \in 0..s[rate].d
<1> DEFINE f == Rate(Cardinality(M \ Agreed(truth, M)), Cardinality(M), 0)
           Fraction(r) == r.d \in Nat /\ r.d > 0 /\ r.n \in 0..r.d
           s == Score(truth, result)
<1>1. s = [auto |-> Rate(Count(truth, M \ Assisted(M)), Size(truth), 0),
           assisted |-> Rate(Count(truth, Assisted(M)), Size(truth), 0),
           exception |-> Rate(Excepted(truth, M), Cardinality(truth.linked), 0),
           false |-> f, precision |-> [f EXCEPT !.n = f.d - f.n],
           recall |-> Rate(Count(truth, Agreed(truth, M)), Size(truth), 0),
           traps |-> Rate(Cardinality(truth.traps \ LinesOf(M)), Cardinality(truth.traps), 1)]
  BY ScoreFields
<1>2. ASSUME NEW A \in SUBSET M PROVE Fraction(Rate(Count(truth, A), Size(truth), 0))
  <2>1. Size(truth) \in Nat /\ Count(truth, A) \in 0..Size(truth)
    BY Counts
  <2> QED
    BY <2>1, RateIsFraction
<1>3. Fraction(Rate(Excepted(truth, M), Cardinality(truth.linked), 0))
  BY ExceptedShrinks, RateIsFraction
<1>4. Fraction(f)
  <2>1. Cardinality(M) \in Nat /\ Cardinality(M \ Agreed(truth, M)) \in 0..Cardinality(M)
    BY FS_Subset, FS_CardinalityType, M \ Agreed(truth, M) \in SUBSET M
  <2> QED
    BY <2>1, RateIsFraction
<1>5. Fraction([f EXCEPT !.n = f.d - f.n])
  <2>1. f = [n |-> f.n, d |-> f.d]
    BY DEF Rate, Amount
  <2> HIDE DEF f
  <2> QED
    BY <1>4, <2>1
<1>6. Fraction(Rate(Cardinality(truth.traps \ LinesOf(M)), Cardinality(truth.traps), 1))
  <2>1. /\ Cardinality(truth.traps) \in Nat
        /\ Cardinality(truth.traps \ LinesOf(M)) \in 0..Cardinality(truth.traps)
    BY FS_Subset, FS_CardinalityType, truth.traps \ LinesOf(M) \in SUBSET truth.traps
  <2> QED
    BY <2>1, RateIsFraction
<1>7. M \ Assisted(M) \in SUBSET M /\ Assisted(M) \in SUBSET M /\ Agreed(truth, M) \in SUBSET M
  BY DEF Assisted, Agreed
<1>8. /\ Fraction(s.auto) /\ Fraction(s.assisted) /\ Fraction(s.recall) /\ Fraction(s.exception)
      /\ Fraction(s["false"]) /\ Fraction(s.precision) /\ Fraction(s.traps)
  <2> HIDE DEF f, s, Fraction
  <2> QED
    BY <1>1, <1>2, <1>3, <1>4, <1>5, <1>6, <1>7
<1>9. DOMAIN s = {"auto", "assisted", "exception", "false", "precision", "recall", "traps"}
  <2> HIDE DEF f, s
  <2> QED
    BY <1>1
<1> HIDE DEF s
<1> QED
  BY <1>8, <1>9 DEF s

\* scorer/metrics.py: losing a match never raises a rate or hides an exception,
\* whether the line is reported or forgotten, and no rate is above one.
THEOREM LostWorkNeverPays == LoopSpec => []LosingWorkNeverPays
<1>1. LoopInv => LosingWorkNeverPays
  <2> SUFFICES ASSUME LoopInv, Done PROVE LosingWorkNeverPays
    BY DEF LosingWorkNeverPays
  <2> DEFINE M == Result.matches
             Marks(truth) == Score(truth, Result)
             Rest(l) == Without(Result, l)
             Lost(truth, l) == Score(truth, [matches |-> Rest(l), excepted |-> Result.excepted \ {l}])
             Told(truth, l) ==
               Score(truth, [matches |-> Rest(l), excepted |-> Result.excepted \union {l}])
  <2>1. IsFiniteSet(Lines) /\ IsFiniteSet(M) /\ OneEach(M)
    BY Reporting DEF Done
  <2>2. ASSUME NEW truth \in Answers
        PROVE  /\ \A rate \in DOMAIN Marks(truth) :
                    Marks(truth)[rate].d > 0 /\ Marks(truth)[rate].n \in 0..Marks(truth)[rate].d
               /\ AtMost(Marks(truth).recall, Plus(Marks(truth).auto, Marks(truth).assisted))
               /\ AtMost(Plus(Marks(truth).auto, Marks(truth).assisted), Amount(1))
    <3>1. truth.linked \subseteq Lines /\ IsFiniteSet(truth.traps)
      BY <2>2, Reporting DEF Done
    <3>2. /\ Marks(truth).auto = Rate(Count(truth, M \ Assisted(M)), Size(truth), 0)
          /\ Marks(truth).assisted = Rate(Count(truth, Assisted(M)), Size(truth), 0)
          /\ Marks(truth).recall = Rate(Count(truth, Agreed(truth, M)), Size(truth), 0)
      BY ScoreRates
    <3>3. Assisted(M) \in SUBSET M /\ Agreed(truth, M) \in SUBSET M
      BY DEF Assisted, Agreed
    <3>4. \A rate \in DOMAIN Marks(truth) :
            Marks(truth)[rate].d > 0 /\ Marks(truth)[rate].n \in 0..Marks(truth)[rate].d
      BY <2>1, <3>1, ScoreIsFractions
    <3> HIDE DEF M, Marks
    <3>5. /\ Size(truth) \in Nat
          /\ Count(truth, Assisted(M)) \in 0..Size(truth)
          /\ Count(truth, M \ Assisted(M)) \in 0..Size(truth)
          /\ Count(truth, Agreed(truth, M)) \in 0..Size(truth)
      <4>1. M \ Assisted(M) \in SUBSET M
        OBVIOUS
      <4>2. \A A \in SUBSET M : Size(truth) \in Nat /\ Count(truth, A) \in 0..Size(truth)
        <5> TAKE A \in SUBSET M
        <5> QED
          BY <2>1, <3>1, Counts
      <4> HIDE DEF M
      <4> QED
        BY <3>3, <4>1, <4>2
    <3>6. Count(truth, Agreed(truth, M))
            <= Count(truth, M \ Assisted(M)) + Count(truth, Assisted(M))
      <4>1. /\ Count(truth, Agreed(truth, M)) <= Count(truth, M)
            /\ Count(truth, M) \in 0..Size(truth)
        BY <2>1, <3>1, <3>3, Counts
      <4>2. Count(truth, M) <= Count(truth, M \ Assisted(M)) + Count(truth, Assisted(M))
        BY <2>1, <3>1, <3>3, Counts
      <4> QED
        BY <3>5, <4>1, <4>2
    <3>7. Count(truth, M \ Assisted(M)) + Count(truth, Assisted(M)) <= Size(truth)
      BY <2>1, <3>1, <3>3, Counts
    <3> QED
      BY <3>2, <3>4, <3>5, <3>6, <3>7, RatesAdd
  <2>3. ASSUME NEW truth \in Answers, NEW l \in Lines
        PROVE  /\ AtMost(Lost(truth, l).auto, Marks(truth).auto)
               /\ AtMost(Lost(truth, l).assisted, Marks(truth).assisted)
               /\ AtMost(Lost(truth, l).recall, Marks(truth).recall)
               /\ AtMost(Marks(truth).exception, Lost(truth, l).exception)
               /\ Lost(truth, l) = Told(truth, l)
    <3> DEFINE N == Rest(l)
               lost == [matches |-> N, excepted |-> Result.excepted \ {l}]
               told == [matches |-> N, excepted |-> Result.excepted \union {l}]
    <3>1. truth.linked \subseteq Lines
      BY <2>3, Reporting DEF Done
    <3>2. lost.matches = N /\ told.matches = N
      OBVIOUS
    <3>3. /\ N \in SUBSET M /\ N \ Assisted(N) \in SUBSET (M \ Assisted(M))
          /\ Assisted(N) \in SUBSET Assisted(M) /\ Agreed(truth, N) \in SUBSET Agreed(truth, M)
      BY DEF Without, Assisted, Agreed
    <3>4. Lost(truth, l) = Score(truth, lost) /\ Told(truth, l) = Score(truth, told)
      OBVIOUS
    <3> HIDE DEF M, N, lost, told, Lost, Told
    <3>5. /\ Marks(truth).auto = Rate(Count(truth, M \ Assisted(M)), Size(truth), 0)
          /\ Marks(truth).assisted = Rate(Count(truth, Assisted(M)), Size(truth), 0)
          /\ Marks(truth).recall = Rate(Count(truth, Agreed(truth, M)), Size(truth), 0)
          /\ Marks(truth).exception = Rate(Excepted(truth, M), Cardinality(truth.linked), 0)
      BY ScoreRates DEF M
    <3>6. /\ Lost(truth, l).auto = Rate(Count(truth, N \ Assisted(N)), Size(truth), 0)
          /\ Lost(truth, l).assisted = Rate(Count(truth, Assisted(N)), Size(truth), 0)
          /\ Lost(truth, l).recall = Rate(Count(truth, Agreed(truth, N)), Size(truth), 0)
          /\ Lost(truth, l).exception = Rate(Excepted(truth, N), Cardinality(truth.linked), 0)
      BY <3>2, <3>4, ScoreRates
    <3>7. Lost(truth, l) = Told(truth, l)
      BY <3>2, <3>4, ScoreFields
    <3> HIDE DEF Marks
    <3>8. ASSUME NEW A, NEW B \in SUBSET A
          PROVE  AtMost(Rate(Count(truth, B), Size(truth), 0), Rate(Count(truth, A), Size(truth), 0))
      <4>1. /\ Size(truth) \in Nat /\ Count(truth, A) \in 0..Size(truth)
            /\ Count(truth, B) \in 0..Size(truth) /\ Count(truth, B) <= Count(truth, A)
        BY <2>1, <3>1, <3>8, Counts
      <4> QED
        BY <4>1, RateGrows
    <3>9. AtMost(Rate(Excepted(truth, M), Cardinality(truth.linked), 0),
                 Rate(Excepted(truth, N), Cardinality(truth.linked), 0))
      <4>1. /\ Cardinality(truth.linked) \in Nat
            /\ Excepted(truth, M) \in 0..Cardinality(truth.linked)
            /\ Excepted(truth, N) \in 0..Cardinality(truth.linked)
            /\ Excepted(truth, M) <= Excepted(truth, N)
        BY <2>1, <3>1, <3>3, ExceptedShrinks
      <4> QED
        BY <4>1, RateGrows
    <3> QED
      BY <3>3, <3>5, <3>6, <3>7, <3>8, <3>9
  <2> QED
    BY <2>2, <2>3, Zenon DEF LosingWorkNeverPays
<1> QED
  BY <1>1, LoopInvariance, PTL

----------------------------------------------------------------------------
\* Sums of rows and of periods.

LEMMA SumIsTotal ==
    ASSUME NEW v
    PROVE  SumOf(v) = Total(v, DOMAIN v)
  BY Zenon DEF SumOf, Total

\* A sum whose summands are none above zero is not above it either.
LEMMA TotalFalls ==
    ASSUME NEW S, IsFiniteSet(S), NEW v, \A x \in S : v[x] \in Int /\ v[x] <= 0
    PROVE  Total(v, S) \in Int /\ Total(v, S) <= 0
<1> DEFINE w == [x \in S |-> -v[x]]
           z == [x \in S |-> 0]
<1>1. \A x \in S : w[x] \in Nat /\ w[x] \in Int /\ z[x] \in Int /\ z[x] = v[x] + w[x] /\ z[x] = z[x] + z[x]
  OBVIOUS
<1> HIDE DEF w, z
<1>2. Total(v, S) \in Int /\ Total(w, S) \in Int /\ Total(z, S) \in Int
  BY <1>1, TotalInt
<1>3. Total(z, S) = Total(v, S) + Total(w, S) /\ Total(z, S) = Total(z, S) + Total(z, S)
  BY <1>1, TotalPlus
<1>4. 0 <= Total(w, S)
  <2>1. {} \in SUBSET S /\ Total(w, {}) = 0
    BY TotalEmpty
  <2> QED
    BY <1>1, <2>1, TotalGrows
<1> QED
  BY <1>2, <1>3, <1>4

\* The sum of a report's rows.
LEMMA ReconstructIsTotal ==
    ASSUME NEW S, IsFiniteSet(S)
    PROVE  R!Reconstruct(psp, S) = Total([t \in S |-> psp.amount[t]], S)
<1> DEFINE v == [t \in S |-> psp.amount[t]]
           Steps(f) == f = [s \in SUBSET S |-> IF s = {} THEN 0
                              ELSE psp.amount[Pick(s)] + f[s \ {Pick(s)}]]
           h == CHOOSE f : Steps(f)
<1>1. R!Reconstruct(psp, S) = h[S]
  BY Zenon DEF R!Reconstruct, R!MapThenSumSet, R!MapThenFoldSet, MapThenSumSet, MapThenFoldSet, Pick
<1>2. \A s \in SUBSET S : s # {} => v[Pick(s)] = psp.amount[Pick(s)]
  BY PickIn
<1>3. ASSUME NEW f PROVE IsFold(f, v, S) <=> Steps(f)
  <2>1. ASSUME NEW s \in SUBSET S
        PROVE  (IF s = {} THEN 0 ELSE v[Pick(s)] + f[s \ {Pick(s)}])
               = (IF s = {} THEN 0 ELSE psp.amount[Pick(s)] + f[s \ {Pick(s)}])
    <3> HIDE DEF v
    <3> QED
      BY <1>2
  <2>2. [s \in SUBSET S |-> IF s = {} THEN 0 ELSE v[Pick(s)] + f[s \ {Pick(s)}]]
        = [s \in SUBSET S |-> IF s = {} THEN 0 ELSE psp.amount[Pick(s)] + f[s \ {Pick(s)}]]
    <3> HIDE DEF v
    <3> QED
      BY <2>1
  <2> HIDE DEF v
  <2> QED
    BY <2>2, Zenon DEF IsFold
<1>4. IsFold(h, v, S)
  <2>1. \E f : IsFold(f, v, S)
    BY FoldExists
  <2>2. \E f : Steps(f)
    <3> HIDE DEF Steps, v
    <3> QED
      BY <1>3, <2>1
  <2>3. Steps(h)
    <3> HIDE DEF Steps
    <3> QED
      BY <2>2, Zenon
  <2> HIDE DEF Steps, v, h
  <2> QED
    BY <1>3, <2>3
<1> HIDE DEF v, h
<1> QED
  BY <1>1, <1>4, TotalIsFold DEF v

\* The GST of a match's rows, which no provider gave back.
LEMMA TaxIsInt ==
    ASSUME LoopInv, NEW legs \in SUBSET Txns, IsFiniteSet(Txns)
    PROVE  /\ Tax(legs) \in Int
           /\ NoGstTakenBack => Tax(legs) \in Nat
<1> DEFINE S == {t \in legs : psp.type[t] = "tax"}
           v == [t \in S |-> psp.amount[t]]
<1>1. psp \in R!Report
  BY CasesAssumption DEF LoopInv, InputInv
<1>2. IsFiniteSet(S)
  BY FS_Subset, S \in SUBSET Txns
<1>3. R!Reconstruct(psp, S) = Total(v, S)
  <2> HIDE DEF S
  <2> QED
    BY <1>2, ReconstructIsTotal
<1>4. \A t \in S : v[t] \in Int
  BY <1>1 DEF R!Report
<1>5. NoGstTakenBack => \A t \in S : v[t] \in Int /\ v[t] <= 0
  BY <1>4 DEF NoGstTakenBack
<1>6. Tax(legs) = -Total(v, S)
  BY <1>3 DEF Tax
<1> HIDE DEF S, v
<1>7. Total(v, S) \in Int
  BY <1>2, <1>4, TotalInt
<1>8. NoGstTakenBack => Total(v, S) <= 0
  BY <1>2, <1>5, TotalFalls
<1> QED
  BY <1>6, <1>7, <1>8

----------------------------------------------------------------------------
\* The input tax credit.

\* What a set of taxed lines bore in a period.
LEMMA TaxInIsTotal ==
    ASSUME NEW p, NEW matches, IsFiniteSet(matches), \A m \in matches : m.tax \in Int
    PROVE  TaxIn(p, matches) \in Int
<1> DEFINE S == {n \in matches : Period(file.txnDate[n.line]) = p}
           v == [m \in S |-> m.tax]
<1>1. TaxIn(p, matches) = Total(v, S)
  <2>1. TaxIn(p, matches) = SumOf(v) /\ DOMAIN v = S
    BY DEF TaxIn
  <2> HIDE DEF v, S
  <2> QED
    BY <2>1, SumIsTotal
<1>2. IsFiniteSet(S) /\ \A m \in S : v[m] \in Int
  BY FS_Subset, S \in SUBSET matches
<1> HIDE DEF v, S
<1> QED
  BY <1>1, <1>2, TotalInt

\* A row is whole numbers, and the credit computed of a period with no rest.
RowOK(row) ==
    /\ row.computed \in Int /\ row.stated \in Int
    /\ row.variance = row.computed - row.stated

LEMMA RowsOK ==
    ASSUME NEW invoice, NEW matches, IsFiniteSet(matches), \A m \in matches : m.tax \in Int,
           IsFiniteSet(Lines), IsFiniteSet(DOMAIN invoice),
           \A p \in DOMAIN invoice : invoice[p] \in Int
    PROVE  LET rows == Reconcile(invoice, matches).rows
           IN  IsFiniteSet(rows) /\ \A row \in rows : RowOK(row)
<1> DEFINE F == [p \in Universe(invoice) |-> PeriodOf(invoice, matches, p)]
           G == [l \in Lines |-> Period(file.txnDate[l])]
           rows == Reconcile(invoice, matches).rows
<1>1. rows = {PeriodOf(invoice, matches, p) : p \in Universe(invoice)}
  BY DEF Reconcile
<1>2. rows = {F[p] : p \in Universe(invoice)}
  BY <1>1
<1>3. IsFiniteSet(Universe(invoice))
  <2>1. Universe(invoice) = {G[l] : l \in Lines} \union DOMAIN invoice
    BY DEF Universe
  <2> HIDE DEF G
  <2> QED
    BY <2>1, ImageFinite, FS_Union
<1>4. ASSUME NEW p PROVE RowOK(PeriodOf(invoice, matches, p))
  <2> DEFINE row == PeriodOf(invoice, matches, p)
             stated == IF p \in DOMAIN invoice THEN invoice[p] ELSE 0
  <2>1. TaxIn(p, matches) \in Int /\ stated \in Int
    BY TaxInIsTotal
  <2>2. /\ row.computed = TaxIn(p, matches) /\ row.stated = stated
        /\ row.variance = TaxIn(p, matches) - stated
    BY DEF PeriodOf
  <2> HIDE DEF row, stated
  <2> QED
    BY <2>1, <2>2 DEF RowOK, row
<1>5. IsFiniteSet(rows)
  <2> HIDE DEF F, rows
  <2> QED
    BY <1>2, <1>3, ImageFinite
<1> QED
  BY <1>1, <1>4, <1>5

\* The two headline figures come to the larger of what was computed and invoiced.
LEMMA EveryRupeeIsPlaced ==
    ASSUME NEW invoice, NEW matches,
           LET rows == Reconcile(invoice, matches).rows
           IN  IsFiniteSet(rows) /\ \A row \in rows : RowOK(row)
    PROVE  LET report == Reconcile(invoice, matches)
           IN  /\ report.substantiated + report.atRisk =
                    SumOf([row \in report.rows |-> Greatest(row.computed, row.stated)])
               /\ report.substantiated \in Int /\ report.atRisk \in Int /\ report.variance \in Int
<1> DEFINE report == Reconcile(invoice, matches)
           S == report.rows
           least == [row \in S |-> Least(row.computed, row.stated)]
           risk == [row \in S |-> Abs(row.variance)]
           variance == [row \in S |-> row.variance]
           greatest == [row \in S |-> Greatest(row.computed, row.stated)]
<1>1. /\ report.substantiated = SumOf(least) /\ report.atRisk = SumOf(risk)
      /\ report.variance = SumOf(variance)
  BY DEF Reconcile
<1>2. /\ DOMAIN least = S /\ DOMAIN risk = S /\ DOMAIN variance = S /\ DOMAIN greatest = S
  OBVIOUS
<1>3. IsFiniteSet(S) /\ \A row \in S : RowOK(row)
  OBVIOUS
<1>4. ASSUME NEW row \in S
      PROVE  /\ least[row] \in Int /\ risk[row] \in Int /\ variance[row] \in Int
             /\ greatest[row] = least[row] + risk[row]
  <2>1. /\ least[row] = Least(row.computed, row.stated) /\ risk[row] = Abs(row.variance)
        /\ variance[row] = row.variance /\ greatest[row] = Greatest(row.computed, row.stated)
    OBVIOUS
  <2>2. RowOK(row)
    BY <1>3
  <2> HIDE DEF S, least, risk, variance, greatest
  <2> QED
    BY <2>1, <2>2 DEF RowOK, Least, Greatest, Abs
<1> HIDE DEF S, least, risk, variance, greatest
<1>5. /\ SumOf(least) = Total(least, S) /\ SumOf(risk) = Total(risk, S)
      /\ SumOf(variance) = Total(variance, S) /\ SumOf(greatest) = Total(greatest, S)
  BY <1>2, SumIsTotal
<1>6. Total(greatest, S) = Total(least, S) + Total(risk, S)
  BY <1>3, <1>4, TotalPlus
<1>7. Total(least, S) \in Int /\ Total(risk, S) \in Int /\ Total(variance, S) \in Int
  BY <1>3, <1>4, TotalInt
<1> QED
  BY <1>1, <1>5, <1>6, <1>7 DEF S, greatest

\* What some of an answer's lines bore in a period, reckoned by the line.
LEMMA TaxByLine ==
    ASSUME NEW lines, IsFiniteSet(lines), NEW v, \A l \in lines : v[l] \in Int,
           NEW F, \A l \in lines : F[l].line = l /\ F[l].tax = v[l], NEW p
    PROVE  TaxIn(p, {F[l] : l \in lines}) =
             Total(v, {l \in lines : Period(file.txnDate[l]) = p})
<1> DEFINE S == {l \in lines : Period(file.txnDate[l]) = p}
           matches == {F[l] : l \in lines}
           T == {n \in matches : Period(file.txnDate[n.line]) = p}
           w == [m \in T |-> m.tax]
<1>1. T = {F[l] : l \in S}
  OBVIOUS
<1>2. IsFiniteSet(S)
  BY FS_Subset, S \in SUBSET lines
<1>3. \A l \in S : v[l] \in Int /\ w[F[l]] = v[l]
  OBVIOUS
<1>4. \A k, l \in S : F[k] = F[l] => k = l
  OBVIOUS
<1>5. TaxIn(p, matches) = SumOf(w) /\ DOMAIN w = T
  BY DEF TaxIn
<1>6. SumOf(w) = Total(w, T)
  <2> HIDE DEF w, T
  <2> QED
    BY <1>5, SumIsTotal
<1> HIDE DEF w, S, T
<1>7. Total(w, {F[l] : l \in S}) = Total(v, S)
  BY <1>2, <1>3, <1>4, TotalOfImage
<1> QED
  BY <1>1, <1>5, <1>6, <1>7 DEF S

\* What an answer's settlements bore, and the invoice for exactly that.
Bore(truth) == {[line |-> l, tax |-> Tax(truth.legs[l])] : l \in truth.linked}

LEMMA HonestInvoiceOK ==
    ASSUME LoopInv, Done, NEW truth \in Answers
    PROVE  LET invoice == HonestInvoice(truth)
           IN  /\ DOMAIN invoice = {Period(file.txnDate[l]) : l \in Lines}
               /\ IsFiniteSet(DOMAIN invoice)
               /\ \A p \in DOMAIN invoice : invoice[p] = TaxIn(p, Bore(truth)) /\ invoice[p] \in Int
<1> DEFINE months == {Period(file.txnDate[l]) : l \in Lines}
           G == [l \in Lines |-> Period(file.txnDate[l])]
           F == [l \in truth.linked |-> [line |-> l, tax |-> Tax(truth.legs[l])]]
           invoice == HonestInvoice(truth)
<1>1. /\ IsFiniteSet(Lines) /\ IsFiniteSet(Txns) /\ truth.linked \in SUBSET Lines
      /\ truth.legs \in [Lines -> SUBSET Txns]
  BY Reporting DEF Done
<1>2. IsFiniteSet(months)
  <2>1. months = {G[l] : l \in Lines}
    OBVIOUS
  <2> HIDE DEF G, months
  <2> QED
    BY <1>1, <2>1, ImageFinite
<1>3. IsFiniteSet(Bore(truth)) /\ \A m \in Bore(truth) : m.tax \in Int
  <2>1. Bore(truth) = {F[l] : l \in truth.linked}
    BY DEF Bore
  <2>2. IsFiniteSet(truth.linked)
    BY <1>1, FS_Subset
  <2>3. \A l \in truth.linked : Tax(truth.legs[l]) \in Int
    BY <1>1, TaxIsInt
  <2>4. \A m \in Bore(truth) : m.tax \in Int
    BY <2>3 DEF Bore
  <2> HIDE DEF F
  <2> QED
    BY <2>1, <2>2, <2>4, ImageFinite
<1>4. invoice = [p \in months |-> TaxIn(p, Bore(truth))]
  BY DEF HonestInvoice, Bore
<1>5. \A p : TaxIn(p, Bore(truth)) \in Int
  BY <1>3, TaxInIsTotal
<1> HIDE DEF invoice, months
<1> QED
  BY <1>2, <1>4, <1>5 DEF invoice, months

\* A period the provider invoiced in full is short only of what is not closed.
LEMMA HonestInvoiceIsNotBlamed ==
    ASSUME LoopInv, Done, NEW truth \in Answers, NoGstTakenBack,
           \A m \in Result.matches : Agrees(m, truth),
           NEW row \in Reconcile(HonestInvoice(truth), Result.matches).rows
    PROVE  row.status \in {"substantiated", "unmatched_settlements"}
<1> DEFINE M == Result.matches
           invoice == HonestInvoice(truth)
           closed == {k \in Lines : Closed[k] # None}
           v == [l \in Lines |-> Tax(truth.legs[l])]
           F == [l \in closed |-> Match(l)]
           H == [l \in truth.linked |-> [line |-> l, tax |-> Tax(truth.legs[l])]]
<1>1. /\ IsFiniteSet(Lines) /\ IsFiniteSet(Txns) /\ truth.linked \in SUBSET Lines
      /\ truth.legs \in [Lines -> SUBSET Txns] /\ \A l \in truth.linked : file.credit[l] # None
      /\ \A m \in M : m.tax = Tax(m.legs)
  BY Reporting DEF Done
<1>2. /\ DOMAIN invoice = {Period(file.txnDate[l]) : l \in Lines}
      /\ \A p \in DOMAIN invoice : invoice[p] = TaxIn(p, Bore(truth))
  BY HonestInvoiceOK
<1>3. PICK p \in DOMAIN invoice : row = PeriodOf(invoice, M, p)
  <2> HIDE DEF invoice
  <2> QED
    BY <1>2 DEF Reconcile, Universe, invoice
<1>4. M = {Match(l) : l \in closed} /\ M = {F[l] : l \in closed}
  BY DEF Result
<1>5. /\ \A l \in closed : F[l].line = l /\ l \in truth.linked /\ F[l].tax = v[l]
      /\ closed = LinesOf(M)
  <2>1. \A l \in closed : F[l] = Match(l) /\ F[l] \in M /\ F[l].line = l
    BY <1>4 DEF Match
  <2>2. \A l \in closed : l \in truth.linked /\ F[l].legs = truth.legs[l]
    BY <2>1 DEF Agrees
  <2>3. \A l \in closed : F[l].tax = v[l]
    <3> HIDE DEF F, M
    <3> QED
      BY <1>1, <2>1, <2>2
  <2>4. closed = LinesOf(M)
    <3> HIDE DEF F, closed
    <3> QED
      BY <1>4, <2>1 DEF LinesOf
  <2> HIDE DEF F, closed, M, v
  <2> QED
    BY <2>1, <2>2, <2>3, <2>4
<1>6. \A l \in Lines : v[l] \in Nat /\ v[l] \in Int
  BY <1>1, TaxIsInt
<1>7. \A l \in truth.linked : H[l].line = l /\ H[l].tax = v[l]
  BY <1>1
<1>8. Bore(truth) = {H[l] : l \in truth.linked}
  BY DEF Bore
<1> DEFINE C == {l \in closed : Period(file.txnDate[l]) = p}
           B == {l \in truth.linked : Period(file.txnDate[l]) = p}
<1>9. IsFiniteSet(closed) /\ IsFiniteSet(truth.linked) /\ closed \subseteq Lines
  BY <1>1, FS_Subset, closed \in SUBSET Lines
<1>10. C \in SUBSET B /\ B \in SUBSET Lines
  BY <1>1, <1>5
<1> HIDE DEF M, invoice, closed, v, F, H
<1>11. TaxIn(p, M) = Total(v, C)
  <2>1. \A l \in closed : v[l] \in Int
    BY <1>6, <1>9
  <2>2. \A l \in closed : F[l].line = l /\ F[l].tax = v[l]
    BY <1>5
  <2>3. TaxIn(p, {F[l] : l \in closed}) =
          Total(v, {l \in closed : Period(file.txnDate[l]) = p})
    BY <1>9, <2>1, <2>2, TaxByLine
  <2> QED
    BY <1>4, <2>3 DEF C
<1>12. TaxIn(p, Bore(truth)) = Total(v, B)
  <2>1. \A l \in truth.linked : v[l] \in Int
    BY <1>1, <1>6
  <2>2. TaxIn(p, {H[l] : l \in truth.linked}) =
          Total(v, {l \in truth.linked : Period(file.txnDate[l]) = p})
    BY <1>7, <1>9, <2>1, TaxByLine
  <2> QED
    BY <1>8, <2>2 DEF B
<1> HIDE DEF C, B
<1>13. IsFiniteSet(B) /\ IsFiniteSet(C)
  BY <1>1, <1>10, FS_Subset
<1>14. Total(v, C) <= Total(v, B) /\ Total(v, C) \in Int /\ Total(v, B) \in Int
  BY <1>6, <1>10, <1>13, TotalGrows, TotalInt
<1>15. C # B => p \in OpenPeriods(M)
  BY <1>1, <1>5, <1>10 DEF C, B, OpenPeriods
<1> DEFINE computed == TaxIn(p, M)
           stated == invoice[p]
<1>16. ~(computed > stated) /\ (computed = stated \/ p \in OpenPeriods(M))
  BY <1>2, <1>3, <1>11, <1>12, <1>14, <1>15
<1>17. row.status =
         CASE p \notin DOMAIN invoice -> "no_invoice"
           [] p \in DOMAIN invoice /\ computed > stated -> "under_invoiced"
           [] p \in DOMAIN invoice /\ computed = stated -> "substantiated"
           [] OTHER -> IF p \in OpenPeriods(M) THEN "unmatched_settlements"
                       ELSE "over_invoiced"
  BY <1>3, Zenon DEF PeriodOf
<1> HIDE DEF computed, stated
<1> QED
  BY <1>3, <1>16, <1>17, Zenon

\* The headline figures place every rupee of GST, and an honest invoice is never
\* blamed for what the matching did not close.
THEOREM GstAccounted == LoopSpec => []GstIsAccountedFor
<1>1. LoopInv => GstIsAccountedFor
  <2> SUFFICES ASSUME LoopInv, Done PROVE GstIsAccountedFor
    BY DEF GstIsAccountedFor
  <2>1. /\ IsFiniteSet(Lines) /\ IsFiniteSet(Result.matches)
        /\ \A m \in Result.matches : m.tax \in Int
    <3>1. /\ IsFiniteSet(Lines) /\ IsFiniteSet(Txns) /\ IsFiniteSet(Result.matches)
          /\ \A m \in Result.matches : m.legs \in SUBSET Txns /\ m.tax = Tax(m.legs)
      BY Reporting DEF Done
    <3> QED
      BY <3>1, TaxIsInt
  <2>2. ASSUME NEW invoice \in Invoices
        PROVE  LET report == Reconcile(invoice, Result.matches)
               IN  report.substantiated + report.atRisk =
                     SumOf([row \in report.rows |-> Greatest(row.computed, row.stated)])
    <3>1. IsFiniteSet(DOMAIN invoice) /\ \A p \in DOMAIN invoice : invoice[p] \in Int
      BY GradesAssumption
    <3> QED
      BY <2>1, <3>1, RowsOK, EveryRupeeIsPlaced
  <2>3. ASSUME NEW truth \in Answers, NoGstTakenBack,
               \A m \in Result.matches : Agrees(m, truth),
               NEW row \in Reconcile(HonestInvoice(truth), Result.matches).rows
        PROVE  row.status \in {"substantiated", "unmatched_settlements"}
    BY <2>3, HonestInvoiceIsNotBlamed
  <2> QED
    BY <2>2, <2>3, Zenon DEF GstIsAccountedFor
<1> QED
  BY <1>1, LoopInvariance, PTL

----------------------------------------------------------------------------
\* The drift.

ScoreNames == {"auto", "assisted", "exception", "false", "precision", "recall", "traps"}

MetricNames == ScoreNames \union MagnitudeMetrics \union NeverMaterial

LEMMA ScoreDomain ==
    ASSUME NEW truth, NEW result
    PROVE  DOMAIN Score(truth, result) = ScoreNames
<1> DEFINE M == result.matches
           s == Score(truth, result)
           f == Rate(Cardinality(M \ Agreed(truth, M)), Cardinality(M), 0)
<1>1. s = [auto |-> Rate(Count(truth, M \ Assisted(M)), Size(truth), 0),
           assisted |-> Rate(Count(truth, Assisted(M)), Size(truth), 0),
           exception |-> Rate(Excepted(truth, M), Cardinality(truth.linked), 0),
           false |-> f, precision |-> [f EXCEPT !.n = f.d - f.n],
           recall |-> Rate(Count(truth, Agreed(truth, M)), Size(truth), 0),
           traps |-> Rate(Cardinality(truth.traps \ LinesOf(M)), Cardinality(truth.traps), 1)]
  BY ScoreFields
<1> HIDE DEF s, f
<1>2. DOMAIN s = ScoreNames
  BY <1>1 DEF ScoreNames
<1> QED
  BY <1>2 DEF s

LEMMA MetricsOf ==
    ASSUME NEW truth, NEW invoice, NEW result, NEW clock
    PROVE  LET metrics == Scored(truth, invoice, result, clock).metrics
               itc == Reconcile(invoice, result.matches)
           IN  /\ DOMAIN metrics = MetricNames
               /\ \A m \in MetricNames :
                    metrics[m] = IF m \in NeverMaterial THEN Amount(clock)
                                 ELSE IF m \in MagnitudeMetrics THEN Amount(itc[m])
                                 ELSE Score(truth, result)[m]
               /\ Scored(truth, invoice, result, clock).census = Census(result.excepted)
<1> DEFINE s == Score(truth, result)
           itc == Reconcile(invoice, result.matches)
           scored == Scored(truth, invoice, result, clock)
           value(m) == IF m \in NeverMaterial THEN Amount(clock)
                       ELSE IF m \in MagnitudeMetrics THEN Amount(itc[m]) ELSE s[m]
<1>1. DOMAIN s = ScoreNames
  BY ScoreDomain
<1>2. scored.metrics = [m \in DOMAIN s \union MagnitudeMetrics \union NeverMaterial |-> value(m)]
  BY Zenon DEF Scored
<1>3. scored.census = Census(result.excepted)
  BY DEF Scored
<1> HIDE DEF s, itc, scored
<1>4. /\ DOMAIN scored.metrics = MetricNames
      /\ \A m \in MetricNames : scored.metrics[m] = value(m)
  BY <1>1, <1>2 DEF MetricNames
<1> QED
  BY <1>3, <1>4, Zenon DEF scored, itc, s

\* What is compared of a run are whole numbers.
LEMMA MetricsAreInts ==
    ASSUME NEW truth, IsFiniteSet(Lines), truth.linked \subseteq Lines, IsFiniteSet(truth.traps),
           NEW result, IsFiniteSet(result.matches), \A m \in result.matches : m.tax \in Int,
           NEW invoice, IsFiniteSet(DOMAIN invoice),
           \A p \in DOMAIN invoice : invoice[p] \in Int, NEW clock \in Int
    PROVE  LET metrics == Scored(truth, invoice, result, clock).metrics
           IN  \A m \in MetricNames : metrics[m].n \in Int /\ metrics[m].d \in Int
<1> DEFINE s == Score(truth, result)
           itc == Reconcile(invoice, result.matches)
           metrics == Scored(truth, invoice, result, clock).metrics
<1>1. \A m \in MetricNames :
        metrics[m] = IF m \in NeverMaterial THEN Amount(clock)
                     ELSE IF m \in MagnitudeMetrics THEN Amount(itc[m]) ELSE s[m]
  BY MetricsOf
<1>2. itc.substantiated \in Int /\ itc.atRisk \in Int /\ itc.variance \in Int
  BY RowsOK, EveryRupeeIsPlaced
<1>3. \A m \in ScoreNames : s[m].d \in Int /\ s[m].n \in Int
  <2>1. \A m \in DOMAIN s : s[m].d \in Nat /\ s[m].n \in 0..s[m].d
    <3>1. \A m \in DOMAIN s : s[m].d \in Nat /\ s[m].d > 0 /\ s[m].n \in 0..s[m].d
      BY ScoreIsFractions
    <3> HIDE DEF s
    <3> QED
      BY <3>1
  <2>2. DOMAIN s = ScoreNames
    BY ScoreDomain
  <2> HIDE DEF s
  <2> QED
    BY <2>1, <2>2
<1>4. \A x \in Int : Amount(x).n \in Int /\ Amount(x).d \in Int
  BY DEF Amount
<1> HIDE DEF s, itc, metrics
<1>5. \A m \in MagnitudeMetrics : itc[m] \in Int
  BY <1>2 DEF MagnitudeMetrics
<1>6. \A m \in MetricNames : metrics[m].n \in Int /\ metrics[m].d \in Int
  BY <1>1, <1>3, <1>4, <1>5 DEF MetricNames
<1> QED
  BY <1>6 DEF metrics

\* How often a code is in a census.
LEMMA CensusCounts ==
    ASSUME NEW excepted, NEW c
    PROVE  CountOf(Census(excepted), c) = Cardinality({l \in excepted : CodeOf(l) = c})
<1> DEFINE codes == {CodeOf(l) : l \in excepted}
           found(x) == {l \in excepted : CodeOf(l) = x}
<1>1. Census(excepted) = [code \in codes |-> Cardinality(found(code))]
  BY DEF Census
<1>2. c \notin codes => found(c) = {}
  OBVIOUS
<1>3. c \notin codes => Cardinality(found(c)) = 0
  BY <1>2, FS_EmptySet, Zenon
<1> HIDE DEF codes, found
<1>4. CountOf(Census(excepted), c) = Cardinality(found(c))
  BY <1>1, <1>3 DEF CountOf
<1> QED
  BY <1>4 DEF found

\* A line excepted besides moves the count of its own code by one, and no other.
LEMMA OneMore ==
    ASSUME NEW E, IsFiniteSet(E), NEW l, l \notin E, NEW c
    PROVE  LET was == CountOf(Census(E \union {l}), c)
               now == CountOf(Census(E), c)
           IN  /\ now \in Nat
               /\ c = CodeOf(l) => was = now + 1
               /\ c # CodeOf(l) => was = now
<1> DEFINE was == {k \in E \union {l} : CodeOf(k) = c}
           now == {k \in E : CodeOf(k) = c}
<1>1. IsFiniteSet(now) /\ l \notin now
  BY FS_Subset, now \in SUBSET E
<1>2. c = CodeOf(l) => was = now \union {l}
  OBVIOUS
<1>3. c # CodeOf(l) => was = now
  OBVIOUS
<1>4. /\ CountOf(Census(E \union {l}), c) = Cardinality(was)
      /\ CountOf(Census(E), c) = Cardinality(now)
  BY CensusCounts
<1> HIDE DEF was, now
<1>5. Cardinality(now) \in Nat /\ Cardinality(now \union {l}) = Cardinality(now) + 1
  BY <1>1, FS_CardinalityType, FS_AddElement
<1> QED
  BY <1>2, <1>3, <1>4, <1>5

\* So the codes of the two runs differ in one, by one.
LEMMA CodesTell ==
    ASSUME NEW E, IsFiniteSet(E), NEW l, l \notin E, NEW was, NEW now,
           was.census = Census(E \union {l}), now.census = Census(E)
    PROVE  SumOf([c \in Compare(was, now).codes |-> c[3] - c[2]]) = -1
<1> DEFINE code == CodeOf(l)
           all == DOMAIN was.census \union DOMAIN now.census
           codes == Compare(was, now).codes
           n == CountOf(now.census, code)
           v == [c \in codes |-> c[3] - c[2]]
           one == <<code, n + 1, n>>
<1>1. n \in Nat /\ CountOf(was.census, code) = n + 1
  BY OneMore
<1>2. ASSUME NEW c, c # code PROVE CountOf(was.census, c) = CountOf(now.census, c)
  BY <1>2, OneMore
<1>3. code \in all
  BY DEF Census
<1>4. codes = {<<c, CountOf(was.census, c), CountOf(now.census, c)>> :
                 c \in {c \in all : CountOf(was.census, c) # CountOf(now.census, c)}}
  BY DEF Compare, Moved
<1>5. {c \in all : CountOf(was.census, c) # CountOf(now.census, c)} = {code}
  <2> HIDE DEF code, all, n
  <2>1. CountOf(was.census, code) # CountOf(now.census, code)
    BY <1>1 DEF n
  <2> QED
    BY <1>2, <1>3, <2>1
<1>6. codes = {one}
  <2> HIDE DEF code, all, codes
  <2>1. codes = {<<c, CountOf(was.census, c), CountOf(now.census, c)>> : c \in {code}}
    BY <1>4, <1>5
  <2> QED
    BY <1>1, <2>1
<1>7. v[one] = -1 /\ DOMAIN v = {one}
  <2> HIDE DEF code, codes, n
  <2> QED
    BY <1>1, <1>6
<1> HIDE DEF v, one, codes
<1>8. SumOf(v) = Total(v, {one})
  BY <1>7, SumIsTotal
<1>9. Total(v, {one}) = v[one] + Total(v, {one} \ {one})
  <2>1. IsFiniteSet({one}) /\ one \in {one}
    BY FS_Singleton
  <2>2. \A x \in {one} : v[x] \in Int
    BY <1>7, -1 \in Int
  <2> QED
    BY <2>1, <2>2, TotalTake
<1>10. Total(v, {one} \ {one}) = 0
  BY TotalEmpty, {one} \ {one} = {}
<1> QED
  BY <1>7, <1>8, <1>9, <1>10 DEF v, codes

\* A run that only took another time has no drift.
LEMMA NoNoise ==
    ASSUME NEW truth, NEW invoice, NEW result, NEW a, NEW b,
           LET metrics == Scored(truth, invoice, result, b).metrics
           IN  \A m \in MetricNames : metrics[m].n \in Int /\ metrics[m].d \in Int
    PROVE  LET drift == Compare(Scored(truth, invoice, result, a), Scored(truth, invoice, result, b))
           IN  drift.findings = {} /\ drift.codes = {}
<1> DEFINE before == Scored(truth, invoice, result, a)
           after == Scored(truth, invoice, result, b)
           drift == Compare(before, after)
           itc == Reconcile(invoice, result.matches)
<1>1. /\ DOMAIN before.metrics = MetricNames /\ before.census = Census(result.excepted)
      /\ after.census = Census(result.excepted)
      /\ \A m \in MetricNames : m \notin NeverMaterial => before.metrics[m] = after.metrics[m]
  <2>1. /\ DOMAIN before.metrics = MetricNames /\ before.census = Census(result.excepted)
        /\ \A m \in MetricNames :
             before.metrics[m] = IF m \in NeverMaterial THEN Amount(a)
                                 ELSE IF m \in MagnitudeMetrics THEN Amount(itc[m])
                                 ELSE Score(truth, result)[m]
    BY MetricsOf
  <2>2. /\ after.census = Census(result.excepted)
        /\ \A m \in MetricNames :
             after.metrics[m] = IF m \in NeverMaterial THEN Amount(b)
                                ELSE IF m \in MagnitudeMetrics THEN Amount(itc[m])
                                ELSE Score(truth, result)[m]
    BY MetricsOf
  <2> HIDE DEF before, after, itc
  <2> QED
    BY <2>1, <2>2
<1>2. \A m \in MetricNames : after.metrics[m].n \in Int /\ after.metrics[m].d \in Int
  OBVIOUS
<1>3. /\ drift.findings =
           {m \in DOMAIN before.metrics : IsMaterial(m, before.metrics[m], after.metrics[m])}
      /\ drift.codes = {<<c, CountOf(before.census, c), CountOf(after.census, c)>> :
           c \in {c \in DOMAIN before.census \union DOMAIN after.census :
                    CountOf(before.census, c) # CountOf(after.census, c)}}
  BY DEF Compare, Moved
<1> HIDE DEF before, after, drift
<1>4. ASSUME NEW m \in MetricNames PROVE ~IsMaterial(m, before.metrics[m], after.metrics[m])
  <2>1. CASE m \in NeverMaterial
    BY <2>1 DEF IsMaterial
  <2>2. CASE m \notin NeverMaterial
    <3> DEFINE x == after.metrics[m]
    <3>1. before.metrics[m] = x /\ x.n \in Int /\ x.d \in Int
      BY <1>1, <1>2, <2>2
    <3> HIDE DEF x
    <3>2. x.n * x.d \in Int /\ Delta(x, x) = x.n * x.d - x.n * x.d
      BY <3>1 DEF Delta
    <3>3. Abs(Delta(x, x)) = 0
      BY <3>2 DEF Abs
    <3> QED
      BY <3>1, <3>3 DEF IsMaterial, x
  <2> QED
    BY <2>1, <2>2
<1>5. drift.findings = {}
  BY <1>1, <1>3, <1>4
<1>6. drift.codes = {}
  BY <1>1, <1>3
<1> QED
  BY <1>5, <1>6 DEF drift, before, after

\* Credit that was not there at all and is now is a finding.
LEMMA CreditIsFound ==
    ASSUME NEW was, NEW now, NEW a \in Int, NEW b \in Int, a = 0, b # 0,
           "substantiated" \in DOMAIN was.metrics,
           was.metrics.substantiated = Amount(a), now.metrics.substantiated = Amount(b)
    PROVE  "substantiated" \in Compare(was, now).findings
<1>1. Abs(Delta(Amount(a), Amount(b))) # 0 /\ Amount(a).n = 0
  BY DEF Delta, Amount, Abs
<1>2. "substantiated" \notin NeverMaterial /\ "substantiated" \in MagnitudeMetrics
  BY DEF NeverMaterial, MagnitudeMetrics
<1>3. IsMaterial("substantiated", Amount(a), Amount(b))
  BY <1>1, <1>2 DEF IsMaterial
<1>4. Compare(was, now).findings =
        {m \in DOMAIN was.metrics : IsMaterial(m, was.metrics[m], now.metrics[m])}
  BY DEF Compare, Moved
<1> QED
  BY <1>3, <1>4

\* A matched line is not excepted.
LEMMA MatchedIsNotExcepted ==
    ASSUME LoopInv, Done, NEW l \in LinesOf(Result.matches)
    PROVE  l \in Lines /\ l \notin Result.excepted
<1>1. l \in Lines /\ Closed[l] # None
  BY DEF Result, LinesOf, Match
<1>2. /\ phase = "done"
      /\ open \intersect Lines = {k \in Lines : reason[k] # None /\ llmLegs[k] = {}}
  BY DEF LoopInv, OpenInv, Done
<1>3. llmLegs[l] = {} => matchOf[l] # None
  BY <1>1 DEF Closed
<1>4. matchOf[l] # None /\ phase = "done" => reason[l] = None
  BY <1>1 DEF LoopInv, Inv, MatchedOrExcepted
<1>5. Result.excepted = open \intersect Lines
  BY DEF Result, Reported, Done
<1> QED
  BY <1>1, <1>2, <1>3, <1>4, <1>5

\* A drift names what changed, and only that.
THEOREM DriftTells == LoopSpec => []DriftTellsWhatChanged
<1>1. LoopInv => DriftTellsWhatChanged
  <2> SUFFICES ASSUME LoopInv, Done PROVE DriftTellsWhatChanged
    BY DEF DriftTellsWhatChanged
  <2> DEFINE Now(truth) == Scored(truth, HonestInvoice(truth), Result, 1)
             Baseline(l) == [matches |-> Without(Result, l),
                             excepted |-> Result.excepted \union {l}]
             Was(truth, l) == Scored(truth, HonestInvoice(truth), Baseline(l), 1)
  <2>1. /\ IsFiniteSet(Lines) /\ IsFiniteSet(Result.matches)
        /\ \A m \in Result.matches : m.tax \in Int
    <3>1. /\ IsFiniteSet(Lines) /\ IsFiniteSet(Txns) /\ IsFiniteSet(Result.matches)
          /\ \A m \in Result.matches : m.legs \in SUBSET Txns /\ m.tax = Tax(m.legs)
      BY Reporting DEF Done
    <3> QED
      BY <3>1, TaxIsInt
  <2>2. ASSUME NEW truth \in Answers
        PROVE  /\ truth.linked \subseteq Lines /\ IsFiniteSet(truth.traps)
               /\ IsFiniteSet(DOMAIN HonestInvoice(truth))
               /\ \A p \in DOMAIN HonestInvoice(truth) : HonestInvoice(truth)[p] \in Int
    BY <2>2, HonestInvoiceOK, Reporting DEF Done
  <2>3. ASSUME NEW truth \in Answers
        PROVE  LET again == Compare(Scored(truth, HonestInvoice(truth), Result, 7), Now(truth))
               IN  again.findings = {} /\ again.codes = {}
    <3>1. \A m \in MetricNames :
            Now(truth).metrics[m].n \in Int /\ Now(truth).metrics[m].d \in Int
      BY <2>1, <2>2, MetricsAreInts
    <3> QED
      BY <3>1, NoNoise
  <2>4. ASSUME NEW truth \in Answers, NEW l \in LinesOf(Result.matches)
        PROVE  /\ Was(truth, l).metrics.substantiated.n = 0
                  /\ Now(truth).metrics.substantiated.n # 0
                    => "substantiated" \in Compare(Was(truth, l), Now(truth)).findings
               /\ SumOf([c \in Compare(Was(truth, l), Now(truth)).codes |-> c[3] - c[2]]) = -1
    <3> DEFINE invoice == HonestInvoice(truth)
               a == Reconcile(invoice, Baseline(l).matches).substantiated
               b == Reconcile(invoice, Result.matches).substantiated
               E == Result.excepted
    <3>1. /\ DOMAIN Was(truth, l).metrics = MetricNames
          /\ Was(truth, l).metrics["substantiated"] = Amount(a)
          /\ Now(truth).metrics["substantiated"] = Amount(b)
          /\ Was(truth, l).census = Census(E \union {l}) /\ Now(truth).census = Census(E)
      <4>1. /\ "substantiated" \in MetricNames /\ "substantiated" \in MagnitudeMetrics
            /\ "substantiated" \notin NeverMaterial
        BY DEF MetricNames, MagnitudeMetrics, NeverMaterial
      <4> DEFINE itcWas == Reconcile(invoice, Baseline(l).matches)
                 itcNow == Reconcile(invoice, Result.matches)
      <4>2. /\ DOMAIN Was(truth, l).metrics = MetricNames
            /\ \A m \in MetricNames :
                 Was(truth, l).metrics[m] =
                   IF m \in NeverMaterial THEN Amount(1)
                   ELSE IF m \in MagnitudeMetrics THEN Amount(itcWas[m])
                   ELSE Score(truth, Baseline(l))[m]
            /\ Was(truth, l).census = Census(Baseline(l).excepted)
        <5> HIDE DEF Baseline
        <5> QED
          BY MetricsOf
      <4>3. /\ \A m \in MetricNames :
                 Now(truth).metrics[m] =
                   IF m \in NeverMaterial THEN Amount(1)
                   ELSE IF m \in MagnitudeMetrics THEN Amount(itcNow[m])
                   ELSE Score(truth, Result)[m]
            /\ Now(truth).census = Census(E)
        BY MetricsOf
      <4>4. Baseline(l).excepted = E \union {l}
        OBVIOUS
      <4>5. a = itcWas.substantiated /\ b = itcNow.substantiated
        OBVIOUS
      <4> HIDE DEF itcWas, itcNow, Was, Now, Baseline, E, a, b
      <4> QED
        BY <4>1, <4>2, <4>3, <4>4, <4>5
    <3>2. a \in Int /\ b \in Int
      <4>1. /\ IsFiniteSet(Baseline(l).matches)
            /\ \A m \in Baseline(l).matches : m.tax \in Int
        <5>1. Baseline(l).matches \in SUBSET Result.matches
          BY DEF Without
        <5> HIDE DEF Baseline
        <5> QED
          BY <2>1, <5>1, FS_Subset
      <4> HIDE DEF Baseline
      <4> QED
        BY <2>1, <2>2, <2>4, <4>1, RowsOK, EveryRupeeIsPlaced
    <3>3. IsFiniteSet(E) /\ l \notin E
      <4>1. E \in SUBSET Lines
        BY DEF Result, Reported, Done
      <4>2. l \notin E
        BY <2>4, MatchedIsNotExcepted
      <4> HIDE DEF E
      <4> QED
        BY <2>1, <4>1, <4>2, FS_Subset
    <3> HIDE DEF Was, Now, a, b, E
    <3>4. Was(truth, l).metrics.substantiated.n = a /\ Now(truth).metrics.substantiated.n = b
      BY <3>1 DEF Amount
    <3>5. SumOf([c \in Compare(Was(truth, l), Now(truth)).codes |-> c[3] - c[2]]) = -1
      BY <3>1, <3>3, CodesTell
    <3>6. a = 0 /\ b # 0 => "substantiated" \in Compare(Was(truth, l), Now(truth)).findings
      <4>1. "substantiated" \in MetricNames
        BY DEF MetricNames, MagnitudeMetrics
      <4> QED
        BY <3>1, <3>2, <4>1, CreditIsFound
    <3> QED
      BY <3>4, <3>5, <3>6
  <2> QED
    BY <2>3, <2>4, Zenon DEF DriftTellsWhatChanged
<1> QED
  BY <1>1, LoopInvariance, PTL

----------------------------------------------------------------------------
\* The listings of a finished run: pages first, then what they are pages of.

\* Where the pages end.
LEMMA PagesCover ==
    ASSUME NEW total \in Nat, NEW size \in Nat \ {0}
    PROVE  /\ PageCount(total, size) \in Nat \ {0}
           /\ total <= PageCount(total, size) * size
           /\ \A i \in 1..PageCount(total, size) : (i - 1) * size \in Nat /\ (i - 1) * size <= total
<1> DEFINE n == PageCount(total, size)
           q == (total + size - 1) \div size
<1>1. q \in Nat /\ q * size <= total + size - 1 /\ total + size - 1 < q * size + size
  BY Division, total + size - 1 \in Nat
<1>2. n = IF 1 <= q THEN q ELSE 1
  BY <1>1, OfTwo DEF PageCount
<1> HIDE DEF q, n
<1>3. n \in Nat \ {0} /\ n - 1 \in Nat /\ q <= n
  BY <1>1, <1>2
<1>4. q * size \in Nat /\ q * size <= n * size /\ (n - 1 + 1) * size = (n - 1) * size + size
      /\ (n - 1) * size \in Nat
  <2>1. q * size \in Nat /\ q * size <= n * size
    BY <1>1, <1>3, Times
  <2>2. (n - 1) * size \in Nat /\ (n - 1 + 1) * size = (n - 1) * size + size
    BY <1>3, Times
  <2> QED
    BY <2>1, <2>2
<1>5. total <= n * size
  <2>1. n * size \in Nat
    BY <1>3, Times
  <2> QED
    BY <1>1, <1>4, <2>1
<1>6. (n - 1) * size <= total
  <2>1. CASE n = 1
    BY <2>1
  <2>2. CASE n # 1
    <3>1. n = q /\ n - 1 + 1 = n
      BY <1>1, <1>2, <2>2
    <3> QED
      BY <1>1, <1>4, <3>1
  <2> QED
    BY <2>1, <2>2
<1>7. ASSUME NEW i \in 1..n PROVE (i - 1) * size \in Nat /\ (i - 1) * size <= total
  <2>1. i - 1 \in Nat /\ i - 1 <= n - 1
    BY <1>3
  <2>2. (i - 1) * size \in Nat /\ (i - 1) * size <= (n - 1) * size
    BY <1>3, <2>1, Times
  <2> QED
    BY <1>4, <1>6, <2>2
<1> QED
  BY <1>3, <1>5, <1>7 DEF n

\* One page of a sequence: from past the end of the page before to its own.
LEMMA PageIs ==
    ASSUME NEW T, NEW all \in Seq(T), NEW page \in Nat \ {0}, NEW size \in Nat \ {0}
    PROVE  LET end == IF page * size <= Len(all) THEN page * size ELSE Len(all)
           IN  Page(all, page, size) =
                 [items |-> SubSeq(all, (page - 1) * size + 1, end), total |-> Len(all)]
<1>1. Max({1, page}) = page /\ Max({1, size}) = size
  BY OfTwo
<1>2. page * size \in Int /\ Len(all) \in Int
  BY Times, LenProperties
<1>3. Min({page * size, Len(all)}) = IF page * size <= Len(all) THEN page * size ELSE Len(all)
  BY <1>2, OfTwo
<1> QED
  BY <1>1, <1>3, Zenon DEF Page

\* The pages the console offers, joined, are the listing.
LEMMA PagesAreTheWhole ==
    ASSUME NEW T, NEW all \in Seq(T), NEW size \in Nat \ {0},
           NEW pages, pages = [p \in 1..PageCount(Len(all), size) |-> Page(all, p, size).items]
    PROVE  FlattenSeq(pages) = all
<1> DEFINE total == Len(all)
           n == PageCount(total, size)
           end(i) == IF i * size <= total THEN i * size ELSE total
           to == [i \in 0..n |-> end(i)]
<1>1. total \in Nat
  BY LenProperties
<1>2. /\ n \in Nat \ {0} /\ total <= n * size
      /\ \A i \in 1..n : (i - 1) * size \in Nat /\ (i - 1) * size <= total
  BY <1>1, PagesCover
<1> HIDE DEF n, total
<1>3. ASSUME NEW i \in 1..n
      PROVE  /\ i - 1 \in 0..n /\ i \in 0..n /\ i * size \in Nat /\ (i - 1) * size <= i * size
             /\ pages[i] = SubSeq(all, (i - 1) * size + 1, end(i))
  <2>1. i - 1 \in Nat /\ i \in Nat \ {0} /\ i - 1 <= i /\ i - 1 \in 0..n /\ i \in 0..n
    BY <1>2
  <2>2. i * size \in Nat /\ (i - 1) * size <= i * size
    BY <2>1, Times
  <2>3. Page(all, i, size).items = SubSeq(all, (i - 1) * size + 1, end(i))
    <3> DEFINE piece == SubSeq(all, (i - 1) * size + 1, end(i))
    <3>1. Page(all, i, size) = [items |-> piece, total |-> total]
      BY <2>1, PageIs, Zenon DEF total
    <3>2. Page(all, i, size).items = piece
      <4> HIDE DEF piece
      <4> QED
        BY <3>1
    <3> QED
      BY <3>2
  <2>4. pages[i] = Page(all, i, size).items
    BY DEF n, total
  <2> QED
    BY <2>1, <2>2, <2>3, <2>4
<1>4. ASSUME NEW i \in 1..n PROVE to[i - 1] = (i - 1) * size /\ to[i] = end(i)
  <2>1. i - 1 \in 0..n /\ i \in 0..n /\ (i - 1) * size <= total
    BY <1>2, <1>3
  <2> QED
    BY <2>1
<1>5. ASSUME NEW i \in 1..n PROVE to[i - 1] <= to[i]
  BY <1>1, <1>2, <1>3, <1>4
<1>6. to[0] = 0 /\ to[n] = total
  <2>1. 0 * size = 0 /\ 0 \in 0..n /\ n \in 0..n /\ n \in 1..n
    BY <1>2
  <2>2. n * size = total \/ ~(n * size <= total)
    BY <1>1, <1>2, <1>3, <2>1
  <2> QED
    BY <1>1, <2>1, <2>2
<1>7. to \in [0..n -> 0..total]
  <2>1. ASSUME NEW i \in 0..n PROVE end(i) \in 0..total
    <3>1. i * size \in Nat
      BY Times, <1>2
    <3> QED
      BY <1>1, <3>1
  <2> QED
    BY <2>1
<1>8. \A i \in 1..n : pages[i] = SubSeq(all, to[i - 1] + 1, to[i])
  BY <1>3, <1>4
<1>9. DOMAIN pages = 1..n /\ pages = [i \in 1..n |-> pages[i]]
  BY DEF n, total
<1> HIDE DEF to
<1> QED
  BY <1>2, <1>5, <1>6, <1>7, <1>8, <1>9, PiecesInARow DEF total

\* A set listed by id: each of its elements is on one page.
LEMMA ListedOnce ==
    ASSUME NEW S, IsFiniteSet(S)
    PROVE  /\ ById(S) \in Seq(S)
           /\ Len(ById(S)) = Cardinality(S)
           /\ Items(ById(S)) = S
<1>1. ById(S) = PutInOrder(S)
  BY DEF ById, PutInOrder
<1>2. InOrder(ById(S), S)
  BY <1>1, OrderIsOfTheSet
<1>3. Items(ById(S)) = S
  <2> DEFINE seq == ById(S)
  <2>1. seq \in Seq(S) /\ DOMAIN seq = 1..Len(seq) /\ \A i \in 1..Len(seq) : seq[i] \in S
    BY <1>2, LenProperties, ElementOfSeq DEF InOrder
  <2>2. \A x \in S : \E i \in 1..Len(seq) : seq[i] = x
    BY <1>2 DEF InOrder
  <2> HIDE DEF seq
  <2>3. Items(seq) = S
    BY <2>1, <2>2 DEF Items
  <2> QED
    BY <2>3 DEF seq
<1> QED
  BY <1>2, <1>3 DEF InOrder

\* So is a sequence each of whose rows is shown in a form of its own.
PagesShown(ids, size, Show) ==
    [p \in 1..PageCount(Len(ids), size) |->
        LET items == Page(ids, p, size).items IN [i \in DOMAIN items |-> Show[items[i]]]]

LEMMA ShownPages ==
    ASSUME NEW T, NEW ids \in Seq(T), NEW size \in Nat \ {0}, NEW Show
    PROVE  FlattenSeq(PagesShown(ids, size, Show)) = [i \in 1..Len(ids) |-> Show[ids[i]]]
<1> DEFINE pages == PagesShown(ids, size, Show)
           all == [i \in 1..Len(ids) |-> Show[ids[i]]]
           U == {Show[x] : x \in T}
           n == PageCount(Len(ids), size)
<1>1. Len(ids) \in Nat /\ \A i \in 1..Len(ids) : ids[i] \in T
  BY LenProperties, ElementOfSeq
<1>2. all \in Seq(U) /\ Len(all) = Len(ids)
  BY <1>1
<1>3. n \in Nat \ {0}
  BY <1>1, PagesCover
<1>4. ASSUME NEW p \in 1..n
      PROVE  LET items == Page(ids, p, size).items
             IN  [i \in DOMAIN items |-> Show[items[i]]] = Page(all, p, size).items
  <2> DEFINE end == IF p * size <= Len(ids) THEN p * size ELSE Len(ids)
             from == (p - 1) * size + 1
             items == SubSeq(ids, from, end)
             shown == SubSeq(all, from, end)
  <2>1. p \in Nat \ {0}
    BY <1>3
  <2>2. Page(ids, p, size) = [items |-> items, total |-> Len(ids)]
    BY <2>1, PageIs, Zenon
  <2>3. Page(all, p, size) = [items |-> shown, total |-> Len(all)]
    <3> HIDE DEF all
    <3>1. Page(all, p, size) =
            [items |-> SubSeq(all, from, IF p * size <= Len(all) THEN p * size ELSE Len(all)),
             total |-> Len(all)]
      BY <1>2, <2>1, PageIs, Zenon
    <3> QED
      BY <1>2, <3>1
  <2>4. from \in Nat \ {0} /\ end \in Nat /\ end <= Len(ids)
    <3>1. (p - 1) * size \in Nat /\ p * size \in Nat
      BY <2>1, Times, p - 1 \in Nat
    <3> QED
      BY <1>1, <3>1
  <2> HIDE DEF from, end
  <2>5. \A i \in from..end : i \in 1..Len(ids) /\ ids[i] \in T /\ all[i] \in U /\ all[i] = Show[ids[i]]
    BY <1>1, <2>4
  <2>6. /\ items \in Seq(T) /\ Len(items) = (IF from <= end THEN end - from + 1 ELSE 0)
        /\ \A i \in 1..end - from + 1 : items[i] = ids[from + i - 1]
    BY <2>4, <2>5, SubSeqProperties
  <2>7. /\ shown \in Seq(U) /\ Len(shown) = (IF from <= end THEN end - from + 1 ELSE 0)
        /\ \A i \in 1..end - from + 1 : shown[i] = all[from + i - 1]
    <3> HIDE DEF all, U
    <3> QED
      BY <2>4, <2>5, SubSeqProperties
  <2>8. DOMAIN items = 1..Len(items) /\ DOMAIN shown = 1..Len(items)
    BY <2>6, <2>7, LenProperties
  <2> HIDE DEF all, U, items, shown
  <2>9. ASSUME NEW i \in 1..Len(items) PROVE shown[i] = Show[items[i]]
    <3>1. i \in 1..end - from + 1 /\ from + i - 1 \in from..end
      BY <2>4, <2>6
    <3> QED
      BY <2>5, <2>6, <2>7, <3>1
  <2>10. shown = [i \in 1..Len(items) |-> shown[i]]
    BY <2>7, <2>8
  <2>11. shown = [i \in DOMAIN items |-> Show[items[i]]]
    BY <2>8, <2>9, <2>10
  <2> QED
    BY <2>2, <2>3, <2>11
<1>5. pages = [p \in 1..PageCount(Len(all), size) |-> Page(all, p, size).items]
  <2> HIDE DEF all
  <2> QED
    BY <1>2, <1>4 DEF PagesShown
<1> HIDE DEF all, U, pages
<1>6. FlattenSeq(pages) = all
  BY <1>2, <1>5, PagesAreTheWhole
<1> QED
  BY <1>6 DEF all, pages

\* The rest of a sequence from a page on, which is that page and the rest from
\* the next one, until there are as many as the total.
RestFrom(all, p, size) == SubSeq(all, (p - 1) * size + 1, Len(all))

LEMMA NextPage ==
    ASSUME NEW T, NEW all \in Seq(T), NEW p \in Nat \ {0}, NEW size \in Nat \ {0}
    PROVE  LET chunk == Page(all, p, size)
               last == p * size >= chunk.total \/ chunk.items = <<>>
           IN  /\ last => chunk.items = RestFrom(all, p, size)
               /\ ~last => /\ p + 1 \in 1..Len(all)
                           /\ chunk.items \o RestFrom(all, p + 1, size) = RestFrom(all, p, size)
<1> DEFINE total == Len(all)
           Rest(q) == SubSeq(all, (q - 1) * size + 1, total)
           chunk == Page(all, p, size)
<1>1. total \in Nat
  BY LenProperties
<1>2. ASSUME p * size >= total PROVE chunk = [items |-> Rest(p), total |-> total]
  <2>1. p * size \in Nat
    BY Times
  <2> DEFINE end == IF p * size <= total THEN p * size ELSE total
  <2>2. Page(all, p, size) = [items |-> SubSeq(all, (p - 1) * size + 1, end), total |-> total]
    BY PageIs, Zenon
  <2>3. end = total
    BY <1>1, <1>2, <2>1
  <2> HIDE DEF end
  <2> QED
    BY <2>2, <2>3
<1>3. ASSUME p * size < total
      PROVE  /\ p + 1 \in 1..total
             /\ chunk.total = total /\ chunk.items # <<>>
             /\ chunk.items \o Rest(p + 1) = Rest(p)
  <2>1. p - 1 \in Nat /\ p * size \in Nat /\ (p - 1) * size \in Nat
        /\ (p - 1) * size + size = p * size
    <3>1. p - 1 \in Nat /\ p - 1 + 1 = p
      OBVIOUS
    <3>2. p * size \in Nat /\ (p - 1) * size \in Nat /\ (p - 1 + 1) * size = (p - 1) * size + size
      BY <3>1, Times
    <3> QED
      BY <3>1, <3>2
  <2>2. p + 1 \in 1..total
    <3>1. p * 1 <= p * size
      BY <2>1
    <3> QED
      BY <1>1, <1>3, <2>1, <3>1
  <2> DEFINE from == (p - 1) * size + 1
             end == p * size
             piece == SubSeq(all, from, end)
  <2>3. Page(all, p, size) = [items |-> piece, total |-> total]
    <3> DEFINE e == IF p * size <= total THEN p * size ELSE total
    <3>1. Page(all, p, size) = [items |-> SubSeq(all, from, e), total |-> total]
      BY PageIs, Zenon
    <3>2. e = end
      BY <1>1, <1>3, <2>1
    <3> HIDE DEF e
    <3> QED
      BY <3>1, <3>2
  <2>4. from \in 1..total + 1 /\ end \in from - 1..total /\ from <= end
    BY <1>1, <1>3, <2>1
  <2>5. Rest(p + 1) = SubSeq(all, end + 1, total) /\ Rest(p) = SubSeq(all, from, total)
    <3>1. p + 1 - 1 = p
      OBVIOUS
    <3> QED
      BY <3>1
  <2> HIDE DEF from, end, Rest
  <2>6. piece \o SubSeq(all, end + 1, total) = SubSeq(all, from, total)
    <3>1. total \in end..total
      BY <1>1, <2>4
    <3> QED
      BY <2>4, <3>1, ConcatAdjacentSubSeq
  <2>7. piece # <<>>
    <3>1. \A i \in from..end : all[i] \in T
      BY <1>1, <2>4, ElementOfSeq
    <3>2. Len(piece) = end - from + 1
      BY <1>1, <2>4, <3>1, SubSeqProperties
    <3> QED
      BY <1>1, <2>4, <3>2, EmptySeq
  <2>8. chunk.items = piece /\ chunk.total = total
    <3> HIDE DEF piece
    <3> QED
      BY <2>3
  <2> HIDE DEF piece, chunk
  <2> QED
    BY <2>2, <2>5, <2>6, <2>7, <2>8 DEF piece
<1>4. p * size \in Nat
  BY Times
<1>5. Rest(p) = RestFrom(all, p, size) /\ Rest(p + 1) = RestFrom(all, p + 1, size)
  BY Zenon DEF RestFrom
<1>6. CASE p * size >= total
  <2> HIDE DEF Rest, total, chunk
  <2>1. chunk.items = Rest(p) /\ chunk.total = total
    BY <1>2, <1>6
  <2> QED
    BY <1>5, <1>6, <2>1 DEF chunk
<1>7. CASE ~(p * size >= total)
  <2> HIDE DEF Rest, chunk
  <2>1. p * size < total
    <3> HIDE DEF total
    <3> QED
      BY <1>1, <1>4, <1>7
  <2>2. ~(p * size >= chunk.total \/ chunk.items = <<>>)
    <3> HIDE DEF total
    <3> QED
      BY <1>3, <1>7, <2>1
  <2> QED
    BY <1>3, <1>5, <2>1, <2>2 DEF chunk
<1> QED
  BY <1>6, <1>7

\* Page after page until there are as many as the total.
Rereads(h, all, size, c) ==
    h = [page \in 1..c + 1 |->
           LET chunk == Page(all, page, size)
           IN  IF page * size >= chunk.total \/ chunk.items = <<>> THEN chunk.items
               ELSE chunk.items \o h[page + 1]]

\* There is such a reading.
LEMMA RestExists ==
    ASSUME NEW T, NEW all \in Seq(T), NEW size \in Nat \ {0}, NEW c \in Nat, Len(all) <= c
    PROVE  \E h : Rereads(h, all, size, c)
<1> DEFINE h == [page \in 1..c + 1 |-> RestFrom(all, page, size)]
           Step(page) == LET chunk == Page(all, page, size)
                         IN  IF page * size >= chunk.total \/ chunk.items = <<>> THEN chunk.items
                             ELSE chunk.items \o h[page + 1]
<1>1. Len(all) \in Nat
  BY LenProperties
<1>2. ASSUME NEW page \in 1..c + 1 PROVE RestFrom(all, page, size) = Step(page)
  <2> DEFINE chunk == Page(all, page, size)
             last == page * size >= chunk.total \/ chunk.items = <<>>
  <2>1. page \in Nat \ {0}
    OBVIOUS
  <2>2. /\ last => chunk.items = RestFrom(all, page, size)
        /\ ~last => /\ page + 1 \in 1..Len(all)
                    /\ chunk.items \o RestFrom(all, page + 1, size) = RestFrom(all, page, size)
    BY <2>1, NextPage, Zenon
  <2>3. Step(page) = IF last THEN chunk.items ELSE chunk.items \o h[page + 1]
    OBVIOUS
  <2> HIDE DEF Step, last, chunk
  <2>4. CASE last
    BY <2>2, <2>3, <2>4
  <2>5. CASE ~last
    <3>1. page + 1 \in 1..c + 1
      BY <1>1, <2>2, <2>5
    <3>2. h[page + 1] = RestFrom(all, page + 1, size)
      BY <3>1
    <3> QED
      BY <2>2, <2>3, <2>5, <3>2
  <2> QED
    BY <2>4, <2>5
<1>3. h = [page \in 1..c + 1 |-> Step(page)]
  <2> HIDE DEF Step
  <2> QED
    BY <1>2
<1>4. Rereads(h, all, size, c)
  <2> HIDE DEF h
  <2> QED
    BY <1>3, Zenon DEF Rereads
<1> QED
  BY <1>4, Zenon

\* It reads the whole.
LEMMA RestOfPages ==
    ASSUME NEW T, NEW all \in Seq(T), NEW size \in Nat \ {0}, NEW c \in Nat, Len(all) <= c,
           NEW h, Rereads(h, all, size, c)
    PROVE  h[1] = all
<1> DEFINE Bad == {p \in 1..c + 1 : h[p] # RestFrom(all, p, size)}
<1>1. Len(all) \in Nat
  BY LenProperties
<1>2. ASSUME NEW p \in Bad PROVE p + 1 \in Bad
  <2> DEFINE chunk == Page(all, p, size)
             last == p * size >= chunk.total \/ chunk.items = <<>>
  <2>1. p \in Nat \ {0} /\ p \in 1..c + 1
    OBVIOUS
  <2>2. /\ last => chunk.items = RestFrom(all, p, size)
        /\ ~last => /\ p + 1 \in 1..Len(all)
                    /\ chunk.items \o RestFrom(all, p + 1, size) = RestFrom(all, p, size)
    BY <2>1, NextPage, Zenon
  <2>3. h[p] = IF last THEN chunk.items ELSE chunk.items \o h[p + 1]
    BY <2>1 DEF Rereads
  <2>4. h[p] # RestFrom(all, p, size)
    OBVIOUS
  <2> HIDE DEF last, chunk
  <2>5. ~last /\ h[p + 1] # RestFrom(all, p + 1, size) /\ p + 1 \in 1..Len(all)
    BY <2>2, <2>3, <2>4
  <2> QED
    BY <1>1, <2>5
<1>3. Bad = {}
  <2> SUFFICES ASSUME Bad # {} PROVE FALSE
    OBVIOUS
  <2> DEFINE Down == {c + 1 - p : p \in Bad}
  <2>1. Down \in SUBSET (0..c) /\ Down # {}
    <3>1. \A p \in Bad : p \in 1..c + 1
      OBVIOUS
    <3> HIDE DEF Bad
    <3>2. \A p \in Bad : c + 1 - p \in 0..c
      BY <3>1
    <3> QED
      BY <3>2
  <2>2. Down \subseteq Int /\ IsFiniteSet(Down)
    <3> HIDE DEF Down
    <3>1. 0 \in Int /\ c \in Int
      OBVIOUS
    <3>2. IsFiniteSet(0..c)
      BY <3>1, FS_Interval
    <3>3. IsFiniteSet(Down)
      BY <2>1, <3>2, FS_Subset
    <3>4. Down \subseteq Int
      BY <2>1
    <3> QED
      BY <3>3, <3>4
  <2>3. PICK d \in Down : \A e \in Down : d <= e
    <3> HIDE DEF Down
    <3> QED
      BY <2>1, <2>2, LeastElement
  <2>4. PICK p \in Bad : d = c + 1 - p
    BY <2>3
  <2>5. p \in 1..c + 1
    OBVIOUS
  <2> HIDE DEF Bad
  <2>6. c + 1 - (p + 1) \in Down
    BY <1>2, <2>4
  <2> HIDE DEF Down
  <2>7. d <= c + 1 - (p + 1)
    BY <2>3, <2>6
  <2> QED
    BY <2>4, <2>5, <2>7
<1>4. h[1] = RestFrom(all, 1, size)
  <2>1. 1 \in 1..c + 1
    OBVIOUS
  <2> QED
    BY <1>3, <2>1
<1>5. (1 - 1) * size + 1 = 1
  OBVIOUS
<1> QED
  BY <1>4, <1>5, SubSeqFull DEF RestFrom

\* Once the matcher's result is in, the PSP rows under exception are the copies,
\* the rows of no settlement, and payments without an order.
OpenRows ==
    pass # "waiting" =>
        \E u \in SUBSET Anonymous :
            open \intersect Txns = (Txns \ Kept(psp)) \union Unsettled \union u

\* No step of either half touches them.
LEMMA OpenRowsStep == LoopInv /\ OpenRows /\ [LoopNext]_allVars => OpenRows'
<1> SUFFICES ASSUME LoopInv, OpenRows, [LoopNext]_allVars PROVE OpenRows'
  OBVIOUS
<1>1. ASSUME psp' = psp, open' \intersect Txns = open \intersect Txns,
             pass = "waiting" => pass' = "waiting"
      PROVE  OpenRows'
  BY <1>1 DEF OpenRows, Anonymous, Unsettled, Kept
<1>2. CASE EngineStep
  BY <1>1, <1>2 DEF EngineStep, loopVars
<1>3. CASE SkipPass \/ StartPass
  <2>1. PICK u \in SUBSET Anonymous :
          open' = {l \in Lines : reason[l] # None}
                  \union (Txns \ Kept(psp)) \union Unsettled \union u
    BY <1>3 DEF SkipPass, StartPass, Residue
  <2>2. psp' = psp
    BY <1>3 DEF SkipPass, StartPass, Residue
  <2>3. open' \intersect Txns = (Txns \ Kept(psp)) \union Unsettled \union u
    BY <2>1, LoopAssumption DEF Unsettled, Anonymous, Kept
  <2> QED
    BY <2>2, <2>3 DEF OpenRows, Anonymous, Unsettled, Kept
<1>4. CASE Retry \/ Answer \/ Fail
  BY <1>1, <1>4 DEF Retry, Answer, Fail, Call
<1>5. ASSUME NEW h \in Hypotheses, Accept(h) PROVE OpenRows'
  <2>1. h.line \in Lines /\ open' = open \ {h.line} /\ psp' = psp /\ pass' = pass
    BY <1>5, Passed DEF Accept, Consider
  <2>2. open' \intersect Txns = open \intersect Txns
    BY <2>1, LoopAssumption
  <2> QED
    BY <1>1, <2>1, <2>2
<1>6. ASSUME NEW h \in Hypotheses, Reject(h) PROVE OpenRows'
  BY <1>1, <1>6 DEF Reject, Consider
<1>7. CASE Merge \/ Merged \/ UNCHANGED allVars
  BY <1>1, <1>7 DEF Merge, Merged, allVars, loopVars
<1> QED
  BY <1>2, <1>3, <1>4, <1>5, <1>6, <1>7 DEF LoopNext

LEMMA OpenRowsInvariance == LoopSpec => [](LoopInv /\ OpenRows)
<1>1. LoopInit => LoopInv /\ OpenRows
  BY LoopInitInv DEF LoopInit, OpenRows
<1>2. LoopInv /\ OpenRows /\ [LoopNext]_allVars => (LoopInv /\ OpenRows)'
  BY LoopNextInv, OpenRowsStep
<1> QED
  BY <1>1, <1>2, PTL DEF LoopSpec

----------------------------------------------------------------------------
\* The rows of a settlement.

\* Of the rows of a settlement that repeat an event the first issued is kept, so
\* the verifier and the tiers see the same settlements.
LEMMA SettlementKeepsARow ==
    ASSUME NEW s, s # None, AllLegs(s) # {}
    PROVE  Batch(psp, s) # {}
<1>1. PICK t \in Txns : psp.settlement[t] = s
  BY DEF AllLegs, R!LegsAmong
<1>2. CASE t \in Kept(psp)
  BY <1>1, <1>2 DEF Batch, R!LegsAmong
<1>3. CASE t \notin Kept(psp)
  <2>1. PICK g \in R!Groups(psp) : t \in R!Spurious(psp, g)
    BY <1>1, <1>3 DEF Kept, R!SuppressedTxns
  <2> DEFINE rows == R!RowsIn(psp, g, s)
             first == R!Min(rows)
  <2>2. t \in rows
    BY <1>1, <2>1 DEF R!Spurious, R!BatchCopies, R!LooseCopies, R!RowsIn
  <2>3. rows \subseteq Txns
    BY DEF R!RowsIn, R!Groups
  <2>4. first \in rows
    <3>1. rows \subseteq Int /\ IsFiniteSet(rows)
      <4> HIDE DEF rows
      <4>1. IsFiniteSet(rows)
        BY <2>3, GradesAssumption, FS_Subset
      <4>2. rows \subseteq Int
        BY <2>3, LoopAssumption
      <4> QED
        BY <4>1, <4>2
    <3> HIDE DEF rows
    <3>2. PICK m \in rows : \A x \in rows : m <= x
      BY <2>2, <3>1, LeastElement
    <3> QED
      BY <3>2 DEF R!Min
  <2>5. first \in Txns /\ first \in g /\ psp.settlement[first] = s
    BY <2>3, <2>4 DEF R!RowsIn
  <2>6. ASSUME NEW h \in R!Groups(psp), first \in R!Spurious(psp, h) PROVE FALSE
    <3> HIDE DEF first
    <3>1. first \in h
      BY <2>6 DEF R!Spurious, R!BatchCopies, R!LooseCopies, R!RowsIn
    <3>2. h = g
      <4>1. PICK x \in Txns : g = {u \in Txns : R!Named(psp, u) /\ R!Event(psp, u) = R!Event(psp, x)}
        BY DEF R!Groups
      <4>2. PICK y \in Txns : h = {u \in Txns : R!Named(psp, u) /\ R!Event(psp, u) = R!Event(psp, y)}
        BY DEF R!Groups
      <4>3. R!Event(psp, x) = R!Event(psp, y)
        BY <2>5, <3>1, <4>1, <4>2
      <4> QED
        BY <4>1, <4>2, <4>3
    <3>3. first \notin R!LooseCopies(psp, g)
      BY <2>5 DEF R!LooseCopies, R!RowsIn
    <3>4. PICK u \in {psp.settlement[x] : x \in g} \ {None} :
            first \in R!RowsIn(psp, g, u) \ {R!Min(R!RowsIn(psp, g, u))}
      BY <2>6, <3>2, <3>3 DEF R!Spurious, R!BatchCopies
    <3>5. u = s
      BY <2>5, <3>4 DEF R!RowsIn
    <3> QED
      BY <3>4, <3>5 DEF first
  <2>7. first \in Kept(psp)
    BY <2>5, <2>6 DEF Kept, R!SuppressedTxns
  <2> QED
    BY <2>5, <2>7 DEF Batch, R!LegsAmong
<1> QED
  BY <1>2, <1>3

\* Rows come to an amount.
LEMMA ReconstructIsInt ==
    ASSUME LoopInv, NEW legs \in SUBSET Txns
    PROVE  /\ IsFiniteSet(legs) /\ \A t \in legs : psp.amount[t] \in Int
           /\ R!Reconstruct(psp, legs) \in Int
           /\ R!Reconstruct(psp, legs) = Total([t \in legs |-> psp.amount[t]], legs)
<1>1. IsFiniteSet(legs)
  BY GradesAssumption, FS_Subset
<1>2. \A t \in Txns : psp.amount[t] \in Int
  BY CasesAssumption DEF LoopInv, InputInv, R!Report
<1> DEFINE v == [t \in legs |-> psp.amount[t]]
<1>3. \A t \in legs : v[t] \in Int /\ psp.amount[t] \in Int
  BY <1>2
<1>4. R!Reconstruct(psp, legs) = Total(v, legs)
  BY <1>1, ReconstructIsTotal
<1> HIDE DEF v
<1>5. Total(v, legs) \in Int
  BY <1>1, <1>3, TotalInt
<1> QED
  BY <1>1, <1>3, <1>4, <1>5 DEF v

\* What the file the tiers read says of a settlement of the report.
LEMMA FileIsOfReport ==
    ASSUME LoopInv
    PROVE  /\ file.known = {s \in Settlements : Batch(psp, s) # {}}
           /\ \A s \in Settlements :
                /\ s # None
                /\ file.net[s] = R!Reconstruct(psp, Batch(psp, s)) /\ file.net[s] \in Int
                /\ file.payLegs[s] = R!PaymentLegs(psp, Batch(psp, s))
           /\ file.credit \in [Lines -> Int \union {None}]
<1>1. PICK c \in Cases : psp = c.psp /\ file = FileOf(c)
  BY DEF LoopInv, InputInv
<1>2. /\ file.known = {s \in Settlements : Batch(psp, s) # {}}
      /\ \A s \in Settlements :
           /\ file.net[s] = R!Reconstruct(psp, Batch(psp, s))
           /\ file.payLegs[s] = R!PaymentLegs(psp, Batch(psp, s))
  BY <1>1 DEF FileOf
<1>3. file \in FileType /\ None \notin Settlements
  BY FilesAssumption DEF LoopInv, Inv, TypeOK
<1> QED
  BY <1>2, <1>3 DEF FileType

\* Every settlement a row names is one the tiers knew.
LEMMA ListedIsKnown ==
    ASSUME LoopInv
    PROVE  Listed = file.known
<1>1. \A s \in Settlements : Batch(psp, s) # {} <=> AllLegs(s) # {}
  BY SettlementKeepsARow, BatchAmongAll, FileIsOfReport
<1> QED
  BY <1>1, FileIsOfReport DEF Listed

\* A match of a tier holds what the pool kept of its settlement, a match of the
\* analyst every row of it; a line without a match holds none.
LEMMA MatchHolds ==
    ASSUME LoopInv, NEW l \in Lines
    PROVE  /\ Closed[l] = None => MatchedLegs(l) = {} /\ matchOf[l] = None /\ llmLegs[l] = {}
           /\ Closed[l] # None =>
                /\ Closed[l] \in Settlements /\ Closed[l] \in Listed
                /\ \/ /\ llmLegs[l] = {} /\ matchOf[l] = Closed[l]
                      /\ MatchedLegs(l) = Batch(psp, Closed[l])
                   \/ /\ llmLegs[l] # {} /\ matchOf[l] = None
                      /\ MatchedLegs(l) = llmLegs[l] /\ llmLegs[l] = AllLegs(Closed[l])
                /\ Batch(psp, Closed[l]) # {} /\ Batch(psp, Closed[l]) \subseteq MatchedLegs(l)
                /\ MatchedLegs(l) \subseteq AllLegs(Closed[l])
<1>1. CASE llmLegs[l] = {}
  <2>1. Closed[l] = matchOf[l]
    BY <1>1 DEF Closed
  <2>2. CASE matchOf[l] = None
    BY <1>1, <2>1, <2>2 DEF MatchedLegs
  <2>3. CASE matchOf[l] # None
    <3>1. matchOf[l] \in file.known /\ MatchedLegs(l) = Batch(psp, matchOf[l])
      BY <2>3 DEF LoopInv, KnownInv, MatchedLegs
    <3>2. matchOf[l] \in Settlements /\ Batch(psp, matchOf[l]) # {}
      BY <3>1, FileIsOfReport
    <3> QED
      BY <1>1, <2>1, <2>3, <3>1, <3>2, ListedIsKnown, BatchAmongAll
  <2> QED
    BY <2>2, <2>3
<1>2. CASE llmLegs[l] # {}
  <2>1. PICK s \in Settlements : llmLegs[l] = AllLegs(s)
    BY <1>2 DEF LoopInv, AcceptedIsDefensible, AllLegs, R!LegsAmong
  <2>2. SettlementOf(llmLegs[l]) = s
    BY <1>2, <2>1 DEF SettlementOf, AllLegs, R!LegsAmong
  <2>3. Closed[l] = s /\ matchOf[l] = None /\ MatchedLegs(l) = llmLegs[l]
    BY <1>2, <2>2 DEF Closed, LoopInv, OpenInv, MatchedLegs
  <2>4. s # None /\ s \in Listed
    BY <1>2, <2>1, FileIsOfReport DEF Listed
  <2>5. Batch(psp, s) # {} /\ Batch(psp, s) \subseteq AllLegs(s)
    BY <1>2, <2>1, <2>4, SettlementKeepsARow, BatchAmongAll
  <2> QED
    BY <1>2, <2>1, <2>3, <2>4, <2>5
<1> QED
  BY <1>1, <1>2

\* No two lines are matched to one settlement, whichever half matched them.
LEMMA OneMatchEach ==
    ASSUME LoopInv, NEW k \in Lines, NEW l \in Lines, Closed[k] = Closed[l], Closed[k] # None
    PROVE  k = l
<1>1. /\ Batch(psp, Closed[l]) # {} /\ Batch(psp, Closed[l]) \subseteq MatchedLegs(l)
      /\ Batch(psp, Closed[l]) \subseteq MatchedLegs(k)
  BY MatchHolds
<1> QED
  BY <1>1 DEF LoopInv, LegsClaimedOnce

\* The match a settlement shows is its only one.
LEMMA FirstIsTheOnly ==
    ASSUME LoopInv, NEW s, s # None
    PROVE  /\ MatchesOf(s) # {} =>
                FirstMatch(s) \in Lines /\ Closed[FirstMatch(s)] = s /\ MatchesOf(s) = {FirstMatch(s)}
           /\ \A l \in Lines : Closed[l] = s => MatchesOf(s) # {} /\ FirstMatch(s) = l
<1>1. MatchesOf(s) # {} => FirstMatch(s) \in MatchesOf(s)
  BY DEF FirstMatch
<1> QED
  BY <1>1, OneMatchEach DEF MatchesOf

----------------------------------------------------------------------------
\* The settlement screen.

\* A row of the settlement screen shows what the run judged.
LEMMA RowsAreHonest ==
    ASSUME LoopInv, NEW s \in Listed
    PROVE  Row(s).settlement = s /\ RowIsHonest(Row(s))
<1>0. s \in Settlements /\ s # None
  BY FileIsOfReport DEF Listed
<1>1. ActiveLegs(s) = Batch(psp, s)
  BY DEF ActiveLegs, SuppressedIn, AllLegs, Batch, Kept, R!LegsAmong
<1>2. /\ file.net[s] = R!Reconstruct(psp, Batch(psp, s)) /\ file.net[s] \in Int
      /\ file.payLegs[s] = R!PaymentLegs(psp, Batch(psp, s))
  BY <1>0, FileIsOfReport
<1>3. CASE MatchesOf(s) = {}
  <2>1. Row(s) = [settlement |-> s, line |-> None, net |-> file.net[s], parts |-> file.net[s],
                  payLegs |-> file.payLegs[s]]
    BY <1>1, <1>2, <1>3, Zenon DEF Row, Unmatched
  <2>2. BatchNetting(s) = None
    BY <1>3 DEF BatchNetting
  <2>3. Abs(file.net[s] - file.net[s]) <= TOLERANCE_PAISE
    BY <1>2 DEF Abs, TOLERANCE_PAISE
  <2> QED
    BY <2>1, <2>2, <2>3 DEF RowIsHonest
<1>4. CASE MatchesOf(s) # {}
  <2> DEFINE l == FirstMatch(s)
             parts == R!Reconstruct(psp, MatchedLegs(l))
             payLegs == R!PaymentLegs(psp, AllLegs(s) \intersect MatchedLegs(l))
  <2>1. l \in Lines /\ l # None /\ Closed[l] = s
    BY <1>0, <1>4, FirstIsTheOnly, ListingAssumption
  <2>2. Row(s) = [settlement |-> s, line |-> l, net |-> file.credit[l], parts |-> parts,
                  payLegs |-> payLegs]
    BY <1>4, Zenon DEF Row, Matched
  <2>3. BatchNetting(s).line = l /\ BatchNetting(s).net = file.credit[l]
    BY <1>4 DEF BatchNetting
  <2>4. CASE llmLegs[l] = {}
    <3>1. matchOf[l] = s /\ MatchedLegs(l) = Batch(psp, s)
      BY <1>0, <2>1, <2>4, MatchHolds
    <3>2. parts = file.net[s]
      BY <1>2, <3>1
    <3>3. payLegs = file.payLegs[s]
      <4>1. AllLegs(s) \intersect MatchedLegs(l) = Batch(psp, s)
        BY <3>1, BatchAmongAll
      <4> QED
        BY <1>2, <4>1
    <3>4. Justified(tierOf[l], l, s)
      BY <1>0, <2>1, <3>1 DEF LoopInv, Inv, MatchesAreJustified
    <3>5. /\ file.credit[l] \in Int /\ Abs(file.credit[l] - file.net[s]) <= TOLERANCE_PAISE
          /\ tierOf[l] # 3 => file.credit[l] = file.net[s]
      <4>1. file.credit[l] \in Int \union {None} /\ tierOf[l] \in Tiers \union {None}
        BY <2>1, FileIsOfReport DEF LoopInv, Inv, TypeOK
      <4> QED
        BY <1>2, <2>1, <3>4, <4>1 DEF Justified, Residual, Abs, TOLERANCE_PAISE
    <3> HIDE DEF l, parts, payLegs
    <3> QED
      BY <2>1, <2>2, <2>3, <2>4, <3>2, <3>3, <3>5 DEF RowIsHonest
  <2>5. CASE llmLegs[l] # {}
    <3>1. MatchedLegs(l) = llmLegs[l]
      BY <1>0, <2>1, <2>5, MatchHolds
    <3>2. parts \in Int
      <4>1. llmLegs[l] \in SUBSET Txns
        BY <2>1 DEF LoopInv, OpenInv
      <4> QED
        BY <3>1, <4>1, ReconstructIsInt
    <3>3. Abs(file.credit[l] - parts) <= TOLERANCE_PAISE
      <4>1. file.credit[l] \in Int /\ Abs(parts - file.credit[l]) <= 100
        BY <2>1, <2>5, <3>1, FileIsOfReport DEF LoopInv, AcceptedIsDefensible
      <4> HIDE DEF parts
      <4> QED
        BY <3>2, <4>1 DEF Abs, TOLERANCE_PAISE
    <3> HIDE DEF l, parts, payLegs
    <3> QED
      BY <2>1, <2>2, <2>3, <2>5, <3>3 DEF RowIsHonest
  <2> QED
    BY <2>4, <2>5
<1> QED
  BY <1>3, <1>4

----------------------------------------------------------------------------
\* What the pages of each listing join to.

MatchRecords ==
    {[line |-> l, settlement |-> Closed[l], legs |-> MatchedLegs(l)] :
        l \in {k \in Lines : Closed[k] # None}}

\* Walking the pages of a set that is listed by id.
LEMMA WalkOfASet ==
    ASSUME NEW S, IsFiniteSet(S), NEW size \in Nat \ {0}
    PROVE  /\ FlattenSeq([page \in 1..PageCount(Page(ById(S), 1, size).total, size) |->
                            Page(ById(S), page, size).items]) = ById(S)
           /\ Page(ById(S), 1, size).total = Cardinality(S)
<1> DEFINE all == ById(S)
           pages == [page \in 1..PageCount(Len(all), size) |-> Page(all, page, size).items]
<1>1. all \in Seq(S) /\ Len(all) = Cardinality(S)
  BY ListedOnce
<1>2. Page(all, 1, size).total = Len(all)
  BY Zenon DEF Page
<1>3. FlattenSeq(pages) = all
  <2> HIDE DEF all
  <2> QED
    BY <1>1, PagesAreTheWhole
<1> QED
  BY <1>1, <1>2, <1>3

\* The match pages.
LEMMA MatchesWalk ==
    ASSUME NEW size \in Nat \ {0}
    PROVE  /\ IsFiniteSet(MatchRecords)
           /\ Walk(LAMBDA p : MatchesPage(p, size), size) = ById(MatchRecords)
<1> DEFINE of == [l \in Lines |-> [line |-> l, settlement |-> Closed[l], legs |-> MatchedLegs(l)]]
           closed == {k \in Lines : Closed[k] # None}
<1>1. IsFiniteSet(closed)
  BY GradesAssumption, FS_Subset
<1>2. MatchRecords = {of[l] : l \in closed}
  BY Zenon DEF MatchRecords
<1>3. IsFiniteSet(MatchRecords)
  <2> HIDE DEF of, closed
  <2> QED
    BY <1>1, <1>2, ImageFinite
<1>4. Walk(LAMBDA p : MatchesPage(p, size), size) =
        FlattenSeq([page \in 1..PageCount(Page(ById(MatchRecords), 1, size).total, size) |->
                      Page(ById(MatchRecords), page, size).items])
  BY Zenon DEF Walk, MatchesPage, MatchRecords
<1> QED
  BY <1>3, <1>4, WalkOfASet

\* The PSP rows.
LEMMA RecordsWalk ==
    ASSUME NEW size \in Nat \ {0}
    PROVE  Walk(LAMBDA p : RecordsPage(p, size), size) = ById(Txns)
<1>1. Walk(LAMBDA p : RecordsPage(p, size), size) =
        FlattenSeq([page \in 1..PageCount(Page(ById(Txns), 1, size).total, size) |->
                      Page(ById(Txns), page, size).items])
  BY Zenon DEF Walk, RecordsPage
<1> QED
  BY <1>1, WalkOfASet, GradesAssumption

\* One exception a subject.
LEMMA ExceptionsOf ==
    ASSUME LoopInv
    PROVE  /\ IsFiniteSet(open) /\ IsFiniteSet(Exceptions)
           /\ Cardinality(Exceptions) = Cardinality(open)
           /\ {e.subject : e \in Exceptions} = open
           /\ \A e \in Exceptions : e.code = ReasonOf(e.subject, SuppressedIn(Txns))
<1>1. IsFiniteSet(open)
  <2>1. IsFiniteSet(Lines \union Txns)
    BY GradesAssumption, FS_Union
  <2>2. open \in SUBSET (Lines \union Txns)
    BY DEF LoopInv, OpenInv, Subjects
  <2> QED
    BY <2>1, <2>2, FS_Subset
<1> DEFINE of == [x \in open |-> [subject |-> x, code |-> ReasonOf(x, SuppressedIn(Txns)),
                                  failed |-> verdict[x]]]
<1>2. Exceptions = {of[x] : x \in open}
  BY Zenon DEF Exceptions
<1>3. \A x \in open : of[x].subject = x /\ of[x].code = ReasonOf(x, SuppressedIn(Txns))
  OBVIOUS
<1> HIDE DEF of
<1>4. of = [x \in open |-> of[x]]
  BY DEF of
<1>5. of \in Surjection(open, Exceptions) /\ of \in Injection(open, Exceptions)
  <2>1. of \in [open -> Exceptions]
    BY <1>2, <1>4
  <2> QED
    BY <1>2, <1>3, <2>1 DEF Surjection, Injection, IsInjective
<1>6. IsFiniteSet(Exceptions) /\ Cardinality(Exceptions) = Cardinality(open)
  BY <1>1, <1>5, FS_Surjection
<1> QED
  BY <1>1, <1>2, <1>3, <1>6

\* The exceptions of every code.
LEMMA ExceptionsPageIs ==
    ASSUME NEW page, NEW size
    PROVE  ExceptionsPage(page, size, None) = Page(ById(Exceptions), page, size)
<1>1. {e \in Exceptions : None \in {None, Code(e)}} = Exceptions
  OBVIOUS
<1>2. ExceptionsPage(page, size, None)
        = Page(ById({e \in Exceptions : None \in {None, Code(e)}}), page, size)
  BY DEF ExceptionsPage
<1> QED
  BY <1>1, <1>2

\* The exception pages.
LEMMA ExceptionsWalk ==
    ASSUME LoopInv, NEW size \in Nat \ {0}
    PROVE  Walk(LAMBDA p : ExceptionsPage(p, size, None), size) = ById(Exceptions)
<1>1. Walk(LAMBDA p : ExceptionsPage(p, size, None), size) =
        FlattenSeq([page \in 1..PageCount(ExceptionsPage(1, size, None).total, size) |->
                      ExceptionsPage(page, size, None).items])
  BY Zenon DEF Walk
<1>2. [page \in 1..PageCount(ExceptionsPage(1, size, None).total, size) |->
          ExceptionsPage(page, size, None).items]
      = [page \in 1..PageCount(Page(ById(Exceptions), 1, size).total, size) |->
          Page(ById(Exceptions), page, size).items]
  BY ExceptionsPageIs, Zenon
<1> QED
  BY <1>1, <1>2, ExceptionsOf, WalkOfASet

\* The report reads all of them.
LEMMA ReportIsWhole ==
    ASSUME LoopInv, NEW size \in Nat \ {0}
    PROVE  ReportExceptions(size) = ById(Exceptions)
<1> DEFINE all == ById(Exceptions)
           c == Cardinality(open)
           Reads(f) == f = [page \in 1..(Cardinality(open) + 1) |->
                              LET chunk == ExceptionsPage(page, size, None)
                              IN  IF page * size >= chunk.total \/ chunk.items = <<>> THEN chunk.items
                                  ELSE chunk.items \o f[page + 1]]
           h == CHOOSE f : Reads(f)
<1>1. all \in Seq(Exceptions) /\ Len(all) <= c /\ c \in Nat
  <2>1. Len(all) = Cardinality(Exceptions) /\ all \in Seq(Exceptions)
    BY ExceptionsOf, ListedOnce
  <2>2. Len(all) = c /\ c \in Nat
    BY <2>1, ExceptionsOf, FS_CardinalityType
  <2> HIDE DEF all, c
  <2> QED
    BY <2>1, <2>2
<1>2. ReportExceptions(size) = h[1]
  BY Zenon DEF ReportExceptions
<1>3. ASSUME NEW f PROVE Reads(f) <=> Rereads(f, all, size, c)
  <2>1. \A page : ExceptionsPage(page, size, None) = Page(all, page, size)
    BY ExceptionsPageIs
  <2>2. [page \in 1..c + 1 |->
            LET chunk == ExceptionsPage(page, size, None)
            IN  IF page * size >= chunk.total \/ chunk.items = <<>> THEN chunk.items
                ELSE chunk.items \o f[page + 1]]
        = [page \in 1..c + 1 |->
            LET chunk == Page(all, page, size)
            IN  IF page * size >= chunk.total \/ chunk.items = <<>> THEN chunk.items
                ELSE chunk.items \o f[page + 1]]
    <3> HIDE DEF all, c
    <3> QED
      BY <2>1
  <2> QED
    BY <2>2, Zenon DEF Rereads
<1> HIDE DEF all, c
<1>4. \E f : Rereads(f, all, size, c)
  BY <1>1, RestExists
<1>5. Rereads(h, all, size, c)
  <2> HIDE DEF Reads
  <2> QED
    BY <1>3, <1>4, Zenon
<1> HIDE DEF h
<1>6. h[1] = all
  BY <1>1, <1>5, RestOfPages
<1> QED
  BY <1>2, <1>6 DEF all

\* The settlement pages join to one row a settlement.
LEMMA SettlementsWalk ==
    ASSUME LoopInv, NEW size \in Nat \ {0}
    PROVE  LET rows == Walk(LAMBDA p : SettlementsPage(p, size), size)
           IN  /\ IsFiniteSet(Listed)
               /\ Len(rows) = Cardinality(Listed)
               /\ Items(rows) = {Row(s) : s \in Listed}
<1> DEFINE ids == ById(Listed)
           Show == [s \in Listed |-> Row(s)]
           n == Len(ids)
           rows == [i \in 1..n |-> Show[ids[i]]]
           Shown(p) == LET items == Page(ids, p, size).items
                       IN  [i \in DOMAIN items |-> Show[items[i]]]
<1>1. IsFiniteSet(Listed)
  <2>1. Listed \in SUBSET Settlements
    BY DEF Listed
  <2> QED
    BY <2>1, LoopAssumption, FS_Subset
<1>2. ids \in Seq(Listed) /\ n = Cardinality(Listed) /\ Items(ids) = Listed
  BY <1>1, ListedOnce
<1>3. n \in Nat /\ \A i \in 1..n : ids[i] \in Listed
  BY <1>2, LenProperties, ElementOfSeq
<1>4. ASSUME NEW p \in Nat \ {0}
      PROVE  SettlementsPage(p, size).items = Shown(p) /\ SettlementsPage(p, size).total = n
  <2> DEFINE found == Page(ids, p, size)
             to == IF p * size <= n THEN p * size ELSE n
             piece == SubSeq(ids, (p - 1) * size + 1, to)
  <2>1. found = [items |-> piece, total |-> n]
    BY <1>2, PageIs, Zenon
  <2>2. SettlementsPage(p, size) =
          [found EXCEPT !.items = [i \in DOMAIN found.items |-> Row(found.items[i])]]
    BY Zenon DEF SettlementsPage
  <2>3. found.items = piece /\ found.total = n
    <3> HIDE DEF piece, n, found
    <3> QED
      BY <2>1
  <2>4. \A i \in DOMAIN piece : piece[i] \in Listed
    <3> DEFINE from == (p - 1) * size + 1
    <3>1. from \in Nat \ {0} /\ to \in Nat /\ to <= n
      <4>1. (p - 1) * size \in Nat /\ p * size \in Nat
        BY Times, p - 1 \in Nat
      <4> HIDE DEF n
      <4> QED
        BY <1>3, <4>1
    <3> HIDE DEF from, to
    <3>2. \A i \in from..to : ids[i] \in Listed
      BY <1>3, <3>1
    <3>3. SubSeq(ids, from, to) \in Seq(Listed)
      <4> HIDE DEF ids, n
      <4> QED
        BY <3>1, <3>2, SubSeqProperties
    <3>4. piece \in Seq(Listed)
      BY <3>3 DEF from
    <3> HIDE DEF piece
    <3> QED
      BY <3>4, LenProperties, ElementOfSeq
  <2>5. [i \in DOMAIN piece |-> Row(piece[i])] = [i \in DOMAIN piece |-> Show[piece[i]]]
    <3> HIDE DEF piece
    <3> QED
      BY <2>4
  <2>6. [found EXCEPT !.items = [i \in DOMAIN found.items |-> Row(found.items[i])]]
        = [items |-> [i \in DOMAIN piece |-> Row(piece[i])], total |-> n]
    <3> HIDE DEF piece, n, found
    <3> QED
      BY <2>1, <2>3
  <2>7. SettlementsPage(p, size) = [items |-> [i \in DOMAIN piece |-> Show[piece[i]]], total |-> n]
    <3> HIDE DEF piece, n, found, Show
    <3> QED
      BY <2>2, <2>5, <2>6, Zenon
  <2>8. Shown(p) = [i \in DOMAIN piece |-> Show[piece[i]]]
    <3> HIDE DEF piece, n, Show
    <3> QED
      BY <2>3, Zenon DEF found
  <2> HIDE DEF piece, n, found, Show, Shown
  <2> QED
    BY <2>7, <2>8
<1>5. Walk(LAMBDA p : SettlementsPage(p, size), size) = rows
  <2>1. Walk(LAMBDA p : SettlementsPage(p, size), size)
        = FlattenSeq([p \in 1..PageCount(SettlementsPage(1, size).total, size) |->
                        SettlementsPage(p, size).items])
    BY Zenon DEF Walk
  <2>2. SettlementsPage(1, size).total = n
    <3>1. 1 \in Nat \ {0}
      OBVIOUS
    <3> QED
      BY <1>4, <3>1
  <2>3. PageCount(n, size) \in Nat \ {0}
    BY <1>3, PagesCover
  <2>4. [p \in 1..PageCount(SettlementsPage(1, size).total, size) |-> SettlementsPage(p, size).items]
        = [p \in 1..PageCount(n, size) |-> Shown(p)]
    <3> HIDE DEF Shown, n
    <3>1. \A p \in 1..PageCount(n, size) : p \in Nat \ {0}
      BY <2>3
    <3> QED
      BY <1>4, <2>2, <3>1
  <2>5. FlattenSeq(PagesShown(ids, size, Show)) = rows
    <3> HIDE DEF ids, Show
    <3> QED
      BY <1>2, ShownPages
  <2>6. PagesShown(ids, size, Show) = [p \in 1..PageCount(n, size) |-> Shown(p)]
    BY Zenon DEF PagesShown
  <2> HIDE DEF rows, Shown, n
  <2> QED
    BY <2>1, <2>4, <2>5, <2>6
<1>6. Len(rows) = n /\ DOMAIN rows = 1..n
  <2> HIDE DEF n, Show
  <2> QED
    BY <1>3
<1>7. Items(rows) = {Row(s) : s \in Listed}
  <2>1. \A i \in 1..n : rows[i] = Row(ids[i])
    BY <1>3
  <2>2. DOMAIN ids = 1..n
    BY <1>2, LenProperties
  <2> HIDE DEF rows, ids, n
  <2>3. Listed = {ids[i] : i \in 1..n}
    BY <1>2, <2>2 DEF Items
  <2> QED
    BY <1>6, <2>1, <2>3 DEF Items
<1> QED
  BY <1>1, <1>2, <1>5, <1>6, <1>7, Zenon

----------------------------------------------------------------------------
\* The lists against one another.

\* A line is matched or under exception, never both.
LEMMA LinesAreShared ==
    ASSUME LoopInv, pass # "waiting"
    PROVE  open \intersect Lines = {l \in Lines : Closed[l] = None}
<1>1. open \intersect Lines = {l \in Lines : reason[l] # None /\ llmLegs[l] = {}} /\ phase = "done"
  BY DEF LoopInv, OpenInv
<1>2. \A l \in Lines : (matchOf[l] = None \/ reason[l] = None) /\ (matchOf[l] # None \/ reason[l] # None)
  BY <1>1 DEF LoopInv, Inv, MatchedOrExcepted
<1> QED
  BY <1>1, <1>2, MatchHolds

\* One match record a matched line.
LEMMA MatchesCounted ==
    /\ {m.line : m \in MatchRecords} = {k \in Lines : Closed[k] # None}
    /\ Cardinality(MatchRecords) = Cardinality({k \in Lines : Closed[k] # None})
<1> DEFINE of == [l \in Lines |-> [line |-> l, settlement |-> Closed[l], legs |-> MatchedLegs(l)]]
           closed == {k \in Lines : Closed[k] # None}
           to == [l \in closed |-> of[l]]
<1>1. IsFiniteSet(closed)
  BY GradesAssumption, FS_Subset
<1>2. MatchRecords = {of[l] : l \in closed}
  BY Zenon DEF MatchRecords
<1>3. \A l \in closed : of[l].line = l
  OBVIOUS
<1> HIDE DEF of, closed
<1>4. to \in Surjection(closed, MatchRecords) /\ to \in Injection(closed, MatchRecords)
  <2>1. to \in [closed -> MatchRecords]
    BY <1>2
  <2> QED
    BY <1>2, <1>3, <2>1 DEF Surjection, Injection, IsInjective
<1>5. Cardinality(MatchRecords) = Cardinality(closed)
  <2> HIDE DEF to
  <2> QED
    BY <1>1, <1>4, FS_Surjection
<1> QED
  BY <1>2, <1>3, <1>5 DEF closed

\* The match and the exception list share the bank lines out.
LEMMA LinesAreCounted ==
    ASSUME LoopInv, pass # "waiting"
    PROVE  /\ (open \intersect Lines) \union {m.line : m \in MatchRecords} = Lines
           /\ Cardinality(open \intersect Lines) + Cardinality(MatchRecords) = Cardinality(Lines)
<1> DEFINE rest == open \intersect Lines
           closed == {k \in Lines : Closed[k] # None}
<1>1. rest \union closed = Lines /\ rest \intersect closed = {}
  BY LinesAreShared
<1>2. IsFiniteSet(Lines) /\ IsFiniteSet(rest) /\ IsFiniteSet(closed)
  BY GradesAssumption, FS_Subset
<1>3. {m.line : m \in MatchRecords} = closed /\ Cardinality(MatchRecords) = Cardinality(closed)
  BY MatchesCounted
<1> HIDE DEF rest, closed
<1>4. Cardinality(rest \union closed) = Cardinality(rest) + Cardinality(closed) - Cardinality(rest \intersect closed)
  BY <1>2, FS_Union
<1>5. Cardinality(rest \intersect closed) = 0
  BY <1>1, FS_EmptySet
<1>6. Cardinality(rest) \in Nat /\ Cardinality(closed) \in Nat
  BY <1>2, FS_CardinalityType
<1>7. Cardinality(rest) + Cardinality(closed) = Cardinality(Lines)
  <2>1. Cardinality(Lines) = Cardinality(rest) + Cardinality(closed) - Cardinality(rest \intersect closed)
    BY <1>1, <1>4, Zenon
  <2> QED
    BY <1>5, <1>6, <2>1
<1> QED
  BY <1>1, <1>3, <1>7 DEF rest

\* What the settlement pages show as matched is what the match pages show.
LEMMA MatchesAgree ==
    ASSUME LoopInv
    PROVE  {<<row.line, row.settlement>> : row \in {r \in {Row(s) : s \in Listed} : r.line # None}}
             = {<<m.line, m.settlement>> : m \in MatchRecords}
<1> DEFINE pairs == {<<l, Closed[l]>> : l \in {k \in Lines : Closed[k] # None}}
<1>1. ASSUME NEW s \in Listed
      PROVE  /\ Row(s).settlement = s
             /\ Row(s).line = IF MatchesOf(s) = {} THEN None ELSE FirstMatch(s)
  <2>1. CASE MatchesOf(s) = {}
    BY <2>1 DEF Row, Unmatched
  <2>2. CASE MatchesOf(s) # {}
    BY <2>2 DEF Row, Matched
  <2> QED
    BY <2>1, <2>2
<1>2. \A s \in Listed : s # None
  BY FileIsOfReport DEF Listed
<1>3. {<<row.line, row.settlement>> : row \in {r \in {Row(s) : s \in Listed} : r.line # None}} = pairs
  <2>1. ASSUME NEW s \in Listed, Row(s).line # None
        PROVE  <<Row(s).line, Row(s).settlement>> \in pairs
    <3>1. MatchesOf(s) # {} /\ Row(s).line = FirstMatch(s) /\ Row(s).settlement = s
      BY <1>1, <2>1
    <3>2. FirstMatch(s) \in Lines /\ Closed[FirstMatch(s)] = s
      BY <1>2, <3>1, FirstIsTheOnly
    <3> QED
      BY <1>2, <3>1, <3>2
  <2>2. ASSUME NEW l \in Lines, Closed[l] # None
        PROVE  \E s \in Listed : Row(s).line # None /\ <<l, Closed[l]>> = <<Row(s).line, Row(s).settlement>>
    <3>1. Closed[l] \in Listed
      BY <2>2, MatchHolds
    <3>2. MatchesOf(Closed[l]) # {} /\ FirstMatch(Closed[l]) = l
      BY <1>2, <2>2, <3>1, FirstIsTheOnly
    <3>3. l # None
      BY ListingAssumption
    <3> QED
      BY <1>1, <3>1, <3>2, <3>3
  <2> QED
    BY <2>1, <2>2
<1>4. {<<m.line, m.settlement>> : m \in MatchRecords} = pairs
  <2> DEFINE of == [l \in Lines |-> [line |-> l, settlement |-> Closed[l], legs |-> MatchedLegs(l)]]
  <2>1. MatchRecords = {of[l] : l \in {k \in Lines : Closed[k] # None}}
    BY Zenon DEF MatchRecords
  <2>2. \A l \in Lines : of[l].line = l /\ of[l].settlement = Closed[l]
    OBVIOUS
  <2> HIDE DEF of
  <2> QED
    BY <2>1, <2>2
<1> QED
  BY <1>3, <1>4

\* What code an exception has.
LEMMA ReasonIs ==
    ASSUME LoopInv, pass # "waiting", NEW x \in open, NEW copies \in SUBSET Txns
    PROVE  /\ x \in Lines => ReasonOf(x, copies) \in Reasons
           /\ x \in copies => ReasonOf(x, copies) = "DUPLICATE_PSP_TXN"
           /\ x \in Txns \ copies => ReasonOf(x, copies) =
                IF psp.settlement[x] = None THEN "ORPHAN_PSP_TXN" ELSE "MISSING_ORDER_REF"
<1>1. x \in Lines => x \notin Txns
  BY LoopAssumption
<1>2. x \in Lines => reason[x] \in Reasons
  <2>1. open \intersect Lines = {l \in Lines : reason[l] # None /\ llmLegs[l] = {}}
    BY DEF LoopInv, OpenInv
  <2> QED
    BY <2>1 DEF LoopInv, Inv, TypeOK
<1>3. x \in Lines => ReasonOf(x, copies) = reason[x]
  BY <1>1, Zenon DEF ReasonOf
<1>4. x \in copies => ReasonOf(x, copies) = "DUPLICATE_PSP_TXN"
  BY <1>1, Zenon DEF ReasonOf
<1>5. x \in Txns \ copies /\ psp.settlement[x] = None => ReasonOf(x, copies) = "ORPHAN_PSP_TXN"
  BY <1>1, Zenon DEF ReasonOf
<1>6. x \in Txns \ copies /\ psp.settlement[x] # None => ReasonOf(x, copies) = "MISSING_ORDER_REF"
  BY <1>1, Zenon DEF ReasonOf
<1> QED
  BY <1>2, <1>3, <1>4, <1>5, <1>6

\* No exception is without a code.
LEMMA CodeIsNotNone ==
    ASSUME LoopInv, pass # "waiting", NEW e \in Exceptions
    PROVE  e.code # None
<1>1. e.subject \in open /\ e.code = ReasonOf(e.subject, SuppressedIn(Txns))
  BY ExceptionsOf
<1>2. SuppressedIn(Txns) \in SUBSET Txns
  BY DEF SuppressedIn
<1>3. e.subject \in Lines \/ e.subject \in Txns
  BY <1>1 DEF LoopInv, OpenInv, Subjects
<1>4. e.code \in Reasons \union {"DUPLICATE_PSP_TXN", "ORPHAN_PSP_TXN", "MISSING_ORDER_REF"}
  BY <1>1, <1>2, <1>3, ReasonIs
<1> QED
  BY <1>4, ReasonsAssumption, ListingAssumption DEF RowCodes

\* The totals of the reason codes add up to the whole.
LEMMA CodesAddUp ==
    ASSUME LoopInv, pass # "waiting", NEW size \in Nat \ {0}
    PROVE  LET codes == {Code(e) : e \in Exceptions}
               count == [c \in codes |-> ExceptionsPage(1, size, c).total]
           IN  MapThenSumSet(LAMBDA c : count[c], DOMAIN count) = Cardinality(Exceptions)
<1> DEFINE codes == {Code(e) : e \in Exceptions}
           count == [c \in codes |-> ExceptionsPage(1, size, c).total]
           one == [e \in Exceptions |-> 1]
           of == [e \in Exceptions |-> Code(e)]
           parts == [c \in codes |-> Total(one, {e \in Exceptions : of[e] = c})]
<1>1. IsFiniteSet(Exceptions) /\ IsFiniteSet(codes) /\ \A e \in Exceptions : of[e] \in codes
  <2>1. codes = {of[e] : e \in Exceptions}
    OBVIOUS
  <2>2. IsFiniteSet(Exceptions)
    BY ExceptionsOf
  <2> HIDE DEF codes, of
  <2> QED
    BY <2>1, <2>2, ImageFinite
<1>2. \A e \in Exceptions : one[e] = 1 /\ one[e] \in Int
  OBVIOUS
<1>3. Total(one, Exceptions) = Cardinality(Exceptions)
  <2> HIDE DEF one
  <2> QED
    BY <1>1, <1>2, TotalOfOnes
<1>4. Total(one, Exceptions) = Total(parts, codes)
  <2> HIDE DEF one, of, codes
  <2> QED
    BY <1>1, <1>2, TotalByClass
<1>5. ASSUME NEW c \in codes PROVE count[c] = parts[c]
  <2> DEFINE mine == {e \in Exceptions : c \in {None, Code(e)}}
  <2>1. c # None
    BY CodeIsNotNone DEF Code
  <2>2. mine = {e \in Exceptions : of[e] = c}
    BY <2>1
  <2>3. mine \in SUBSET Exceptions
    OBVIOUS
  <2>4. IsFiniteSet(mine)
    <3> HIDE DEF mine
    <3> QED
      BY <1>1, <2>3, FS_Subset
  <2>5. ExceptionsPage(1, size, c) = Page(ById(mine), 1, size)
    BY Zenon DEF ExceptionsPage
  <2>6. Page(ById(mine), 1, size).total = Cardinality(mine)
    <3> HIDE DEF mine
    <3> QED
      BY <2>4, WalkOfASet
  <2>7. Total(one, mine) = Cardinality(mine)
    <3>1. \A e \in mine : one[e] = 1
      BY <1>2
    <3> HIDE DEF mine, one
    <3> QED
      BY <2>4, <3>1, TotalOfOnes
  <2>8. count[c] = ExceptionsPage(1, size, c).total
    OBVIOUS
  <2>9. parts[c] = Total(one, mine)
    <3>1. parts[c] = Total(one, {e \in Exceptions : of[e] = c})
      BY Zenon
    <3> HIDE DEF mine, one, of, parts
    <3> QED
      BY <2>2, <3>1
  <2> HIDE DEF mine, one, of, parts, count
  <2> QED
    BY <2>5, <2>6, <2>7, <2>8, <2>9
<1>6. Total(count, codes) = Total(parts, codes)
  <2> HIDE DEF count, parts, codes
  <2> QED
    BY <1>1, <1>5, TotalSame
<1>7. DOMAIN count = codes
  OBVIOUS
<1>8. MapThenSumSet(LAMBDA c : count[c], DOMAIN count) = Total(count, codes)
  <2> HIDE DEF count, codes
  <2> QED
    BY <1>7, Zenon DEF Total
<1>9. MapThenSumSet(LAMBDA c : count[c], DOMAIN count) = Cardinality(Exceptions)
  <2> HIDE DEF count, codes, parts, one
  <2> QED
    BY <1>3, <1>4, <1>6, <1>8
<1> QED
  BY <1>9, Zenon

----------------------------------------------------------------------------
\* Every rupee is on the screens once.

\* The rows the sum of a settlement is of.
Counted(s) == IF MatchesOf(s) = {} THEN Batch(psp, s) ELSE MatchedLegs(FirstMatch(s))

\* A row of the screen is the sum of these rows.
LEMMA CountedRows ==
    ASSUME LoopInv, NEW s \in Listed
    PROVE  /\ Row(s).settlement = s
           /\ Row(s).parts = R!Reconstruct(psp, Counted(s))
           /\ Batch(psp, s) \subseteq Counted(s)
           /\ Counted(s) \subseteq AllLegs(s)
           /\ MatchesOf(s) # {} =>
                FirstMatch(s) \in Lines /\ Counted(s) = MatchedLegs(FirstMatch(s))
<1>1. s # None
  BY FileIsOfReport DEF Listed
<1>2. CASE MatchesOf(s) = {}
  <2>1. ActiveLegs(s) = Batch(psp, s)
    BY DEF ActiveLegs, SuppressedIn, AllLegs, Batch, Kept, R!LegsAmong
  <2>2. Row(s) = Unmatched(s) /\ Counted(s) = Batch(psp, s)
    BY <1>2 DEF Row, Counted
  <2> DEFINE net == R!Reconstruct(psp, Batch(psp, s))
             payLegs == R!PaymentLegs(psp, Batch(psp, s))
  <2>3. Row(s) = [settlement |-> s, line |-> None, net |-> net, parts |-> net, payLegs |-> payLegs]
    BY <2>1, <2>2, Zenon DEF Unmatched
  <2>4. Row(s).settlement = s /\ Row(s).parts = net
    <3> HIDE DEF net, payLegs
    <3> QED
      BY <2>3
  <2> QED
    BY <1>2, <2>2, <2>4, BatchAmongAll
<1>3. CASE MatchesOf(s) # {}
  <2> DEFINE l == FirstMatch(s)
  <2>1. l \in Lines /\ Closed[l] = s
    BY <1>1, <1>3, FirstIsTheOnly
  <2>2. Row(s) = Matched(s, l) /\ Counted(s) = MatchedLegs(l)
    BY <1>3 DEF Row, Counted
  <2> DEFINE parts == R!Reconstruct(psp, MatchedLegs(l))
             payLegs == R!PaymentLegs(psp, AllLegs(s) \intersect MatchedLegs(l))
  <2>3. Row(s) = [settlement |-> s, line |-> l, net |-> file.credit[l], parts |-> parts,
                  payLegs |-> payLegs]
    BY <2>2, Zenon DEF Matched
  <2>5. Row(s).settlement = s /\ Row(s).parts = parts
    <3> HIDE DEF parts, payLegs, l
    <3> QED
      BY <2>3
  <2>4. Batch(psp, s) \subseteq MatchedLegs(l) /\ MatchedLegs(l) \subseteq AllLegs(s)
    BY <1>1, <2>1, MatchHolds
  <2> QED
    BY <2>1, <2>2, <2>4, <2>5
<1> QED
  BY <1>2, <1>3

AllCounted == {t \in Txns : \E s \in Listed : t \in Counted(s)}

\* The rows a screen shows as an exception of their own, and no settlement sums.
LooseOf(excepted) ==
    {e.subject : e \in {x \in excepted : x.code \in {"DUPLICATE_PSP_TXN", "ORPHAN_PSP_TXN"}}}
    \ UNION {MatchedLegs(l) : l \in Lines}

\* They are the rows no settlement counts.
LEMMA LooseRows ==
    ASSUME LoopInv, OpenRows, pass # "waiting"
    PROVE  LooseOf(Exceptions) = Txns \ AllCounted
<1> DEFINE copies == SuppressedIn(Txns)
           told == {e.subject : e \in {x \in Exceptions :
                      x.code \in {"DUPLICATE_PSP_TXN", "ORPHAN_PSP_TXN"}}}
           counted == UNION {MatchedLegs(l) : l \in Lines}
<1>1. copies = Txns \ Kept(psp) /\ copies \in SUBSET Txns
  BY DEF SuppressedIn
<1>2. /\ "DUPLICATE_PSP_TXN" \notin Reasons /\ "ORPHAN_PSP_TXN" \notin Reasons
      /\ "MISSING_ORDER_REF" \notin {"DUPLICATE_PSP_TXN", "ORPHAN_PSP_TXN"}
  BY DEF Reasons
<1>3. told = {x \in open : ReasonOf(x, copies) \in {"DUPLICATE_PSP_TXN", "ORPHAN_PSP_TXN"}}
  BY ExceptionsOf
<1>4. PICK u \in SUBSET Anonymous : open \intersect Txns = copies \union Unsettled \union u
  BY <1>1 DEF OpenRows
<1>5. \A x \in open : x \in Lines \/ x \in Txns
  BY DEF LoopInv, OpenInv, Subjects
<1> HIDE DEF copies
<1>6. told = copies \union Unsettled
  <2>1. ASSUME NEW x \in told PROVE x \in copies \union Unsettled
    <3>1. x \in open /\ ReasonOf(x, copies) \in {"DUPLICATE_PSP_TXN", "ORPHAN_PSP_TXN"}
      BY <1>3
    <3>2. x \notin Lines
      BY <1>1, <1>2, <3>1, ReasonIs
    <3>3. x \in Txns
      BY <1>5, <3>1, <3>2
    <3>4. CASE x \in copies
      BY <3>4
    <3>5. CASE x \in Txns \ copies
      <4>1. psp.settlement[x] = None
        BY <1>1, <1>2, <3>1, <3>5, ReasonIs
      <4> QED
        BY <1>1, <3>5, <4>1 DEF Unsettled
    <3> QED
      BY <3>3, <3>4, <3>5
  <2>2. ASSUME NEW x \in copies \union Unsettled PROVE x \in told
    <3>1. x \in open /\ x \in Txns
      BY <1>4
    <3>2. CASE x \in copies
      BY <1>1, <1>3, <3>1, <3>2, ReasonIs
    <3>3. CASE x \notin copies
      <4>1. psp.settlement[x] = None
        BY <3>3 DEF Unsettled
      <4> QED
        BY <1>1, <1>3, <3>1, <3>3, <4>1, ReasonIs
    <3> QED
      BY <3>2, <3>3
  <2> QED
    BY <2>1, <2>2
<1> HIDE DEF told
<1>7. ASSUME NEW l \in Lines PROVE MatchedLegs(l) \subseteq AllCounted
  <2>1. CASE Closed[l] = None
    BY <2>1, MatchHolds
  <2>2. CASE Closed[l] # None
    <3>1. Closed[l] \in Listed /\ MatchedLegs(l) \subseteq AllLegs(Closed[l])
      BY <2>2, MatchHolds
    <3>2. MatchesOf(Closed[l]) # {} /\ FirstMatch(Closed[l]) = l
      BY <2>2, FirstIsTheOnly
    <3>3. Counted(Closed[l]) = MatchedLegs(l)
      BY <3>1, <3>2, CountedRows
    <3> QED
      BY <3>1, <3>3, BatchAmongAll DEF AllCounted
  <2> QED
    BY <2>1, <2>2
<1>8. ASSUME NEW t \in Txns, t \notin counted, t \in AllCounted
      PROVE  t \notin copies \union Unsettled
  <2>1. PICK s \in Listed : t \in Counted(s)
    BY <1>8 DEF AllCounted
  <2>2. MatchesOf(s) = {}
    BY <1>8, <2>1, CountedRows
  <2>3. t \in Batch(psp, s) /\ s # None
    BY <2>1, <2>2, FileIsOfReport DEF Counted, Listed
  <2>4. t \in Kept(psp) /\ psp.settlement[t] = s
    BY <2>3 DEF Batch, R!LegsAmong
  <2> QED
    BY <1>1, <2>3, <2>4 DEF Unsettled
<1>9. ASSUME NEW t \in Txns, t \notin AllCounted PROVE t \in copies \union Unsettled
  <2> SUFFICES ASSUME t \in Kept(psp), psp.settlement[t] # None PROVE FALSE
    BY <1>1 DEF Unsettled
  <2> DEFINE s == psp.settlement[t]
  <2>1. s \in Settlements
    BY CasesAssumption DEF LoopInv, InputInv, R!Report
  <2>2. s \in Listed /\ t \in Batch(psp, s)
    BY <2>1 DEF Listed, AllLegs, Batch, R!LegsAmong
  <2>3. t \in Counted(s)
    BY <2>2, CountedRows
  <2> QED
    BY <1>9, <2>2, <2>3 DEF AllCounted
<1>10. counted \subseteq AllCounted
  BY <1>7
<1>11. copies \union Unsettled \subseteq Txns
  BY <1>1 DEF Unsettled, Kept
<1>12. LooseOf(Exceptions) = told \ counted
  BY Zenon DEF LooseOf, told
<1> HIDE DEF counted
<1> QED
  BY <1>6, <1>8, <1>9, <1>10, <1>11, <1>12

\* So the sums of the settlements and those rows are the whole report.
LEMMA MoneyShown ==
    ASSUME LoopInv, OpenRows, pass # "waiting"
    PROVE  MoneyIsShownOnce({Row(s) : s \in Listed}, Exceptions)
<1> DEFINE amount == [t \in Txns |-> psp.amount[t]]
           C == AllCounted
           Loose == Txns \ C
           of == [t \in C |-> psp.settlement[t]]
           row == [s \in Listed |-> Row(s)]
           rows == {Row(s) : s \in Listed}
           shown == [r \in rows |-> r.parts]
           sums == [s \in Listed |-> Total(amount, {t \in C : of[t] = s})]
<1>1. /\ C \in SUBSET Txns /\ Loose \in SUBSET Txns /\ C \union Loose = Txns /\ C \intersect Loose = {}
      /\ IsFiniteSet(C) /\ IsFiniteSet(Loose) /\ IsFiniteSet(Txns)
  <2>1. C \in SUBSET Txns /\ Loose \in SUBSET Txns /\ C \union Loose = Txns /\ C \intersect Loose = {}
    BY DEF AllCounted
  <2> HIDE DEF C, Loose
  <2> QED
    BY <2>1, GradesAssumption, FS_Subset
<1>2. \A t \in Txns : amount[t] = psp.amount[t] /\ amount[t] \in Int
  BY CasesAssumption DEF LoopInv, InputInv, R!Report
<1>3. IsFiniteSet(Listed)
  <2>1. Listed \in SUBSET Settlements
    BY DEF Listed
  <2> QED
    BY <2>1, LoopAssumption, FS_Subset
<1> HIDE DEF Loose, amount
<1>4. ASSUME NEW legs \in SUBSET Txns
      PROVE  R!Reconstruct(psp, legs) = Total(amount, legs) /\ Total(amount, legs) \in Int
  <2> DEFINE v == [t \in legs |-> psp.amount[t]]
  <2>1. IsFiniteSet(legs) /\ R!Reconstruct(psp, legs) = Total(v, legs) /\ R!Reconstruct(psp, legs) \in Int
    BY ReconstructIsInt
  <2>2. \A t \in legs : v[t] = amount[t]
    BY <1>2
  <2> HIDE DEF v
  <2>3. Total(v, legs) = Total(amount, legs)
    BY <2>1, <2>2, TotalSame
  <2> QED
    BY <2>1, <2>3
<1>5. \A t \in C : t \in Txns /\ of[t] \in Listed
  <2> SUFFICES ASSUME NEW t \in C PROVE t \in Txns /\ psp.settlement[t] \in Listed
    OBVIOUS
  <2>1. PICK s \in Listed : t \in Counted(s)
    BY DEF AllCounted
  <2>2. t \in AllLegs(s)
    BY <2>1, CountedRows
  <2> QED
    BY <2>1, <2>2 DEF AllLegs, R!LegsAmong
<1>6. ASSUME NEW s \in Listed PROVE sums[s] = row[s].parts /\ row[s].parts \in Int
  <2>1. Row(s).parts = R!Reconstruct(psp, Counted(s)) /\ Counted(s) \subseteq AllLegs(s)
    BY CountedRows
  <2>2. Counted(s) \in SUBSET Txns /\ \A t \in Counted(s) : psp.settlement[t] = s
    BY <2>1, BatchAmongAll DEF AllLegs, R!LegsAmong
  <2>3. ASSUME NEW t \in C, of[t] = s PROVE t \in Counted(s)
    <3>1. PICK r \in Listed : t \in Counted(r)
      BY DEF AllCounted
    <3>2. t \in AllLegs(r)
      BY <3>1, CountedRows
    <3>3. r = s
      BY <2>3, <3>2 DEF AllLegs, R!LegsAmong
    <3> QED
      BY <3>1, <3>3
  <2>4. \A t \in Counted(s) : t \in C
    BY <2>2 DEF AllCounted
  <2>5. {t \in C : of[t] = s} = Counted(s)
    BY <2>2, <2>3, <2>4
  <2>6. Total(amount, Counted(s)) = R!Reconstruct(psp, Counted(s)) /\ Total(amount, Counted(s)) \in Int
    BY <1>4, <2>2
  <2>7. sums[s] = Total(amount, {t \in C : of[t] = s})
    BY Zenon
  <2> HIDE DEF C, of, sums
  <2> QED
    BY <2>1, <2>5, <2>6, <2>7
<1> HIDE DEF C, of
<1>7. Total(amount, C) = Total(sums, Listed)
  <2>1. \A t \in C : amount[t] \in Int
    BY <1>2, <1>5
  <2> QED
    BY <1>1, <1>3, <1>5, <2>1, TotalByClass
<1> HIDE DEF sums
<1>8. Total(shown, rows) = Total(sums, Listed)
  <2>1. rows = {row[s] : s \in Listed}
    OBVIOUS
  <2>2. \A s \in Listed : sums[s] \in Int /\ shown[row[s]] = sums[s]
    <3>1. \A r \in rows : shown[r] = r.parts
      OBVIOUS
    <3>2. \A s \in Listed : row[s] \in rows
      OBVIOUS
    <3> HIDE DEF shown, row, rows
    <3> QED
      BY <1>6, <3>1, <3>2
  <2>3. \A s, r \in Listed : row[s] = row[r] => s = r
    BY CountedRows
  <2> HIDE DEF shown, row, rows
  <2>4. Total(shown, {row[s] : s \in Listed}) = Total(sums, Listed)
    BY <1>3, <2>2, <2>3, TotalOfImage
  <2> QED
    BY <2>1, <2>4
<1>9. Total(amount, Txns) = Total(amount, C) + Total(amount, Loose)
  <2>1. \A t \in C \union Loose : amount[t] \in Int
    BY <1>1, <1>2
  <2>2. Total(amount, C \union Loose) = Total(amount, C) + Total(amount, Loose)
    BY <1>1, <2>1, TotalUnion
  <2> QED
    BY <1>1, <2>2
<1>10. R!Reconstruct(psp, Txns) = Total(amount, Txns) /\ R!Reconstruct(psp, Loose) = Total(amount, Loose)
  <2>1. Txns \in SUBSET Txns
    OBVIOUS
  <2> QED
    BY <1>1, <1>4, <2>1
<1>11. LooseOf(Exceptions) = Loose
  BY LooseRows DEF Loose, C
<1>12. MapThenSumSet(LAMBDA r : shown[r], rows) = Total(shown, rows)
  <2> HIDE DEF shown, rows
  <2> QED
    BY Zenon DEF Total
<1>13. R!Reconstruct(psp, Txns) =
         MapThenSumSet(LAMBDA r : shown[r], rows) + R!Reconstruct(psp, LooseOf(Exceptions))
  <2> HIDE DEF shown, rows
  <2> QED
    BY <1>7, <1>8, <1>9, <1>10, <1>11, <1>12
<1> QED
  BY <1>13, Zenon DEF MoneyIsShownOnce, LooseOf

----------------------------------------------------------------------------
\* The property a run checks for two page sizes, for every page size.
ListingAtEverySize == pass = "merged" => \A size \in Nat \ {0} : ListingAt(size)

\* What LoopInv and OpenRows say of a listing.
LEMMA ListingIsWhole ==
    ASSUME LoopInv, OpenRows, pass # "waiting", NEW size \in Nat \ {0}
    PROVE  ListingAt(size)
<1> DEFINE rows == Walk(LAMBDA p : SettlementsPage(p, size), size)
           matches == Walk(LAMBDA p : MatchesPage(p, size), size)
           exceptions == Walk(LAMBDA p : ExceptionsPage(p, size, None), size)
           records == Walk(LAMBDA p : RecordsPage(p, size), size)
           lines == {e.subject : e \in Items(exceptions)} \intersect Lines
           codes == {Code(e) : e \in Items(exceptions)}
           count == [c \in codes |-> ExceptionsPage(1, size, c).total]
<1>1. /\ Len(rows) = Cardinality(file.known)
      /\ Items(rows) = {Row(s) : s \in Listed}
  BY SettlementsWalk, ListedIsKnown
<1>2. Items(matches) = MatchRecords /\ Len(matches) = Cardinality(MatchRecords)
  BY MatchesWalk, ListedOnce
<1>3. /\ Items(exceptions) = Exceptions /\ exceptions = ById(Exceptions)
      /\ Len(exceptions) = Cardinality(Exceptions)
  BY ExceptionsWalk, ExceptionsOf, ListedOnce
<1>4. Items(records) = Txns
  BY RecordsWalk, GradesAssumption, ListedOnce
<1>5. lines = open \intersect Lines
  BY <1>3, ExceptionsOf
<1>6. codes = {Code(e) : e \in Exceptions}
  BY <1>3
<1>7. MapThenSumSet(LAMBDA c : count[c], DOMAIN count) = Cardinality(Exceptions)
  <2> DEFINE all == {Code(e) : e \in Exceptions}
             totals == [c \in all |-> ExceptionsPage(1, size, c).total]
  <2>1. MapThenSumSet(LAMBDA c : totals[c], DOMAIN totals) = Cardinality(Exceptions)
    BY CodesAddUp, Zenon
  <2>2. count = totals
    <3> HIDE DEF codes, all
    <3> QED
      BY <1>6 DEF all
  <2> HIDE DEF count, totals
  <2> QED
    BY <2>1, <2>2
<1>8. ReportExceptions(size) = exceptions
  BY <1>3, ReportIsWhole
<1> HIDE DEF rows, matches, exceptions, records
<1>9. {row.settlement : row \in Items(rows)} = file.known
  BY <1>1, RowsAreHonest, ListedIsKnown
<1>10. \A row \in Items(rows) : RowIsHonest(row)
  BY <1>1, RowsAreHonest
<1>11. {<<row.line, row.settlement>> : row \in {r \in Items(rows) : r.line # None}}
        = {<<m.line, m.settlement>> : m \in Items(matches)}
  BY <1>1, <1>2, MatchesAgree
<1>12. lines \union {m.line : m \in Items(matches)} = Lines
  BY <1>2, <1>5, LinesAreCounted
<1>13. Cardinality(lines) + Len(matches) = Cardinality(Lines)
  BY <1>2, <1>5, LinesAreCounted
<1>14. MoneyIsShownOnce(Items(rows), Items(exceptions))
  BY <1>1, <1>3, MoneyShown
<1>15. Len(exceptions) = MapThenSumSet(LAMBDA c : count[c], DOMAIN count)
  <2> HIDE DEF count
  <2> QED
    BY <1>3, <1>7
<1> QED
  BY <1>1, <1>4, <1>8, <1>9, <1>10, <1>11, <1>12, <1>13, <1>14, <1>15, Zenon
  DEF ListingAt, rows, matches, exceptions, records

\* Whatever the size of a page, the listings of a finished run tell one story
\* (core/store/repo.py list_settlements, list_matches, list_exceptions and
\* list_transactions, and get_run_report over them): every settlement and every
\* bank line is there once, the rows show what the run judged, and the money on
\* the screens is the report's.
THEOREM HonestListing == LoopSpec => [](ListingIsHonest /\ ListingAtEverySize)
<1>1. LoopInv /\ OpenRows => ListingIsHonest /\ ListingAtEverySize
  BY ListingIsWhole DEF ListingIsHonest, ListingAtEverySize, PageSizes
<1> QED
  BY <1>1, OpenRowsInvariance, PTL
=============================================================================
