------------------------------- MODULE Matcher -------------------------------
(***************************************************************************)
(* The deterministic matcher: core/matcher/tiers.py and the run in         *)
(* core/matcher/engine.py.  Four tiers look for the one settlement that    *)
(* closes each bank credit.  A tier first searches for every open line     *)
(* against the same claims, then resolves the proposals, so that no line   *)
(* is decided by the order the file happens to be in.  Whatever no tier    *)
(* closes becomes an exception with a reason code.                         *)
(*                                                                         *)
(* A file is what the candidate pool derived before the first tier ran:    *)
(* see Pool for how net, settledOn and payLegs come from the PSP rows.     *)
(***************************************************************************)
EXTENDS Integers, FiniteSets

CONSTANTS
    Lines,          \* bank line ids
    Settlements,    \* settlement ids
    Files,          \* the files a run may be given
    None            \* Python's None

TOLERANCE_PAISE == 100
WINDOW_DAYS == 2

FileType ==
    [known     : SUBSET Settlements,            \* settlements with a leg
     net       : [Settlements -> Int],          \* reconstructed net, paise
     settledOn : [Settlements -> Int],          \* day it completes
     payLegs   : [Settlements -> Nat],          \* payment legs alone
     credit    : [Lines -> Int \union {None}],  \* None on a debit line
     txnDate   : [Lines -> Int],
     ref       : [Lines -> Settlements \union {None}]]

ASSUME FilesAssumption ==
    /\ Files \subseteq FileType
    /\ None \notin Settlements
    /\ None \notin Int
    /\ \A f \in Files : \A l \in Lines : f.ref[l] # None => f.ref[l] \in f.known
    /\ \A f \in Files : IsFiniteSet(f.known)    \* the settlements of one report

VARIABLES
    file,       \* the run's input, never written
    tier,       \* index of the tier that is running
    phase,      \* "search", "resolve", "classify" or "done"
    todo,       \* lines the current loop has still to visit
    proposal,   \* the settlement a line proposes to this tier
    matchOf,    \* settlement of the line's match
    tierOf,     \* tier that built the match
    claimed,    \* settlements a match has claimed
    ambiguity,  \* widest candidate set a tier noted for the line
    contests,   \* rivals noted for the line
    reason      \* reason code of the line's exception

vars == <<file, tier, phase, todo, proposal, matchOf, tierOf, claimed,
          ambiguity, contests, reason>>

poolVars == <<matchOf, tierOf, claimed>>

Tiers == 0..3

OnePastTheLast == 4     \* a slip: one tier too many

LastTier == 3

Reasons == {"AMBIGUOUS_MULTI_CANDIDATE", "AMOUNT_MISMATCH",
            "ORPHAN_BANK_LINE", "UNPARSEABLE_NARRATION", "NO_SETTLEMENT_REF"}

ASSUME ReasonsAssumption == None \notin Reasons

----------------------------------------------------------------------------
\* Candidacy.

Abs(n) == IF n < 0 THEN -n ELSE n

\* net - credit, in that order.
Residual(l, s) == file.net[s] - file.credit[l]

Tolerance(t) == IF t = 3 THEN TOLERANCE_PAISE ELSE 0

WithinWiderWindow(l, s) ==        \* a slip: off by one
    Abs(file.settledOn[s] - file.txnDate[l]) <= WINDOW_DAYS + 1

WithinWindow(l, s) == Abs(file.settledOn[s] - file.txnDate[l]) <= WINDOW_DAYS

\* A debit line has no candidate.  T0 asks for the reference and the exact sum
\* and ignores dates; the other tiers ask for the sum within their tolerance
\* and the date window.
Qualifies(t, l, s) ==
    /\ file.credit[l] # None
    /\ IF t = 0
       THEN file.ref[l] = s /\ Residual(l, s) = 0
       ELSE Abs(Residual(l, s)) <= Tolerance(t) /\ WithinWindow(l, s)

UnproposedCandidates(t, l) ==     \* a slip: a proposal already claims
    {s \in file.known \ (claimed \union {proposal[k] : k \in Lines}) :
        Qualifies(t, l, s)}

Candidates(t, l) ==
    {s \in file.known \ claimed : Qualifies(t, l, s)}

\* The label test, applied only to a candidate that is already unique.
AcceptsCardinality(t, s) ==
    /\ t = 1 => file.payLegs[s] = 1
    /\ t = 2 => file.payLegs[s] >= 2

EveryLine == Lines                \* a slip: matched lines stay open

Open == {l \in Lines : matchOf[l] = None}

ContestedOnly(l) == contests[l] # {}          \* a slip: ambiguity forgotten

Undecidable(l) == ambiguity[l] # {} \/ contests[l] # {}

----------------------------------------------------------------------------
\* The tier loop.

Start ==
    /\ tier = 0
    /\ phase = "search"
    /\ todo = Lines
    /\ proposal = [l \in Lines |-> None]
    /\ matchOf = [l \in Lines |-> None]
    /\ tierOf = [l \in Lines |-> None]
    /\ claimed = {}
    /\ ambiguity = [l \in Lines |-> {}]
    /\ contests = [l \in Lines |-> {}]
    /\ reason = [l \in Lines |-> None]

Init == file \in Files /\ Start

Visit(p, l) ==
    /\ phase = p
    /\ l \in todo
    /\ todo' = todo \ {l}
    /\ UNCHANGED <<file, tier, phase>>

\* A debit, no candidate, or a unique candidate of the wrong cardinality.
Pass(l) ==
    /\ Visit("search", l)
    /\ \/ Candidates(tier, l) = {}
       \/ \E s \in Settlements :
            Candidates(tier, l) = {s} /\ ~AcceptsCardinality(tier, s)
    /\ UNCHANGED <<proposal, poolVars, ambiguity, contests, reason>>

\* Several candidates: the line matches nothing in this tier, and the widest
\* set any tier saw is kept.
NoteAmbiguity(l) ==
    /\ Visit("search", l)
    /\ \E s1, s2 \in Candidates(tier, l) : s1 # s2
    /\ ambiguity' = [ambiguity EXCEPT ![l] =
            IF Cardinality(Candidates(tier, l)) > Cardinality(@)
            THEN Candidates(tier, l) ELSE @]
    /\ UNCHANGED <<proposal, poolVars, contests, reason>>

Propose(l) ==
    /\ Visit("search", l)
    /\ \E s \in Settlements :
        /\ Candidates(tier, l) = {s}
        /\ AcceptsCardinality(tier, s)
        /\ proposal' = [proposal EXCEPT ![l] = s]
    /\ UNCHANGED <<poolVars, ambiguity, contests, reason>>

StartResolve ==
    /\ phase = "search"
    /\ todo = {}
    /\ phase' = "resolve"
    /\ todo' = {l \in Lines : proposal[l] # None}
    /\ UNCHANGED <<file, tier, proposal, poolVars, ambiguity, contests, reason>>

NoRivals(l) == {l}                            \* a slip: first come, first served

Rivals(l) == {k \in Lines : proposal[k] = proposal[l]}

\* Two lines want the same settlement: neither gets it in this tier.
Contest(l) ==
    /\ Visit("resolve", l)
    /\ Rivals(l) # {l}
    /\ contests' = [contests EXCEPT ![l] = Rivals(l)]
    /\ UNCHANGED <<proposal, poolVars, ambiguity, reason>>

Build(l) ==
    /\ Visit("resolve", l)
    /\ Rivals(l) = {l}
    /\ matchOf' = [matchOf EXCEPT ![l] = proposal[l]]
    /\ tierOf' = [tierOf EXCEPT ![l] = tier]
    /\ claimed' = claimed \union {proposal[l]}
    /\ UNCHANGED <<proposal, ambiguity, contests, reason>>

EndTier ==
    /\ phase = "resolve"
    /\ todo = {}
    /\ proposal' = [l \in Lines |-> None]
    /\ todo' = Open
    /\ IF tier = LastTier
       THEN phase' = "classify" /\ UNCHANGED tier
       ELSE phase' = "search" /\ tier' = tier + 1
    /\ UNCHANGED <<file, poolVars, ambiguity, contests, reason>>

----------------------------------------------------------------------------
\* The exception partition.

\* The ladder, most specific rung first.  Whether the narration yields any
\* signal is a fact about its text that nothing else here reads, so the last
\* rung is left open between its two codes.
ReasonsFor(l) ==
    IF Undecidable(l) THEN {"AMBIGUOUS_MULTI_CANDIDATE"}
    ELSE IF file.ref[l] # None THEN {"AMOUNT_MISMATCH"}
    ELSE IF file.credit[l] = None THEN {"ORPHAN_BANK_LINE"}
    ELSE IF \A s \in file.known \ claimed : ~WithinWindow(l, s)
         THEN {"ORPHAN_BANK_LINE"}
    ELSE {"UNPARSEABLE_NARRATION", "NO_SETTLEMENT_REF"}

Classify(l) ==
    /\ Visit("classify", l)
    /\ \E r \in ReasonsFor(l) : reason' = [reason EXCEPT ![l] = r]
    /\ UNCHANGED <<proposal, poolVars, ambiguity, contests>>

Finish ==
    /\ phase = "classify"
    /\ todo = {}
    /\ phase' = "done"
    /\ UNCHANGED <<file, tier, todo, proposal, poolVars, ambiguity, contests,
                   reason>>

Terminated == phase = "done" /\ UNCHANGED vars

Next ==
    \/ \E l \in Lines :
        \/ Pass(l) \/ NoteAmbiguity(l) \/ Propose(l)
        \/ Contest(l) \/ Build(l) \/ Classify(l)
    \/ StartResolve \/ EndTier \/ Finish
    \/ Terminated

Spec == Init /\ [][Next]_vars

----------------------------------------------------------------------------
\* Properties.

\* The run's bookkeeping has the shape the code gives it.
TypeOK ==
    /\ file \in FileType
    /\ tier \in Tiers
    /\ phase \in {"search", "resolve", "classify", "done"}
    /\ todo \subseteq Lines
    /\ proposal \in [Lines -> Settlements \union {None}]
    /\ matchOf \in [Lines -> Settlements \union {None}]
    /\ tierOf \in [Lines -> Tiers \union {None}]
    /\ claimed \subseteq Settlements
    /\ ambiguity \in [Lines -> SUBSET Settlements]
    /\ contests \in [Lines -> SUBSET Lines]
    /\ reason \in [Lines -> Reasons \union {None}]

\* No settlement closes two bank lines, and the claimed set every later tier
\* filters by is exactly what the matches hold.  Two lines of one tier are
\* searched before either claims, so only the contest rule keeps them apart.
OneClaimPerSettlement ==
    /\ \A k, l \in Lines : matchOf[k] = matchOf[l] /\ matchOf[k] # None => k = l
    /\ claimed = {matchOf[l] : l \in Lines} \ {None}

\* The engine's partition: no line is both matched and excepted, and when the
\* run ends none is neither.
MatchedOrExcepted ==
    /\ \A l \in Lines : matchOf[l] = None \/ reason[l] = None
    /\ phase = "done" => \A l \in Lines : matchOf[l] # None \/ reason[l] # None

\* Both together are the partition the run promises: every line in one of the
\* two lists, every settlement behind one line at most.
PartitionIsExact == OneClaimPerSettlement /\ MatchedOrExcepted

\* A match says what its tier promises: T0 the reference and the exact sum, T1
\* and T2 the exact sum within two days and the right number of payment legs,
\* T3 at most a rupee of residual within two days.
Justified(t, l, s) ==
    LET gap  == file.net[s] - file.credit[l]
        late == file.settledOn[s] - file.txnDate[l]
    IN  /\ file.credit[l] # None
        /\ t # 3 => gap = 0
        /\ t = 0 => file.ref[l] = s
        /\ t = 1 => file.payLegs[s] = 1
        /\ t = 2 => file.payLegs[s] > 1
        /\ t # 0 => late <= 2 /\ -2 <= late
        /\ t = 3 => gap <= 100 /\ -100 <= gap

\* Every match keeps the promise of the tier it names.
MatchesAreJustified ==
    \A l \in Lines : matchOf[l] # None => Justified(tierOf[l], l, matchOf[l])

\* What a tier decides is a function of the claims it started from, not of the
\* order it visits the lines in: it matches exactly the pairs where the line
\* has one candidate and no other line has the same one.
ClaimedBefore(t) ==
    {matchOf[l] : l \in {k \in Lines : tierOf[k] # None /\ tierOf[k] < t}}

OpenBefore(t) ==
    {l \in Lines : tierOf[l] = None \/ tierOf[l] >= t}

SoleChoice(t, l, s) ==
    /\ {x \in file.known \ ClaimedBefore(t) : Qualifies(t, l, x)} = {s}
    /\ AcceptsCardinality(t, s)

TierResult(t) ==
    {p \in OpenBefore(t) \X Settlements :
        \A k \in OpenBefore(t) : SoleChoice(t, k, p[2]) <=> k = p[1]}

Finished == IF phase \in {"classify", "done"} THEN Tiers ELSE 0..(tier - 1)

\* A finished tier matched exactly the pairs that claims and file determine.
TiersAreOrderFree ==
    \A t \in Finished :
        {<<l, matchOf[l]>> : l \in {k \in Lines : tierOf[k] = t}} = TierResult(t)

\* A reason code softer than AMBIGUOUS is only given when no settlement left
\* unclaimed could have closed the line at any tier, which is what the
\* evidence line of those codes says.
SoftReason(l) == reason[l] \notin {None, "AMBIGUOUS_MULTI_CANDIDATE"}

\* No unclaimed settlement closes a line that carries a softer code.
SoftReasonsAreTrue ==
    \A l \in Lines : SoftReason(l) /\ file.credit[l] # None =>
        \A s \in file.known \ claimed :
            ~(Abs(Residual(l, s)) <= 100 /\ Abs(file.settledOn[s] - file.txnDate[l]) <= 2)

\* When T3 gives a settlement to a line it does not close exactly, no line that
\* would have closed it exactly is left with a soft reason: it was matched
\* elsewhere, or it is reported as ambiguous.
ToleranceNeverOutranksExact ==
    \A k, l \in Lines :
        LET s == matchOf[k]
        IN  /\ s # None
            /\ Residual(k, s) # 0
            /\ SoftReason(l)
            /\ file.credit[l] # None
            => ~(Residual(l, s) = 0 /\ Abs(file.settledOn[s] - file.txnDate[l]) <= 2)

\* AMBIGUOUS is the honesty metric, so it is never spent on a line the data
\* did decide: two settlements close the line, or another line is closed by
\* the same one.
CanClose(l, s) ==
    /\ s \in file.known
    /\ file.credit[l] # None
    /\ \/ file.ref[l] = s /\ Residual(l, s) = 0
       \/ Abs(Residual(l, s)) <= 100 /\ Abs(file.settledOn[s] - file.txnDate[l]) <= 2

\* A line reported as ambiguous has a rival settlement or a rival line.
AmbiguityIsReal ==
    \A l \in Lines : reason[l] = "AMBIGUOUS_MULTI_CANDIDATE" =>
        \E s \in Settlements :
            /\ CanClose(l, s)
            /\ \/ \E x \in Settlements \ {s} : CanClose(l, x)
               \/ \E k \in Lines \ {l} : CanClose(k, s)

\* Every reason code tells the truth: the soft ones that nothing left over closes
\* the line, the ambiguous one that two things did.
ReasonsAreHonest ==
    SoftReasonsAreTrue /\ ToleranceNeverOutranksExact /\ AmbiguityIsReal

\* The matcher implements the abstract ledger of closed and reported lines.
L == INSTANCE Ledger WITH closed <- matchOf,
                          reported <- {l \in Lines : reason[l] # None}

\* Every step of the matcher is a step of the ledger or leaves it alone.
ImplementsLedger == L!Spec

----------------------------------------------------------------------------
\* Statements of the source that the matcher does not keep.

\* tiers.py: "when one settlement is the only candidate of two different
\* subjects ... neither is matched".  A contest noted at one tier does not keep
\* the line out of the next one.
ContestedMatchesNothing ==
    \A l \in Lines : contests[l] # {} => matchOf[l] = None

\* engine.py writes "outside every tier's tolerance" into the evidence of
\* every AMOUNT_MISMATCH.  The date window and earlier claims also send a line
\* there.
MismatchIsOutsideTolerance ==
    \A l \in Lines : reason[l] = "AMOUNT_MISMATCH" /\ file.credit[l] # None =>
        Abs(Residual(l, file.ref[l])) > TOLERANCE_PAISE
=============================================================================
