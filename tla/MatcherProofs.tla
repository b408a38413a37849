---------------------------- MODULE MatcherProofs ----------------------------
(***************************************************************************)
(* Theorems of Matcher for every file, every number of lines and every     *)
(* number of settlements.  What TLC checks on three lines follows from one *)
(* inductive invariant: while a tier searches and resolves, a proposal is  *)
(* for a line nothing closes, names a settlement nothing claims, and       *)
(* already satisfies what its tier promises.                               *)
(* Two more invariants, on top of it, remember what each tier started from *)
(* and what stood in the way of the lines that stay open.                  *)
(***************************************************************************)
EXTENDS Matcher, FiniteSetTheorems, TLAPS

\* A proposal the current loop may still turn into a match.
Sound(l) ==
    /\ matchOf[l] = None
    /\ proposal[l] \notin claimed
    /\ Justified(tier, l, proposal[l])

SearchInv ==
    phase = "search" =>
        /\ \A l \in todo : matchOf[l] = None
        /\ \A l \in Lines : proposal[l] # None => Sound(l)

ResolveInv ==
    phase = "resolve" =>
        \A l \in todo : proposal[l] # None /\ Sound(l)

\* Reasons are only written once the tiers are over, on lines that stay open.
ReportInv ==
    /\ phase \in {"search", "resolve"} => \A l \in Lines : reason[l] = None
    /\ phase = "classify" => \A l \in todo : matchOf[l] = None
    /\ phase \in {"classify", "done"} =>
         \A l \in Lines \ todo : matchOf[l] # None \/ reason[l] # None
    /\ phase = "done" => todo = {}

Inv ==
    /\ TypeOK
    /\ OneClaimPerSettlement
    /\ MatchedOrExcepted
    /\ MatchesAreJustified
    /\ SearchInv
    /\ ResolveInv
    /\ ReportInv

----------------------------------------------------------------------------
\* What the search hands to a tier.

\* A candidate is a known, unclaimed settlement, whatever the tier and line.
LEMMA CandidatesOpen ==
    ASSUME TypeOK, NEW t \in Tiers, NEW l \in Lines, NEW s \in Candidates(t, l)
    PROVE  s \in Settlements /\ s \notin claimed /\ s # None
  BY FilesAssumption DEF TypeOK, FileType, Candidates

\* A sole candidate the label test accepts already keeps the tier's promise.
LEMMA CandidatesJustified ==
    ASSUME TypeOK, NEW l \in Lines, NEW s \in Candidates(tier, l),
           AcceptsCardinality(tier, s)
    PROVE  Justified(tier, l, s)
<1>1. /\ s \in Settlements
      /\ file.net[s] \in Int
      /\ file.settledOn[s] \in Int
      /\ file.payLegs[s] \in Nat
      /\ file.txnDate[l] \in Int
  BY DEF TypeOK, FileType, Candidates
<1>2. file.credit[l] \in Int
  BY DEF TypeOK, FileType, Candidates, Qualifies
<1>3. tier \in 0..3
  BY DEF TypeOK, Tiers
<1>4. CASE tier = 0
  BY <1>1, <1>2, <1>4 DEF Justified, Candidates, Qualifies, Residual
<1>5. CASE tier \in 1..3
  <2>1. /\ Abs(Residual(l, s)) <= Tolerance(tier)
        /\ WithinWindow(l, s)
    BY <1>5 DEF Candidates, Qualifies
  <2>2. file.settledOn[s] - file.txnDate[l] \in -2..2
    BY <1>1, <2>1 DEF WithinWindow, Abs, WINDOW_DAYS
  <2>3. /\ tier = 3 => file.net[s] - file.credit[l] \in -100..100
        /\ tier # 3 => file.net[s] - file.credit[l] = 0
    BY <1>1, <1>2, <2>1 DEF Residual, Abs, Tolerance, TOLERANCE_PAISE
  <2> QED
    BY <1>1, <1>2, <1>5, <2>2, <2>3, FilesAssumption
       DEF Justified, AcceptsCardinality
<1> QED
  BY <1>3, <1>4, <1>5

----------------------------------------------------------------------------
\* The invariant is inductive.

LEMMA InitInv == Init => Inv
<1> SUFFICES ASSUME Init PROVE Inv
  OBVIOUS
<1>1. TypeOK
  BY FilesAssumption DEF Init, Start, TypeOK, Tiers
<1>2. OneClaimPerSettlement
  BY DEF Init, Start, OneClaimPerSettlement
<1>3. MatchedOrExcepted /\ MatchesAreJustified
  BY DEF Init, Start, MatchedOrExcepted, MatchesAreJustified
<1>4. SearchInv /\ ResolveInv /\ ReportInv
  BY DEF Init, Start, SearchInv, ResolveInv, ReportInv
<1> QED
  BY <1>1, <1>2, <1>3, <1>4 DEF Inv

\* Only a proposal that is not None is built, so claims stay settlements.
LEMMA NextTypeOK ==
    TypeOK /\ ResolveInv /\ [Next]_vars => TypeOK'
<1> SUFFICES ASSUME TypeOK, ResolveInv, [Next]_vars PROVE TypeOK'
  OBVIOUS
<1> USE DEF TypeOK
<1>1. ASSUME NEW l \in Lines, Pass(l) PROVE TypeOK'
  BY <1>1 DEF Pass, Visit, poolVars
<1>2. ASSUME NEW l \in Lines, NoteAmbiguity(l) PROVE TypeOK'
  <2>1. Candidates(tier, l) \in SUBSET Settlements
    BY CandidatesOpen
  <2> QED
    BY <1>2, <2>1 DEF NoteAmbiguity, Visit, poolVars
<1>3. ASSUME NEW l \in Lines, Propose(l) PROVE TypeOK'
  BY <1>3 DEF Propose, Visit, poolVars
<1>4. ASSUME NEW l \in Lines, Contest(l) PROVE TypeOK'
  <2>1. Rivals(l) \in SUBSET Lines
    BY DEF Rivals
  <2> QED
    BY <1>4, <2>1 DEF Contest, Visit, poolVars
<1>5. ASSUME NEW l \in Lines, Build(l) PROVE TypeOK'
  <2>1. proposal[l] # None
    BY <1>5 DEF Build, Visit, ResolveInv
  <2> QED
    BY <1>5, <2>1 DEF Build, Visit
<1>6. ASSUME NEW l \in Lines, Classify(l) PROVE TypeOK'
  <2>1. ReasonsFor(l) \subseteq Reasons
    BY DEF ReasonsFor, Reasons
  <2> QED
    BY <1>6, <2>1 DEF Classify, Visit, poolVars
<1>7. CASE StartResolve
  BY <1>7 DEF StartResolve, poolVars
<1>8. CASE EndTier
  BY <1>8 DEF EndTier, LastTier, Open, Tiers, poolVars
<1>9. CASE Finish
  BY <1>9 DEF Finish, poolVars
<1>10. CASE UNCHANGED vars
  BY <1>10 DEF vars
<1> QED
  BY <1>1, <1>2, <1>3, <1>4, <1>5, <1>6, <1>7, <1>8, <1>9, <1>10
     DEF Next, Terminated

\* A step that leaves matches, claims and reasons alone, and the tier and
\* phase too, keeps every conjunct about lines it did not visit.
LEMMA NextInv == Inv /\ [Next]_vars => Inv'
<1> SUFFICES ASSUME Inv, [Next]_vars PROVE Inv'
  OBVIOUS
<1>0. TypeOK'
  BY NextTypeOK DEF Inv
<1>1. ASSUME NEW l \in Lines, Pass(l) PROVE Inv'
  <2>1. (OneClaimPerSettlement /\ MatchedOrExcepted /\ MatchesAreJustified)'
    BY <1>1 DEF Inv, Pass, Visit, poolVars, OneClaimPerSettlement,
       MatchedOrExcepted, MatchesAreJustified, Justified
  <2>2. (SearchInv /\ ResolveInv)'
    BY <1>1 DEF Inv, Pass, Visit, poolVars, SearchInv, ResolveInv, Sound,
       Justified
  <2>3. ReportInv'
    BY <1>1 DEF Inv, Pass, Visit, poolVars, ReportInv
  <2> QED
    BY <1>0, <2>1, <2>2, <2>3 DEF Inv
<1>2. ASSUME NEW l \in Lines, NoteAmbiguity(l) PROVE Inv'
  <2>1. (OneClaimPerSettlement /\ MatchedOrExcepted /\ MatchesAreJustified)'
    BY <1>2 DEF Inv, NoteAmbiguity, Visit, poolVars, OneClaimPerSettlement,
       MatchedOrExcepted, MatchesAreJustified, Justified
  <2>2. (SearchInv /\ ResolveInv)'
    BY <1>2 DEF Inv, NoteAmbiguity, Visit, poolVars, SearchInv, ResolveInv,
       Sound, Justified
  <2>3. ReportInv'
    BY <1>2 DEF Inv, NoteAmbiguity, Visit, poolVars, ReportInv
  <2> QED
    BY <1>0, <2>1, <2>2, <2>3 DEF Inv
<1>3. ASSUME NEW l \in Lines, Propose(l) PROVE Inv'
  <2>1. (OneClaimPerSettlement /\ MatchedOrExcepted /\ MatchesAreJustified)'
    BY <1>3 DEF Inv, Propose, Visit, poolVars, OneClaimPerSettlement,
       MatchedOrExcepted, MatchesAreJustified, Justified
  <2>2. PICK s \in Candidates(tier, l) :
            /\ AcceptsCardinality(tier, s)
            /\ proposal' = [proposal EXCEPT ![l] = s]
    BY <1>3 DEF Propose
  <2>3. /\ phase = "search"
        /\ l \in todo
        /\ UNCHANGED <<file, tier, phase, matchOf, claimed>>
        /\ todo' \subseteq todo
    BY <1>3 DEF Propose, Visit, poolVars
  <2>4. Justified(tier, l, s) /\ s \notin claimed
    BY <2>2, CandidatesJustified, CandidatesOpen DEF Inv, TypeOK
  <2>5. ASSUME NEW k \in Lines, proposal'[k] # None PROVE Sound(k)'
    <3>1. CASE k = l
      BY <2>2, <2>3, <2>4, <3>1 DEF Inv, TypeOK, SearchInv, Sound, Justified
    <3>2. CASE k # l
      BY <2>2, <2>3, <2>5, <3>2 DEF Inv, TypeOK, SearchInv, Sound, Justified
    <3> QED
      BY <3>1, <3>2
  <2>6. (SearchInv /\ ResolveInv)'
    BY <2>3, <2>5 DEF Inv, SearchInv, ResolveInv
  <2>7. ReportInv'
    BY <1>3 DEF Inv, Propose, Visit, poolVars, ReportInv
  <2> QED
    BY <1>0, <2>1, <2>6, <2>7 DEF Inv
<1>4. ASSUME NEW l \in Lines, Contest(l) PROVE Inv'
  <2>1. (OneClaimPerSettlement /\ MatchedOrExcepted /\ MatchesAreJustified)'
    BY <1>4 DEF Inv, Contest, Visit, poolVars, OneClaimPerSettlement,
       MatchedOrExcepted, MatchesAreJustified, Justified
  <2>2. (SearchInv /\ ResolveInv)'
    BY <1>4 DEF Inv, Contest, Visit, poolVars, SearchInv, ResolveInv, Sound,
       Justified
  <2>3. ReportInv'
    BY <1>4 DEF Inv, Contest, Visit, poolVars, ReportInv
  <2> QED
    BY <1>0, <2>1, <2>2, <2>3 DEF Inv
<1>5. ASSUME NEW l \in Lines, Build(l) PROVE Inv'
  <2> DEFINE s == proposal[l]
  <2>1. /\ phase = "resolve"
        /\ l \in todo
        /\ todo' = todo \ {l}
        /\ matchOf' = [matchOf EXCEPT ![l] = s]
        /\ tierOf' = [tierOf EXCEPT ![l] = tier]
        /\ claimed' = claimed \union {s}
        /\ UNCHANGED <<file, tier, phase, proposal, reason>>
    BY <1>5 DEF Build, Visit
  <2>2. s # None /\ s \notin claimed /\ matchOf[l] = None /\ Justified(tier, l, s)
    BY <2>1 DEF Inv, ResolveInv, Sound
  <2>3. \A k \in Lines : matchOf[k] # None => matchOf[k] # s
    BY <2>2 DEF Inv, OneClaimPerSettlement
  <2>4. /\ matchOf'[l] = s
        /\ tierOf'[l] = tier
        /\ \A k \in Lines : k # l => matchOf'[k] = matchOf[k] /\ tierOf'[k] = tierOf[k]
    BY <2>1 DEF Inv, TypeOK
  <2>5. OneClaimPerSettlement'
    <3>1. \A j, k \in Lines :
            matchOf'[j] = matchOf'[k] /\ matchOf'[j] # None => j = k
      BY <2>3, <2>4 DEF Inv, OneClaimPerSettlement
    <3>2. {matchOf'[k] : k \in Lines} = {matchOf[k] : k \in Lines \ {l}} \union {s}
      BY <2>4
    <3>3. claimed = {matchOf[k] : k \in Lines \ {l}} \ {None}
      BY <2>2 DEF Inv, OneClaimPerSettlement
    <3> QED
      BY <2>1, <2>2, <3>1, <3>2, <3>3 DEF OneClaimPerSettlement
  <2>6. MatchedOrExcepted'
    BY <2>1 DEF Inv, MatchedOrExcepted, ReportInv
  <2>7. MatchesAreJustified'
    BY <2>1, <2>2, <2>4 DEF Inv, MatchesAreJustified, Justified
  <2>8. ASSUME NEW k \in todo' PROVE proposal'[k] # None /\ Sound(k)'
    <3>1. k # l /\ k \in Lines /\ proposal[k] # None /\ Sound(k)
      BY <2>1, <2>8 DEF Inv, TypeOK, ResolveInv
    <3>2. proposal[k] # s
      BY <1>5, <3>1 DEF Build, Rivals
    <3> QED
      BY <2>1, <2>4, <3>1, <3>2 DEF Sound, Justified
  <2>9. (SearchInv /\ ResolveInv)'
    BY <2>1, <2>8 DEF SearchInv, ResolveInv
  <2>10. ReportInv'
    BY <2>1 DEF Inv, ReportInv
  <2> QED
    BY <1>0, <2>5, <2>6, <2>7, <2>9, <2>10 DEF Inv
<1>6. ASSUME NEW l \in Lines, Classify(l) PROVE Inv'
  <2>1. PICK r \in ReasonsFor(l) : reason' = [reason EXCEPT ![l] = r]
    BY <1>6 DEF Classify
  <2>2. r # None
    BY ReasonsAssumption DEF ReasonsFor, Reasons
  <2>3. /\ phase = "classify"
        /\ l \in todo
        /\ todo' = todo \ {l}
        /\ UNCHANGED <<file, tier, phase, proposal, matchOf, tierOf, claimed>>
    BY <1>6 DEF Classify, Visit, poolVars
  <2>4. /\ reason'[l] = r
        /\ \A k \in Lines : k # l => reason'[k] = reason[k]
    BY <2>1 DEF Inv, TypeOK
  <2>5. (OneClaimPerSettlement /\ MatchesAreJustified)'
    BY <2>3 DEF Inv, OneClaimPerSettlement, MatchesAreJustified, Justified
  <2>6. MatchedOrExcepted'
    BY <2>3, <2>4 DEF Inv, MatchedOrExcepted, ReportInv
  <2>7. (SearchInv /\ ResolveInv)'
    BY <2>3 DEF SearchInv, ResolveInv
  <2>8. ReportInv'
    BY <2>2, <2>3, <2>4 DEF Inv, ReportInv
  <2> QED
    BY <1>0, <2>5, <2>6, <2>7, <2>8 DEF Inv
<1>7. CASE StartResolve
  <2>1. (OneClaimPerSettlement /\ MatchedOrExcepted /\ MatchesAreJustified)'
    BY <1>7 DEF Inv, StartResolve, poolVars, OneClaimPerSettlement,
       MatchedOrExcepted, MatchesAreJustified, Justified
  <2>2. (SearchInv /\ ResolveInv)'
    BY <1>7 DEF Inv, StartResolve, poolVars, SearchInv, ResolveInv, Sound,
       Justified
  <2>3. ReportInv'
    BY <1>7 DEF Inv, StartResolve, poolVars, ReportInv
  <2> QED
    BY <1>0, <2>1, <2>2, <2>3 DEF Inv
<1>8. CASE EndTier
  <2>1. (OneClaimPerSettlement /\ MatchesAreJustified)'
    BY <1>8 DEF Inv, EndTier, poolVars, OneClaimPerSettlement,
       MatchesAreJustified, Justified
  <2>2. MatchedOrExcepted'
    BY <1>8 DEF Inv, EndTier, poolVars, MatchedOrExcepted
  <2>3. (SearchInv /\ ResolveInv)'
    BY <1>8 DEF Inv, EndTier, Open, poolVars, SearchInv, ResolveInv
  <2>4. ReportInv'
    BY <1>8 DEF Inv, EndTier, Open, poolVars, ReportInv
  <2> QED
    BY <1>0, <2>1, <2>2, <2>3, <2>4 DEF Inv
<1>9. CASE Finish
  <2>1. (OneClaimPerSettlement /\ MatchesAreJustified)'
    BY <1>9 DEF Inv, Finish, poolVars, OneClaimPerSettlement,
       MatchesAreJustified, Justified
  <2>2. MatchedOrExcepted'
    BY <1>9 DEF Inv, Finish, poolVars, MatchedOrExcepted, ReportInv
  <2>3. (SearchInv /\ ResolveInv /\ ReportInv)'
    BY <1>9 DEF Inv, Finish, poolVars, SearchInv, ResolveInv, ReportInv
  <2> QED
    BY <1>0, <2>1, <2>2, <2>3 DEF Inv
<1>10. CASE UNCHANGED vars
  <2>1. (OneClaimPerSettlement /\ MatchedOrExcepted /\ MatchesAreJustified)'
    BY <1>10 DEF Inv, vars, OneClaimPerSettlement, MatchedOrExcepted,
       MatchesAreJustified, Justified
  <2>2. (SearchInv /\ ResolveInv /\ ReportInv)'
    BY <1>10 DEF Inv, vars, SearchInv, ResolveInv, ReportInv, Sound, Justified
  <2> QED
    BY <1>0, <2>1, <2>2 DEF Inv
<1> QED
  BY <1>1, <1>2, <1>3, <1>4, <1>5, <1>6, <1>7, <1>8, <1>9, <1>10
     DEF Next, Terminated

----------------------------------------------------------------------------
\* What holds of every run.

THEOREM Invariance == Spec => []Inv
<1> QED
  BY InitInv, NextInv, PTL DEF Spec

\* The bookkeeping of every run of every size keeps its shape.
THEOREM TypeCorrect == Spec => []TypeOK
<1>1. Inv => TypeOK
  BY DEF Inv
<1> QED
  BY <1>1, Invariance, PTL

\* No settlement closes two bank lines: a proposal stays unclaimed until it is
\* built because two equal proposals are both refused.
THEOREM OneClaim == Spec => []OneClaimPerSettlement
<1>1. Inv => OneClaimPerSettlement
  BY DEF Inv
<1> QED
  BY <1>1, Invariance, PTL

\* Matched and excepted lines partition the statement when the run is done.
THEOREM Partition == Spec => []MatchedOrExcepted
<1>1. Inv => MatchedOrExcepted
  BY DEF Inv
<1> QED
  BY <1>1, Invariance, PTL

\* Both together, the partition the run promises.
THEOREM ExactPartition == Spec => []PartitionIsExact
<1>1. OneClaimPerSettlement /\ MatchedOrExcepted => PartitionIsExact
  BY DEF PartitionIsExact
<1> QED
  BY <1>1, OneClaim, Partition, PTL

\* Every match carries the arithmetic, the window and the label of its tier.
THEOREM Justification == Spec => []MatchesAreJustified
<1>1. Inv => MatchesAreJustified
  BY DEF Inv
<1> QED
  BY <1>1, Invariance, PTL

----------------------------------------------------------------------------
\* What a tier decides depends on the claims it started from alone.

Possible(t, l) ==
    {x \in file.known \ ClaimedBefore(t) : Qualifies(t, l, x)}

\* A match and its tier are written together, by the tier that is running.
LabelInv ==
    \A l \in Lines :
        /\ matchOf[l] = None <=> tierOf[l] = None
        /\ phase = "search" /\ tierOf[l] # None => tierOf[l] < tier
        /\ phase = "resolve" /\ tierOf[l] # None => tierOf[l] <= tier
        /\ phase \in {"classify", "done"} => tier = LastTier

\* A line that was searched proposes its sole choice, and nothing else does.
SearchedInv ==
    phase = "search" =>
        \A l \in Lines, s \in Settlements :
            proposal[l] = s <=>
                l \notin todo /\ l \in OpenBefore(tier) /\ SoleChoice(tier, l, s)

\* While proposals are resolved they stay what the search made of them, and
\* the lines this tier closed are the ones it resolved without a rival.
ResolvedInv ==
    phase = "resolve" =>
        /\ \A l \in Lines, s \in Settlements :
             proposal[l] = s <=> l \in OpenBefore(tier) /\ SoleChoice(tier, l, s)
        /\ \A l \in Lines :
             /\ tierOf[l] = tier <=>
                  l \notin todo /\ proposal[l] # None /\ Rivals(l) = {l}
             /\ tierOf[l] = tier => matchOf[l] = proposal[l]

OrderInv == LabelInv /\ SearchedInv /\ ResolvedInv /\ TiersAreOrderFree

\* What a tier could have chosen is a function of the file and earlier claims.
LEMMA SameChoice ==
    ASSUME NEW t, file' = file, ClaimedBefore(t)' = ClaimedBefore(t)
    PROVE  \A l \in Lines :
             /\ Possible(t, l)' = Possible(t, l)
             /\ \A s : SoleChoice(t, l, s)' <=> SoleChoice(t, l, s)
<1> SUFFICES ASSUME NEW l \in Lines
             PROVE /\ Possible(t, l)' = Possible(t, l)
                   /\ \A s : SoleChoice(t, l, s)' <=> SoleChoice(t, l, s)
  OBVIOUS
<1>1. \A x : Qualifies(t, l, x)' <=> Qualifies(t, l, x)
  BY DEF Qualifies, Residual, WithinWindow
<1>2. Possible(t, l)' = Possible(t, l)
  BY <1>1 DEF Possible
<1>3. \A s : AcceptsCardinality(t, s)' <=> AcceptsCardinality(t, s)
  BY DEF AcceptsCardinality
<1>4. /\ \A s : SoleChoice(t, l, s) <=>
               Possible(t, l) = {s} /\ AcceptsCardinality(t, s)
      /\ \A s : SoleChoice(t, l, s)' <=>
               Possible(t, l)' = {s} /\ AcceptsCardinality(t, s)'
  BY DEF SoleChoice, Possible
<1> QED
  BY <1>2, <1>3, <1>4

LEMMA SameTierResult ==
    ASSUME NEW t, file' = file, ClaimedBefore(t)' = ClaimedBefore(t),
           OpenBefore(t)' = OpenBefore(t)
    PROVE  TierResult(t)' = TierResult(t)
<1>1. \A k \in OpenBefore(t) : \A s : SoleChoice(t, k, s)' <=> SoleChoice(t, k, s)
  BY SameChoice DEF OpenBefore
<1> QED
  BY <1>1 DEF TierResult

\* The pairs a tier matched.
MatchedAt(t) == {<<l, matchOf[l]>> : l \in {k \in Lines : tierOf[k] = t}}

\* A step that builds no match leaves every tier's decision and its inputs.
LEMMA NoBuild ==
    ASSUME UNCHANGED <<file, matchOf, tierOf>>, NEW t
    PROVE  /\ ClaimedBefore(t)' = ClaimedBefore(t)
           /\ OpenBefore(t)' = OpenBefore(t)
           /\ TierResult(t)' = TierResult(t)
           /\ MatchedAt(t)' = MatchedAt(t)
<1>1. ClaimedBefore(t)' = ClaimedBefore(t) /\ OpenBefore(t)' = OpenBefore(t)
  BY DEF ClaimedBefore, OpenBefore
<1>2. MatchedAt(t)' = MatchedAt(t)
  BY DEF MatchedAt
<1> QED
  BY <1>1, <1>2, SameTierResult

\* A match built now is neither a claim nor a closed line for this tier and
\* those before it.
LEMMA BuildIsLater ==
    ASSUME TypeOK, LabelInv, NEW l \in Lines, Build(l), matchOf[l] = None,
           NEW t \in 0..tier
    PROVE  /\ ClaimedBefore(t)' = ClaimedBefore(t)
           /\ OpenBefore(t)' = OpenBefore(t)
           /\ TierResult(t)' = TierResult(t)
           /\ t < tier => MatchedAt(t)' = MatchedAt(t)
<1>1. /\ file' = file
      /\ matchOf' = [matchOf EXCEPT ![l] = proposal[l]]
      /\ tierOf' = [tierOf EXCEPT ![l] = tier]
  BY DEF Build, Visit
<1>2. tierOf[l] = None /\ tierOf'[l] = tier
  BY <1>1 DEF LabelInv, TypeOK
<1>3. \A k \in Lines \ {l} : matchOf'[k] = matchOf[k] /\ tierOf'[k] = tierOf[k]
  BY <1>1 DEF TypeOK
<1>4. /\ tier \in 0..3 /\ t \in 0..3 /\ t <= tier
      /\ None \notin 0..3
  BY FilesAssumption DEF TypeOK, Tiers
<1>5. {k \in Lines : tierOf'[k] # None /\ tierOf'[k] < t}
        = {k \in Lines : tierOf[k] # None /\ tierOf[k] < t}
  BY <1>2, <1>3, <1>4
<1>6. l \notin {k \in Lines : tierOf[k] # None /\ tierOf[k] < t}
  BY <1>2
<1>7. ClaimedBefore(t)' = ClaimedBefore(t)
  BY <1>3, <1>5, <1>6 DEF ClaimedBefore
<1>8. OpenBefore(t)' = OpenBefore(t)
  BY <1>2, <1>3, <1>4 DEF OpenBefore
<1>9. ASSUME t < tier PROVE MatchedAt(t)' = MatchedAt(t)
  <2>1. {k \in Lines : tierOf'[k] = t} = {k \in Lines : tierOf[k] = t}
    BY <1>2, <1>3, <1>4, <1>9
  <2>2. l \notin {k \in Lines : tierOf[k] = t}
    BY <1>2, <1>4
  <2> QED
    BY <1>3, <2>1, <2>2 DEF MatchedAt
<1> QED
  BY <1>1, <1>7, <1>8, <1>9, SameTierResult

\* Between tiers the claims so far are exactly those of the tiers before.
LEMMA SearchClaims ==
    ASSUME Inv, LabelInv, phase = "search"
    PROVE  /\ claimed = ClaimedBefore(tier)
           /\ \A l \in Lines : l \in OpenBefore(tier) <=> matchOf[l] = None
           /\ \A l \in Lines : Candidates(tier, l) = Possible(tier, l)
<1>1. \A l \in Lines : matchOf[l] # None <=> (tierOf[l] # None /\ tierOf[l] < tier)
  BY DEF LabelInv
<1>2. claimed = {matchOf[l] : l \in {k \in Lines : matchOf[k] # None}}
  BY DEF Inv, OneClaimPerSettlement
<1>3. claimed = ClaimedBefore(tier)
  BY <1>1, <1>2 DEF ClaimedBefore
<1>4. \A l \in Lines : tierOf[l] # None => ~(tierOf[l] >= tier)
  BY FilesAssumption DEF Inv, TypeOK, LabelInv, Tiers
<1>5. \A l \in Lines : l \in OpenBefore(tier) <=> matchOf[l] = None
  BY <1>4 DEF OpenBefore, LabelInv
<1> QED
  BY <1>3, <1>5 DEF Candidates, Possible

LEMMA SoleByPossible ==
    \A t, l, s : SoleChoice(t, l, s) <=>
                    Possible(t, l) = {s} /\ AcceptsCardinality(t, s)
  BY DEF SoleChoice, Possible

\* A finished tier's result is left alone by steps that build nothing.
LEMMA FinishedKept ==
    ASSUME TiersAreOrderFree, UNCHANGED <<file, matchOf, tierOf>>,
           Finished' \subseteq Finished
    PROVE  TiersAreOrderFree'
<1>1. \A t \in Finished : MatchedAt(t) = TierResult(t)
  BY DEF TiersAreOrderFree, MatchedAt
<1>2. \A t \in Finished' : MatchedAt(t)' = TierResult(t)'
  BY <1>1, NoBuild
<1> QED
  BY <1>2 DEF TiersAreOrderFree, MatchedAt

\* A search step on a line it passes over, for want of a choice it may make.
LEMMA PassedOver ==
    ASSUME Inv, OrderInv, NEW l \in Lines, Visit("search", l),
           UNCHANGED <<proposal, matchOf, tierOf>>,
           \A s \in Settlements : ~SoleChoice(tier, l, s)
    PROVE  OrderInv'
<1>1. /\ phase = "search" /\ phase' = "search"
      /\ todo' = todo \ {l}
      /\ UNCHANGED <<file, tier, proposal, matchOf, tierOf>>
  BY DEF Visit
<1>2. LabelInv'
  BY <1>1 DEF OrderInv, LabelInv
<1>3. SearchedInv'
  <2>1. /\ OpenBefore(tier)' = OpenBefore(tier)
        /\ \A k \in Lines : \A s :
             SoleChoice(tier, k, s)' <=> SoleChoice(tier, k, s)
    BY <1>1, NoBuild, SameChoice
  <2>2. \A k \in Lines, s \in Settlements :
          proposal[k] = s <=>
            k \notin todo /\ k \in OpenBefore(tier) /\ SoleChoice(tier, k, s)
    BY <1>1 DEF OrderInv, SearchedInv
  <2> QED
    BY <1>1, <2>1, <2>2 DEF SearchedInv
<1>4. ResolvedInv'
  BY <1>1 DEF ResolvedInv
<1>5. TiersAreOrderFree'
  BY <1>1, FinishedKept DEF OrderInv, Finished
<1> QED
  BY <1>2, <1>3, <1>4, <1>5 DEF OrderInv

LEMMA ProposeOrder ==
    ASSUME Inv, OrderInv, NEW l \in Lines, Propose(l)
    PROVE  OrderInv'
<1>1. /\ phase = "search" /\ phase' = "search"
      /\ l \in todo /\ todo' = todo \ {l}
      /\ UNCHANGED <<file, tier, matchOf, tierOf>>
  BY DEF Propose, Visit, poolVars
<1>2. PICK s \in Settlements :
        /\ Possible(tier, l) = {s}
        /\ AcceptsCardinality(tier, s)
        /\ proposal' = [proposal EXCEPT ![l] = s]
  BY <1>1, SearchClaims DEF Propose, OrderInv
<1>3. l \in OpenBefore(tier)
  BY <1>1, SearchClaims DEF Inv, OrderInv, SearchInv
<1>4. \A x : SoleChoice(tier, l, x) <=> x = s
  BY <1>2, SoleByPossible
<1>5. /\ OpenBefore(tier)' = OpenBefore(tier)
      /\ \A k \in Lines : \A x : SoleChoice(tier, k, x)' <=> SoleChoice(tier, k, x)
  BY <1>1, NoBuild, SameChoice
<1>6. SearchedInv'
  <2> SUFFICES ASSUME NEW k \in Lines, NEW x \in Settlements
               PROVE proposal'[k] = x <=>
                       /\ k \notin todo'
                       /\ k \in OpenBefore(tier)
                       /\ SoleChoice(tier, k, x)
    BY <1>1, <1>5 DEF SearchedInv
  <2>1. CASE k = l
    BY <1>1, <1>2, <1>3, <1>4, <2>1 DEF Inv, TypeOK
  <2>2. CASE k # l
    BY <1>1, <1>2, <2>2 DEF Inv, TypeOK, OrderInv, SearchedInv
  <2> QED
    BY <2>1, <2>2
<1>7. LabelInv' /\ ResolvedInv'
  BY <1>1 DEF OrderInv, LabelInv, ResolvedInv
<1>8. TiersAreOrderFree'
  BY <1>1, FinishedKept DEF OrderInv, Finished
<1> QED
  BY <1>6, <1>7, <1>8 DEF OrderInv

LEMMA ContestOrder ==
    ASSUME Inv, OrderInv, NEW l \in Lines, Contest(l)
    PROVE  OrderInv'
<1>1. /\ phase = "resolve" /\ phase' = "resolve"
      /\ l \in todo /\ todo' = todo \ {l}
      /\ Rivals(l) # {l}
      /\ UNCHANGED <<file, tier, proposal, matchOf, tierOf>>
  BY DEF Contest, Visit, poolVars
<1>2. /\ OpenBefore(tier)' = OpenBefore(tier)
      /\ \A k \in Lines : \A x : SoleChoice(tier, k, x)' <=> SoleChoice(tier, k, x)
      /\ \A k \in Lines : Rivals(k)' = Rivals(k)
  BY <1>1, NoBuild, SameChoice DEF Rivals
<1>3. /\ \A k \in Lines, s \in Settlements :
           proposal'[k] = s <=> k \in OpenBefore(tier) /\ SoleChoice(tier, k, s)
      /\ \A k \in Lines :
           /\ tierOf'[k] = tier <=>
                k \notin todo' /\ proposal'[k] # None /\ Rivals(k)' = {k}
           /\ tierOf'[k] = tier => matchOf'[k] = proposal'[k]
  BY <1>1, <1>2 DEF OrderInv, ResolvedInv
<1>4. ResolvedInv'
  BY <1>1, <1>2, <1>3 DEF ResolvedInv
<1>5. LabelInv' /\ SearchedInv'
  BY <1>1 DEF OrderInv, LabelInv, SearchedInv
<1>6. TiersAreOrderFree'
  BY <1>1, FinishedKept DEF OrderInv, Finished
<1> QED
  BY <1>4, <1>5, <1>6 DEF OrderInv

LEMMA BuildOrder ==
    ASSUME Inv, OrderInv, NEW l \in Lines, Build(l)
    PROVE  OrderInv'
<1>1. /\ phase = "resolve" /\ phase' = "resolve"
      /\ l \in todo /\ todo' = todo \ {l}
      /\ Rivals(l) = {l}
      /\ matchOf' = [matchOf EXCEPT ![l] = proposal[l]]
      /\ tierOf' = [tierOf EXCEPT ![l] = tier]
      /\ UNCHANGED <<file, tier, proposal>>
  BY DEF Build, Visit
<1>2. matchOf[l] = None /\ proposal[l] # None
  BY <1>1 DEF Inv, ResolveInv, Sound
<1>3. /\ tier \in 0..tier /\ tier \in Nat
      /\ tier # None
  BY FilesAssumption DEF Inv, TypeOK, Tiers
<1>4. /\ matchOf'[l] = proposal[l] /\ tierOf'[l] = tier
      /\ \A k \in Lines \ {l} : matchOf'[k] = matchOf[k] /\ tierOf'[k] = tierOf[k]
  BY <1>1 DEF Inv, TypeOK
<1>5. /\ OpenBefore(tier)' = OpenBefore(tier)
      /\ ClaimedBefore(tier)' = ClaimedBefore(tier)
  BY <1>1, <1>2, <1>3, BuildIsLater DEF Inv, OrderInv
<1>6. \A k \in Lines : \A x : SoleChoice(tier, k, x)' <=> SoleChoice(tier, k, x)
  BY <1>1, <1>5, SameChoice
<1>7. \A k \in Lines : Rivals(k)' = Rivals(k)
  BY <1>1 DEF Rivals
<1>8. ResolvedInv'
  <2>1. \A k \in Lines, s \in Settlements :
          proposal'[k] = s <=> k \in OpenBefore(tier) /\ SoleChoice(tier, k, s)
    BY <1>1 DEF OrderInv, ResolvedInv
  <2>2. \A k \in Lines :
          /\ tierOf'[k] = tier <=>
               k \notin todo' /\ proposal'[k] # None /\ Rivals(k)' = {k}
          /\ tierOf'[k] = tier => matchOf'[k] = proposal'[k]
    BY <1>1, <1>2, <1>4, <1>7 DEF OrderInv, ResolvedInv
  <2> QED
    BY <1>1, <1>5, <1>6, <2>1, <2>2 DEF ResolvedInv
<1>9. LabelInv' /\ SearchedInv'
  <2>1. \A k \in Lines :
          /\ matchOf'[k] = None <=> tierOf'[k] = None
          /\ tierOf'[k] # None => tierOf'[k] <= tier
    BY <1>1, <1>2, <1>3, <1>4 DEF OrderInv, LabelInv
  <2> QED
    BY <1>1, <2>1 DEF LabelInv, SearchedInv
<1>10. TiersAreOrderFree'
  <2>1. Finished = 0..(tier - 1) /\ Finished' = 0..(tier - 1)
    BY <1>1 DEF Finished
  <2>2. ASSUME NEW t \in 0..(tier - 1) PROVE MatchedAt(t)' = TierResult(t)'
    <3>1. t \in 0..tier /\ t < tier
      BY <1>3
    <3>2. TierResult(t)' = TierResult(t) /\ MatchedAt(t)' = MatchedAt(t)
      BY <1>2, <3>1, BuildIsLater DEF Inv, OrderInv
    <3>3. MatchedAt(t) = TierResult(t)
      BY <2>1 DEF OrderInv, TiersAreOrderFree, MatchedAt
    <3> QED
      BY <3>2, <3>3
  <2> QED
    BY <2>1, <2>2 DEF TiersAreOrderFree, MatchedAt
<1> QED
  BY <1>8, <1>9, <1>10 DEF OrderInv

\* The search is over, so a line is open for the tier when it has no match.
LEMMA StartResolveOrder ==
    ASSUME Inv, OrderInv, StartResolve
    PROVE  OrderInv'
<1>1. /\ phase = "search" /\ phase' = "resolve"
      /\ todo = {} /\ todo' = {k \in Lines : proposal[k] # None}
      /\ UNCHANGED <<file, tier, proposal, matchOf, tierOf>>
  BY DEF StartResolve, poolVars
<1>2. /\ OpenBefore(tier)' = OpenBefore(tier)
      /\ \A k \in Lines : \A x : SoleChoice(tier, k, x)' <=> SoleChoice(tier, k, x)
  BY <1>1, NoBuild, SameChoice
<1>3. \A k \in Lines : tierOf[k] # tier
  BY <1>1, FilesAssumption DEF Inv, TypeOK, Tiers, OrderInv, LabelInv
<1>4. \A k \in Lines, s \in Settlements :
        proposal'[k] = s <=> k \in OpenBefore(tier) /\ SoleChoice(tier, k, s)
  BY <1>1 DEF OrderInv, SearchedInv
<1>5. ResolvedInv'
  BY <1>1, <1>2, <1>3, <1>4 DEF ResolvedInv
<1>6. LabelInv' /\ SearchedInv'
  <2>1. \A k \in Lines : tierOf[k] # None => tierOf[k] <= tier
    BY <1>1, FilesAssumption DEF Inv, TypeOK, Tiers, OrderInv, LabelInv
  <2> QED
    BY <1>1, <2>1 DEF OrderInv, LabelInv, SearchedInv
<1>7. TiersAreOrderFree'
  BY <1>1, FinishedKept DEF OrderInv, Finished
<1> QED
  BY <1>5, <1>6, <1>7 DEF OrderInv

\* The last proposal is resolved: the tier matched the pairs where a line has
\* a sole choice and no other line has the same one, and its claims are the
\* ones the next tier starts from.
LEMMA EndTierOrder ==
    ASSUME Inv, OrderInv, EndTier
    PROVE  OrderInv'
<1>1. /\ phase = "resolve" /\ todo = {}
      /\ UNCHANGED <<file, matchOf, tierOf>>
      /\ proposal' = [k \in Lines |-> None]
      /\ todo' = Open
      /\ \/ tier = LastTier /\ tier' = tier /\ phase' = "classify"
         \/ tier # LastTier /\ tier' = tier + 1 /\ phase' = "search"
  BY DEF EndTier, poolVars
<1>2. tier \in 0..3
  BY DEF Inv, TypeOK, Tiers
<1>3. \A k \in Lines : tierOf[k] # None => tierOf[k] \in 0..3 /\ tierOf[k] <= tier
  BY <1>1, <1>2 DEF Inv, TypeOK, Tiers, OrderInv, LabelInv
<1>4. LabelInv' /\ ResolvedInv'
  <2>1. \A k \in Lines : tierOf[k] # None => tierOf[k] < tier + 1
    BY <1>2, <1>3
  <2> QED
    BY <1>1, <1>2, <2>1 DEF LabelInv, ResolvedInv, OrderInv
<1>5. SearchedInv'
  <2>1. \A k \in Lines : k \notin Open => tierOf[k] # None
    BY DEF OrderInv, LabelInv, Open
  <2>2. phase' = "search" =>
          \A k \in Lines : tierOf[k] # None => ~(tierOf[k] >= tier')
    BY <1>1, <1>2, <1>3 DEF LastTier
  <2>3. phase' = "search" =>
          \A k \in Lines : k \notin Open => k \notin OpenBefore(tier)'
    BY <1>1, <2>1, <2>2 DEF OpenBefore
  <2>4. \A k \in Lines, s \in Settlements : proposal'[k] # s
    BY <1>1, FilesAssumption
  <2> QED
    BY <1>1, <2>3, <2>4 DEF SearchedInv
<1>6. MatchedAt(tier) = TierResult(tier)
  <2>1. \A k \in Lines, s \in Settlements :
          proposal[k] = s <=> k \in OpenBefore(tier) /\ SoleChoice(tier, k, s)
    BY <1>1 DEF OrderInv, ResolvedInv
  <2>2. \A k \in Lines :
          /\ tierOf[k] = tier <=> proposal[k] # None /\ Rivals(k) = {k}
          /\ tierOf[k] = tier => matchOf[k] = proposal[k]
    BY <1>1 DEF OrderInv, ResolvedInv
  <2>3. OpenBefore(tier) \subseteq Lines
    BY DEF OpenBefore
  <2>4. ASSUME NEW l \in Lines, NEW s \in Settlements
        PROVE  <<l, s>> \in TierResult(tier) <=> <<l, s>> \in MatchedAt(tier)
    <3>1. <<l, s>> \in TierResult(tier) <=>
            /\ l \in OpenBefore(tier)
            /\ \A k \in OpenBefore(tier) : SoleChoice(tier, k, s) <=> k = l
      BY DEF TierResult
    <3>2. <<l, s>> \in MatchedAt(tier) <=> tierOf[l] = tier /\ matchOf[l] = s
      BY DEF MatchedAt
    <3>3. s # None
      BY FilesAssumption
    <3>4. <<l, s>> \in TierResult(tier) <=>
            \A k \in Lines : proposal[k] = s <=> k = l
      BY <2>1, <2>3, <3>1
    <3>5. (\A k \in Lines : proposal[k] = s <=> k = l)
            <=> proposal[l] = s /\ Rivals(l) = {l}
      BY DEF Rivals
    <3> QED
      BY <2>2, <3>2, <3>3, <3>4, <3>5
  <2>5. TierResult(tier) \subseteq Lines \X Settlements
    BY <2>3 DEF TierResult
  <2>6. MatchedAt(tier) \subseteq Lines \X Settlements
    <3>1. \A l \in Lines : tierOf[l] = tier => matchOf[l] \in Settlements
      BY <2>2 DEF Inv, TypeOK
    <3> QED
      BY <3>1 DEF MatchedAt
  <2> QED
    BY <2>4, <2>5, <2>6
<1>7. TiersAreOrderFree'
  <2>1. Finished = 0..(tier - 1) /\ Finished' = 0..tier
    <3>1. Finished = 0..(tier - 1)
      BY <1>1 DEF Finished
    <3>2. CASE tier = LastTier
      BY <1>1, <3>1, <3>2 DEF Finished, Tiers, LastTier
    <3>3. CASE tier # LastTier
      <4>1. tier' - 1 = tier
        BY <1>1, <1>2, <3>3
      <4> QED
        BY <1>1, <3>1, <3>3, <4>1 DEF Finished
    <3> QED
      BY <3>2, <3>3
  <2>2. ASSUME NEW t \in 0..tier PROVE MatchedAt(t)' = TierResult(t)'
    <3>1. MatchedAt(t)' = MatchedAt(t) /\ TierResult(t)' = TierResult(t)
      BY <1>1, NoBuild
    <3>2. t = tier \/ t \in Finished
      BY <1>2, <2>1
    <3>3. t \in Finished => MatchedAt(t) = TierResult(t)
      BY DEF OrderInv, TiersAreOrderFree, MatchedAt
    <3> QED
      BY <1>6, <3>1, <3>2, <3>3
  <2> QED
    BY <2>1, <2>2 DEF TiersAreOrderFree, MatchedAt
<1> QED
  BY <1>4, <1>5, <1>7 DEF OrderInv

\* Once the tiers are over nothing they decided is written again.
LEMMA AfterTiers ==
    ASSUME OrderInv, UNCHANGED <<file, tier, matchOf, tierOf>>,
           phase \in {"classify", "done"}, phase' \in {"classify", "done"}
    PROVE  OrderInv'
<1>1. LabelInv' /\ SearchedInv' /\ ResolvedInv'
  BY DEF OrderInv, LabelInv, SearchedInv, ResolvedInv
<1>2. TiersAreOrderFree'
  BY FinishedKept DEF OrderInv, Finished
<1> QED
  BY <1>1, <1>2 DEF OrderInv

LEMMA InitOrder == Init => OrderInv
<1> SUFFICES ASSUME Init PROVE OrderInv
  OBVIOUS
<1>1. LabelInv /\ ResolvedInv
  BY DEF Init, Start, LabelInv, ResolvedInv
<1>2. SearchedInv
  BY FilesAssumption DEF Init, Start, SearchedInv
<1>3. TiersAreOrderFree
  BY DEF Init, Start, TiersAreOrderFree, Finished
<1> QED
  BY <1>1, <1>2, <1>3 DEF OrderInv

LEMMA NextOrder == Inv /\ OrderInv /\ [Next]_vars => OrderInv'
<1> SUFFICES ASSUME Inv, OrderInv, [Next]_vars PROVE OrderInv'
  OBVIOUS
<1>1. ASSUME NEW l \in Lines, Pass(l) PROVE OrderInv'
  <2>1. /\ Visit("search", l)
        /\ UNCHANGED <<proposal, matchOf, tierOf>>
        /\ phase = "search"
    BY <1>1 DEF Pass, Visit, poolVars
  <2>2. Candidates(tier, l) = Possible(tier, l)
    BY <2>1, SearchClaims DEF OrderInv
  <2>3. \A s \in Settlements : ~SoleChoice(tier, l, s)
    BY <1>1, <2>2, SoleByPossible DEF Pass
  <2> QED
    BY <2>1, <2>3, PassedOver
<1>2. ASSUME NEW l \in Lines, NoteAmbiguity(l) PROVE OrderInv'
  <2>1. /\ Visit("search", l)
        /\ UNCHANGED <<proposal, matchOf, tierOf>>
        /\ phase = "search"
    BY <1>2 DEF NoteAmbiguity, Visit, poolVars
  <2>2. Candidates(tier, l) = Possible(tier, l)
    BY <2>1, SearchClaims DEF OrderInv
  <2>3. \A s \in Settlements : ~SoleChoice(tier, l, s)
    BY <1>2, <2>2, SoleByPossible DEF NoteAmbiguity
  <2> QED
    BY <2>1, <2>3, PassedOver
<1>3. ASSUME NEW l \in Lines, Propose(l) PROVE OrderInv'
  BY <1>3, ProposeOrder
<1>4. ASSUME NEW l \in Lines, Contest(l) PROVE OrderInv'
  BY <1>4, ContestOrder
<1>5. ASSUME NEW l \in Lines, Build(l) PROVE OrderInv'
  BY <1>5, BuildOrder
<1>6. ASSUME NEW l \in Lines, Classify(l) PROVE OrderInv'
  BY <1>6, AfterTiers DEF Classify, Visit, poolVars
<1>7. CASE StartResolve
  BY <1>7, StartResolveOrder
<1>8. CASE EndTier
  BY <1>8, EndTierOrder
<1>9. CASE Finish
  BY <1>9, AfterTiers DEF Finish, poolVars
<1>10. CASE UNCHANGED vars
  <2>1. UNCHANGED <<file, tier, phase, todo, proposal, matchOf, tierOf>>
    BY <1>10 DEF vars
  <2>2. /\ ClaimedBefore(tier)' = ClaimedBefore(tier)
        /\ OpenBefore(tier)' = OpenBefore(tier)
        /\ \A k \in Lines : \A x : SoleChoice(tier, k, x)' <=> SoleChoice(tier, k, x)
        /\ \A k \in Lines : Rivals(k)' = Rivals(k)
    BY <2>1, NoBuild, SameChoice DEF Rivals
  <2>3. LabelInv'
    BY <2>1 DEF OrderInv, LabelInv
  <2>4. SearchedInv'
    BY <2>1, <2>2 DEF OrderInv, SearchedInv
  <2>5. ResolvedInv'
    BY <2>1, <2>2 DEF OrderInv, ResolvedInv
  <2>6. TiersAreOrderFree'
    BY <2>1, FinishedKept DEF OrderInv, Finished
  <2> QED
    BY <2>3, <2>4, <2>5, <2>6 DEF OrderInv
<1> QED
  BY <1>1, <1>2, <1>3, <1>4, <1>5, <1>6, <1>7, <1>8, <1>9, <1>10
     DEF Next, Terminated

LEMMA OrderInvariance == Spec => []OrderInv
<1> QED
  BY InitOrder, NextOrder, Invariance, PTL DEF Spec

\* The order the file's lines come in decides nothing: what a tier matched is
\* computed from the file and the claims of the tiers before it.
THEOREM OrderFree == Spec => []TiersAreOrderFree
<1>1. OrderInv => TiersAreOrderFree
  BY DEF OrderInv
<1> QED
  BY <1>1, OrderInvariance, PTL

----------------------------------------------------------------------------
\* Reason codes tell the truth.

Quiet(l) == ~Undecidable(l) /\ matchOf[l] = None

\* A line that leaves the last tier without a match and without a note had no
\* candidate there.
QuietInv ==
    \A l \in Lines : Quiet(l) =>
        /\ phase = "search" /\ tier = LastTier /\ l \notin todo
             => proposal[l] # None \/ Possible(LastTier, l) = {}
        /\ phase = "resolve" /\ tier = LastTier /\ l \notin todo
             => Possible(LastTier, l) = {}
        /\ phase \in {"classify", "done"} => Possible(LastTier, l) = {}

\* A note names what stood in the way: a second settlement or a second line.
NotesInv ==
    \A l \in Lines :
        /\ proposal[l] # None => CanClose(l, proposal[l])
        /\ ambiguity[l] # {} =>
             \E s \in Settlements : \E x \in Settlements \ {s} :
                CanClose(l, s) /\ CanClose(l, x)
        /\ contests[l] # {} =>
             \E s \in Settlements : \E k \in Lines \ {l} :
                CanClose(l, s) /\ CanClose(k, s)

CodesInv ==
    \A l \in Lines : reason[l] # None =>
        (reason[l] = "AMBIGUOUS_MULTI_CANDIDATE" <=> Undecidable(l))

\* The report is finite, so a set of two candidates is wider than no set.
KnownFinite == IsFiniteSet(file.known)

\* What a match closes its line with is a settlement of the report.
MatchKnown == \A l \in Lines : matchOf[l] # None => matchOf[l] \in file.known

HonestInv == QuietInv /\ NotesInv /\ CodesInv /\ KnownFinite /\ MatchKnown

\* Qualifying for any tier is one of the two ways to close a line.
LEMMA CandidatesClose ==
    ASSUME TypeOK, NEW l \in Lines, NEW s \in Candidates(tier, l)
    PROVE  CanClose(l, s)
<1>1. /\ s \in Settlements /\ s \in file.known
      /\ file.credit[l] # None /\ file.credit[l] \in Int
      /\ file.net[s] \in Int
      /\ Qualifies(tier, l, s)
  BY DEF TypeOK, FileType, Candidates, Qualifies
<1>2. CASE tier = 0
  BY <1>1, <1>2 DEF Qualifies, CanClose
<1>3. CASE tier # 0
  <2>1. Abs(Residual(l, s)) <= Tolerance(tier) /\ WithinWindow(l, s)
    BY <1>1, <1>3 DEF Qualifies
  <2>2. Tolerance(tier) \in {0, 100}
    BY DEF Tolerance, TOLERANCE_PAISE
  <2>3. Abs(Residual(l, s)) \in Int
    BY <1>1 DEF Abs, Residual
  <2> QED
    BY <1>1, <2>1, <2>2, <2>3 DEF CanClose, WithinWindow, WINDOW_DAYS
<1> QED
  BY <1>2, <1>3

\* Nothing the two notes and the quiet lines depend on has moved.
LEMMA SameTruth ==
    ASSUME file' = file
    PROVE  \A l \in Lines : \A s : CanClose(l, s)' <=> CanClose(l, s)
  BY DEF CanClose, Residual

\* A step that leaves the notes, the proposals and the reasons alone.
LEMMA NotesKept ==
    ASSUME UNCHANGED <<file, proposal, ambiguity, contests>>, NotesInv
    PROVE  NotesInv'
  BY SameTruth DEF NotesInv

LEMMA CodesKept ==
    ASSUME UNCHANGED <<ambiguity, contests, reason>>, CodesInv
    PROVE  CodesInv'
  BY DEF CodesInv, Undecidable

\* Before the last tier is over, no reason has been written.
LEMMA NoReasonYet ==
    ASSUME Inv, phase \in {"search", "resolve"}, UNCHANGED <<phase, reason>>
    PROVE  CodesInv'
  BY DEF Inv, ReportInv, CodesInv

LEMMA QuietKept ==
    ASSUME QuietInv,
           UNCHANGED <<file, tier, phase, todo, matchOf, tierOf, ambiguity,
                       contests, proposal>>
    PROVE  QuietInv'
<1>1. \A l \in Lines : Possible(LastTier, l)' = Possible(LastTier, l)
  BY NoBuild, SameChoice
<1> QED
  BY <1>1 DEF QuietInv, Quiet, Undecidable

LEMMA PassHonest ==
    ASSUME Inv, OrderInv, HonestInv, NEW l \in Lines, Pass(l)
    PROVE  HonestInv'
<1>1. /\ phase = "search" /\ phase' = "search"
      /\ l \in todo /\ todo' = todo \ {l}
      /\ UNCHANGED <<file, tier, proposal, matchOf, tierOf, ambiguity, contests,
                     reason>>
  BY DEF Pass, Visit, poolVars
<1>2. \A k \in Lines : Possible(LastTier, k)' = Possible(LastTier, k)
  BY <1>1, NoBuild, SameChoice
<1>3. tier = LastTier => Possible(LastTier, l) = {}
  <2> SUFFICES ASSUME tier = LastTier PROVE Possible(LastTier, l) = {}
    OBVIOUS
  <2>1. Candidates(tier, l) = Possible(tier, l)
    BY <1>1, SearchClaims DEF OrderInv
  <2>2. \A s : AcceptsCardinality(tier, s)
    BY DEF AcceptsCardinality, LastTier
  <2> QED
    BY <2>1, <2>2 DEF Pass
<1>4. QuietInv'
  BY <1>1, <1>2, <1>3 DEF HonestInv, QuietInv, Quiet, Undecidable
<1> QED
  BY <1>1, <1>4, NotesKept, CodesKept DEF HonestInv, KnownFinite, MatchKnown

LEMMA NoteAmbiguityHonest ==
    ASSUME Inv, OrderInv, HonestInv, NEW l \in Lines, NoteAmbiguity(l)
    PROVE  HonestInv'
<1>1. /\ phase = "search" /\ phase' = "search"
      /\ l \in todo /\ todo' = todo \ {l}
      /\ UNCHANGED <<file, tier, proposal, matchOf, tierOf, contests, reason>>
  BY DEF NoteAmbiguity, Visit, poolVars
<1>2. \A k \in Lines : Possible(LastTier, k)' = Possible(LastTier, k)
  BY <1>1, NoBuild, SameChoice
<1>3. PICK s1, s2 \in Candidates(tier, l) : s1 # s2
  BY DEF NoteAmbiguity
<1>4. /\ s1 \in Settlements /\ s2 \in Settlements
      /\ CanClose(l, s1) /\ CanClose(l, s2)
  BY CandidatesOpen, CandidatesClose DEF Inv, TypeOK
<1>5. \A k \in Lines \ {l} : ambiguity'[k] = ambiguity[k]
  BY DEF NoteAmbiguity, Inv, TypeOK
<1>6. ambiguity'[l] # {}
  <2>1. IsFiniteSet(Candidates(tier, l))
    BY FS_Subset DEF HonestInv, KnownFinite, Candidates
  <2>2. Cardinality(Candidates(tier, l)) \in Nat /\ Cardinality(Candidates(tier, l)) # 0
    BY <1>3, <2>1, FS_CardinalityType, FS_EmptySet
  <2>3. ambiguity[l] = {} => Cardinality(Candidates(tier, l)) > Cardinality(ambiguity[l])
    BY <2>2, FS_EmptySet
  <2> QED
    BY <1>3, <2>3 DEF NoteAmbiguity, Inv, TypeOK
<1>7. QuietInv'
  <2>1. \A k \in Lines : Quiet(k)' => k # l /\ Quiet(k)
    BY <1>1, <1>5, <1>6 DEF Quiet, Undecidable
  <2> QED
    BY <1>1, <1>2, <2>1 DEF HonestInv, QuietInv
<1>8. NotesInv'
  <2>1. \A k \in Lines : \A s : CanClose(k, s)' <=> CanClose(k, s)
    BY <1>1, SameTruth
  <2>2. \A k \in Lines : ambiguity'[k] # {} =>
          \E s \in Settlements : \E x \in Settlements \ {s} :
             CanClose(k, s) /\ CanClose(k, x)
    BY <1>3, <1>4, <1>5 DEF HonestInv, NotesInv
  <2> QED
    BY <1>1, <2>1, <2>2 DEF HonestInv, NotesInv
<1> QED
  BY <1>1, <1>7, <1>8, NoReasonYet
     DEF HonestInv, KnownFinite, MatchKnown

LEMMA ProposeHonest ==
    ASSUME Inv, OrderInv, HonestInv, NEW l \in Lines, Propose(l)
    PROVE  HonestInv'
<1>1. /\ phase = "search" /\ phase' = "search"
      /\ l \in todo /\ todo' = todo \ {l}
      /\ UNCHANGED <<file, tier, matchOf, tierOf, ambiguity, contests, reason>>
  BY DEF Propose, Visit, poolVars
<1>2. PICK s \in Candidates(tier, l) : proposal' = [proposal EXCEPT ![l] = s]
  BY DEF Propose
<1>3. CanClose(l, s) /\ s # None
  BY CandidatesClose, CandidatesOpen DEF Inv, TypeOK
<1>4. /\ proposal'[l] = s
      /\ \A k \in Lines \ {l} : proposal'[k] = proposal[k]
  BY <1>2 DEF Inv, TypeOK
<1>5. \A k \in Lines : Possible(LastTier, k)' = Possible(LastTier, k)
  BY <1>1, NoBuild, SameChoice
<1>6. QuietInv'
  BY <1>1, <1>3, <1>4, <1>5 DEF HonestInv, QuietInv, Quiet, Undecidable
<1>7. NotesInv'
  BY <1>1, <1>3, <1>4, SameTruth DEF HonestInv, NotesInv
<1> QED
  BY <1>1, <1>6, <1>7, CodesKept DEF HonestInv, KnownFinite, MatchKnown

LEMMA ContestHonest ==
    ASSUME Inv, OrderInv, HonestInv, NEW l \in Lines, Contest(l)
    PROVE  HonestInv'
<1>1. /\ phase = "resolve" /\ phase' = "resolve"
      /\ l \in todo /\ todo' = todo \ {l}
      /\ contests' = [contests EXCEPT ![l] = Rivals(l)]
      /\ UNCHANGED <<file, tier, proposal, matchOf, tierOf, ambiguity, reason>>
  BY DEF Contest, Visit, poolVars
<1>2. /\ contests'[l] = Rivals(l)
      /\ \A k \in Lines \ {l} : contests'[k] = contests[k]
  BY <1>1 DEF Inv, TypeOK
<1>3. PICK k \in Lines \ {l} : proposal[k] = proposal[l]
  BY DEF Contest, Rivals
<1>4. proposal[l] # None /\ proposal[l] \in Settlements
  BY <1>1 DEF Inv, TypeOK, ResolveInv
<1>5. CanClose(l, proposal[l]) /\ CanClose(k, proposal[l])
  BY <1>3, <1>4 DEF HonestInv, NotesInv
<1>6. \A j \in Lines : Possible(LastTier, j)' = Possible(LastTier, j)
  BY <1>1, NoBuild, SameChoice
<1>7. QuietInv'
  <2>1. l \in Rivals(l)
    BY DEF Rivals
  <2>2. \A j \in Lines : Quiet(j)' => j # l /\ Quiet(j)
    BY <1>1, <1>2, <2>1 DEF Quiet, Undecidable
  <2> QED
    BY <1>1, <1>6, <2>2 DEF HonestInv, QuietInv
<1>8. NotesInv'
  <2>1. \A j \in Lines : contests'[j] # {} =>
          \E s \in Settlements : \E i \in Lines \ {j} :
             CanClose(j, s) /\ CanClose(i, s)
    BY <1>2, <1>4, <1>5 DEF HonestInv, NotesInv
  <2> QED
    BY <1>1, <2>1, SameTruth DEF HonestInv, NotesInv
<1> QED
  BY <1>1, <1>7, <1>8, NoReasonYet
     DEF HonestInv, KnownFinite, MatchKnown

LEMMA BuildHonest ==
    ASSUME Inv, OrderInv, HonestInv, NEW l \in Lines, Build(l)
    PROVE  HonestInv'
<1>1. /\ phase = "resolve" /\ phase' = "resolve"
      /\ l \in todo /\ todo' = todo \ {l}
      /\ matchOf' = [matchOf EXCEPT ![l] = proposal[l]]
      /\ UNCHANGED <<file, tier, proposal, ambiguity, contests, reason>>
  BY DEF Build, Visit
<1>2. matchOf[l] = None /\ proposal[l] # None
  BY <1>1 DEF Inv, ResolveInv, Sound
<1>3. tier = LastTier =>
        \A k \in Lines : Possible(LastTier, k)' = Possible(LastTier, k)
  <2> SUFFICES ASSUME tier = LastTier
               PROVE \A k \in Lines : Possible(LastTier, k)' = Possible(LastTier, k)
    OBVIOUS
  <2>1. LastTier \in 0..tier
    BY DEF LastTier
  <2>2. ClaimedBefore(LastTier)' = ClaimedBefore(LastTier)
    BY <1>2, <2>1, BuildIsLater DEF Inv, OrderInv
  <2> QED
    BY <1>1, <2>2, SameChoice
<1>4. \A k \in Lines : Quiet(k)' => k # l /\ Quiet(k)
  BY <1>1, <1>2 DEF Inv, TypeOK, Quiet, Undecidable
<1>5. QuietInv'
  BY <1>1, <1>3, <1>4 DEF HonestInv, QuietInv
<1>6. MatchKnown'
  <2>1. proposal[l] \in file.known
    BY <1>2 DEF HonestInv, NotesInv, CanClose
  <2> QED
    BY <1>1, <2>1 DEF Inv, TypeOK, HonestInv, MatchKnown
<1> QED
  BY <1>1, <1>5, <1>6, NotesKept, CodesKept DEF HonestInv, KnownFinite, MatchKnown

LEMMA StartResolveHonest ==
    ASSUME Inv, OrderInv, HonestInv, StartResolve
    PROVE  HonestInv'
<1>1. /\ phase = "search" /\ phase' = "resolve"
      /\ todo = {} /\ todo' = {l \in Lines : proposal[l] # None}
      /\ UNCHANGED <<file, tier, proposal, matchOf, tierOf, ambiguity, contests,
                     reason>>
  BY DEF StartResolve, poolVars
<1>2. \A l \in Lines : Possible(LastTier, l)' = Possible(LastTier, l)
  BY <1>1, NoBuild, SameChoice
<1>3. QuietInv'
  BY <1>1, <1>2 DEF HonestInv, QuietInv, Quiet, Undecidable
<1> QED
  BY <1>1, <1>3, NotesKept, CodesKept DEF HonestInv, KnownFinite, MatchKnown

\* The next tier visits every line that is still open, so none is quiet yet.
LEMMA EndTierHonest ==
    ASSUME Inv, OrderInv, HonestInv, EndTier
    PROVE  HonestInv'
<1>1. /\ phase = "resolve" /\ todo = {} /\ todo' = Open
      /\ proposal' = [l \in Lines |-> None]
      /\ \/ tier = LastTier /\ phase' = "classify"
         \/ phase' = "search"
      /\ UNCHANGED <<file, matchOf, tierOf, ambiguity, contests, reason>>
  BY DEF EndTier, poolVars
<1>2. \A l \in Lines : Possible(LastTier, l)' = Possible(LastTier, l)
  BY <1>1, NoBuild, SameChoice
<1>3. \A l \in Lines : Quiet(l)' => Quiet(l) /\ l \in todo'
  BY <1>1 DEF Quiet, Undecidable, Open
<1>4. QuietInv'
  BY <1>1, <1>2, <1>3 DEF HonestInv, QuietInv
<1>5. NotesInv'
  BY <1>1, SameTruth DEF HonestInv, NotesInv
<1> QED
  BY <1>1, <1>4, <1>5, CodesKept DEF HonestInv, KnownFinite, MatchKnown

LEMMA ClassifyHonest ==
    ASSUME Inv, OrderInv, HonestInv, NEW l \in Lines, Classify(l)
    PROVE  HonestInv'
<1>1. /\ phase = "classify" /\ phase' = "classify"
      /\ UNCHANGED <<file, tier, proposal, matchOf, tierOf, ambiguity, contests>>
  BY DEF Classify, Visit, poolVars
<1>2. PICK r \in ReasonsFor(l) : reason' = [reason EXCEPT ![l] = r]
  BY DEF Classify
<1>3. r = "AMBIGUOUS_MULTI_CANDIDATE" <=> Undecidable(l)
  BY DEF ReasonsFor
<1>4. /\ reason'[l] = r
      /\ \A k \in Lines \ {l} : reason'[k] = reason[k]
  BY <1>2 DEF Inv, TypeOK
<1>5. CodesInv'
  BY <1>1, <1>3, <1>4 DEF HonestInv, CodesInv, Undecidable
<1>6. \A k \in Lines : Possible(LastTier, k)' = Possible(LastTier, k)
  BY <1>1, NoBuild, SameChoice
<1>7. QuietInv'
  BY <1>1, <1>6 DEF HonestInv, QuietInv, Quiet, Undecidable
<1> QED
  BY <1>1, <1>5, <1>7, NotesKept DEF HonestInv, KnownFinite, MatchKnown

LEMMA FinishHonest ==
    ASSUME Inv, OrderInv, HonestInv, Finish
    PROVE  HonestInv'
<1>1. /\ phase = "classify" /\ phase' = "done"
      /\ UNCHANGED <<file, tier, todo, proposal, matchOf, tierOf, ambiguity,
                     contests, reason>>
  BY DEF Finish, poolVars
<1>2. \A k \in Lines : Possible(LastTier, k)' = Possible(LastTier, k)
  BY <1>1, NoBuild, SameChoice
<1>3. QuietInv'
  BY <1>1, <1>2 DEF HonestInv, QuietInv, Quiet, Undecidable
<1> QED
  BY <1>1, <1>3, NotesKept, CodesKept DEF HonestInv, KnownFinite, MatchKnown

LEMMA InitHonest == Init => HonestInv
<1> SUFFICES ASSUME Init PROVE HonestInv
  OBVIOUS
<1>1. QuietInv
  BY DEF Init, Start, QuietInv
<1>2. NotesInv /\ CodesInv /\ MatchKnown
  BY DEF Init, Start, NotesInv, CodesInv, MatchKnown
<1>3. KnownFinite
  BY FilesAssumption DEF Init, KnownFinite
<1> QED
  BY <1>1, <1>2, <1>3 DEF HonestInv

LEMMA NextHonest == Inv /\ OrderInv /\ HonestInv /\ [Next]_vars => HonestInv'
<1> SUFFICES ASSUME Inv, OrderInv, HonestInv, [Next]_vars PROVE HonestInv'
  OBVIOUS
<1>1. CASE UNCHANGED vars
  BY <1>1, QuietKept, NotesKept, CodesKept
     DEF vars, HonestInv, KnownFinite, MatchKnown
<1> QED
  BY <1>1, PassHonest, NoteAmbiguityHonest, ProposeHonest, ContestHonest,
     BuildHonest, StartResolveHonest, EndTierHonest, ClassifyHonest,
     FinishHonest DEF Next, Terminated

LEMMA HonestInvariance == Spec => []HonestInv
<1> QED
  BY InitHonest, NextHonest, Invariance, OrderInvariance, PTL DEF Spec

LEMMA SoftReasons ==
    ASSUME Inv, OrderInv, HonestInv
    PROVE  /\ \A l \in Lines : SoftReason(l) => Possible(LastTier, l) = {}
           /\ SoftReasonsAreTrue
<1>1. ASSUME NEW l \in Lines, SoftReason(l) PROVE Possible(LastTier, l) = {}
  <2>1. reason[l] # None /\ reason[l] # "AMBIGUOUS_MULTI_CANDIDATE"
    BY <1>1 DEF SoftReason
  <2>2. phase \in {"classify", "done"}
    BY <2>1 DEF Inv, TypeOK, ReportInv
  <2>3. Quiet(l)
    BY <2>1 DEF Inv, MatchedOrExcepted, HonestInv, CodesInv, Quiet
  <2> QED
    BY <2>2, <2>3 DEF HonestInv, QuietInv
<1>2. ClaimedBefore(LastTier) \subseteq claimed
  BY DEF ClaimedBefore, Inv, OneClaimPerSettlement, OrderInv, LabelInv
<1>3. ASSUME NEW l \in Lines, SoftReason(l), file.credit[l] # None,
             NEW s \in file.known \ claimed,
             Abs(Residual(l, s)) <= 100,
             Abs(file.settledOn[s] - file.txnDate[l]) <= 2
      PROVE  FALSE
  <2>1. Qualifies(LastTier, l, s)
    BY <1>3 DEF Qualifies, LastTier, Tolerance, TOLERANCE_PAISE, WithinWindow,
       WINDOW_DAYS
  <2> QED
    BY <1>1, <1>2, <1>3, <2>1 DEF Possible
<1> QED
  BY <1>1, <1>3 DEF SoftReasonsAreTrue

\* A match with a residual was built by the last tier, so its settlement was
\* still there for every line that tier searched.
LEMMA ExactFirst ==
    ASSUME Inv, OrderInv, HonestInv
    PROVE  ToleranceNeverOutranksExact
<1> SUFFICES ASSUME NEW k \in Lines, NEW l \in Lines,
                    matchOf[k] # None, Residual(k, matchOf[k]) # 0,
                    SoftReason(l), file.credit[l] # None,
                    Residual(l, matchOf[k]) = 0,
                    Abs(file.settledOn[matchOf[k]] - file.txnDate[l]) <= 2
             PROVE  FALSE
  BY DEF ToleranceNeverOutranksExact
<1> DEFINE s == matchOf[k]
<1>1. tierOf[k] = LastTier
  BY DEF Inv, MatchesAreJustified, Justified, Residual, LastTier
<1>2. s \notin ClaimedBefore(LastTier)
  <2>1. \A j \in Lines : matchOf[j] = s => j = k
    BY DEF Inv, OneClaimPerSettlement
  <2>2. ~(LastTier < LastTier)
    BY DEF LastTier
  <2> QED
    BY <1>1, <2>1, <2>2 DEF ClaimedBefore
<1>3. s \in file.known
  BY DEF HonestInv, MatchKnown
<1>4. Abs(Residual(l, s)) <= 100
  BY DEF Abs
<1>5. Qualifies(LastTier, l, s)
  BY <1>4 DEF Qualifies, LastTier, Tolerance, TOLERANCE_PAISE, WithinWindow,
     WINDOW_DAYS
<1> QED
  BY <1>2, <1>3, <1>5, SoftReasons DEF Possible

LEMMA RealAmbiguity ==
    ASSUME HonestInv
    PROVE  AmbiguityIsReal
<1> SUFFICES ASSUME NEW l \in Lines, reason[l] = "AMBIGUOUS_MULTI_CANDIDATE"
             PROVE \E s \in Settlements :
                     /\ CanClose(l, s)
                     /\ \/ \E x \in Settlements \ {s} : CanClose(l, x)
                        \/ \E k \in Lines \ {l} : CanClose(k, s)
  BY DEF AmbiguityIsReal
<1>1. Undecidable(l)
  BY ReasonsAssumption DEF HonestInv, CodesInv, Reasons
<1>2. CASE ambiguity[l] # {}
  BY <1>2 DEF HonestInv, NotesInv
<1>3. CASE contests[l] # {}
  BY <1>3 DEF HonestInv, NotesInv
<1> QED
  BY <1>1, <1>2, <1>3 DEF Undecidable

\* No exception line says something untrue: a softer code means nothing that
\* was left over closes the line, and the ambiguous one that two things did.
THEOREM HonestReasons == Spec => []ReasonsAreHonest
<1>1. Inv /\ OrderInv /\ HonestInv => ReasonsAreHonest
  BY SoftReasons, ExactFirst, RealAmbiguity DEF ReasonsAreHonest
<1> QED
  BY <1>1, Invariance, OrderInvariance, HonestInvariance, PTL

----------------------------------------------------------------------------
\* Refinement: the matcher closes and reports lines only as the ledger allows.

LEMMA InitRefines == Init => L!Init
<1> SUFFICES ASSUME Init PROVE L!Init
  OBVIOUS
<1> QED
  BY DEF Init, Start, L!Init

LEMMA StepRefines == Inv /\ [Next]_vars => [L!Next]_(L!vars)
<1> SUFFICES ASSUME Inv, [Next]_vars PROVE L!Next \/ UNCHANGED L!vars
  OBVIOUS
<1>1. CASE UNCHANGED <<matchOf, reason>>
  BY <1>1 DEF L!vars
<1>2. ASSUME NEW l \in Lines, Build(l) PROVE L!Next
  <2>1. /\ phase = "resolve"
        /\ l \in todo
        /\ matchOf' = [matchOf EXCEPT ![l] = proposal[l]]
        /\ reason' = reason
    BY <1>2 DEF Build, Visit
  <2>2. /\ matchOf[l] = None
        /\ reason[l] = None
        /\ proposal[l] \in Settlements
        /\ proposal[l] \notin claimed
    BY <2>1 DEF Inv, TypeOK, ResolveInv, ReportInv, Sound
  <2>3. proposal[l] \notin L!Taken
    BY <2>2 DEF Inv, OneClaimPerSettlement, L!Taken
  <2>4. L!Close(l, proposal[l])
    BY <2>1, <2>2, <2>3 DEF L!Close
  <2> QED
    BY <2>2, <2>4 DEF L!Next
<1>3. ASSUME NEW l \in Lines, Classify(l) PROVE L!Next
  <2>1. PICK r \in ReasonsFor(l) : reason' = [reason EXCEPT ![l] = r]
    BY <1>3 DEF Classify
  <2>2. r # None
    BY ReasonsAssumption DEF ReasonsFor, Reasons
  <2>3. phase = "classify" /\ l \in todo /\ matchOf' = matchOf
    BY <1>3 DEF Classify, Visit, poolVars
  <2>4. matchOf[l] = None
    BY <2>3 DEF Inv, ReportInv
  <2>5. {k \in Lines : reason'[k] # None} = {k \in Lines : reason[k] # None} \union {l}
    BY <2>1, <2>2 DEF Inv, TypeOK
  <2>6. L!Report(l)
    BY <2>3, <2>4, <2>5 DEF L!Report
  <2> QED
    BY <2>6 DEF L!Next
<1>4. CASE \E l \in Lines : Pass(l) \/ NoteAmbiguity(l) \/ Propose(l) \/ Contest(l)
  <2>1. UNCHANGED <<matchOf, reason>>
    BY <1>4 DEF Pass, NoteAmbiguity, Propose, Contest, poolVars
  <2> QED
    BY <1>1, <2>1
<1>5. CASE StartResolve \/ EndTier \/ Finish \/ UNCHANGED vars
  <2>1. UNCHANGED <<matchOf, reason>>
    BY <1>5 DEF StartResolve, EndTier, Finish, vars, poolVars
  <2> QED
    BY <1>1, <2>1
<1> QED
  BY <1>2, <1>3, <1>4, <1>5 DEF Next, Terminated

\* Every run of the matcher is a run of the ledger.
THEOREM Refinement == Spec => ImplementsLedger
<1> QED
  BY Invariance, InitRefines, StepRefines, PTL DEF Spec, ImplementsLedger, L!Spec
=============================================================================
