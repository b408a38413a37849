------------------------------ MODULE Statements ------------------------------
(***************************************************************************)
(* The matcher over the bank lines of several uploads.  The engine keys    *)
(* what it knows of a line by line_id, and where a statement carries no    *)
(* references of its own that id is the line's place in its file: the      *)
(* lines of two statements share their ids.  Matcher is the same engine    *)
(* where the ids are distinct; here Lines are the lines themselves, in the *)
(* order upload_inputs hands them over, and every value kept by id is kept *)
(* equal on the lines that share it.  A file's ref is what the pool reads  *)
(* for the line, which is the narration of the last line with its id: the  *)
(* files of an instance give lines with one id one reference.              *)
(***************************************************************************)
EXTENDS Matcher

CONSTANTS
    Id(_),              \* line_id
    Before(_, _)        \* the order of the engine's bank_lines

Sharing(l) == {k \in Lines : Id(k) = Id(l)}

\* lines_by_id and _narrations: the last line with an id takes its place.
ById(l) == CHOOSE k \in Sharing(l) : \A j \in Sharing(l) : j = k \/ Before(j, k)

Keep(f, l, value) == [k \in Lines |-> IF k \in Sharing(l) THEN value ELSE f[k]]

\* Lines are searched and classified in order, proposals resolved one an id.
IsNext(l) == l \in todo /\ \A k \in todo \ {l} : Before(l, k)
VisitNext(p, l) == IsNext(l) /\ Visit(p, l)

PassLine(l) == IsNext(l) /\ Pass(l)

NoteAmbiguityById(l) ==
    /\ VisitNext("search", l)
    /\ \E s1, s2 \in Candidates(tier, l) : s1 # s2
    /\ ambiguity' = Keep(ambiguity, l,
            IF Cardinality(Candidates(tier, l)) > Cardinality(ambiguity[l])
            THEN Candidates(tier, l) ELSE ambiguity[l])
    /\ UNCHANGED <<proposal, poolVars, contests, reason>>

\* proposals[line.line_id]: a later line with the id proposes in its place.
ProposeById(l) ==
    /\ VisitNext("search", l)
    /\ \E s \in Settlements :
        /\ Candidates(tier, l) = {s}
        /\ AcceptsCardinality(tier, s)
        /\ proposal' = Keep(proposal, l, s)
    /\ UNCHANGED <<poolVars, ambiguity, contests, reason>>

StartResolveById ==
    /\ phase = "search" /\ todo = {}
    /\ phase' = "resolve"
    /\ todo' = {ById(l) : l \in {k \in Lines : proposal[k] # None}}
    /\ UNCHANGED <<file, tier, proposal, poolVars, ambiguity, contests, reason>>

RivalsById(l) == {k \in Lines : proposal[k] = proposal[l]} \ Sharing(l)

ContestById(l) ==
    /\ Visit("resolve", l)
    /\ RivalsById(l) # {}
    /\ contests' = Keep(contests, l, Rivals(l))
    /\ UNCHANGED <<proposal, poolVars, ambiguity, reason>>

\* The match is built on ById(l), whichever line made the proposal.
BuildById(l) ==
    /\ Visit("resolve", l)
    /\ RivalsById(l) = {}
    /\ matchOf' = Keep(matchOf, l, proposal[l])
    /\ tierOf' = Keep(tierOf, l, tier)
    /\ claimed' = claimed \union {proposal[l]}
    /\ UNCHANGED <<proposal, ambiguity, contests, reason>>

ClassifyLine(l) == IsNext(l) /\ Classify(l)

NextById ==
    \/ \E l \in Lines :
        \/ PassLine(l) \/ NoteAmbiguityById(l) \/ ProposeById(l)
        \/ ContestById(l) \/ BuildById(l) \/ ClassifyLine(l)
    \/ StartResolveById \/ EndTier \/ Finish
    \/ Terminated

SpecById == Init /\ [][NextById]_vars

----------------------------------------------------------------------------
\* Statements of the source.

\* tiers.py, where a match is built: "The invariant is `net == bank credit`",
\* up to the residual of T3.  The line a match names is the one whose money
\* closes the settlement.
MatchNamesTheLineItClosed ==
    \A l \in Lines : matchOf[l] # None =>
        /\ file.credit[ById(l)] # None
        /\ Abs(Residual(ById(l), matchOf[l])) <= Tolerance(tierOf[l])
=============================================================================
