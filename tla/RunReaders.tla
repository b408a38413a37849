----------------------------- MODULE RunReaders -----------------------------
(***************************************************************************)
(* The readers of a run, beside the workers of RunJob: the console's       *)
(* polling loop (web/lib/hooks.ts over GET /api/runs/{id}), the PDF report *)
(* and the drift endpoint of api/routes.py, and the detail of an exception *)
(* or a match.  Each asks the store several questions and each question is *)
(* a session of its own, so a worker may commit between any two of them.   *)
(***************************************************************************)
EXTENDS RunJob, Sequences

VARIABLE view       \* one reader: its kind, its run, the next question, the answers

readVars == <<view>>
allVars == <<jobVars, view>>

----------------------------------------------------------------------------
Kinds == {"screen", "report", "drift", "detail"}

\* A slip: the state is asked for after what it vouches for.
SummaryLast(kind) ==
    CASE kind = "screen" -> <<"matches", "summary">>
      [] kind = "report" -> <<"matches", "exceptions", "summary", "matches again">>
      [] kind = "drift"  -> <<"summary", "baseline", "baseline census", "exceptions">>
      [] kind = "detail" -> <<"exceptions", "summary", "detail">>

\* The questions, in the order the handler asks them.  The report reads the
\* matches twice: for the tier confidences, then for the document.
Questions(kind) ==
    CASE kind = "screen" -> <<"summary", "matches">>
      [] kind = "report" -> <<"summary", "matches", "exceptions", "matches again">>
      [] kind = "drift"  -> <<"summary", "baseline", "baseline census", "exceptions">>
      [] kind = "detail" -> <<"summary", "exceptions", "detail">>

Blank ==
    [state |-> "absent", scored |-> FALSE, counts |-> "none", matches |-> "none",
     exceptions |-> "none", again |-> "none", base |-> NoRun, census |-> "none"]

Idle == [kind |-> "none", run |-> NoRun, next |-> 0, got |-> Blank]

ReadInit == Init /\ view = Idle

Asking(question) ==
    /\ view.kind \in Kinds
    /\ view.next \in 1..Len(Questions(view.kind))
    /\ Questions(view.kind)[view.next] = question

\* A reader turns to a run it was given the id of.
OpenView(kind, r) ==
    /\ view.kind = "none"
    /\ row[r].state # "absent"
    /\ view' = [kind |-> kind, run |-> r, next |-> 1, got |-> Blank]
    /\ UNCHANGED jobVars

\* The page is closed, or a request failed: the console stops asking on an
\* error, and trying again is opening it again.
Leave ==
    /\ view.kind # "none"
    /\ view' = Idle
    /\ UNCHANGED jobVars

\* A slip: a failed run is polled for ever.
UntilCompleted(got) ==
    IF view.kind = "screen" /\ view.next = 2 /\ got.state # "completed"
    THEN 1 ELSE view.next + 1

\* The polling loop goes round again while the state it was told is not
\* terminal.
After(got) ==
    IF view.kind = "screen" /\ view.next = Len(Questions("screen"))
       /\ got.state \notin Terminal
    THEN 1 ELSE view.next + 1

Learn(got) ==
    /\ view' = [view EXCEPT !.next = After(got), !.got = got]
    /\ UNCHANGED jobVars

ReadSummary ==
    /\ Asking("summary")
    /\ Learn([view.got EXCEPT !.state = row[view.run].state,
                              !.scored = row[view.run].scored,
                              !.counts = row[view.run].counts])

ReadMatches ==
    \/ /\ Asking("matches")
       /\ Learn([view.got EXCEPT !.matches = table[view.run].matches])
    \/ /\ Asking("matches again")
       /\ Learn([view.got EXCEPT !.again = table[view.run].matches])

\* One commit wrote them all, so paging through them sees all or none.
ReadExceptions ==
    /\ Asking("exceptions")
    /\ Learn([view.got EXCEPT !.exceptions = table[view.run].exceptions])

\* A slip: only the run itself is asked for its metrics.
BaselineUnchecked ==
    /\ Asking("baseline")
    /\ \E b \in {PreviousCompletedRun(view.run)}
                \union {r \in Runs : row[r].state # "absent"} :
         IF b \notin Runs \/ ~view.got.scored
         THEN view' = Idle /\ UNCHANGED jobVars
         ELSE Learn([view.got EXCEPT !.base = b])

\* Without a baseline, or with metrics missing on either side, the endpoint
\* answers 404 or 409 and compares nothing.
ReadBaseline ==
    /\ Asking("baseline")
    /\ \E b \in {PreviousCompletedRun(view.run)}
                \union {r \in Runs : row[r].state # "absent"} :
         IF b \notin Runs \/ ~view.got.scored \/ ~row[b].scored
         THEN view' = Idle /\ UNCHANGED jobVars
         ELSE Learn([view.got EXCEPT !.base = b])

ReadBaselineCensus ==
    /\ Asking("baseline census")
    /\ Learn([view.got EXCEPT !.census = table[view.got.base].exceptions])

\* An exception's id is its subject's, so it repeats across runs and the detail
\* is asked for without a run: of the runs that hold it the newest answers, with
\* its own row and its own trail.  Any other run may hold it too.
ReadDetail ==
    /\ Asking("detail")
    /\ IF view.got.exceptions = "none"
       THEN view' = Idle /\ UNCHANGED jobVars
       ELSE \E holders \in SUBSET {r \in Runs : table[r].exceptions # "none"} :
              /\ view.run \in holders
              /\ \E d \in holders :
                   /\ \A other \in holders \ {d} : Before(other, d)
                   /\ Learn([view.got EXCEPT !.base = d, !.census = table[d].exceptions,
                                             !.again = table[d].audit])

Ask ==
    \/ ReadSummary \/ ReadMatches \/ ReadExceptions
    \/ ReadBaseline \/ ReadBaselineCensus \/ ReadDetail

ReadNext ==
    \/ Next /\ UNCHANGED view
    \/ \E kind \in Kinds, r \in Runs : OpenView(kind, r)
    \/ Ask
    \/ Leave

\* An open page keeps asking; nobody has to open or leave one.
ReadSpec ==
    /\ ReadInit /\ [][ReadNext]_allVars
    /\ \A r \in Runs : WF_allVars(JobStep(r) /\ UNCHANGED view)
    /\ WF_allVars(Ask)

----------------------------------------------------------------------------
\* What the report prints of its answers.

\* _metrics, _unscored: a run without metrics is one of three.
Statement(got) ==
    IF got.scored THEN "metrics"
    ELSE CASE got.state = "failed" -> "failed"
           [] got.state \in {"pending", "running"} -> "running"
           [] OTHER -> "unscored"

\* The metrics' own count per tier, or the rows it was handed, grouped.
TierCounts(got) == IF got.scored THEN got.counts ELSE got.again

\* The tiers' counts are added up and compared with the run's match_count.
SumCheck(got) ==
    IF TierCounts(got) = "none" THEN "not counted"
    ELSE IF TierCounts(got) = got.counts THEN "adds up" ELSE "does not add up"

Answered == view.kind \in Kinds /\ view.next > Len(Questions(view.kind))

----------------------------------------------------------------------------
\* The reader stays in its declared set.
ViewTypeOK ==
    /\ TypeOK
    /\ view.kind \in Kinds \union {"none"}
    /\ view.run \in Runs \union {NoRun}
    /\ view.next \in 0..5
    /\ view.got \in
         [state : States, scored : BOOLEAN, counts : Results, matches : Results,
          exceptions : Results, again : Results, base : Runs \union {NoRun},
          census : Results]

\* The console never polls a finished run, so what the last round showed is
\* what stays on the screen: it is the run's final state and matches.
StoppedScreenIsFinal ==
    Answered /\ view.kind = "screen" =>
        /\ view.got.state = row[view.run].state
        /\ view.got.state \in Terminal
        /\ view.got.state = "completed" =>
             view.got.matches = row[view.run].counts

\* A report that prints a completed run prints one whole result, although
\* its matches and exceptions come from sessions of their own: its tiers add up
\* to the run's own count, and it never calls the run failed or still running.
ReportOfCompletedIsWhole ==
    Answered /\ view.kind = "report" /\ view.got.state = "completed" =>
        /\ view.got.matches # "none"
        /\ view.got.exceptions = view.got.matches
        /\ view.got.again = view.got.matches
        /\ SumCheck(view.got) = "adds up"
        /\ Statement(view.got) \in {"metrics", "unscored"}

\* A drift report compares the finished exception lists of two completed
\* runs, whatever ran while it asked.
DriftComparesFinishedRuns ==
    Answered /\ view.kind = "drift" =>
        \A side \in {<<view.run, view.got.exceptions>>,
                     <<view.got.base, view.got.census>>} :
            row[side[1]].state = "completed" /\ side[2] = row[side[1]].counts

\* The detail opened from a run is never of an older one; where it is the run's
\* own and the run had completed, its row and its trail are of the one result
\* whose counts the run shows.
DetailIsOfTheNewest ==
    Answered /\ view.kind = "detail" =>
        /\ view.got.base # view.run => Before(view.run, view.got.base)
        /\ view.got.state = "completed" /\ view.got.base = view.run =>
             /\ view.got.again = row[view.run].counts
             /\ view.got.census = view.got.exceptions
             /\ view.got.exceptions = row[view.run].counts

\* Whatever is printed, compared or opened of a completed run is one whole result.
ReadersSeeWholeResults ==
    ReportOfCompletedIsWhole /\ DriftComparesFinishedRuns /\ DetailIsOfTheNewest

\* A page left open on a run stops polling, unless the run was abandoned.
ScreenStops ==
    \A r \in Runs :
        view.kind = "screen" /\ view.run = r
            ~> Answered \/ view.kind = "none" \/ Abandoned(r)
=============================================================================
