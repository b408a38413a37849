------------------------------- MODULE RunJob -------------------------------
(***************************************************************************)
(* The background run job of api/jobs.py and the rows it writes through    *)
(* core/store/repo.py.  A request stamps and inserts a pending run; a      *)
(* worker thread then carries it through its stages, one commit at a time, *)
(* and several runs are carried at once.                                   *)
(*                                                                         *)
(* One action per commit, with the computation that leads to it.  A result *)
(* is abstracted to which result it is: the engine's, or the engine's      *)
(* merged with what the analyst got accepted.  Any step may raise; the     *)
(* handler that then writes "failed" is itself a write and may raise; the  *)
(* process may stop between any two steps, and starts no job again.        *)
(***************************************************************************)
EXTENDS Naturals

CONSTANTS
    Runs,           \* run ids, ordered as the store orders the strings
    Datasets,
    NoDataset,      \* the NULL dataset_id of a run over uploads
    NoRun,          \* stands for no run
    Asked,          \* the runs callers ask for: [dataset, useLlm]
    MaxClock,       \* bound: distinct created_at stamps
    MaxFaults,      \* bound: steps that raise
    MaxCrashes      \* bound: process stops

ASSUME RunsAssumption == Runs \subseteq Nat /\ NoRun \notin Runs

ASSUME DatasetsAssumption == NoDataset \notin Datasets

ASSUME AskedAssumption ==
    Asked \subseteq [dataset : Datasets \union {NoDataset}, useLlm : BOOLEAN]

ASSUME BoundsAssumption ==
    MaxClock \in Nat /\ MaxFaults \in Nat /\ MaxCrashes \in Nat

VARIABLES
    request,        \* what the run was asked for and the stamp it was given
    row,            \* its row of the runs table
    table,          \* its rows of the four result tables
    job,            \* the worker: next step, and its local result
    clock, faults, crashes

store == <<row, table>>
env == <<clock, faults, crashes>>
jobVars == <<request, row, table, job, clock, faults, crashes>>

----------------------------------------------------------------------------
Results == {"none", "engine", "merged"}

States == {"absent", "pending", "running", "completed", "failed"}

Terminal == {"completed", "failed"}

\* The try block of execute_run and _execute, in order; "analyst" only on
\* a run that asked for it.
Body ==
    {"ingest", "records stage", "records", "match", "analyst", "score",
     "persist stage", "matches", "exceptions", "audit", "close"}

Steps == {"none", "insert", "handler", "over", "dead"} \union Body

Stages ==
    {"queued", "ingest", "persisting records", "matching", "llm analyst",
     "scoring", "persisting result", "complete",
     "complete, analyst ran", "complete, analyst did not run", "failed"}

RequestType ==
    [dataset : Datasets \union {NoDataset}, useLlm : BOOLEAN, created : 0..MaxClock]

RowType ==
    [state : States, progress : 0..100, stage : Stages,
     counts : Results, scored : BOOLEAN]

TableType ==
    [records : BOOLEAN, matches : Results, exceptions : Results, audit : Results]

JobType == [at : Steps, result : {"engine", "merged"}]

Init ==
    /\ request = [r \in Runs |-> [dataset |-> NoDataset, useLlm |-> FALSE, created |-> 0]]
    /\ row = [r \in Runs |-> [state |-> "absent", progress |-> 0, stage |-> "queued",
                              counts |-> "none", scored |-> FALSE]]
    /\ table = [r \in Runs |-> [records |-> FALSE, matches |-> "none",
                                exceptions |-> "none", audit |-> "none"]]
    /\ job = [r \in Runs |-> [at |-> "none", result |-> "engine"]]
    /\ clock = 0 /\ faults = 0 /\ crashes = 0

----------------------------------------------------------------------------
\* The request handler.

\* utc_now() is read before the row is written; time may not have moved.
Stamp(r) ==
    /\ job[r].at = "none"
    /\ clock' \in {clock, clock + 1} \intersect (0..MaxClock)
    /\ \E a \in Asked :
         request' = [request EXCEPT ![r] =
                       [dataset |-> a.dataset, useLlm |-> a.useLlm, created |-> clock']]
    /\ job' = [job EXCEPT ![r].at = "insert"]
    /\ UNCHANGED <<store, faults, crashes>>

\* create_run commits, then the task is queued behind the response.
Insert(r) ==
    /\ job[r].at = "insert"
    /\ row' = [row EXCEPT ![r].state = "pending"]
    /\ job' = [job EXCEPT ![r].at = "ingest"]
    /\ UNCHANGED <<request, table, env>>

----------------------------------------------------------------------------
\* The job.

Goto(r, here, there) ==
    /\ job[r].at = here
    /\ job' = [job EXCEPT ![r].at = there]

\* repo.set_progress, one commit.
SetProgress(r, state, progress, stage) ==
    /\ row' = [row EXCEPT ![r] = [@ EXCEPT !.state = state, !.progress = progress,
                                           !.stage = stage]]
    /\ UNCHANGED <<request, table, env>>

Announce(r, progress, stage) == SetProgress(r, row[r].state, progress, stage)

\* Slips this code could have made, one for each property below.
UnknownStage(r) == "completed"

CountEarly(r) ==
    /\ Goto(r, "matches", "exceptions")
    /\ table' = [table EXCEPT ![r].matches = job[r].result]
    /\ row' = [row EXCEPT ![r].counts = job[r].result]
    /\ UNCHANGED <<request, env>>

PersistAsCompleted(r) ==
    /\ Goto(r, "persist stage", "matches")
    /\ SetProgress(r, "completed", 90, "persisting result")

CloseThenRaise(r) ==
    /\ Goto(r, "close", "handler")
    /\ row' = [row EXCEPT ![r].state = "completed", ![r].progress = 100]
    /\ UNCHANGED <<request, table, env>>

HandleFromZero(r) ==
    /\ Goto(r, "handler", "over")
    /\ SetProgress(r, "failed", 0, "failed")

HandleKeepsState(r) ==
    /\ Goto(r, "handler", "over")
    /\ Announce(r, 100, "failed")

FirstCompletedRun(r) ==
    LET earlier == {b \in Runs : /\ row[b].state = "completed"
                                 /\ request[b].dataset = request[r].dataset
                                 /\ b < r}
    IN  IF earlier = {} THEN NoRun
        ELSE CHOOSE b \in earlier : \A other \in earlier : b <= other

Ingest(r) ==
    /\ Goto(r, "ingest", "records stage")
    /\ SetProgress(r, "running", 5, "ingest")

RecordsStage(r) ==
    /\ Goto(r, "records stage", "records")
    /\ Announce(r, 20, "persisting records")

SaveRecords(r) ==
    /\ Goto(r, "records", "match")
    /\ table' = [table EXCEPT ![r].records = TRUE]
    /\ UNCHANGED <<request, row, env>>

Matching(r) ==
    /\ Goto(r, "match", IF request[r].useLlm THEN "analyst" ELSE "score")
    /\ Announce(r, 35, "matching")

\* A pass that could not run, or raised, leaves the engine's result.
Analyst(r) ==
    /\ job[r].at = "analyst"
    /\ \E result \in {"engine", "merged"} :
         job' = [job EXCEPT ![r] = [at |-> "score", result |-> result]]
    /\ Announce(r, 55, "llm analyst")

Scoring(r) ==
    /\ Goto(r, "score", "persist stage")
    /\ Announce(r, 80, "scoring")

PersistStage(r) ==
    /\ Goto(r, "persist stage", "matches")
    /\ Announce(r, 90, "persisting result")

\* save_result, the first three of its four commits.
SaveMatches(r) ==
    /\ Goto(r, "matches", "exceptions")
    /\ table' = [table EXCEPT ![r].matches = job[r].result]
    /\ UNCHANGED <<request, row, env>>

SaveExceptions(r) ==
    /\ Goto(r, "exceptions", "audit")
    /\ table' = [table EXCEPT ![r].exceptions = job[r].result]
    /\ UNCHANGED <<request, row, env>>

SaveAudit(r) ==
    /\ Goto(r, "audit", "close")
    /\ table' = [table EXCEPT ![r].audit = job[r].result]
    /\ UNCHANGED <<request, row, env>>

FinalStage(r) ==
    IF ~request[r].useLlm THEN "complete"
    ELSE IF job[r].result = "merged" THEN "complete, analyst ran"
    ELSE "complete, analyst did not run"

\* The fourth.  Only a dataset has a truth file to be scored against.
Close(r) ==
    /\ Goto(r, "close", "over")
    /\ row' = [row EXCEPT ![r] =
                 [state |-> "completed", progress |-> 100, stage |-> FinalStage(r),
                  counts |-> job[r].result,
                  scored |-> request[r].dataset # NoDataset]]
    /\ UNCHANGED <<request, table, env>>

Handle(r) ==
    /\ Goto(r, "handler", "over")
    /\ SetProgress(r, "failed", 100, "failed")

----------------------------------------------------------------------------
\* What goes wrong.

Fault(r, here, there) ==
    /\ faults < MaxFaults
    /\ faults' = faults + 1
    /\ job[r].at \in here
    /\ job' = [job EXCEPT ![r].at = there]
    /\ UNCHANGED <<request, store, clock, crashes>>

\* Anything the try block calls: a file, the engine, the store's lock.
Raise(r) == Fault(r, Body, "handler")

\* The commits outside it: the request's insert and the handler's own.
Unhandled(r) == Fault(r, {"insert", "handler"}, "dead")

Live == {r \in Runs : job[r].at \notin {"none", "over", "dead"}}

\* Every worker goes with the process; no start-up path looks for runs
\* that were left unfinished.
Crash ==
    /\ crashes < MaxCrashes
    /\ Live # {}
    /\ crashes' = crashes + 1
    /\ job' = [r \in Runs |-> IF r \in Live THEN [job[r] EXCEPT !.at = "dead"] ELSE job[r]]
    /\ UNCHANGED <<request, store, clock, faults>>

JobStep(r) ==
    \/ Insert(r) \/ Ingest(r) \/ RecordsStage(r) \/ SaveRecords(r)
    \/ Matching(r) \/ Analyst(r) \/ Scoring(r) \/ PersistStage(r)
    \/ SaveMatches(r) \/ SaveExceptions(r) \/ SaveAudit(r) \/ Close(r)
    \/ Handle(r)

Next ==
    \/ \E r \in Runs : Stamp(r) \/ JobStep(r) \/ Raise(r) \/ Unhandled(r)
    \/ Crash

Safety == Init /\ [][Next]_jobVars

\* A worker thread that is alive keeps running.
JobFairness == \A r \in Runs : WF_jobVars(JobStep(r))

Spec == Safety /\ JobFairness

----------------------------------------------------------------------------
\* repo.previous_completed_run.

Before(a, b) ==
    \/ request[a].created < request[b].created
    \/ request[a].created = request[b].created /\ a < b

Comparable(r) ==
    {b \in Runs : /\ row[b].state = "completed"
                  /\ request[b].dataset = request[r].dataset
                  /\ Before(b, r)}

PreviousCompletedRun(r) ==
    IF Comparable(r) = {} THEN NoRun
    ELSE CHOOSE b \in Comparable(r) :
           \A other \in Comparable(r) \ {b} : Before(other, b)

----------------------------------------------------------------------------
\* Every variable stays in its declared set.
TypeOK ==
    /\ request \in [Runs -> RequestType]
    /\ row \in [Runs -> RowType]
    /\ table \in [Runs -> TableType]
    /\ job \in [Runs -> JobType]
    /\ clock \in 0..MaxClock
    /\ faults \in 0..MaxFaults
    /\ crashes \in 0..MaxCrashes

\* What a run shows to a reader that asks for its state first.
Nothing == [records |-> FALSE, matches |-> "none", exceptions |-> "none",
            audit |-> "none", counts |-> "none"]

Whole == {[records |-> TRUE, matches |-> x, exceptions |-> x, audit |-> x,
           counts |-> x] : x \in {"engine", "merged"}}

Shown(r) ==
    IF row[r].state # "completed" THEN Nothing
    ELSE [records |-> table[r].records, matches |-> table[r].matches,
          exceptions |-> table[r].exceptions, audit |-> table[r].audit,
          counts |-> row[r].counts]

\* A run that says completed has its records, and its matches, exceptions,
\* audit trail and counts are all of one result, although six commits put
\* them there and a fault or a crash may fall between any two; the result
\* is the one its final stage names.
CompletedIsWhole ==
    \A r \in Runs : row[r].state = "completed" =>
        /\ Shown(r) \in Whole
        /\ (row[r].stage = "complete, analyst ran") <=> (row[r].counts = "merged")

\* Metrics and counts are never on a run that did not complete, so a
\* failed or abandoned run can be neither scored nor compared.
OnlyCompletedRunsCount ==
    \A r \in Runs : row[r].state # "completed" =>
        row[r].counts = "none" /\ ~row[r].scored

\* Both together: counts and metrics stand for a whole result or are not there.
CompletedRunsAreWhole == CompletedIsWhole /\ OnlyCompletedRunsCount

\* Once a run is completed or failed no later step of any worker, of its
\* own handler included, touches its row or its tables.
TerminalIsFinal ==
    [][\A r \in Runs : row[r].state \in Terminal =>
          row'[r] = row[r] /\ table'[r] = table[r]]_jobVars

\* What a poller reads never moves back: neither the state nor the bar.
PolledRowMovesForward ==
    [][\A r \in Runs :
          /\ row'[r].progress >= row[r].progress
          /\ row'[r].state = "pending" => row[r].state \in {"absent", "pending"}]_jobVars

\* The default baseline of a run is only ever replaced by one nearer to it:
\* late finishers may fill the gap, nothing takes a baseline away.
BaselineOnlyMovesCloser ==
    [][\A r \in Runs : row[r].state # "absent" /\ PreviousCompletedRun(r) # NoRun =>
          LET was == PreviousCompletedRun(r)
              is  == PreviousCompletedRun(r)'
          IN  is # NoRun /\ (is = was \/ Before(was, is))]_jobVars

Published == INSTANCE PublishedRun
    WITH state <- [r \in Runs |-> row[r].state], shown <- [r \in Runs |-> Shown(r)]

\* The job and its store are an implementation of PublishedRun.
ImplementsPublishedRun == Published!Spec

Abandoned(r) == job[r].at = "dead"

\* Every accepted run ends, unless the process stopped under it or the
\* handler's own write failed.
RunEnds ==
    \A r \in Runs :
        row[r].state = "pending" ~> row[r].state \in Terminal \/ Abandoned(r)

\* The module docstring of api/jobs.py: "The job always reaches a terminal
\* state."
AlwaysTerminal ==
    \A r \in Runs : row[r].state = "pending" ~> row[r].state \in Terminal
=============================================================================
