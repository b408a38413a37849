---------------------------- MODULE RunJobProofs ----------------------------
(***************************************************************************)
(* Theorems of RunJob, and at the end of its readers, for any number of    *)
(* runs, datasets, faults and process stops. Runs never write each other's *)
(* rows, so the inductive invariant is about one run: where its worker     *)
(* stands decides the state of its row, how far the bar may have moved and *)
(* which tables hold its result.                                           *)
(***************************************************************************)
EXTENDS RunReaders, FiniteSetTheorems, WellFoundedInduction, TLAPS

\* The state of the row follows from where the worker stands.
StateInv(r) ==
    /\ job[r].at \in {"none", "insert"} => row[r].state = "absent"
    /\ job[r].at = "ingest" => row[r].state = "pending"
    /\ job[r].at \in Body \ {"ingest"} => row[r].state = "running"
    /\ job[r].at = "handler" => row[r].state \in {"pending", "running"}
    /\ job[r].at = "over" => row[r].state \in Terminal
    /\ job[r].at = "dead" => row[r].state \in {"absent", "pending", "running"}

\* The bar has not passed the mark the next step will set.
BarInv(r) ==
    /\ job[r].at \in {"none", "insert", "ingest"} => row[r].progress <= 5
    /\ job[r].at = "records stage" => row[r].progress <= 20
    /\ job[r].at \in {"records", "match"} => row[r].progress <= 35
    /\ job[r].at = "analyst" => row[r].progress <= 55
    /\ job[r].at = "score" => row[r].progress <= 80
    /\ job[r].at = "persist stage" => row[r].progress <= 90

\* Only a run that asked for the analyst can hold its result.
ResultInv(r) ==
    /\ job[r].at = "none" => job[r].result = "engine"
    /\ job[r].at = "analyst" => request[r].useLlm
    /\ job[r].result = "merged" => request[r].useLlm

\* Every table the worker has passed holds the worker's result.
TablesInv(r) ==
    /\ job[r].at \in {"match", "analyst", "score", "persist stage", "matches",
                      "exceptions", "audit", "close"} => table[r].records
    /\ job[r].at \in {"exceptions", "audit", "close"} =>
         table[r].matches = job[r].result
    /\ job[r].at \in {"audit", "close"} => table[r].exceptions = job[r].result
    /\ job[r].at = "close" => table[r].audit = job[r].result

WholeInv(r) ==
    row[r].state = "completed" =>
        /\ Shown(r) \in Whole
        /\ (row[r].stage = "complete, analyst ran") <=> (row[r].counts = "merged")

CountsInv(r) ==
    row[r].state # "completed" => row[r].counts = "none" /\ ~row[r].scored

RunInv(r) ==
    /\ StateInv(r) /\ BarInv(r) /\ ResultInv(r)
    /\ TablesInv(r) /\ WholeInv(r) /\ CountsInv(r)

Inv == TypeOK /\ \A r \in Runs : RunInv(r)

----------------------------------------------------------------------------
\* Shapes.

LEMMA InitTypeOK == Init => TypeOK
  BY AskedAssumption, BoundsAssumption
     DEF Init, TypeOK, RequestType, RowType, TableType, JobType, States,
         Stages, Results, Steps, Body

\* Putting the worker at a step keeps the shape of job.
LEMMA GotoType ==
    ASSUME TypeOK, NEW r \in Runs, NEW here, NEW there \in Steps, Goto(r, here, there)
    PROVE  job' \in [Runs -> JobType]
  BY DEF TypeOK, Goto, JobType

\* A progress commit keeps the shape of everything but job.
LEMMA SetProgressType ==
    ASSUME TypeOK, NEW r \in Runs, NEW s \in States, NEW p \in 0..100,
           NEW g \in Stages, SetProgress(r, s, p, g)
    PROVE  /\ request' \in [Runs -> RequestType]
           /\ row' \in [Runs -> RowType]
           /\ table' \in [Runs -> TableType]
           /\ clock' \in 0..MaxClock
           /\ faults' \in 0..MaxFaults
           /\ crashes' \in 0..MaxCrashes
<1>1. row[r] \in RowType
  BY DEF TypeOK
<1>2. [row[r] EXCEPT !.state = s, !.progress = p, !.stage = g] \in RowType
  BY <1>1 DEF RowType
<1>3. row' \in [Runs -> RowType]
  BY <1>2 DEF TypeOK, SetProgress
<1> QED
  BY <1>3 DEF TypeOK, SetProgress, env

----------------------------------------------------------------------------
\* What one step writes, field by field.

LEMMA SetProgressEffect ==
    ASSUME TypeOK, NEW r \in Runs, NEW s, NEW p, NEW g, SetProgress(r, s, p, g)
    PROVE  /\ row'[r].state = s /\ row'[r].progress = p /\ row'[r].stage = g
           /\ row'[r].counts = row[r].counts /\ row'[r].scored = row[r].scored
           /\ \A k \in Runs \ {r} : row'[k] = row[k]
           /\ request' = request /\ table' = table
<1>1. row[r] \in RowType
  BY DEF TypeOK
<1>2. row'[r] = [row[r] EXCEPT !.state = s, !.progress = p, !.stage = g]
  BY DEF TypeOK, SetProgress
<1>3. /\ row'[r].state = s /\ row'[r].progress = p /\ row'[r].stage = g
      /\ row'[r].counts = row[r].counts /\ row'[r].scored = row[r].scored
  BY <1>1, <1>2 DEF RowType
<1>4. \A k \in Runs \ {r} : row'[k] = row[k]
  BY DEF TypeOK, SetProgress
<1> QED
  BY <1>3, <1>4 DEF SetProgress

LEMMA GotoEffect ==
    ASSUME TypeOK, NEW r \in Runs, NEW here, NEW there, Goto(r, here, there)
    PROVE  /\ job[r].at = here
           /\ job'[r].at = there /\ job'[r].result = job[r].result
           /\ \A k \in Runs \ {r} : job'[k] = job[k]
  BY DEF TypeOK, Goto, JobType

\* A step that leaves a run alone leaves what holds of it alone.
Frame(k) ==
    job'[k] = job[k] /\ row'[k] = row[k] /\ table'[k] = table[k] /\ request'[k] = request[k]

LEMMA FrameInv ==
    ASSUME NEW k \in Runs, RunInv(k), Frame(k)
    PROVE  RunInv(k)'
<1>1. StateInv(k)'
  BY DEF RunInv, Frame, StateInv
<1>2. BarInv(k)'
  BY DEF RunInv, Frame, BarInv
<1>3. ResultInv(k)' /\ TablesInv(k)'
  BY DEF RunInv, Frame, ResultInv, TablesInv
<1>4. WholeInv(k)' /\ CountsInv(k)'
  BY DEF RunInv, Frame, WholeInv, CountsInv, Shown
<1> QED
  BY <1>1, <1>2, <1>3, <1>4 DEF RunInv

----------------------------------------------------------------------------
\* One step of one run.

Confined(r) == TypeOK' /\ \A k \in Runs \ {r} : Frame(k)

Preserved(r) == Confined(r) /\ RunInv(r)'

\* A progress commit writes the row of its run and nothing of another.
LEMMA ProgressStep ==
    ASSUME TypeOK, NEW r \in Runs, NEW here, NEW there \in Steps,
           NEW s \in States, NEW p \in 0..100, NEW g \in Stages,
           Goto(r, here, there), SetProgress(r, s, p, g)
    PROVE  Confined(r)
<1>1. TypeOK'
  <2>1. job' \in [Runs -> JobType]
    BY GotoType
  <2>2. /\ request' \in [Runs -> RequestType]
        /\ row' \in [Runs -> RowType]
        /\ table' \in [Runs -> TableType]
        /\ clock' \in 0..MaxClock
        /\ faults' \in 0..MaxFaults
        /\ crashes' \in 0..MaxCrashes
    BY SetProgressType
  <2> QED
    BY <2>1, <2>2 DEF TypeOK
<1>2. \A k \in Runs \ {r} : Frame(k)
  BY GotoEffect, SetProgressEffect DEF Frame
<1> QED
  BY <1>1, <1>2 DEF Confined

\* Between two steps of the body the state and the counts stay.
Carried(r) == Confined(r) /\ StateInv(r)' /\ WholeInv(r)' /\ CountsInv(r)'

LEMMA BodyStep ==
    ASSUME Inv, NEW r \in Runs, Confined(r),
           job[r].at \in Body \ {"ingest"}, job'[r].at \in Body \ {"ingest"},
           row'[r].state = row[r].state, row'[r].counts = row[r].counts,
           row'[r].scored = row[r].scored
    PROVE  Carried(r)
<1>1. row[r].state = "running" /\ CountsInv(r)
  BY DEF Inv, RunInv, StateInv
<1>2. StateInv(r)'
  BY <1>1 DEF StateInv, Body
<1>3. WholeInv(r)' /\ CountsInv(r)'
  BY <1>1 DEF WholeInv, CountsInv
<1> QED
  BY <1>2, <1>3 DEF Carried

LEMMA AnnounceStep ==
    ASSUME Inv, NEW r \in Runs, NEW here \in Body \ {"ingest"},
           NEW there \in Body \ {"ingest"}, NEW p \in 0..100, NEW g \in Stages,
           Goto(r, here, there), Announce(r, p, g)
    PROVE  Carried(r)
<1>1. TypeOK /\ row[r].state \in States
  BY DEF Inv, TypeOK, RowType
<1>2. SetProgress(r, row[r].state, p, g) /\ there \in Steps
  BY DEF Announce, Steps
<1>3. Confined(r)
  BY <1>1, <1>2, ProgressStep
<1>4. job[r].at = here /\ job'[r].at = there
  BY <1>1, GotoEffect
<1>5. /\ row'[r].state = row[r].state
      /\ row'[r].counts = row[r].counts /\ row'[r].scored = row[r].scored
  BY <1>1, <1>2, SetProgressEffect
<1> QED
  BY <1>3, <1>4, <1>5, BodyStep

\* A commit of save_records or save_result writes its run's tables.
LEMMA SaveStep ==
    ASSUME Inv, NEW r \in Runs, NEW here \in Body \ {"ingest"},
           NEW there \in Body \ {"ingest"}, NEW t \in TableType,
           Goto(r, here, there), table' = [table EXCEPT ![r] = t],
           UNCHANGED <<request, row, env>>
    PROVE  Carried(r) /\ table'[r] = t
<1>1. TypeOK /\ there \in Steps
  BY DEF Inv, Steps
<1>2. job' \in [Runs -> JobType]
  BY <1>1, GotoType
<1>3. job[r].at = here /\ job'[r].at = there /\ \A k \in Runs \ {r} : job'[k] = job[k]
  BY <1>1, GotoEffect
<1>4. TypeOK'
  BY <1>1, <1>2 DEF TypeOK, env
<1>5. \A k \in Runs \ {r} : Frame(k)
  BY <1>1, <1>3 DEF TypeOK, Frame
<1>6. Confined(r)
  BY <1>4, <1>5 DEF Confined
<1>7. Carried(r)
  BY <1>3, <1>6, BodyStep
<1>8. table'[r] = t
  BY <1>1 DEF TypeOK
<1> QED
  BY <1>7, <1>8

----------------------------------------------------------------------------
\* The job's steps, one lemma each.

LEMMA IngestInv ==
    ASSUME Inv, NEW r \in Runs, Ingest(r)
    PROVE  Preserved(r)
<1>1. TypeOK /\ RunInv(r)
  BY DEF Inv
<1>2. /\ Goto(r, "ingest", "records stage")
      /\ SetProgress(r, "running", 5, "ingest")
  BY DEF Ingest
<1>3. Confined(r)
  <2>1. /\ "records stage" \in Steps /\ "running" \in States
        /\ 5 \in 0..100 /\ "ingest" \in Stages
    BY DEF Steps, Body, States, Stages
  <2> QED
    BY <1>1, <1>2, <2>1, ProgressStep
<1>4. job[r].at = "ingest" /\ job'[r].at = "records stage" /\ job'[r].result = job[r].result
  BY <1>1, <1>2 DEF TypeOK, JobType, Goto
<1>5. /\ row'[r].state = "running" /\ row'[r].progress = 5
      /\ row'[r].counts = row[r].counts /\ row'[r].scored = row[r].scored
      /\ request' = request /\ table' = table
  BY <1>1, <1>2 DEF TypeOK, RowType, SetProgress
<1>6. StateInv(r)'
  BY <1>4, <1>5 DEF StateInv, Body
<1>7. BarInv(r)'
  <2>1. row'[r].progress <= 20
    BY <1>5
  <2> QED
    BY <1>4, <2>1 DEF BarInv
<1>8. ResultInv(r)' /\ TablesInv(r)'
  BY <1>1, <1>4, <1>5 DEF RunInv, ResultInv, TablesInv
<1>9. WholeInv(r)' /\ CountsInv(r)'
  BY <1>1, <1>4, <1>5 DEF RunInv, StateInv, WholeInv, CountsInv
<1> QED
  BY <1>3, <1>6, <1>7, <1>8, <1>9 DEF Preserved, RunInv

LEMMA RecordsStageInv ==
    ASSUME Inv, NEW r \in Runs, RecordsStage(r)
    PROVE  Preserved(r)
<1>1. TypeOK /\ RunInv(r)
  BY DEF Inv
<1>2. Goto(r, "records stage", "records") /\ Announce(r, 20, "persisting records")
  BY DEF RecordsStage
<1>3. Carried(r)
  <2>1. /\ "records stage" \in Body \ {"ingest"}
        /\ "records" \in Body \ {"ingest"}
        /\ 20 \in 0..100 /\ "persisting records" \in Stages
    BY DEF Body, Stages
  <2> QED
    BY <1>2, <2>1, AnnounceStep
<1>4. job[r].at = "records stage" /\ job'[r].at = "records" /\ job'[r].result = job[r].result
  BY <1>1, <1>2 DEF TypeOK, JobType, Goto
<1>5. row'[r].progress = 20 /\ request' = request /\ table' = table
  BY <1>1, <1>2 DEF TypeOK, RowType, Announce, SetProgress
<1>6. BarInv(r)'
  <2>1. row'[r].progress <= 35
    BY <1>5
  <2> QED
    BY <1>4, <2>1 DEF BarInv
<1>7. ResultInv(r)' /\ TablesInv(r)'
  BY <1>1, <1>4, <1>5 DEF RunInv, ResultInv, TablesInv
<1> QED
  BY <1>3, <1>6, <1>7 DEF Preserved, Carried, RunInv

LEMMA SaveRecordsInv ==
    ASSUME Inv, NEW r \in Runs, SaveRecords(r)
    PROVE  Preserved(r)
<1>1. TypeOK /\ RunInv(r)
  BY DEF Inv
<1> DEFINE t == [table[r] EXCEPT !.records = TRUE]
<1>2. Goto(r, "records", "match") /\ table' = [table EXCEPT ![r] = t]
      /\ UNCHANGED <<request, row, env>>
  BY DEF SaveRecords
<1>3. t \in TableType
  BY <1>1 DEF TypeOK, TableType, JobType, Results
<1>4. Carried(r) /\ table'[r] = t
  <2>1. "records" \in Body \ {"ingest"} /\ "match" \in Body \ {"ingest"}
    BY DEF Body
  <2> HIDE DEF t
  <2> QED
    BY <1>2, <1>3, <2>1, SaveStep
<1>5. job[r].at = "records" /\ job'[r].at = "match" /\ job'[r].result = job[r].result
  BY <1>1, <1>2 DEF TypeOK, JobType, Goto
<1>6. BarInv(r)'
  BY <1>1, <1>2, <1>5 DEF RunInv, BarInv
<1>7. ResultInv(r)'
  BY <1>1, <1>2, <1>5 DEF RunInv, ResultInv
<1>8. TablesInv(r)'
  BY <1>1, <1>4, <1>5 DEF RunInv, TablesInv, TypeOK, TableType
<1> QED
  BY <1>4, <1>6, <1>7, <1>8 DEF Preserved, Carried, RunInv

LEMMA ScoringInv ==
    ASSUME Inv, NEW r \in Runs, Scoring(r)
    PROVE  Preserved(r)
<1>1. TypeOK /\ RunInv(r)
  BY DEF Inv
<1>2. Goto(r, "score", "persist stage") /\ Announce(r, 80, "scoring")
  BY DEF Scoring
<1>3. Carried(r)
  <2>1. /\ "score" \in Body \ {"ingest"}
        /\ "persist stage" \in Body \ {"ingest"}
        /\ 80 \in 0..100 /\ "scoring" \in Stages
    BY DEF Body, Stages
  <2> QED
    BY <1>2, <2>1, AnnounceStep
<1>4. job[r].at = "score" /\ job'[r].at = "persist stage" /\ job'[r].result = job[r].result
  BY <1>1, <1>2 DEF TypeOK, JobType, Goto
<1>5. row'[r].progress = 80 /\ request' = request /\ table' = table
  BY <1>1, <1>2 DEF TypeOK, RowType, Announce, SetProgress
<1>6. BarInv(r)'
  <2>1. row'[r].progress <= 90
    BY <1>5
  <2> QED
    BY <1>4, <2>1 DEF BarInv
<1>7. ResultInv(r)' /\ TablesInv(r)'
  BY <1>1, <1>4, <1>5 DEF RunInv, ResultInv, TablesInv
<1> QED
  BY <1>3, <1>6, <1>7 DEF Preserved, Carried, RunInv

LEMMA PersistStageInv ==
    ASSUME Inv, NEW r \in Runs, PersistStage(r)
    PROVE  Preserved(r)
<1>1. TypeOK /\ RunInv(r)
  BY DEF Inv
<1>2. Goto(r, "persist stage", "matches") /\ Announce(r, 90, "persisting result")
  BY DEF PersistStage
<1>3. Carried(r)
  <2>1. /\ "persist stage" \in Body \ {"ingest"}
        /\ "matches" \in Body \ {"ingest"}
        /\ 90 \in 0..100 /\ "persisting result" \in Stages
    BY DEF Body, Stages
  <2> QED
    BY <1>2, <2>1, AnnounceStep
<1>4. job[r].at = "persist stage" /\ job'[r].at = "matches" /\ job'[r].result = job[r].result
  BY <1>1, <1>2 DEF TypeOK, JobType, Goto
<1>5. row'[r].progress = 90 /\ request' = request /\ table' = table
  BY <1>1, <1>2 DEF TypeOK, RowType, Announce, SetProgress
<1>6. BarInv(r)'
  BY <1>4 DEF BarInv
<1>7. ResultInv(r)' /\ TablesInv(r)'
  BY <1>1, <1>4, <1>5 DEF RunInv, ResultInv, TablesInv
<1> QED
  BY <1>3, <1>6, <1>7 DEF Preserved, Carried, RunInv

LEMMA SaveMatchesInv ==
    ASSUME Inv, NEW r \in Runs, SaveMatches(r)
    PROVE  Preserved(r)
<1>1. TypeOK /\ RunInv(r)
  BY DEF Inv
<1> DEFINE t == [table[r] EXCEPT !.matches = job[r].result]
<1>2. Goto(r, "matches", "exceptions") /\ table' = [table EXCEPT ![r] = t]
      /\ UNCHANGED <<request, row, env>>
  BY DEF SaveMatches
<1>3. t \in TableType
  BY <1>1 DEF TypeOK, TableType, JobType, Results
<1>4. Carried(r) /\ table'[r] = t
  <2>1. "matches" \in Body \ {"ingest"} /\ "exceptions" \in Body \ {"ingest"}
    BY DEF Body
  <2> HIDE DEF t
  <2> QED
    BY <1>2, <1>3, <2>1, SaveStep
<1>5. job[r].at = "matches" /\ job'[r].at = "exceptions" /\ job'[r].result = job[r].result
  BY <1>1, <1>2 DEF TypeOK, JobType, Goto
<1>6. BarInv(r)'
  BY <1>1, <1>2, <1>5 DEF RunInv, BarInv
<1>7. ResultInv(r)'
  BY <1>1, <1>2, <1>5 DEF RunInv, ResultInv
<1>8. TablesInv(r)'
  BY <1>1, <1>4, <1>5 DEF RunInv, TablesInv, TypeOK, TableType
<1> QED
  BY <1>4, <1>6, <1>7, <1>8 DEF Preserved, Carried, RunInv

LEMMA SaveExceptionsInv ==
    ASSUME Inv, NEW r \in Runs, SaveExceptions(r)
    PROVE  Preserved(r)
<1>1. TypeOK /\ RunInv(r)
  BY DEF Inv
<1> DEFINE t == [table[r] EXCEPT !.exceptions = job[r].result]
<1>2. Goto(r, "exceptions", "audit") /\ table' = [table EXCEPT ![r] = t]
      /\ UNCHANGED <<request, row, env>>
  BY DEF SaveExceptions
<1>3. t \in TableType
  BY <1>1 DEF TypeOK, TableType, JobType, Results
<1>4. Carried(r) /\ table'[r] = t
  <2>1. "exceptions" \in Body \ {"ingest"} /\ "audit" \in Body \ {"ingest"}
    BY DEF Body
  <2> HIDE DEF t
  <2> QED
    BY <1>2, <1>3, <2>1, SaveStep
<1>5. job[r].at = "exceptions" /\ job'[r].at = "audit" /\ job'[r].result = job[r].result
  BY <1>1, <1>2 DEF TypeOK, JobType, Goto
<1>6. BarInv(r)'
  BY <1>1, <1>2, <1>5 DEF RunInv, BarInv
<1>7. ResultInv(r)'
  BY <1>1, <1>2, <1>5 DEF RunInv, ResultInv
<1>8. TablesInv(r)'
  BY <1>1, <1>4, <1>5 DEF RunInv, TablesInv, TypeOK, TableType
<1> QED
  BY <1>4, <1>6, <1>7, <1>8 DEF Preserved, Carried, RunInv

LEMMA SaveAuditInv ==
    ASSUME Inv, NEW r \in Runs, SaveAudit(r)
    PROVE  Preserved(r)
<1>1. TypeOK /\ RunInv(r)
  BY DEF Inv
<1> DEFINE t == [table[r] EXCEPT !.audit = job[r].result]
<1>2. Goto(r, "audit", "close") /\ table' = [table EXCEPT ![r] = t]
      /\ UNCHANGED <<request, row, env>>
  BY DEF SaveAudit
<1>3. t \in TableType
  BY <1>1 DEF TypeOK, TableType, JobType, Results
<1>4. Carried(r) /\ table'[r] = t
  <2>1. "audit" \in Body \ {"ingest"} /\ "close" \in Body \ {"ingest"}
    BY DEF Body
  <2> HIDE DEF t
  <2> QED
    BY <1>2, <1>3, <2>1, SaveStep
<1>5. job[r].at = "audit" /\ job'[r].at = "close" /\ job'[r].result = job[r].result
  BY <1>1, <1>2 DEF TypeOK, JobType, Goto
<1>6. BarInv(r)'
  BY <1>1, <1>2, <1>5 DEF RunInv, BarInv
<1>7. ResultInv(r)'
  BY <1>1, <1>2, <1>5 DEF RunInv, ResultInv
<1>8. TablesInv(r)'
  BY <1>1, <1>4, <1>5 DEF RunInv, TablesInv, TypeOK, TableType
<1> QED
  BY <1>4, <1>6, <1>7, <1>8 DEF Preserved, Carried, RunInv

LEMMA MatchingInv ==
    ASSUME Inv, NEW r \in Runs, Matching(r)
    PROVE  Preserved(r)
<1> DEFINE there == IF request[r].useLlm THEN "analyst" ELSE "score"
<1>1. TypeOK /\ RunInv(r)
  BY DEF Inv
<1>2. Goto(r, "match", there) /\ Announce(r, 35, "matching")
  BY DEF Matching
<1>3. Carried(r)
  <2>1. /\ "match" \in Body \ {"ingest"} /\ there \in Body \ {"ingest"}
        /\ 35 \in 0..100 /\ "matching" \in Stages
    BY DEF Body, Stages
  <2> HIDE DEF there
  <2> QED
    BY <1>2, <2>1, AnnounceStep
<1>4. job[r].at = "match" /\ job'[r].at = there /\ job'[r].result = job[r].result
  BY <1>1, <1>2 DEF TypeOK, JobType, Goto
<1>5. row'[r].progress = 35 /\ request' = request /\ table' = table
  BY <1>1, <1>2 DEF TypeOK, RowType, Announce, SetProgress
<1>6. BarInv(r)'
  <2>1. row'[r].progress <= 55 /\ row'[r].progress <= 80
    BY <1>5
  <2> QED
    BY <1>4, <2>1 DEF BarInv
<1>7. ResultInv(r)' /\ TablesInv(r)'
  BY <1>1, <1>4, <1>5 DEF RunInv, ResultInv, TablesInv
<1> QED
  BY <1>3, <1>6, <1>7 DEF Preserved, Carried, RunInv

\* The one step that changes what the worker holds.
LEMMA AnalystInv ==
    ASSUME Inv, NEW r \in Runs, Analyst(r)
    PROVE  Preserved(r)
<1>1. TypeOK /\ RunInv(r) /\ row[r].state \in States
  BY DEF Inv, TypeOK, RowType
<1>2. PICK result \in {"engine", "merged"} :
        job' = [job EXCEPT ![r] = [at |-> "score", result |-> result]]
  BY DEF Analyst
<1>3. /\ job[r].at = "analyst" /\ SetProgress(r, row[r].state, 55, "llm analyst")
      /\ 55 \in 0..100 /\ "llm analyst" \in Stages
  <2>1. job[r].at = "analyst" /\ SetProgress(r, row[r].state, 55, "llm analyst")
    BY DEF Analyst, Announce
  <2>2. 55 \in 0..100 /\ "llm analyst" \in Stages
    BY DEF Stages
  <2> QED
    BY <2>1, <2>2
<1>4. /\ job' \in [Runs -> JobType]
      /\ job'[r].at = "score" /\ job'[r].result \in {"engine", "merged"}
      /\ \A k \in Runs \ {r} : job'[k] = job[k]
  BY <1>1, <1>2 DEF TypeOK, JobType, Steps, Body
<1>5. /\ request' \in [Runs -> RequestType]
      /\ row' \in [Runs -> RowType]
      /\ table' \in [Runs -> TableType]
      /\ clock' \in 0..MaxClock
      /\ faults' \in 0..MaxFaults
      /\ crashes' \in 0..MaxCrashes
  BY <1>1, <1>3, SetProgressType
<1>6. \A k \in Runs \ {r} : Frame(k)
  BY <1>1, <1>3, <1>4, SetProgressEffect DEF Frame
<1>7. Confined(r)
  BY <1>4, <1>5, <1>6 DEF Confined, TypeOK
<1>8. /\ row'[r].state = row[r].state /\ row'[r].progress = 55
      /\ row'[r].counts = row[r].counts /\ row'[r].scored = row[r].scored
      /\ request' = request /\ table' = table
  BY <1>1, <1>3 DEF TypeOK, RowType, SetProgress
<1>9. Carried(r)
  <2>1. job[r].at \in Body \ {"ingest"} /\ job'[r].at \in Body \ {"ingest"}
    BY <1>3, <1>4 DEF Body
  <2> QED
    BY <1>7, <1>8, <2>1, BodyStep
<1>10. BarInv(r)'
  <2>1. row'[r].progress <= 80
    BY <1>8
  <2> QED
    BY <1>4, <2>1 DEF BarInv
<1>11. ResultInv(r)' /\ TablesInv(r)'
  BY <1>1, <1>3, <1>4, <1>8 DEF RunInv, ResultInv, TablesInv
<1> QED
  BY <1>9, <1>10, <1>11 DEF Preserved, Carried, RunInv

\* The commit that publishes: everything it vouches for is already there.
LEMMA CloseInv ==
    ASSUME Inv, NEW r \in Runs, Close(r)
    PROVE  Preserved(r) /\ Shown(r)' \in Whole /\ row'[r].state = "completed"
<1> DEFINE published == [state |-> "completed", progress |-> 100, stage |-> FinalStage(r),
                         counts |-> job[r].result, scored |-> request[r].dataset # NoDataset]
<1>1. TypeOK /\ RunInv(r) /\ job[r].result \in {"engine", "merged"}
      /\ request[r].useLlm \in BOOLEAN /\ "over" \in Steps
  BY DEF Inv, TypeOK, JobType, RequestType, Steps
<1>2. /\ Goto(r, "close", "over") /\ row' = [row EXCEPT ![r] = published]
      /\ request' = request /\ table' = table /\ UNCHANGED env
  BY DEF Close
<1>3. FinalStage(r) \in Stages
  BY DEF FinalStage, Stages
<1>4. published \in RowType
  BY <1>1, <1>3 DEF RowType, States, Results
<1>5. Confined(r)
  <2>1. job' \in [Runs -> JobType]
    BY <1>1, <1>2, GotoType
  <2>2. TypeOK'
    BY <1>1, <1>2, <1>4, <2>1 DEF TypeOK, env
  <2>3. \A k \in Runs \ {r} : job'[k] = job[k]
    BY <1>1, <1>2, GotoEffect
  <2>4. \A k \in Runs \ {r} : Frame(k)
    BY <1>1, <1>2, <2>3 DEF TypeOK, Frame
  <2> QED
    BY <2>2, <2>4 DEF Confined
<1>6. job[r].at = "close" /\ job'[r].at = "over" /\ job'[r].result = job[r].result
  BY <1>1, <1>2 DEF TypeOK, JobType, Goto
<1>7. row'[r].state = "completed" /\ row'[r].stage = FinalStage(r) /\ row'[r].counts = job[r].result
  BY <1>1, <1>2 DEF TypeOK
<1>8. Shown(r)' \in Whole
  <2>1. /\ table[r].records = TRUE /\ table[r].matches = job[r].result
        /\ table[r].exceptions = job[r].result /\ table[r].audit = job[r].result
    BY <1>1, <1>6 DEF RunInv, TablesInv, TypeOK, TableType
  <2> QED
    BY <1>1, <1>2, <1>7, <2>1 DEF Shown, Whole
<1>9. (row'[r].stage = "complete, analyst ran") <=> (row'[r].counts = "merged")
  BY <1>1, <1>7 DEF FinalStage, RunInv, ResultInv
<1>10. StateInv(r)' /\ BarInv(r)'
  BY <1>6, <1>7 DEF StateInv, BarInv, Body, Terminal
<1>11. ResultInv(r)' /\ TablesInv(r)'
  BY <1>1, <1>2, <1>6 DEF RunInv, ResultInv, TablesInv
<1>12. WholeInv(r)' /\ CountsInv(r)'
  BY <1>7, <1>8, <1>9 DEF WholeInv, CountsInv
<1> QED
  BY <1>5, <1>7, <1>8, <1>10, <1>11, <1>12 DEF Preserved, RunInv

LEMMA HandleInv ==
    ASSUME Inv, NEW r \in Runs, Handle(r)
    PROVE  Preserved(r)
<1>1. TypeOK /\ RunInv(r)
  BY DEF Inv
<1>2. Goto(r, "handler", "over") /\ SetProgress(r, "failed", 100, "failed")
  BY DEF Handle
<1>3. Confined(r)
  <2>1. "over" \in Steps /\ "failed" \in States /\ 100 \in 0..100 /\ "failed" \in Stages
    BY DEF Steps, States, Stages
  <2> QED
    BY <1>1, <1>2, <2>1, ProgressStep
<1>4. job[r].at = "handler" /\ job'[r].at = "over" /\ job'[r].result = job[r].result
  BY <1>1, <1>2 DEF TypeOK, JobType, Goto
<1>5. /\ row'[r].state = "failed"
      /\ row'[r].counts = row[r].counts /\ row'[r].scored = row[r].scored
      /\ request' = request /\ table' = table
  BY <1>1, <1>2 DEF TypeOK, RowType, SetProgress
<1>6. StateInv(r)' /\ BarInv(r)'
  BY <1>4, <1>5 DEF StateInv, BarInv, Body, Terminal
<1>7. ResultInv(r)' /\ TablesInv(r)'
  BY <1>1, <1>4, <1>5 DEF RunInv, ResultInv, TablesInv
<1>8. WholeInv(r)' /\ CountsInv(r)'
  BY <1>1, <1>4, <1>5 DEF RunInv, StateInv, WholeInv, CountsInv
<1> QED
  BY <1>3, <1>6, <1>7, <1>8 DEF Preserved, RunInv

LEMMA InsertInv ==
    ASSUME Inv, NEW r \in Runs, Insert(r)
    PROVE  Preserved(r)
<1>1. TypeOK /\ RunInv(r) /\ row[r] \in RowType
  BY DEF Inv, TypeOK
<1>2. /\ Goto(r, "insert", "ingest") /\ row' = [row EXCEPT ![r].state = "pending"]
      /\ request' = request /\ table' = table /\ UNCHANGED env
  BY DEF Insert, Goto
<1>3. Confined(r)
  <2>1. "ingest" \in Steps /\ "pending" \in States
    BY DEF Steps, Body, States
  <2>2. job' \in [Runs -> JobType]
    BY <1>1, <1>2, <2>1, GotoType
  <2>3. row' \in [Runs -> RowType]
    BY <1>1, <1>2, <2>1 DEF TypeOK, RowType
  <2>4. TypeOK'
    BY <1>1, <1>2, <2>2, <2>3 DEF TypeOK, env
  <2>5. \A k \in Runs \ {r} : job'[k] = job[k]
    BY <1>1, <1>2, GotoEffect
  <2>6. \A k \in Runs \ {r} : Frame(k)
    BY <1>1, <1>2, <2>5 DEF TypeOK, Frame
  <2> QED
    BY <2>4, <2>6 DEF Confined
<1>4. job[r].at = "insert" /\ job'[r].at = "ingest" /\ job'[r].result = job[r].result
  BY <1>1, <1>2 DEF TypeOK, JobType, Goto
<1>5. /\ row'[r].state = "pending" /\ row'[r].progress = row[r].progress
      /\ row'[r].counts = row[r].counts /\ row'[r].scored = row[r].scored
  BY <1>1, <1>2 DEF TypeOK, RowType
<1>6. StateInv(r)'
  BY <1>4, <1>5 DEF StateInv, Body
<1>7. BarInv(r)'
  BY <1>1, <1>4, <1>5 DEF RunInv, BarInv
<1>8. ResultInv(r)' /\ TablesInv(r)'
  BY <1>1, <1>2, <1>4 DEF RunInv, ResultInv, TablesInv
<1>9. WholeInv(r)' /\ CountsInv(r)'
  BY <1>1, <1>4, <1>5 DEF RunInv, StateInv, WholeInv, CountsInv
<1> QED
  BY <1>3, <1>6, <1>7, <1>8, <1>9 DEF Preserved, RunInv

LEMMA StampInv ==
    ASSUME Inv, NEW r \in Runs, Stamp(r)
    PROVE  Preserved(r)
<1>1. TypeOK /\ RunInv(r) /\ job[r].at = "none" /\ job[r].result = "engine"
  BY DEF Inv, RunInv, ResultInv, Stamp
<1>2. PICK a \in Asked :
        request' = [request EXCEPT ![r] =
                      [dataset |-> a.dataset, useLlm |-> a.useLlm, created |-> clock']]
  BY DEF Stamp
<1>3. /\ clock' \in 0..MaxClock /\ job' = [job EXCEPT ![r].at = "insert"]
      /\ UNCHANGED <<row, table, faults, crashes>>
  BY DEF Stamp, store
<1>4. Confined(r)
  <2>1. [dataset |-> a.dataset, useLlm |-> a.useLlm, created |-> clock'] \in RequestType
    BY <1>3, AskedAssumption DEF RequestType
  <2>2. job' \in [Runs -> JobType]
    BY <1>1, <1>3 DEF TypeOK, JobType, Steps
  <2>3. TypeOK'
    BY <1>1, <1>2, <1>3, <2>1, <2>2 DEF TypeOK
  <2>4. \A k \in Runs \ {r} : Frame(k)
    BY <1>1, <1>2, <1>3 DEF TypeOK, Frame
  <2> QED
    BY <2>3, <2>4 DEF Confined
<1>5. job'[r].at = "insert" /\ job'[r].result = "engine"
  BY <1>1, <1>3 DEF TypeOK, JobType
<1>6. StateInv(r)'
  BY <1>1, <1>3, <1>5 DEF RunInv, StateInv, Body
<1>7. BarInv(r)'
  BY <1>1, <1>3, <1>5 DEF RunInv, BarInv
<1>8. ResultInv(r)' /\ TablesInv(r)'
  BY <1>5 DEF ResultInv, TablesInv
<1>9. WholeInv(r)' /\ CountsInv(r)'
  BY <1>1, <1>3 DEF RunInv, StateInv, WholeInv, CountsInv
<1> QED
  BY <1>4, <1>6, <1>7, <1>8, <1>9 DEF Preserved, RunInv

\* A worker that is thrown out of its place leaves its row as it was.
LEMMA ThrownInv ==
    ASSUME TypeOK, NEW r \in Runs, RunInv(r), row'[r] = row[r],
           job'[r].result = job[r].result,
           \/ job[r].at \in Body /\ job'[r].at = "handler"
           \/ job[r].at \in {"insert", "handler"} \union Body /\ job'[r].at = "dead",
           request' = request, table' = table
    PROVE  RunInv(r)'
<1>1. StateInv(r)'
  BY DEF RunInv, StateInv, Body
<1>2. BarInv(r)' /\ TablesInv(r)'
  BY DEF BarInv, TablesInv
<1>3. ResultInv(r)'
  BY DEF RunInv, ResultInv
<1>4. WholeInv(r)' /\ CountsInv(r)'
  BY DEF RunInv, WholeInv, CountsInv, Shown
<1> QED
  BY <1>1, <1>2, <1>3, <1>4 DEF RunInv

LEMMA FaultInv ==
    ASSUME Inv, NEW r \in Runs, Raise(r) \/ Unhandled(r)
    PROVE  Preserved(r)
<1>1. TypeOK /\ RunInv(r)
  BY DEF Inv
<1>2. /\ faults < MaxFaults /\ faults' = faults + 1
      /\ UNCHANGED <<request, row, table, clock, crashes>>
  BY DEF Raise, Unhandled, Fault, store
<1>3. PICK there \in {"handler", "dead"} :
        /\ job' = [job EXCEPT ![r].at = there]
        /\ \/ job[r].at \in Body /\ there = "handler"
           \/ job[r].at \in {"insert", "handler"} /\ there = "dead"
  BY DEF Raise, Unhandled, Fault
<1>4. /\ job' \in [Runs -> JobType]
      /\ job'[r].at = there /\ job'[r].result = job[r].result
      /\ \A k \in Runs \ {r} : job'[k] = job[k]
  BY <1>1, <1>3 DEF TypeOK, JobType, Steps
<1>5. faults' \in 0..MaxFaults
  BY <1>1, <1>2, BoundsAssumption DEF TypeOK
<1>6. Confined(r)
  BY <1>1, <1>2, <1>4, <1>5 DEF Confined, TypeOK, Frame
<1>7. RunInv(r)'
  BY <1>1, <1>2, <1>3, <1>4, ThrownInv
<1> QED
  BY <1>6, <1>7 DEF Preserved

\* The only step of more than one run.
LEMMA CrashInv ==
    ASSUME Inv, Crash
    PROVE  Inv'
<1>1. TypeOK /\ crashes < MaxCrashes /\ crashes' = crashes + 1
      /\ UNCHANGED <<request, row, table, clock, faults>>
      /\ job' = [r \in Runs |-> IF r \in Live THEN [job[r] EXCEPT !.at = "dead"] ELSE job[r]]
  BY DEF Inv, Crash, store
<1>2. job' \in [Runs -> JobType]
  BY <1>1 DEF TypeOK, JobType, Steps
<1>3. crashes' \in 0..MaxCrashes
  BY <1>1, BoundsAssumption DEF TypeOK
<1>4. TypeOK'
  BY <1>1, <1>2, <1>3 DEF TypeOK
<1>5. ASSUME NEW k \in Runs PROVE RunInv(k)'
  <2>1. RunInv(k)
    BY DEF Inv
  <2>2. CASE k \in Live
    <3>1. job'[k].at = "dead" /\ job'[k].result = job[k].result
      BY <1>1, <2>2 DEF TypeOK, JobType
    <3>2. job[k].at \in {"insert", "handler"} \union Body
      BY <1>1, <2>2 DEF Live, TypeOK, JobType, Steps
    <3> QED
      BY <1>1, <2>1, <3>1, <3>2, ThrownInv
  <2>3. CASE k \notin Live
    BY <1>1, <2>1, <2>3, FrameInv DEF Frame
  <2> QED
    BY <2>2, <2>3
<1> QED
  BY <1>4, <1>5 DEF Inv

----------------------------------------------------------------------------
\* The invariant is inductive.

LEMMA InitInv == Init => Inv
<1> SUFFICES ASSUME Init PROVE Inv
  OBVIOUS
<1>1. ASSUME NEW r \in Runs PROVE RunInv(r)
  <2>1. job[r].at = "none" /\ job[r].result = "engine"
    BY DEF Init
  <2>2. /\ row[r].state = "absent" /\ row[r].progress = 0
        /\ row[r].counts = "none" /\ ~row[r].scored
    BY DEF Init
  <2>3. StateInv(r)
    BY <2>1, <2>2 DEF StateInv, Body
  <2>4. BarInv(r)
    BY <2>1, <2>2 DEF BarInv
  <2>5. ResultInv(r) /\ TablesInv(r)
    BY <2>1 DEF ResultInv, TablesInv
  <2>6. WholeInv(r) /\ CountsInv(r)
    BY <2>2 DEF WholeInv, CountsInv
  <2> QED
    BY <2>3, <2>4, <2>5, <2>6 DEF RunInv
<1> QED
  BY <1>1, InitTypeOK DEF Inv

\* Every step but a crash is the step of one run.
LEMMA LocalStep ==
    ASSUME Inv, NEW r \in Runs, Stamp(r) \/ JobStep(r) \/ Raise(r) \/ Unhandled(r)
    PROVE  Preserved(r)
  BY StampInv, InsertInv, IngestInv, RecordsStageInv, SaveRecordsInv, MatchingInv,
     AnalystInv, ScoringInv, PersistStageInv, SaveMatchesInv, SaveExceptionsInv,
     SaveAuditInv, CloseInv, HandleInv, FaultInv
     DEF JobStep

LEMMA PreservedInv ==
    ASSUME Inv, NEW r \in Runs, Preserved(r)
    PROVE  Inv'
<1>1. TypeOK' /\ RunInv(r)' /\ \A k \in Runs \ {r} : Frame(k)
  BY DEF Preserved, Confined
<1>2. ASSUME NEW k \in Runs \ {r} PROVE RunInv(k)'
  <2>1. RunInv(k) /\ Frame(k)
    BY <1>1 DEF Inv
  <2> QED
    BY <2>1, FrameInv
<1>3. ASSUME NEW k \in Runs PROVE RunInv(k)'
  <2>1. CASE k = r
    BY <1>1, <2>1
  <2>2. CASE k # r
    BY <1>2, <2>2
  <2> QED
    BY <2>1, <2>2
<1> QED
  BY <1>1, <1>3 DEF Inv

LEMMA NextInv == Inv /\ [Next]_jobVars => Inv'
<1> SUFFICES ASSUME Inv, [Next]_jobVars PROVE Inv'
  OBVIOUS
<1>1. CASE Crash
  BY <1>1, CrashInv
<1>2. ASSUME NEW r \in Runs, Stamp(r) \/ JobStep(r) \/ Raise(r) \/ Unhandled(r)
      PROVE  Inv'
  BY <1>2, LocalStep, PreservedInv
<1>3. CASE UNCHANGED jobVars
  <2>1. TypeOK'
    BY <1>3 DEF Inv, TypeOK, jobVars
  <2>2. ASSUME NEW k \in Runs PROVE RunInv(k)'
    <3>1. RunInv(k) /\ Frame(k)
      BY <1>3 DEF Inv, Frame, jobVars
    <3> QED
      BY <3>1, FrameInv
  <2> QED
    BY <2>1, <2>2 DEF Inv
<1> QED
  BY <1>1, <1>2, <1>3 DEF Next

----------------------------------------------------------------------------
\* What holds of every run.

THEOREM Invariance == Spec => []Inv
<1> QED
  BY InitInv, NextInv, PTL DEF Spec, Safety

\* Every variable keeps its shape, however many runs are carried at once.
THEOREM TypeCorrect == Spec => []TypeOK
<1>1. Inv => TypeOK
  BY DEF Inv
<1> QED
  BY <1>1, Invariance, PTL

\* A run that says completed shows one whole result, the one its stage names.
THEOREM WholeWhenCompleted == Spec => []CompletedIsWhole
<1>1. Inv => CompletedIsWhole
  BY DEF Inv, RunInv, WholeInv, CompletedIsWhole
<1> QED
  BY <1>1, Invariance, PTL

\* Counts and metrics are on completed runs only.
THEOREM CountsWhenCompleted == Spec => []OnlyCompletedRunsCount
<1>1. Inv => OnlyCompletedRunsCount
  BY DEF Inv, RunInv, CountsInv, OnlyCompletedRunsCount
<1> QED
  BY <1>1, Invariance, PTL

\* Both together: counts and metrics stand for a whole result.
THEOREM WholeCounts == Spec => []CompletedRunsAreWhole
<1>1. CompletedIsWhole /\ OnlyCompletedRunsCount => CompletedRunsAreWhole
  BY DEF CompletedRunsAreWhole
<1> QED
  BY <1>1, WholeWhenCompleted, CountsWhenCompleted, PTL

----------------------------------------------------------------------------
\* What no step may do.

\* A run that says completed or failed has no worker left.
LEMMA TerminalIsOver ==
    ASSUME Inv, NEW r \in Runs, row[r].state \in Terminal
    PROVE  job[r].at = "over"
<1>1. RunInv(r) /\ job[r].at \in Steps
  BY DEF Inv, TypeOK, JobType
<1> QED
  BY <1>1 DEF RunInv, StateInv, Steps, Terminal

LEMMA OverIsOver ==
    ASSUME NEW r \in Runs, job[r].at = "over",
           Stamp(r) \/ JobStep(r) \/ Raise(r) \/ Unhandled(r)
    PROVE  FALSE
  BY DEF Stamp, JobStep, Insert, Ingest, RecordsStage, SaveRecords, Matching, Analyst,
         Scoring, PersistStage, SaveMatches, SaveExceptions, SaveAudit, Close, Handle,
         Raise, Unhandled, Fault, Goto, Body

LEMMA FinalStep ==
    ASSUME Inv, [Next]_jobVars, NEW r \in Runs, row[r].state \in Terminal
    PROVE  row'[r] = row[r] /\ table'[r] = table[r]
<1>1. job[r].at = "over"
  BY TerminalIsOver
<1>2. CASE Crash \/ UNCHANGED jobVars
  BY <1>2 DEF Crash, store, jobVars
<1>3. ASSUME NEW k \in Runs, Stamp(k) \/ JobStep(k) \/ Raise(k) \/ Unhandled(k)
      PROVE  row'[r] = row[r] /\ table'[r] = table[r]
  <2>1. k # r
    BY <1>1, <1>3, OverIsOver
  <2> QED
    BY <1>3, <2>1, LocalStep DEF Preserved, Confined, Frame
<1> QED
  BY <1>2, <1>3 DEF Next

\* Once a run is completed or failed nothing touches its row or its tables.
THEOREM Finality == Spec => TerminalIsFinal
<1> DEFINE Final == \A r \in Runs : row[r].state \in Terminal =>
                       row'[r] = row[r] /\ table'[r] = table[r]
<1>1. Inv /\ [Next]_jobVars => [Final]_jobVars
  BY FinalStep
<1> QED
  BY <1>1, Invariance, PTL DEF Spec, Safety, TerminalIsFinal

\* What a poller may see from one question to the next.
Onward(r) ==
    /\ row'[r].progress >= row[r].progress
    /\ row'[r].state = "pending" => row[r].state \in {"absent", "pending"}

LEMMA SameRowOnward ==
    ASSUME TypeOK, NEW r \in Runs, row'[r] = row[r]
    PROVE  Onward(r)
<1>1. row[r].progress \in 0..100
  BY DEF TypeOK, RowType
<1> QED
  BY <1>1 DEF Onward

LEMMA CommitOnward ==
    ASSUME Inv, NEW r \in Runs, JobStep(r)
    PROVE  Onward(r)
<1>1. TypeOK /\ RunInv(r) /\ row[r] \in RowType /\ row[r].progress \in 0..100
  BY DEF Inv, TypeOK, RowType
<1>2. CASE Insert(r)
  <2>1. row'[r].progress = row[r].progress /\ row[r].state = "absent"
    BY <1>1, <1>2 DEF Insert, TypeOK, RowType, RunInv, StateInv
  <2> QED
    BY <1>1, <2>1 DEF Onward
<1>3. ASSUME NEW p \in 0..100, row'[r].progress = p, row[r].progress <= p,
             row'[r].state # "pending"
      PROVE  Onward(r)
  BY <1>1, <1>3 DEF Onward
<1>4. CASE Ingest(r)
  <2>1. row'[r].progress = 5 /\ row'[r].state = "running" /\ job[r].at = "ingest"
    BY <1>1, <1>4 DEF Ingest, SetProgress, Goto, TypeOK, RowType
  <2>2. row[r].progress <= 5
    BY <1>1, <2>1 DEF RunInv, BarInv
  <2> QED
    BY <1>3, <2>1, <2>2
<1>5. CASE Handle(r)
  <2>1. row'[r].progress = 100 /\ row'[r].state = "failed"
    BY <1>1, <1>5 DEF Handle, SetProgress, TypeOK, RowType
  <2> QED
    BY <1>1, <1>3, <2>1
<1>6. CASE Close(r)
  <2>1. row'[r].progress = 100 /\ row'[r].state = "completed"
    BY <1>1, <1>6 DEF Close, TypeOK
  <2> QED
    BY <1>1, <1>3, <2>1
<1>7. CASE SaveRecords(r) \/ SaveMatches(r) \/ SaveExceptions(r) \/ SaveAudit(r)
  BY <1>1, <1>7, SameRowOnward DEF SaveRecords, SaveMatches, SaveExceptions, SaveAudit
<1>8. ASSUME NEW p \in 0..100, NEW g \in Stages, Announce(r, p, g), row[r].progress <= p,
             job[r].at \in Body \ {"ingest"}
      PROVE  Onward(r)
  <2>1. row'[r].progress = p /\ row'[r].state = row[r].state
    BY <1>1, <1>8 DEF Announce, SetProgress, TypeOK, RowType
  <2>2. row[r].state = "running"
    BY <1>1, <1>8 DEF RunInv, StateInv
  <2> QED
    BY <1>3, <1>8, <2>1, <2>2
<1>9. CASE RecordsStage(r)
  <2>1. Announce(r, 20, "persisting records") /\ job[r].at = "records stage"
    BY <1>9 DEF RecordsStage, Goto
  <2>2. row[r].progress <= 20
    BY <1>1, <2>1 DEF RunInv, BarInv
  <2>3. "persisting records" \in Stages /\ 20 \in 0..100
    BY DEF Stages
  <2>4. job[r].at \in Body \ {"ingest"}
    BY <2>1 DEF Body
  <2> QED
    BY <1>8, <2>1, <2>2, <2>3, <2>4
<1>10. CASE Matching(r)
  <2>1. Announce(r, 35, "matching") /\ job[r].at = "match"
    BY <1>10 DEF Matching, Goto
  <2>2. row[r].progress <= 35
    BY <1>1, <2>1 DEF RunInv, BarInv
  <2>3. "matching" \in Stages /\ 35 \in 0..100
    BY DEF Stages
  <2>4. job[r].at \in Body \ {"ingest"}
    BY <2>1 DEF Body
  <2> QED
    BY <1>8, <2>1, <2>2, <2>3, <2>4
<1>11. CASE Analyst(r)
  <2>1. Announce(r, 55, "llm analyst") /\ job[r].at = "analyst"
    BY <1>11 DEF Analyst
  <2>2. row[r].progress <= 55
    BY <1>1, <2>1 DEF RunInv, BarInv
  <2>3. "llm analyst" \in Stages /\ 55 \in 0..100
    BY DEF Stages
  <2>4. job[r].at \in Body \ {"ingest"}
    BY <2>1 DEF Body
  <2> QED
    BY <1>8, <2>1, <2>2, <2>3, <2>4
<1>12. CASE Scoring(r)
  <2>1. Announce(r, 80, "scoring") /\ job[r].at = "score"
    BY <1>12 DEF Scoring, Goto
  <2>2. row[r].progress <= 80
    BY <1>1, <2>1 DEF RunInv, BarInv
  <2>3. "scoring" \in Stages /\ 80 \in 0..100
    BY DEF Stages
  <2>4. job[r].at \in Body \ {"ingest"}
    BY <2>1 DEF Body
  <2> QED
    BY <1>8, <2>1, <2>2, <2>3, <2>4
<1>13. CASE PersistStage(r)
  <2>1. Announce(r, 90, "persisting result") /\ job[r].at = "persist stage"
    BY <1>13 DEF PersistStage, Goto
  <2>2. row[r].progress <= 90
    BY <1>1, <2>1 DEF RunInv, BarInv
  <2>3. "persisting result" \in Stages /\ 90 \in 0..100
    BY DEF Stages
  <2>4. job[r].at \in Body \ {"ingest"}
    BY <2>1 DEF Body
  <2> QED
    BY <1>8, <2>1, <2>2, <2>3, <2>4
<1> QED
  BY <1>2, <1>4, <1>5, <1>6, <1>7, <1>9, <1>10, <1>11, <1>12, <1>13 DEF JobStep

\* The bar never moves back and no run becomes pending again.
THEOREM PollsMoveForward == Spec => PolledRowMovesForward
<1> DEFINE Moved == \A r \in Runs :
                       /\ row'[r].progress >= row[r].progress
                       /\ row'[r].state = "pending" => row[r].state \in {"absent", "pending"}
<1>1. Inv /\ [Next]_jobVars => Moved
  <2> SUFFICES ASSUME Inv, [Next]_jobVars, NEW r \in Runs
               PROVE  Onward(r)
    BY DEF Onward
  <2>1. CASE row' = row
    BY <2>1, SameRowOnward DEF Inv
  <2>2. ASSUME NEW k \in Runs, JobStep(k)
        PROVE  Onward(r)
    <3>1. CASE k = r
      BY <2>2, <3>1, CommitOnward
    <3>2. CASE k # r
      <4>1. row'[r] = row[r]
        BY <2>2, <3>2, LocalStep DEF Preserved, Confined, Frame
      <4> QED
        BY <4>1, SameRowOnward DEF Inv
    <3> QED
      BY <3>1, <3>2
  <2>3. ASSUME NEW k \in Runs, Stamp(k) \/ Raise(k) \/ Unhandled(k)
        PROVE  row' = row
    BY <2>3 DEF Stamp, Raise, Unhandled, Fault, store
  <2>4. CASE Crash \/ UNCHANGED jobVars
    BY <2>1, <2>4 DEF Crash, store, jobVars
  <2> QED
    BY <2>1, <2>2, <2>3, <2>4 DEF Next
<1>2. Inv /\ [Next]_jobVars => [Moved]_jobVars
  BY <1>1
<1> QED
  BY <1>2, Invariance, PTL DEF Spec, Safety, PolledRowMovesForward

----------------------------------------------------------------------------
\* The baseline of a run.

\* The rows that were ever inserted: however many runs there may be, a
\* moment of the store holds finitely many.
Stored == {r \in Runs : row[r].state # "absent"}

FiniteStore == IsFiniteSet(Stored)

\* The stamp of a stored run is never given again.
LEMMA StampedOnce ==
    ASSUME Inv, [Next]_jobVars, NEW r \in Runs,
           row[r].state # "absent" \/ row'[r].state # "absent"
    PROVE  request'[r] = request[r]
<1>1. CASE Crash \/ UNCHANGED jobVars
  BY <1>1 DEF Crash, jobVars
<1>2. ASSUME NEW k \in Runs, JobStep(k) \/ Raise(k) \/ Unhandled(k)
      PROVE  request' = request
  BY <1>2 DEF JobStep, Insert, Ingest, RecordsStage, SaveRecords, Matching, Analyst,
              Scoring, PersistStage, SaveMatches, SaveExceptions, SaveAudit, Close,
              Handle, Announce, SetProgress, Raise, Unhandled, Fault
<1>3. ASSUME NEW k \in Runs, Stamp(k) PROVE request'[r] = request[r]
  <2>1. job[k].at = "none" /\ row' = row
    BY <1>3 DEF Stamp, store
  <2>2. row[k].state = "absent"
    BY <2>1 DEF Inv, RunInv, StateInv
  <2>3. k # r
    BY <2>1, <2>2
  <2> QED
    BY <1>3, <2>3 DEF Stamp, Inv, TypeOK
<1> QED
  BY <1>1, <1>2, <1>3 DEF Next

\* No step inserts more than one row.
LEMMA StoreGrows ==
    ASSUME Inv, [Next]_jobVars
    PROVE  \/ Stored' = Stored
           \/ \E k \in Runs : Stored' \subseteq Stored \union {k}
<1>1. CASE row' = row
  BY <1>1 DEF Stored
<1>2. ASSUME NEW k \in Runs, Stamp(k) \/ JobStep(k) \/ Raise(k) \/ Unhandled(k)
      PROVE  Stored' \subseteq Stored \union {k}
  BY <1>2, LocalStep DEF Preserved, Confined, Frame, Stored
<1> QED
  BY <1>1, <1>2 DEF Next, Crash, store, jobVars

LEMMA FiniteStep == Inv /\ FiniteStore /\ [Next]_jobVars => FiniteStore'
<1> SUFFICES ASSUME Inv, FiniteStore, [Next]_jobVars PROVE IsFiniteSet(Stored')
  BY DEF FiniteStore
<1>1. CASE Stored' = Stored
  BY <1>1 DEF FiniteStore
<1>2. ASSUME NEW k \in Runs, Stored' \subseteq Stored \union {k}
      PROVE  IsFiniteSet(Stored')
  <2>1. IsFiniteSet(Stored \union {k})
    BY FS_AddElement DEF FiniteStore
  <2> QED
    BY <1>2, <2>1, FS_Subset
<1> QED
  BY <1>1, <1>2, StoreGrows

\* previous_completed_run orders by the stamp and then by the id, so of two
\* runs one is before the other, and never both.
LEMMA BeforeIsAnOrder ==
    ASSUME TypeOK, NEW a \in Runs, NEW b \in Runs
    PROVE  /\ a = b \/ Before(a, b) \/ Before(b, a)
           /\ Before(a, b) => ~Before(b, a) /\ a # b
           /\ \A c \in Runs : Before(a, b) /\ Before(b, c) => Before(a, c)
<1>1. \A k \in Runs : request[k].created \in Nat /\ k \in Nat
  BY RunsAssumption, BoundsAssumption DEF TypeOK, RequestType
<1> QED
  BY <1>1 DEF Before

\* Finitely many runs have a latest one: the smallest of the sets of runs
\* that are not before some run of them.
LEMMA LatestExists ==
    ASSUME TypeOK, NEW S, S \subseteq Runs, IsFiniteSet(S), S # {}
    PROVE  \E b \in S : \A other \in S \ {b} : Before(other, b)
<1> DEFINE From(x) == {y \in S : y = x \/ Before(x, y)}
           Ends == {From(x) : x \in S}
<1>1. PICK end \in Ends : \A m \in Ends : <<m, end>> \notin StrictSubsetOrdering(S)
  <2>1. Ends # {} /\ Ends \subseteq FiniteSubsetsOf(S)
    <3>1. Ends # {} /\ Ends \subseteq SUBSET S
      OBVIOUS
    <3> QED
      BY <3>1, FS_FiniteSubsetsOfFinite
  <2>2. IsWellFoundedOn(StrictSubsetOrdering(S), FiniteSubsetsOf(S))
    BY FS_StrictSubsetOrderingWellFounded
  <2> HIDE DEF Ends
  <2> QED
    BY <2>1, <2>2, WFMin
<1>2. PICK x \in S : end = From(x)
  BY <1>1
<1>3. ASSUME NEW y \in S \ {x} PROVE Before(y, x)
  <2> SUFFICES ASSUME ~Before(y, x) PROVE FALSE
    OBVIOUS
  <2>1. Before(x, y)
    BY BeforeIsAnOrder
  <2>2. From(y) \subseteq From(x)
    BY <2>1, BeforeIsAnOrder
  <2>3. x \notin From(y) /\ x \in From(x)
    BY <2>1, BeforeIsAnOrder
  <2>4. <<From(y), end>> \in StrictSubsetOrdering(S)
    BY <1>2, <2>2, <2>3 DEF StrictSubsetOrdering
  <2> QED
    BY <1>1, <2>4
<1> QED
  BY <1>3

\* So the ORDER BY ... LIMIT 1 of a run that has anything to compare to
\* names the latest of it.
IsLatest(b, S) == b \in S /\ \A other \in S \ {b} : Before(other, b)

LatestOf(r) ==
    Comparable(r) # {} => IsLatest(PreviousCompletedRun(r), Comparable(r))

BaselineInv == \A r \in Runs : LatestOf(r)

LEMMA BaselineIsLatest == Inv /\ FiniteStore => BaselineInv
<1> SUFFICES ASSUME Inv, FiniteStore, NEW r \in Runs, Comparable(r) # {}
             PROVE  IsLatest(PreviousCompletedRun(r), Comparable(r))
  BY DEF BaselineInv, LatestOf
<1>1. Comparable(r) \subseteq Runs /\ Comparable(r) \subseteq Stored
  BY DEF Comparable, Stored
<1>2. IsFiniteSet(Comparable(r))
  BY <1>1, FS_Subset DEF FiniteStore
<1>3. \E b \in Comparable(r) : \A other \in Comparable(r) \ {b} : Before(other, b)
  BY <1>1, <1>2, LatestExists DEF Inv
<1> QED
  BY <1>3 DEF PreviousCompletedRun, IsLatest

\* A run that could be compared to still can be.
LEMMA ComparableGrows ==
    ASSUME Inv, [Next]_jobVars, NEW r \in Runs, row[r].state # "absent"
    PROVE  Comparable(r) \subseteq Comparable(r)'
<1> SUFFICES ASSUME NEW b \in Comparable(r) PROVE b \in Comparable(r)'
  OBVIOUS
<1>1. b \in Runs /\ row[b].state = "completed"
  BY DEF Comparable
<1>2. request'[b] = request[b] /\ request'[r] = request[r]
  BY <1>1, StampedOnce
<1>3. row'[b].state = "completed"
  BY <1>1, FinalStep DEF Terminal
<1> QED
  BY <1>1, <1>2, <1>3 DEF Comparable, Before

LEMMA BaselineStep ==
    ASSUME Inv, [Next]_jobVars, NEW r \in Runs, row[r].state # "absent",
           LatestOf(r), LatestOf(r)',
           NEW was, was = PreviousCompletedRun(r), was # NoRun,
           NEW is, is = PreviousCompletedRun(r)'
    PROVE  is # NoRun /\ (is = was \/ Before(was, is))
<1>1. Comparable(r) # {}
  BY DEF PreviousCompletedRun
<1>2. was \in Comparable(r) /\ was \in Comparable(r)'
  BY <1>1, ComparableGrows DEF LatestOf, IsLatest
<1>3. is \in Comparable(r)' /\ (was # is => Before(was, is)')
  BY <1>2 DEF LatestOf, IsLatest
<1>4. is \in Runs /\ is # NoRun /\ row'[is].state # "absent"
  BY <1>3, RunsAssumption DEF Comparable
<1>5. was \in Runs /\ row[was].state # "absent"
  BY <1>2 DEF Comparable
<1>6. request'[is] = request[is] /\ request'[was] = request[was]
  BY <1>4, <1>5, StampedOnce
<1>7. was # is => Before(was, is)
  BY <1>3, <1>6 DEF Before
<1> QED
  BY <1>4, <1>7

\* The default baseline of a run is only ever replaced by a nearer one.
THEOREM BaselineMovesCloser == Spec => BaselineOnlyMovesCloser
<1> DEFINE Closer ==
      \A r \in Runs : row[r].state # "absent" /\ PreviousCompletedRun(r) # NoRun =>
        LET was == PreviousCompletedRun(r)
            is  == PreviousCompletedRun(r)'
        IN  is # NoRun /\ (is = was \/ Before(was, is))
<1>1. Init => FiniteStore
  <2>1. Init => Stored = {}
    BY DEF Init, Stored
  <2> QED
    BY <2>1, FS_EmptySet DEF FiniteStore
<1>2. Inv /\ BaselineInv /\ BaselineInv' /\ [Next]_jobVars => [Closer]_jobVars
  BY BaselineStep DEF BaselineInv
<1>3. Spec => [](FiniteStore)
  BY <1>1, FiniteStep, Invariance, PTL DEF Spec, Safety
<1> QED
  BY <1>2, <1>3, BaselineIsLatest, Invariance, PTL DEF Spec, Safety, BaselineOnlyMovesCloser

----------------------------------------------------------------------------
\* The job and its store implement PublishedRun.

\* A step of one run writes the mapped state and result at that run only.
LEMMA MappedWrite ==
    ASSUME Inv, NEW r \in Runs, Preserved(r)
    PROVE  /\ [k \in Runs |-> row'[k].state]
                = [[k \in Runs |-> row[k].state] EXCEPT ![r] = row'[r].state]
           /\ [k \in Runs |-> Shown(k)]'
                = [[k \in Runs |-> Shown(k)] EXCEPT ![r] = Shown(r)']
<1>1. \A k \in Runs \ {r} : row'[k] = row[k] /\ table'[k] = table[k]
  BY DEF Preserved, Confined, Frame
<1>2. \A k \in Runs \ {r} : Shown(k)' = Shown(k)
  BY <1>1 DEF Shown
<1>3. \A k \in Runs \ {r} : row'[k].state = row[k].state
  BY <1>1
<1> QED
  BY <1>2, <1>3

\* Away from "completed" a run shows nothing before and after.
LEMMA MoveStep ==
    ASSUME Inv, NEW r \in Runs, Preserved(r), NEW from, NEW to,
           row[r].state \in from, row'[r].state = to,
           row[r].state # "completed", to # "completed"
    PROVE  Published!Move(r, from, to) /\ UNCHANGED [k \in Runs |-> Shown(k)]
<1>1. Shown(r)' = Shown(r)
  BY DEF Shown
<1>2. UNCHANGED [k \in Runs |-> Shown(k)]
  BY <1>1, MappedWrite
<1>3. Published!Move(r, from, to)
  BY MappedWrite DEF Published!Move
<1> QED
  BY <1>2, <1>3

\* A commit that keeps the state of an unfinished row shows nothing new.
LEMMA SameStateStutters ==
    ASSUME Inv, NEW r \in Runs, Preserved(r), row'[r].state = row[r].state,
           row[r].state # "completed"
    PROVE  UNCHANGED Published!vars
<1>1. Shown(r)' = Shown(r)
  BY DEF Shown
<1> QED
  BY <1>1, MappedWrite DEF Published!vars

\* A step that writes neither row nor table shows nothing new.
LEMMA StoreStutters ==
    ASSUME row' = row, table' = table
    PROVE  UNCHANGED Published!vars
  BY DEF Published!vars, Shown

LEMMA CommitImplements ==
    ASSUME Inv, NEW r \in Runs, JobStep(r)
    PROVE  Published!Next \/ UNCHANGED Published!vars
<1>1. TypeOK /\ RunInv(r) /\ Preserved(r) /\ row[r].state \in States
  BY LocalStep DEF Inv, TypeOK, RowType
<1>2. CASE Insert(r)
  <2>1. row[r].state = "absent" /\ row'[r].state = "pending"
    BY <1>1, <1>2 DEF Insert, TypeOK, RowType, RunInv, StateInv
  <2>2. Published!Accept(r)
    BY <1>1, <2>1, MoveStep DEF Published!Accept
  <2> QED
    BY <2>2 DEF Published!Next
<1>3. CASE Ingest(r)
  <2>1. Goto(r, "ingest", "records stage") /\ SetProgress(r, "running", 5, "ingest")
    BY <1>3 DEF Ingest
  <2>2. row[r].state = "pending"
    BY <1>1, <2>1, GotoEffect DEF RunInv, StateInv
  <2>3. row'[r].state = "running"
    BY <1>1, <2>1, SetProgressEffect
  <2>4. Published!Start(r)
    BY <1>1, <2>2, <2>3, MoveStep DEF Published!Start
  <2> QED
    BY <2>4 DEF Published!Next
<1>4. CASE Handle(r)
  <2>1. Goto(r, "handler", "over") /\ SetProgress(r, "failed", 100, "failed")
    BY <1>4 DEF Handle
  <2>2. row[r].state \in {"pending", "running"}
    BY <1>1, <2>1, GotoEffect DEF RunInv, StateInv
  <2>3. row'[r].state = "failed"
    BY <1>1, <2>1, SetProgressEffect
  <2>4. Published!Fail(r)
    BY <1>1, <2>2, <2>3, MoveStep DEF Published!Fail
  <2> QED
    BY <2>4 DEF Published!Next
<1>5. CASE Close(r)
  <2>1. Shown(r)' \in Whole /\ row'[r].state = "completed"
    BY <1>5, CloseInv
  <2>2. row[r].state = "running"
    BY <1>1, <1>5 DEF Close, Goto, RunInv, StateInv, Body
  <2>3. Published!Move(r, {"running"}, "completed")
    BY <1>1, <2>1, <2>2, MappedWrite DEF Published!Move
  <2>4. Published!Publish(r, Shown(r)')
    BY <1>1, <2>3, MappedWrite DEF Published!Publish
  <2> QED
    BY <2>1, <2>4 DEF Published!Next
<1>6. CASE SaveRecords(r) \/ SaveMatches(r) \/ SaveExceptions(r) \/ SaveAudit(r)
  <2>1. row' = row /\ job[r].at \in Body \ {"ingest"}
    BY <1>6 DEF SaveRecords, SaveMatches, SaveExceptions, SaveAudit, Goto, Body
  <2>2. row[r].state = "running"
    BY <1>1, <2>1 DEF RunInv, StateInv
  <2> QED
    BY <1>1, <2>1, <2>2, SameStateStutters
<1>7. ASSUME NEW p, NEW g, Announce(r, p, g), job[r].at \in Body \ {"ingest"}
      PROVE  UNCHANGED Published!vars
  <2>1. row'[r].state = row[r].state
    BY <1>1, <1>7, SetProgressEffect DEF Announce
  <2>2. row[r].state = "running"
    BY <1>1, <1>7 DEF RunInv, StateInv
  <2> QED
    BY <1>1, <2>1, <2>2, SameStateStutters
<1>8. CASE RecordsStage(r) \/ Matching(r) \/ Analyst(r) \/ Scoring(r) \/ PersistStage(r)
  <2>1. PICK p, g : Announce(r, p, g)
    BY <1>8 DEF RecordsStage, Matching, Analyst, Scoring, PersistStage
  <2>2. job[r].at \in Body \ {"ingest"}
    BY <1>8 DEF RecordsStage, Matching, Analyst, Scoring, PersistStage, Goto, Body
  <2> QED
    BY <1>7, <2>1, <2>2
<1> QED
  BY <1>2, <1>3, <1>4, <1>5, <1>6, <1>8 DEF JobStep

LEMMA StepImplements == Inv /\ [Next]_jobVars => [Published!Next]_(Published!vars)
<1> SUFFICES ASSUME Inv, [Next]_jobVars
             PROVE  Published!Next \/ UNCHANGED Published!vars
  OBVIOUS
<1>1. ASSUME NEW r \in Runs, JobStep(r)
      PROVE  Published!Next \/ UNCHANGED Published!vars
  BY <1>1, CommitImplements
<1>2. ASSUME NEW r \in Runs, Stamp(r) \/ Raise(r) \/ Unhandled(r)
      PROVE  row' = row /\ table' = table
  BY <1>2 DEF Stamp, Raise, Unhandled, Fault, store
<1>3. CASE Crash \/ UNCHANGED jobVars
  <2>1. row' = row /\ table' = table
    BY <1>3 DEF Crash, store, jobVars
  <2> QED
    BY <2>1, StoreStutters
<1> QED
  BY <1>1, <1>2, <1>3, StoreStutters DEF Next

\* Read through the state of its row, a run keeps every promise of
\* PublishedRun: its result appears whole, in one step, and stays.
THEOREM Refinement == Spec => ImplementsPublishedRun
<1>1. Init => Published!Init
  <2> SUFFICES ASSUME Init PROVE Published!Init
    OBVIOUS
  <2>1. \A r \in Runs : row[r].state = "absent"
    BY DEF Init
  <2>2. \A r \in Runs : Shown(r) = Nothing
    BY <2>1 DEF Shown
  <2> QED
    BY <2>1, <2>2 DEF Published!Init
<1> QED
  BY <1>1, StepImplements, Invariance, PTL
     DEF Spec, Safety, ImplementsPublishedRun, Published!Spec

(***************************************************************************)
(* RunReaders.  The workers go on as RunJob lets them; a reader holds      *)
(* answers of different moments.  What they have in common is a completed  *)
(* row: it was complete when the summary said so, and from then on nothing *)
(* of the run changes.                                                     *)
(***************************************************************************)


GotType ==
    [state : States, scored : BOOLEAN, counts : Results, matches : Results,
     exceptions : Results, again : Results, base : Runs \union {NoRun}, census : Results]

ViewShape ==
    /\ view \in [kind : Kinds \union {"none"}, run : Runs \union {NoRun}, next : Nat,
                 got : GotType]
    /\ view.kind \in Kinds => view.run \in Runs /\ row[view.run].state # "absent"

\* The run said it was completed, and these were its counts.
SaidComplete ==
    /\ row[view.run].state = "completed"
    /\ view.got.counts = row[view.run].counts

ScreenInv ==
    view.kind = "screen" =>
        /\ view.next \in 1..3
        /\ view.next >= 2 /\ view.got.state \in Terminal =>
             row[view.run].state = view.got.state
        /\ view.next = 3 =>
             /\ view.got.state \in Terminal
             /\ view.got.state = "completed" => view.got.matches = row[view.run].counts

ReportInv ==
    view.kind = "report" =>
        /\ view.next \in 1..5
        /\ view.next >= 2 /\ view.got.state = "completed" =>
             /\ SaidComplete
             /\ view.next >= 3 => view.got.matches = row[view.run].counts
             /\ view.next >= 4 => view.got.exceptions = row[view.run].counts
             /\ view.next >= 5 => view.got.again = row[view.run].counts

DriftInv ==
    view.kind = "drift" =>
        /\ view.next \in 1..5
        /\ view.next >= 2 /\ view.got.scored => row[view.run].state = "completed"
        /\ view.next >= 3 => /\ view.got.scored
                             /\ view.got.base \in Runs
                             /\ row[view.got.base].state = "completed"
        /\ view.next >= 4 => view.got.census = row[view.got.base].counts
        /\ view.next >= 5 => view.got.exceptions = row[view.run].counts

DetailInv ==
    view.kind = "detail" =>
        /\ view.next \in 1..4
        /\ view.next >= 2 /\ view.got.state = "completed" => SaidComplete
        /\ view.next >= 3 /\ view.got.state = "completed" =>
             view.got.exceptions = row[view.run].counts
        /\ view.next >= 4 =>
             /\ view.got.base \in Runs
             /\ row[view.got.base].state # "absent"
             /\ view.got.base # view.run => Before(view.run, view.got.base)
             /\ view.got.state = "completed" /\ view.got.base = view.run =>
                  view.got.again = row[view.run].counts /\ view.got.census = row[view.run].counts

\* A run with exceptions in the store has a row.
HeldInv == \A r \in Runs : row[r].state = "absent" => table[r].exceptions = "none"

ReadInv ==
    /\ Inv /\ HeldInv
    /\ ViewShape /\ ScreenInv /\ ReportInv /\ DriftInv /\ DetailInv

----------------------------------------------------------------------------
\* What a reader may rely on while the workers go on.

Durable ==
    \A r \in Runs :
        /\ row[r].state \in Terminal => row'[r] = row[r] /\ table'[r] = table[r]
        /\ row[r].state # "absent" => row'[r].state # "absent" /\ request'[r] = request[r]

\* A step of one run, seen from another or from a run that has a row.
LEMMA OneRunDurable ==
    ASSUME Inv, NEW k \in Runs, Stamp(k) \/ JobStep(k) \/ Raise(k) \/ Unhandled(k),
           NEW r \in Runs, row[r].state # "absent"
    PROVE  row'[r].state # "absent" /\ request'[r] = request[r]
<1>1. CASE k # r
  BY <1>1, LocalStep DEF Preserved, Confined, Frame
<1>2. CASE k = r
  <2>1. job[r].at # "none" /\ TypeOK
    BY DEF Inv, RunInv, StateInv
  <2>2. CASE Raise(r) \/ Unhandled(r)
    BY <2>2 DEF Raise, Unhandled, Fault, store
  <2>3. CASE JobStep(r)
    <3>1. request' = request
      BY <2>3 DEF JobStep, Insert, Ingest, RecordsStage, SaveRecords, Matching, Analyst,
                  Scoring, PersistStage, SaveMatches, SaveExceptions, SaveAudit, Close, Handle,
                  Announce, SetProgress
    <3>2. row' = row \/ row'[r].state # "absent"
      <4>1. CASE SaveRecords(r) \/ SaveMatches(r) \/ SaveExceptions(r) \/ SaveAudit(r)
        BY <4>1 DEF SaveRecords, SaveMatches, SaveExceptions, SaveAudit
      <4>2. CASE Insert(r) \/ Close(r)
        BY <2>1, <4>2 DEF Insert, Close, TypeOK, RowType
      <4>3. ASSUME NEW s, NEW p, NEW g, s # "absent", SetProgress(r, s, p, g)
            PROVE  row'[r].state # "absent"
        BY <2>1, <4>3, SetProgressEffect
      <4>4. CASE \/ Ingest(r) \/ RecordsStage(r) \/ Matching(r) \/ Analyst(r) \/ Scoring(r)
                 \/ PersistStage(r) \/ Handle(r)
        BY <4>3, <4>4 DEF Ingest, RecordsStage, Matching, Analyst, Scoring, PersistStage,
                          Handle, Announce
      <4> QED
        BY <2>3, <4>1, <4>2, <4>4 DEF JobStep
    <3> QED
      BY <3>1, <3>2
  <2>4. CASE Stamp(r)
    BY <2>1, <2>4 DEF Stamp
  <2> QED
    BY <1>2, <2>2, <2>3, <2>4
<1> QED
  BY <1>1, <1>2

LEMMA WorkersAreDurable == ASSUME Inv, [Next]_jobVars PROVE Durable
<1> SUFFICES ASSUME NEW r \in Runs
             PROVE  /\ row[r].state \in Terminal => row'[r] = row[r] /\ table'[r] = table[r]
                    /\ row[r].state # "absent" => row'[r].state # "absent" /\ request'[r] = request[r]
  BY DEF Durable
<1>1. CASE Crash \/ UNCHANGED jobVars
  BY <1>1 DEF Crash, store, jobVars
<1>2. ASSUME NEW k \in Runs, Stamp(k) \/ JobStep(k) \/ Raise(k) \/ Unhandled(k)
      PROVE  row[r].state \in Terminal => row'[r] = row[r] /\ table'[r] = table[r]
  <2> SUFFICES ASSUME row[r].state \in Terminal PROVE row'[r] = row[r] /\ table'[r] = table[r]
    OBVIOUS
  <2>1. k # r
    BY <1>2, TerminalIsOver, OverIsOver
  <2> QED
    BY <1>2, <2>1, LocalStep DEF Preserved, Confined, Frame
<1> QED
  BY <1>1, <1>2, OneRunDurable DEF Next

\* Exceptions are written under a running row.
LEMMA HeldKept == ASSUME Inv, HeldInv, [Next]_jobVars PROVE HeldInv'
<1> SUFFICES ASSUME NEW r \in Runs, row'[r].state = "absent"
             PROVE  table'[r].exceptions = "none"
  BY DEF HeldInv
<1>1. row[r].state = "absent" /\ table[r].exceptions = "none" /\ TypeOK
  BY WorkersAreDurable DEF Durable, HeldInv, Inv
<1>2. ASSUME NEW k \in Runs, JobStep(k) PROVE table'[r].exceptions = "none"
  <2>1. CASE k # r
    BY <1>1, <1>2, <2>1, LocalStep DEF Preserved, Confined, Frame
  <2>2. CASE k = r /\ ~SaveExceptions(r)
    <3>1. CASE SaveRecords(r) \/ SaveMatches(r) \/ SaveAudit(r)
      BY <1>1, <3>1 DEF SaveRecords, SaveMatches, SaveAudit, TypeOK, TableType
    <3>2. CASE ~(SaveRecords(r) \/ SaveMatches(r) \/ SaveAudit(r))
      BY <1>1, <1>2, <2>2, <3>2 DEF JobStep, Insert, Ingest, RecordsStage, Matching, Analyst,
            Scoring, PersistStage, Close, Handle, Announce, SetProgress
    <3> QED
      BY <3>1, <3>2
  <2>3. CASE SaveExceptions(r)
    BY <1>1, <2>3 DEF SaveExceptions, Goto, Inv, RunInv, StateInv, Body
  <2> QED
    BY <2>1, <2>2, <2>3
<1>3. CASE Crash \/ UNCHANGED jobVars \/ \E k \in Runs : Stamp(k) \/ Raise(k) \/ Unhandled(k)
  <2>1. table' = table
    BY <1>3 DEF Crash, jobVars, Stamp, Raise, Unhandled, Fault, store
  <2> QED
    BY <1>1, <2>1
<1> QED
  BY <1>2, <1>3 DEF Next

\* The view is left alone while the workers step.
LEMMA WorkersKeepView ==
    ASSUME ReadInv, [Next]_jobVars, UNCHANGED view
    PROVE  ReadInv'
<1>0. Inv' /\ HeldInv' /\ Durable
  BY NextInv, HeldKept, WorkersAreDurable DEF ReadInv
<1>1. ViewShape'
  BY <1>0 DEF ReadInv, ViewShape, Durable
<1>2. ScreenInv'
  BY <1>0 DEF ReadInv, ViewShape, ScreenInv, Durable
<1>3. ReportInv'
  BY <1>0 DEF ReadInv, ViewShape, ReportInv, SaidComplete, Durable, Terminal
<1>4. DriftInv'
  BY <1>0 DEF ReadInv, ViewShape, DriftInv, Durable, Terminal
<1>5. DetailInv'
  BY <1>0 DEF ReadInv, ViewShape, DetailInv, SaidComplete, Durable, Terminal, Before
<1> QED
  BY <1>0, <1>1, <1>2, <1>3, <1>4, <1>5 DEF ReadInv

----------------------------------------------------------------------------
\* The questions and the answers.

LEMMA Order ==
    /\ Len(Questions("screen")) = 2 /\ Len(Questions("report")) = 4
    /\ Len(Questions("drift")) = 4 /\ Len(Questions("detail")) = 3
  BY DEF Questions

LEMMA InOrder ==
    /\ Questions("screen")[1] = "summary" /\ Questions("screen")[2] = "matches"
    /\ Questions("report")[1] = "summary" /\ Questions("report")[2] = "matches"
    /\ Questions("report")[3] = "exceptions" /\ Questions("report")[4] = "matches again"
    /\ Questions("drift")[1] = "summary" /\ Questions("drift")[2] = "baseline"
    /\ Questions("drift")[3] = "baseline census" /\ Questions("drift")[4] = "exceptions"
    /\ Questions("detail")[1] = "summary" /\ Questions("detail")[2] = "exceptions"
    /\ Questions("detail")[3] = "detail"
<1>1. /\ Questions("screen")[1] = "summary" /\ Questions("screen")[2] = "matches"
  BY DEF Questions
<1>2. /\ Questions("report")[1] = "summary" /\ Questions("report")[2] = "matches"
      /\ Questions("report")[3] = "exceptions" /\ Questions("report")[4] = "matches again"
  BY DEF Questions
<1>3. /\ Questions("drift")[1] = "summary" /\ Questions("drift")[2] = "baseline"
      /\ Questions("drift")[3] = "baseline census" /\ Questions("drift")[4] = "exceptions"
  BY DEF Questions
<1>4. /\ Questions("detail")[1] = "summary" /\ Questions("detail")[2] = "exceptions"
      /\ Questions("detail")[3] = "detail"
  BY DEF Questions
<1> QED
  BY <1>1, <1>2, <1>3, <1>4

\* Where in its kind's order a question stands.
LEMMA Where ==
    ASSUME ViewShape, NEW q, Asking(q)
    PROVE  /\ view.kind \in Kinds /\ view.run \in Runs /\ view.next \in Nat
           /\ q = "summary" => view.next = 1
           /\ q = "matches" => view.kind \in {"screen", "report"} /\ view.next = 2
           /\ q = "exceptions" => \/ view.kind = "report" /\ view.next = 3
                                  \/ view.kind = "drift" /\ view.next = 4
                                  \/ view.kind = "detail" /\ view.next = 2
           /\ q = "matches again" => view.kind = "report" /\ view.next = 4
           /\ q = "baseline" => view.kind = "drift" /\ view.next = 2
           /\ q = "baseline census" => view.kind = "drift" /\ view.next = 3
           /\ q = "detail" => view.kind = "detail" /\ view.next = 3
<1>1. view.kind \in Kinds /\ view.run \in Runs /\ view.next \in Nat
  BY DEF Asking, ViewShape
<1>2. CASE view.kind = "screen"
  <2>1. view.next \in 1..2 /\ Questions("screen")[view.next] = q
    BY <1>2, Order DEF Asking
  <2>2. \/ view.next = 1 /\ q = "summary"
        \/ view.next = 2 /\ q = "matches"
    <3>1. CASE view.next = 1
      BY <2>1, <3>1, InOrder
    <3>2. CASE view.next = 2
      BY <2>1, <3>2, InOrder
    <3> QED
      BY <2>1, <3>1, <3>2
  <2> QED
    BY <1>1, <1>2, <2>2
<1>3. CASE view.kind = "report"
  <2>1. view.next \in 1..4 /\ Questions("report")[view.next] = q
    BY <1>3, Order DEF Asking
  <2>2. \/ view.next = 1 /\ q = "summary"
        \/ view.next = 2 /\ q = "matches"
        \/ view.next = 3 /\ q = "exceptions"
        \/ view.next = 4 /\ q = "matches again"
    <3>1. CASE view.next = 1
      BY <2>1, <3>1, InOrder
    <3>2. CASE view.next = 2
      BY <2>1, <3>2, InOrder
    <3>3. CASE view.next = 3
      BY <2>1, <3>3, InOrder
    <3>4. CASE view.next = 4
      BY <2>1, <3>4, InOrder
    <3>5. view.next = 1 \/ view.next = 2 \/ view.next = 3 \/ view.next = 4
      BY <2>1
    <3> QED
      BY <3>1, <3>2, <3>3, <3>4, <3>5
  <2> QED
    BY <1>1, <1>3, <2>2
<1>4. CASE view.kind = "drift"
  <2>1. view.next \in 1..4 /\ Questions("drift")[view.next] = q
    BY <1>4, Order DEF Asking
  <2>2. \/ view.next = 1 /\ q = "summary"
        \/ view.next = 2 /\ q = "baseline"
        \/ view.next = 3 /\ q = "baseline census"
        \/ view.next = 4 /\ q = "exceptions"
    <3>1. CASE view.next = 1
      BY <2>1, <3>1, InOrder
    <3>2. CASE view.next = 2
      BY <2>1, <3>2, InOrder
    <3>3. CASE view.next = 3
      BY <2>1, <3>3, InOrder
    <3>4. CASE view.next = 4
      BY <2>1, <3>4, InOrder
    <3>5. view.next = 1 \/ view.next = 2 \/ view.next = 3 \/ view.next = 4
      BY <2>1
    <3> QED
      BY <3>1, <3>2, <3>3, <3>4, <3>5
  <2> QED
    BY <1>1, <1>4, <2>2
<1>5. CASE view.kind = "detail"
  <2>1. view.next \in 1..3 /\ Questions("detail")[view.next] = q
    BY <1>5, Order DEF Asking
  <2>2. \/ view.next = 1 /\ q = "summary"
        \/ view.next = 2 /\ q = "exceptions"
        \/ view.next = 3 /\ q = "detail"
    <3>1. CASE view.next = 1
      BY <2>1, <3>1, InOrder
    <3>2. CASE view.next = 2
      BY <2>1, <3>2, InOrder
    <3>3. CASE view.next = 3
      BY <2>1, <3>3, InOrder
    <3> QED
      BY <2>1, <3>1, <3>2, <3>3
  <2> QED
    BY <1>1, <1>5, <2>2
<1> QED
  BY <1>1, <1>2, <1>3, <1>4, <1>5 DEF Kinds

\* Learning moves to the next question, or round again.
LEMMA Learned ==
    ASSUME ViewShape, NEW got \in GotType, Learn(got)
    PROVE  /\ UNCHANGED jobVars
           /\ view'.kind = view.kind /\ view'.run = view.run /\ view'.got = got
           /\ view'.next = After(got)
           /\ view' \in [kind : Kinds \union {"none"}, run : Runs \union {NoRun}, next : Nat,
                         got : GotType]
<1>1. After(got) \in Nat
  BY DEF After, ViewShape
<1> QED
  BY <1>1 DEF Learn, ViewShape

LEMMA Onwards ==
    ASSUME ViewShape, NEW got
    PROVE  /\ view.kind # "screen" \/ view.next # 2 => After(got) = view.next + 1
           /\ view.kind = "screen" /\ view.next = 2 =>
                After(got) = IF got.state \in Terminal THEN 3 ELSE 1
<1>1. After(got) = IF view.kind = "screen" /\ view.next = 2 /\ got.state \notin Terminal
                   THEN 1 ELSE view.next + 1
  BY Order DEF After
<1> QED
  BY <1>1 DEF ViewShape

\* A completed run's tables hold its counts.
LEMMA WholeTables ==
    ASSUME Inv, NEW r \in Runs, row[r].state = "completed"
    PROVE  /\ table[r].matches = row[r].counts
           /\ table[r].exceptions = row[r].counts
           /\ table[r].audit = row[r].counts
           /\ row[r].counts # "none"
<1>1. Shown(r) \in Whole
  BY DEF Inv, RunInv, WholeInv
<1>2. PICK x \in {"engine", "merged"} :
         Shown(r) = [records |-> TRUE, matches |-> x, exceptions |-> x, audit |-> x, counts |-> x]
  BY <1>1 DEF Whole
<1>3. Shown(r) = [records |-> table[r].records, matches |-> table[r].matches,
                  exceptions |-> table[r].exceptions, audit |-> table[r].audit,
                  counts |-> row[r].counts]
  BY DEF Shown
<1> QED
  BY <1>2, <1>3

LEMMA ScoredIsCompleted ==
    ASSUME Inv, NEW r \in Runs, row[r].scored
    PROVE  row[r].state = "completed"
  BY DEF Inv, RunInv, CountsInv

\* What holds of the workers holds after a step of the reader.
LEMMA ReaderFrame ==
    ASSUME Inv, HeldInv, UNCHANGED jobVars
    PROVE  Inv' /\ HeldInv'
  BY NextInv DEF HeldInv, jobVars

LEMMA SummaryKeeps == ASSUME ReadInv, ReadSummary PROVE ReadInv'
<1> DEFINE r == view.run
           got == [view.got EXCEPT !.state = row[r].state, !.scored = row[r].scored,
                                   !.counts = row[r].counts]
<1>0. ViewShape /\ Inv /\ HeldInv /\ TypeOK
  BY DEF ReadInv, Inv
<1>1. view.kind \in Kinds /\ r \in Runs /\ view.next = 1 /\ row[r].state # "absent"
  BY <1>0, Where DEF ReadSummary, ViewShape
<1>2. /\ got \in GotType /\ got.state = row[r].state /\ got.scored = row[r].scored
      /\ got.counts = row[r].counts
  BY <1>0, <1>1 DEF GotType, ViewShape, TypeOK, RowType
<1>3. Learn(got)
  BY DEF ReadSummary
<1> HIDE DEF got
<1>4. /\ UNCHANGED jobVars
      /\ view'.kind = view.kind /\ view'.run = r /\ view'.got = got /\ view'.next = 2
      /\ view' \in [kind : Kinds \union {"none"}, run : Runs \union {NoRun}, next : Nat,
                    got : GotType]
  BY <1>0, <1>1, <1>2, <1>3, Learned, Onwards
<1>5. row' = row /\ Inv' /\ HeldInv'
  BY <1>0, <1>4, ReaderFrame DEF jobVars
<1>6. ViewShape'
  BY <1>1, <1>4, <1>5 DEF ViewShape
<1>7. ScreenInv'
  BY <1>2, <1>4, <1>5 DEF ScreenInv
<1>8. ReportInv' /\ DetailInv'
  BY <1>2, <1>4, <1>5 DEF ReportInv, DetailInv, SaidComplete
<1>9. DriftInv'
  BY <1>0, <1>1, <1>2, <1>4, <1>5, ScoredIsCompleted DEF DriftInv
<1> QED
  BY <1>5, <1>6, <1>7, <1>8, <1>9 DEF ReadInv

LEMMA MatchesKeeps == ASSUME ReadInv, ReadMatches PROVE ReadInv'
<1> DEFINE r == view.run
<1>0. ViewShape /\ Inv /\ HeldInv /\ TypeOK
  BY DEF ReadInv, Inv
<1>1. CASE Asking("matches")
  <2> DEFINE got == [view.got EXCEPT !.matches = table[r].matches]
  <2>1. view.kind \in {"screen", "report"} /\ r \in Runs /\ view.next = 2 /\ row[r].state # "absent"
    BY <1>0, <1>1, Where DEF ViewShape
  <2>2. /\ got \in GotType /\ got.matches = table[r].matches /\ got.state = view.got.state
        /\ got.counts = view.got.counts
    BY <1>0, <2>1 DEF GotType, ViewShape, TypeOK, TableType
  <2>3. Learn(got)
    <3>1. ASSUME Asking("matches again") PROVE view.next = 4
      BY <1>0, <3>1, Where DEF ViewShape
    <3>2. ~Asking("matches again")
      <4>1. 2 # 4 /\ view.next = 2
        BY <2>1
      <4> QED
        BY <3>1, <4>1
    <3> QED
      BY <3>2 DEF ReadMatches
  <2> HIDE DEF got
  <2>4. /\ UNCHANGED jobVars
        /\ view'.kind = view.kind /\ view'.run = r /\ view'.got = got
        /\ view'.next = IF view.kind = "screen" /\ got.state \notin Terminal THEN 1 ELSE 3
        /\ view' \in [kind : Kinds \union {"none"}, run : Runs \union {NoRun}, next : Nat,
                      got : GotType]
    BY <1>0, <2>1, <2>2, <2>3, Learned, Onwards
  <2>5. row' = row /\ Inv' /\ HeldInv'
    BY <1>0, <2>4, ReaderFrame DEF jobVars
  <2>6. ViewShape'
    BY <2>1, <2>4, <2>5 DEF ViewShape, Kinds
  <2>7. ScreenInv'
    BY <1>0, <2>1, <2>2, <2>4, <2>5, WholeTables DEF ReadInv, ScreenInv
  <2>8. ReportInv'
    BY <1>0, <2>1, <2>2, <2>4, <2>5, WholeTables DEF ReadInv, ReportInv, SaidComplete
  <2>9. DriftInv' /\ DetailInv'
    BY <2>1, <2>4 DEF DriftInv, DetailInv
  <2> QED
    BY <2>5, <2>6, <2>7, <2>8, <2>9 DEF ReadInv
<1>2. CASE Asking("matches again")
  <2> DEFINE got == [view.got EXCEPT !.again = table[r].matches]
  <2>1. view.kind = "report" /\ r \in Runs /\ view.next = 4 /\ row[r].state # "absent"
    BY <1>0, <1>2, Where DEF ViewShape, Kinds
  <2>2. /\ got \in GotType /\ got.again = table[r].matches /\ got.state = view.got.state
        /\ got.counts = view.got.counts /\ got.matches = view.got.matches
        /\ got.exceptions = view.got.exceptions
    BY <1>0, <2>1 DEF GotType, ViewShape, TypeOK, TableType
  <2>3. Learn(got)
    <3>1. ASSUME Asking("matches") PROVE view.next = 2
      BY <1>0, <3>1, Where DEF ViewShape
    <3>2. ~Asking("matches")
      BY <2>1, <3>1
    <3> QED
      BY <3>2 DEF ReadMatches
  <2> HIDE DEF got
  <2>4. /\ UNCHANGED jobVars
        /\ view'.kind = view.kind /\ view'.run = r /\ view'.got = got /\ view'.next = 5
        /\ view' \in [kind : Kinds \union {"none"}, run : Runs \union {NoRun}, next : Nat,
                      got : GotType]
    BY <1>0, <2>1, <2>2, <2>3, Learned, Onwards
  <2>5. row' = row /\ Inv' /\ HeldInv'
    BY <1>0, <2>4, ReaderFrame DEF jobVars
  <2>6. ViewShape'
    BY <2>1, <2>4, <2>5 DEF ViewShape, Kinds
  <2>7. ReportInv'
    BY <1>0, <2>1, <2>2, <2>4, <2>5, WholeTables DEF ReadInv, ReportInv, SaidComplete
  <2>8. ScreenInv' /\ DriftInv' /\ DetailInv'
    BY <2>1, <2>4 DEF ScreenInv, DriftInv, DetailInv
  <2> QED
    BY <2>5, <2>6, <2>7, <2>8 DEF ReadInv
<1> QED
  BY <1>1, <1>2 DEF ReadMatches

LEMMA ExceptionsKeeps == ASSUME ReadInv, ReadExceptions PROVE ReadInv'
<1> DEFINE r == view.run
           got == [view.got EXCEPT !.exceptions = table[r].exceptions]
<1>0. ViewShape /\ Inv /\ HeldInv /\ TypeOK
  BY DEF ReadInv, Inv
<1>1. /\ r \in Runs /\ row[r].state # "absent"
      /\ \/ view.kind = "report" /\ view.next = 3
         \/ view.kind = "drift" /\ view.next = 4
         \/ view.kind = "detail" /\ view.next = 2
  BY <1>0, Where DEF ReadExceptions, ViewShape
<1>2. /\ got \in GotType /\ got.exceptions = table[r].exceptions /\ got.state = view.got.state
      /\ got.counts = view.got.counts /\ got.matches = view.got.matches
      /\ got.scored = view.got.scored /\ got.base = view.got.base
      /\ got.census = view.got.census
  BY <1>0, <1>1 DEF GotType, ViewShape, TypeOK, TableType
<1>3. Learn(got)
  BY DEF ReadExceptions
<1> HIDE DEF got
<1>4. /\ UNCHANGED jobVars
      /\ view'.kind = view.kind /\ view'.run = r /\ view'.got = got
      /\ view'.next = view.next + 1
      /\ view' \in [kind : Kinds \union {"none"}, run : Runs \union {NoRun}, next : Nat,
                    got : GotType]
  BY <1>0, <1>1, <1>2, <1>3, Learned, Onwards
<1>5. row' = row /\ Inv' /\ HeldInv'
  BY <1>0, <1>4, ReaderFrame DEF jobVars
<1>6. ViewShape'
  BY <1>1, <1>4, <1>5 DEF ViewShape, Kinds
<1>7. ScreenInv'
  BY <1>1, <1>4 DEF ScreenInv
<1>8. ReportInv'
  BY <1>0, <1>1, <1>2, <1>4, <1>5, WholeTables DEF ReadInv, ReportInv, SaidComplete
<1>9. DriftInv'
  BY <1>0, <1>1, <1>2, <1>4, <1>5, WholeTables DEF ReadInv, DriftInv
<1>10. DetailInv'
  BY <1>0, <1>1, <1>2, <1>4, <1>5, WholeTables DEF ReadInv, DetailInv, SaidComplete
<1> QED
  BY <1>5, <1>6, <1>7, <1>8, <1>9, <1>10 DEF ReadInv

\* A closed view promises nothing.
LEMMA IdleKeeps == ASSUME ReadInv, view' = Idle, UNCHANGED jobVars PROVE ReadInv'
<1>1. Idle \in [kind : Kinds \union {"none"}, run : Runs \union {NoRun}, next : Nat,
                got : GotType] /\ Idle.kind = "none"
  BY DEF Idle, Blank, GotType, States, Results
<1>2. Inv' /\ HeldInv'
  BY ReaderFrame DEF ReadInv
<1> QED
  BY <1>1, <1>2 DEF ReadInv, ViewShape, ScreenInv, ReportInv, DriftInv, DetailInv, Kinds

LEMMA BaselineKeeps == ASSUME ReadInv, ReadBaseline \/ ReadBaselineCensus PROVE ReadInv'
<1> DEFINE r == view.run
<1>0. ViewShape /\ Inv /\ HeldInv /\ TypeOK
  BY DEF ReadInv, Inv
<1>1. CASE ReadBaseline
  <2>1. view.kind = "drift" /\ r \in Runs /\ view.next = 2 /\ row[r].state # "absent"
    BY <1>0, <1>1, Where DEF ReadBaseline, ViewShape, Kinds
  <2>2. \/ view' = Idle /\ UNCHANGED jobVars
        \/ \E b \in Runs : /\ view.got.scored /\ row[b].scored
                           /\ Learn([view.got EXCEPT !.base = b])
    BY <1>1 DEF ReadBaseline
  <2>3. ASSUME NEW b \in Runs, view.got.scored, row[b].scored,
               Learn([view.got EXCEPT !.base = b])
        PROVE  ReadInv'
    <3> DEFINE got == [view.got EXCEPT !.base = b]
    <3>1. /\ got \in GotType /\ got.base = b /\ got.scored = view.got.scored
          /\ got.state = view.got.state
      BY <1>0 DEF GotType, ViewShape
    <3>2. Learn(got)
      BY <2>3
    <3> HIDE DEF got
    <3>3. /\ UNCHANGED jobVars
          /\ view'.kind = view.kind /\ view'.run = r /\ view'.got = got /\ view'.next = 3
          /\ view' \in [kind : Kinds \union {"none"}, run : Runs \union {NoRun}, next : Nat,
                        got : GotType]
      BY <1>0, <2>1, <3>1, <3>2, Learned, Onwards
    <3>4. row' = row /\ Inv' /\ HeldInv'
      BY <1>0, <3>3, ReaderFrame DEF jobVars
    <3>5. ViewShape'
      BY <2>1, <3>3, <3>4 DEF ViewShape, Kinds
    <3>6. row[b].state = "completed"
      BY <1>0, <2>3, ScoredIsCompleted
    <3>7. DriftInv'
      <4>1. row[r].state = "completed"
        BY <2>1, <2>3 DEF ReadInv, DriftInv
      <4>2. /\ view'.got.base = b /\ view'.got.scored /\ row'[r].state = "completed"
            /\ row'[b].state = "completed"
        BY <2>3, <3>1, <3>3, <3>4, <3>6, <4>1
      <4> QED
        BY <3>3, <4>2 DEF DriftInv
    <3>8. ScreenInv' /\ ReportInv' /\ DetailInv'
      BY <2>1, <3>3 DEF ScreenInv, ReportInv, DetailInv
    <3> QED
      BY <3>4, <3>5, <3>7, <3>8 DEF ReadInv
  <2> QED
    BY <2>2, <2>3, IdleKeeps
<1>2. CASE ReadBaselineCensus
  <2> DEFINE got == [view.got EXCEPT !.census = table[view.got.base].exceptions]
  <2>1. view.kind = "drift" /\ r \in Runs /\ view.next = 3 /\ row[r].state # "absent"
    BY <1>0, <1>2, Where DEF ReadBaselineCensus, ViewShape, Kinds
  <2>2. view.got.base \in Runs /\ row[view.got.base].state = "completed" /\ view.got.scored
    BY <2>1 DEF ReadInv, DriftInv
  <2>3. /\ got \in GotType /\ got.census = table[view.got.base].exceptions
        /\ got.base = view.got.base /\ got.scored = view.got.scored
    BY <1>0, <2>2 DEF GotType, ViewShape, TypeOK, TableType
  <2>4. Learn(got)
    BY <1>2 DEF ReadBaselineCensus
  <2> HIDE DEF got
  <2>5. /\ UNCHANGED jobVars
        /\ view'.kind = view.kind /\ view'.run = r /\ view'.got = got /\ view'.next = 4
        /\ view' \in [kind : Kinds \union {"none"}, run : Runs \union {NoRun}, next : Nat,
                      got : GotType]
    BY <1>0, <2>1, <2>3, <2>4, Learned, Onwards
  <2>6. row' = row /\ Inv' /\ HeldInv'
    BY <1>0, <2>5, ReaderFrame DEF jobVars
  <2>7. ViewShape'
    BY <2>1, <2>5, <2>6 DEF ViewShape, Kinds
  <2>8. DriftInv'
    <3>1. row[r].state = "completed"
      BY <2>1, <2>2 DEF ReadInv, DriftInv
    <3>2. view'.got.census = row'[view'.got.base].counts /\ view'.got.base \in Runs
      BY <1>0, <2>2, <2>3, <2>5, <2>6, WholeTables
    <3>3. /\ view'.got.scored /\ row'[view'.run].state = "completed"
          /\ row'[view'.got.base].state = "completed"
      BY <2>2, <2>3, <2>5, <2>6, <3>1
    <3> QED
      BY <2>5, <3>2, <3>3 DEF DriftInv
  <2>9. ScreenInv' /\ ReportInv' /\ DetailInv'
    BY <2>1, <2>5 DEF ScreenInv, ReportInv, DetailInv
  <2> QED
    BY <2>6, <2>7, <2>8, <2>9 DEF ReadInv
<1> QED
  BY <1>1, <1>2

LEMMA DetailKeeps == ASSUME ReadInv, ReadDetail PROVE ReadInv'
<1> DEFINE r == view.run
<1>0. ViewShape /\ Inv /\ HeldInv /\ TypeOK
  BY DEF ReadInv, Inv
<1>1. view.kind = "detail" /\ r \in Runs /\ view.next = 3 /\ row[r].state # "absent"
  BY <1>0, Where DEF ReadDetail, ViewShape, Kinds
<1>2. \/ view' = Idle /\ UNCHANGED jobVars
      \/ \E d \in Runs :
           /\ table[d].exceptions # "none"
           /\ d # r => Before(r, d)
           /\ Learn([view.got EXCEPT !.base = d, !.census = table[d].exceptions,
                                     !.again = table[d].audit])
  BY DEF ReadDetail
<1>3. ASSUME NEW d \in Runs, table[d].exceptions # "none", d # r => Before(r, d),
             Learn([view.got EXCEPT !.base = d, !.census = table[d].exceptions,
                                    !.again = table[d].audit])
      PROVE  ReadInv'
  <2> DEFINE got == [view.got EXCEPT !.base = d, !.census = table[d].exceptions,
                                     !.again = table[d].audit]
  <2>1. /\ got \in GotType /\ got.base = d /\ got.census = table[d].exceptions
        /\ got.again = table[d].audit /\ got.state = view.got.state
        /\ got.counts = view.got.counts /\ got.exceptions = view.got.exceptions
    BY <1>0 DEF GotType, ViewShape, TypeOK, TableType
  <2>2. Learn(got)
    BY <1>3
  <2> HIDE DEF got
  <2>3. /\ UNCHANGED jobVars
        /\ view'.kind = view.kind /\ view'.run = r /\ view'.got = got /\ view'.next = 4
        /\ view' \in [kind : Kinds \union {"none"}, run : Runs \union {NoRun}, next : Nat,
                      got : GotType]
    BY <1>0, <1>1, <2>1, <2>2, Learned, Onwards
  <2>4. row' = row /\ request' = request /\ Inv' /\ HeldInv'
    BY <1>0, <2>3, ReaderFrame DEF jobVars
  <2>5. ViewShape'
    BY <1>1, <2>3, <2>4 DEF ViewShape, Kinds
  <2>6. row[d].state # "absent"
    BY <1>0, <1>3 DEF HeldInv
  <2>7. Before(r, d)' <=> Before(r, d)
    BY <2>3, <2>4 DEF Before
  <2>8. view'.got.state = "completed" =>
          /\ row[r].state = "completed" /\ view'.got.counts = row[r].counts
          /\ view'.got.exceptions = row[r].counts
    BY <1>1, <2>1, <2>3 DEF ReadInv, DetailInv, SaidComplete
  <2>9. view'.got.state = "completed" /\ d = r =>
          view'.got.again = row[r].counts /\ view'.got.census = row[r].counts
    BY <1>0, <1>1, <2>1, <2>3, <2>8, WholeTables
  <2>10. DetailInv'
    BY <1>1, <1>3, <2>1, <2>3, <2>4, <2>6, <2>7, <2>8, <2>9 DEF DetailInv, SaidComplete
  <2>11. ScreenInv' /\ ReportInv' /\ DriftInv'
    BY <1>1, <2>3 DEF ScreenInv, ReportInv, DriftInv
  <2> QED
    BY <2>4, <2>5, <2>10, <2>11 DEF ReadInv
<1> QED
  BY <1>2, <1>3, IdleKeeps

LEMMA OpenKeeps ==
    ASSUME ReadInv, NEW kind \in Kinds, NEW r \in Runs, OpenView(kind, r)
    PROVE  ReadInv'
<1>1. /\ view' = [kind |-> kind, run |-> r, next |-> 1, got |-> Blank]
      /\ row[r].state # "absent" /\ UNCHANGED jobVars
  BY DEF OpenView
<1>2. Inv' /\ HeldInv' /\ row' = row
  BY <1>1, ReaderFrame DEF ReadInv, jobVars
<1>3. Blank \in GotType
  BY DEF Blank, GotType, States, Results
<1>4. ViewShape'
  BY <1>1, <1>2, <1>3 DEF ViewShape
<1> QED
  BY <1>1, <1>2, <1>4 DEF ReadInv, ScreenInv, ReportInv, DriftInv, DetailInv

LEMMA ReadersKeep == ASSUME ReadInv, [ReadNext]_allVars PROVE ReadInv'
<1>1. CASE Next /\ UNCHANGED view
  BY <1>1, WorkersKeepView
<1>2. CASE UNCHANGED allVars
  BY <1>2, WorkersKeepView DEF allVars
<1>3. CASE Leave
  BY <1>3, IdleKeeps DEF Leave
<1>4. CASE Ask
  BY <1>4, SummaryKeeps, MatchesKeeps, ExceptionsKeeps, BaselineKeeps, DetailKeeps DEF Ask
<1> QED
  BY <1>1, <1>2, <1>3, <1>4, OpenKeeps DEF ReadNext

----------------------------------------------------------------------------
\* The theorems.

LEMMA InitReadInv == ReadInit => ReadInv
<1> SUFFICES ASSUME ReadInit PROVE ReadInv
  OBVIOUS
<1>1. Inv /\ HeldInv
  BY InitInv DEF ReadInit, Init, HeldInv
<1>2. Idle \in [kind : Kinds \union {"none"}, run : Runs \union {NoRun}, next : Nat,
                got : GotType] /\ Idle.kind = "none"
  BY DEF Idle, Blank, GotType, States, Results
<1> QED
  BY <1>1, <1>2 DEF ReadInit, ReadInv, ViewShape, ScreenInv, ReportInv, DriftInv, DetailInv,
                    Kinds

\* What a reader was told and what the workers do belong together at every
\* moment, between any two of its questions.
THEOREM ReadInvariance == ReadSpec => []ReadInv
  BY InitReadInv, ReadersKeep, PTL DEF ReadSpec

\* A console that stopped polling shows the run's final state and matches.
THEOREM StoppedIsFinal == ReadSpec => []StoppedScreenIsFinal
<1>1. ReadInv => StoppedScreenIsFinal
  <2> SUFFICES ASSUME ReadInv, Answered, view.kind = "screen"
               PROVE  /\ view.got.state = row[view.run].state
                      /\ view.got.state \in Terminal
                      /\ view.got.state = "completed" => view.got.matches = row[view.run].counts
    BY DEF StoppedScreenIsFinal
  <2>1. view.next = 3
    <3>1. view.next > 2
      BY Order DEF Answered
    <3> QED
      BY <3>1 DEF ReadInv, ScreenInv
  <2> QED
    BY <2>1 DEF ReadInv, ScreenInv
<1> QED
  BY <1>1, ReadInvariance, PTL

\* Reports, drift and details of a completed run are made of one whole result,
\* whatever was committed between their questions.
THEOREM WholeResults == ReadSpec => []ReadersSeeWholeResults
<1>1. ReadInv => ReadersSeeWholeResults
  <2> SUFFICES ASSUME ReadInv PROVE ReadersSeeWholeResults
    OBVIOUS
  <2>0. Inv /\ ViewShape
    BY DEF ReadInv
  <2>1. ReportOfCompletedIsWhole
    <3> SUFFICES ASSUME Answered, view.kind = "report", view.got.state = "completed"
                 PROVE  /\ view.got.matches # "none"
                        /\ view.got.exceptions = view.got.matches
                        /\ view.got.again = view.got.matches
                        /\ SumCheck(view.got) = "adds up"
                        /\ Statement(view.got) \in {"metrics", "unscored"}
      BY DEF ReportOfCompletedIsWhole
    <3>1. view.next = 5 /\ view.run \in Runs
      <4>1. view.next > 4
        BY Order DEF Answered
      <4> QED
        BY <4>1 DEF ReadInv, ReportInv, ViewShape, Kinds
    <3>2. /\ row[view.run].state = "completed" /\ view.got.counts = row[view.run].counts
          /\ view.got.matches = row[view.run].counts
          /\ view.got.exceptions = row[view.run].counts
          /\ view.got.again = row[view.run].counts
      BY <3>1 DEF ReadInv, ReportInv, SaidComplete
    <3>3. row[view.run].counts # "none"
      BY <2>0, <3>1, <3>2, WholeTables
    <3> QED
      BY <3>2, <3>3 DEF SumCheck, TierCounts, Statement
  <2>2. DriftComparesFinishedRuns
    <3> SUFFICES ASSUME Answered, view.kind = "drift"
                 PROVE  /\ row[view.run].state = "completed"
                        /\ view.got.exceptions = row[view.run].counts
                        /\ row[view.got.base].state = "completed"
                        /\ view.got.census = row[view.got.base].counts
      BY DEF DriftComparesFinishedRuns
    <3>1. view.next = 5
      <4>1. view.next > 4
        BY Order DEF Answered
      <4> QED
        BY <4>1 DEF ReadInv, DriftInv
    <3> QED
      BY <3>1 DEF ReadInv, DriftInv
  <2>3. DetailIsOfTheNewest
    <3> SUFFICES ASSUME Answered, view.kind = "detail" PROVE DetailIsOfTheNewest
      BY DEF DetailIsOfTheNewest
    <3>1. view.next = 4
      <4>1. view.next > 3
        BY Order DEF Answered
      <4> QED
        BY <4>1 DEF ReadInv, DetailInv
    <3> QED
      BY <3>1 DEF ReadInv, DetailInv, DetailIsOfTheNewest
  <2> QED
    BY <2>1, <2>2, <2>3 DEF ReadersSeeWholeResults
<1> QED
  BY <1>1, ReadInvariance, PTL
=============================================================================
