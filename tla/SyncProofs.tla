------------------------------ MODULE SyncProofs ------------------------------
(***************************************************************************)
(* Theorems of Sync for any number of connections, mailboxes, messages,    *)
(* requests, savers, days, faults and stops.  A fetch in flight carries    *)
(* what it has found and not yet dealt with, and a success is written from *)
(* there alone; nobody's clock is ahead of today, and what arrives today   *)
(* is behind no stamp.                                                     *)
(***************************************************************************)
EXTENDS Sync, TLAPS

SaverInv ==
    \A s \in Savers :
        saver[s].at = "insert" => saver[s].conn \in Conns /\ saver[s].box \in Boxes

Typed ==
    /\ SyncTypeOK
    /\ SaverInv
    /\ \A a \in Actors : job[a].at = "credentials" => job[a].conn \in Conns
    /\ today \in Days

\* No moment that a pass, a fetch or a row remembers is yet to come.
ClockInv ==
    /\ pass.day <= today
    /\ \A a \in Actors : job[a].stamp <= today
    /\ \A c \in Conns : conn[c].last <= today

\* What arrived in the window before the stamp is stored or still in hand.
Covered(j) ==
    \A m \in Messages :
        BoxOf[m] = j.box /\ date[m] # NotYet /\ date[m] \in j.from..j.to /\ date[m] < j.stamp
        => \A p \in Parts[m] : KindOf[p] = "statement" => p \in uploads \union j.files

\* What the success of a fetch in hand will owe an account of.
Owing(j) ==
    {p \in j.found : Fetched(p) \/ (j.conn # NoConn /\ ~Wanted(p))}

FoundInv(a) ==
    /\ job[a].at = "ingest" => /\ Owing(job[a]) \subseteq uploads \union job[a].skipped \union job[a].files
                               /\ Covered(job[a])
    /\ job[a].at \in {"synced", "answered"} => Owed(job[a]) \subseteq uploads \union job[a].skipped

StoredInv == \A p \in uploads : KindOf[p] = "statement"

SyncInv ==
    /\ Typed
    /\ ClockInv
    /\ \A a \in Actors : FoundInv(a)
    /\ StoredInv
    /\ NoHoleBehindASync

----------------------------------------------------------------------------
\* Shapes.

LEMMA RowShape ==
    /\ \A b \in Boxes \union {NoBox} : Fresh(b) \in RowType \union {Absent}
    /\ \A row \in RowType \union {Absent}, d \in Days :
         row # Absent => [row EXCEPT !.last = d] \in RowType
  BY SyncAssumption DEF Fresh, RowType, Absent, Never

\* A held row opens a mailbox.
LEMMA HeldBox ==
    ASSUME Typed, NEW c \in Conns, Held(c)
    PROVE  conn[c] \in RowType /\ conn[c].box \in Boxes
  BY DEF Typed, SyncTypeOK, Held, RowType

LEMMA JobShape ==
    /\ Idle \in JobType
    /\ \A at \in {"idle"} \union Working \union Ended : Stopped(at) \in JobType
    /\ \A j \in JobType : Answered(j) \in JobType
<1>1. Idle \in JobType
  BY SyncAssumption DEF Idle, JobType, Days
<1>2. ASSUME NEW at \in {"idle"} \union Working \union Ended PROVE Stopped(at) \in JobType
  BY <1>1, <1>2 DEF Stopped, JobType
<1>3. ASSUME NEW j \in JobType PROVE Answered(j) \in JobType
  BY <1>1, <1>3 DEF Answered, JobType, Ended
<1> QED
  BY <1>1, <1>2, <1>3

\* One actor's fetch moves.
Moves(a, to) == job' = [job EXCEPT ![a] = to]

LEMMA MoveType ==
    ASSUME Typed, NEW a \in Actors, NEW to \in JobType, Moves(a, to)
    PROVE  /\ job' \in [Actors -> JobType]
           /\ job'[a] = to
           /\ \A k \in Actors \ {a} : job'[k] = job[k]
  BY DEF Typed, SyncTypeOK, Moves

\* Where every actor's fetch keeps its shape, and no new one lacks its row.
JobTyped ==
    /\ job' \in [Actors -> JobType]
    /\ \A a \in Actors : job'[a].at = "credentials" => job'[a].conn \in Conns

\* A step of one fetch to a place past the credentials.
LEMMA MoveTyped ==
    ASSUME Typed, NEW a \in Actors, NEW to \in JobType, Moves(a, to),
           to.at = "credentials" => to.conn \in Conns
    PROVE  JobTyped
<1>1. /\ job' \in [Actors -> JobType] /\ job'[a] = to
      /\ \A k \in Actors \ {a} : job'[k] = job[k]
  BY MoveType
<1> QED
  BY <1>1 DEF JobTyped, Typed

\* A fetch that reads, stores or ends, seen as one move.
LEMMA FetchingTyped ==
    ASSUME Typed, NEW a \in Actors, Fetching(a)
    PROVE  JobTyped
<1> DEFINE j == job[a]
<1>0. j \in JobType
  BY DEF Typed, SyncTypeOK
<1>1. CASE ReadCredentials(a)
  <2>1. CASE Held(j.conn)
    <3>1. conn[j.conn].box \in Boxes
      BY <1>1, <2>1, HeldBox DEF ReadCredentials, Typed
    <3>2. [j EXCEPT !.at = "fetch", !.box = conn[j.conn].box] \in JobType
      BY <1>0, <3>1 DEF JobType, Working
    <3> QED
      BY <1>0, <1>1, <2>1, <3>2, MoveTyped DEF ReadCredentials, Moves, JobType
  <2>2. CASE ~Held(j.conn)
    <3>1. Stopped("failed") \in JobType /\ Stopped("failed").at = "failed"
      BY JobShape DEF Ended, Stopped, Idle
    <3> QED
      BY <1>1, <2>2, <3>1, MoveTyped DEF ReadCredentials, Moves
  <2> QED
    BY <2>1, <2>2
<1>2. CASE Fetch(a)
  <2> DEFINE found == StatementParts(j)
             to == [j EXCEPT !.at = "ingest", !.found = found,
                             !.files = {p \in found : Fetched(p)}, !.skipped = LastSkipped(j)]
  <2>1. found \in SUBSET AllParts /\ LastSkipped(j) \in SUBSET AllParts
    BY DEF StatementParts, Search, AllParts, LastSkipped
  <2>2. to \in JobType /\ to.at = "ingest"
    BY <1>0, <2>1 DEF JobType, Working
  <2>3. Moves(a, to)
    BY <1>0, <1>2 DEF Fetch, Moves, Typed, SyncTypeOK, JobType
  <2> QED
    BY <2>2, <2>3, MoveTyped
<1>3. CASE Ingest(a)
  <2>1. PICK p \in j.files :
           \/ job' = [job EXCEPT ![a].files = @ \ {p}]
           \/ job' = [job EXCEPT ![a].files = @ \ {p}, ![a].skipped = @ \union SkipOf(p)]
    BY <1>3 DEF Ingest
  <2>2. SkipOf(p) \subseteq AllParts /\ j.at = "ingest"
    BY <1>0, <1>3, <2>1 DEF SkipOf, JobType, Ingest
  <2>3. PICK to \in JobType : Moves(a, to) /\ to.at = "ingest"
    <3>1. CASE job' = [job EXCEPT ![a].files = @ \ {p}]
      <4> DEFINE to == [j EXCEPT !.files = @ \ {p}]
      <4>1. to \in JobType /\ to.at = "ingest"
        BY <1>0, <2>2 DEF JobType
      <4> QED
        BY <3>1, <4>1 DEF Moves
    <3>2. CASE job' = [job EXCEPT ![a].files = @ \ {p}, ![a].skipped = @ \union SkipOf(p)]
      <4> DEFINE to == [j EXCEPT !.files = @ \ {p}, !.skipped = @ \union SkipOf(p)]
      <4>1. to \in JobType /\ to.at = "ingest"
        BY <1>0, <2>2 DEF JobType
      <4>2. Moves(a, to)
        BY <1>0, <3>2 DEF Moves, Typed, SyncTypeOK, JobType
      <4> QED
        BY <4>1, <4>2
    <3> QED
      BY <2>1, <3>1, <3>2
  <2> QED
    BY <2>3, MoveTyped
<1>4. CASE Answer(a) \/ RecordSuccess(a)
  <2>1. Answered(j) \in JobType /\ Answered(j).at \in {"synced", "answered"}
    BY <1>0, JobShape DEF Answered, Idle
  <2> QED
    BY <1>4, <2>1, MoveTyped DEF Answer, RecordSuccess, Moves
<1>5. CASE Break(a)
  <2>1. Stopped("failed") \in JobType /\ Stopped("failed").at = "failed"
    BY JobShape DEF Ended, Stopped, Idle
  <2> DEFINE to == [Stopped("fail") EXCEPT !.conn = j.conn, !.box = j.box, !.stamp = j.stamp]
  <2>2. to \in JobType /\ to.at = "fail"
    BY <1>0, JobShape DEF Stopped, Idle, JobType, Working
  <2> QED
    BY <1>5, <2>1, <2>2, MoveTyped DEF Break, Moves
<1>6. CASE RecordFailure(a)
  <2>1. Stopped("failed") \in JobType /\ Stopped("failed").at = "failed"
    BY JobShape DEF Ended, Stopped, Idle
  <2> QED
    BY <1>6, <2>1, MoveTyped DEF RecordFailure, Moves
<1>7. CASE LoseOutcome(a)
  <2>1. Stopped("failed") \in JobType /\ Stopped("failed").at = "failed"
    BY JobShape DEF Ended, Stopped, Idle
  <2>2. Idle \in JobType /\ Idle.at = "idle"
    BY JobShape DEF Idle
  <2> DEFINE to == [j EXCEPT !.at = "fail again"]
  <2>3. to \in JobType /\ to.at = "fail again"
    BY <1>0 DEF JobType, Working
  <2> QED
    BY <1>7, <2>1, <2>2, <2>3, MoveTyped DEF LoseOutcome, Moves
<1> QED
  BY <1>1, <1>2, <1>3, <1>4, <1>5, <1>6, <1>7 DEF Fetching

\* An outcome keeps the shape of the rows.
LEMMA OutcomeType ==
    ASSUME Typed, NEW a \in Actors, NEW row, WriteOutcome(a, row),
           Held(job[a].conn) => row \in RowType
    PROVE  conn' \in [Conns -> RowType \union {Absent}]
  BY DEF Typed, SyncTypeOK, WriteOutcome

LEMMA SaverType ==
    ASSUME Typed, NEW s \in Savers, NEW to,
           to \in [at : {"idle", "insert", "over"}, conn : Conns \union {NoConn},
                   box : Boxes \union {NoBox}],
           to.at = "insert" => to.conn \in Conns /\ to.box \in Boxes,
           saver' = [saver EXCEPT ![s] = to]
    PROVE  /\ saver' \in [Savers -> [at : {"idle", "insert", "over"}, conn : Conns \union {NoConn},
                                     box : Boxes \union {NoBox}]]
           /\ SaverInv'
  BY DEF Typed, SyncTypeOK, SaverInv

LEMMA RemoveType ==
    ASSUME Typed, NEW c \in Conns, Remove(c)
    PROVE  /\ conn' \in [Conns -> RowType \union {Absent}]
           /\ readBy' \in [Conns -> Boxes \union {NoBox}]
  BY DEF Typed, SyncTypeOK, Remove

LEMMA FetchingKeepsTypes ==
    ASSUME Typed, NEW a \in Actors, Fetching(a)
    PROVE  Typed'
<1>1. JobTyped
  BY FetchingTyped
<1>2. /\ conn' \in [Conns -> RowType \union {Absent}]
      /\ readBy' \in [Conns -> Boxes \union {NoBox}]
      /\ uploads' \subseteq AllParts
  <2>1. CASE ReadCredentials(a) \/ Fetch(a) \/ Answer(a) \/ Break(a) \/ LoseOutcome(a)
    BY <2>1 DEF Typed, SyncTypeOK, ReadCredentials, Fetch, Answer, Break, LoseOutcome, rows
  <2>2. CASE Ingest(a)
    BY <2>2 DEF Typed, SyncTypeOK, Ingest, JobType, rows
  <2>3. CASE RecordSuccess(a)
    <3> DEFINE c == job[a].conn
    <3>1. c \in Conns /\ job[a].stamp \in Days /\ job[a].box \in Boxes \union {NoBox}
      BY <2>3 DEF Typed, SyncTypeOK, JobType, RecordSuccess
    <3>2. Held(c) => [conn[c] EXCEPT !.last = job[a].stamp] \in RowType
      BY <3>1, HeldBox, RowShape DEF Held, RowType
    <3>3. conn' \in [Conns -> RowType \union {Absent}]
      BY <2>3, <3>2, OutcomeType DEF RecordSuccess
    <3> QED
      BY <2>3, <3>1, <3>3 DEF RecordSuccess, Typed, SyncTypeOK
  <2>4. CASE RecordFailure(a)
    <3>1. conn' = conn
      BY <2>4 DEF RecordFailure, WriteOutcome, FailedRow, Typed, SyncTypeOK
    <3> QED
      BY <2>4, <3>1 DEF RecordFailure, Typed, SyncTypeOK
  <2> QED
    BY <2>1, <2>2, <2>3, <2>4 DEF Fetching
<1>3. UNCHANGED <<date, saver, today>>
  BY DEF Fetching, ReadCredentials, Fetch, Ingest, Answer, Break, RecordSuccess,
         RecordFailure, LoseOutcome
<1>4. pass' = pass \/ pass' = Resting("asleep")
  BY DEF Fetching, ReadCredentials, Fetch, Ingest, Answer, Break, RecordSuccess,
         RecordFailure, LoseOutcome
<1>5. pass' \in [at : {"visiting", "asleep"}, day : Days,
                 listed : SUBSET [id : Conns, last : Days \union {Never}]]
  BY <1>4, SyncAssumption DEF Typed, SyncTypeOK, Resting, Days
<1> QED
  BY <1>1, <1>2, <1>3, <1>5 DEF Typed, SyncTypeOK, SaverInv, JobTyped

LEMMA LoopKeepsTypes ==
    ASSUME Typed, StartPass \/ FailPass \/ Visit \/ EndPass
    PROVE  Typed'
<1> DEFINE PassType == [at : {"visiting", "asleep"}, day : Days,
                        listed : SUBSET [id : Conns, last : Days \union {Never}]]
<1>0. pass \in PassType /\ Loop \in Actors /\ Idle \in JobType /\ Idle.at = "idle" /\ 0 \in Days
  BY JobShape, SyncAssumption DEF Typed, SyncTypeOK, Actors, Idle, Days
<1>1. CASE StartPass
  <2>1. Listed \in SUBSET [id : Conns, last : Days \union {Never}]
    <3>1. \A c \in Conns : Held(c) => conn[c].last \in Days \union {Never}
      BY HeldBox DEF RowType
    <3> QED
      BY <3>1 DEF Listed
  <2>2. pass' \in PassType
    BY <1>1, <2>1 DEF StartPass, Typed
  <2> QED
    BY <1>1, <2>2 DEF StartPass, Typed, SyncTypeOK, SaverInv, rows
<1>2. CASE FailPass
  <2>1. pass' \in PassType
    BY <1>0, <1>2 DEF FailPass, Resting
  <2>2. JobTyped
    BY <1>0, <1>2, MoveTyped DEF FailPass, Moves
  <2> QED
    BY <1>2, <2>1, <2>2 DEF FailPass, Typed, SyncTypeOK, SaverInv, rows, JobTyped
<1>3. CASE Visit
  <2>1. PICK row \in pass.listed :
           /\ pass' = [pass EXCEPT !.listed = @ \ {row}]
           /\ IF IsDue(row.last, pass.day)
              THEN job' = [job EXCEPT ![Loop] =
                     [Idle EXCEPT !.at = "credentials", !.conn = row.id,
                                  !.from = DefaultWindow(row.id, pass.day).from,
                                  !.to = pass.day, !.stamp = pass.day]]
              ELSE job' = [job EXCEPT ![Loop] = Idle]
    BY <1>3 DEF Visit
  <2>2. pass' \in PassType
    BY <1>0, <2>1
  <2>3. row.id \in Conns /\ pass.day \in Days
    BY <1>0, <2>1
  <2> DEFINE to == [Idle EXCEPT !.at = "credentials", !.conn = row.id,
                                !.from = DefaultWindow(row.id, pass.day).from,
                                !.to = pass.day, !.stamp = pass.day]
  <2>4. DefaultWindow(row.id, pass.day).from \in Int
    BY <2>3, SyncAssumption DEF DefaultWindow, Days
  <2>5. to \in JobType /\ to.conn \in Conns
    BY <1>0, <2>3, <2>4 DEF Idle, JobType, Working
  <2>6. JobTyped
    <3>1. CASE IsDue(row.last, pass.day)
      <4>1. Moves(Loop, to)
        BY <2>1, <3>1 DEF Moves
      <4> QED
        BY <1>0, <2>5, <4>1, MoveTyped
    <3>2. CASE ~IsDue(row.last, pass.day)
      BY <1>0, <2>1, <3>2, MoveTyped DEF Moves
    <3> QED
      BY <3>1, <3>2
  <2> QED
    BY <1>3, <2>2, <2>6 DEF Visit, Typed, SyncTypeOK, SaverInv, rows, JobTyped
<1>4. CASE EndPass
  <2>1. pass' \in PassType
    BY <1>0, <1>4 DEF EndPass
  <2>2. JobTyped
    BY <1>0, <1>4, MoveTyped DEF EndPass, Moves
  <2> QED
    BY <1>4, <2>1, <2>2 DEF EndPass, Typed, SyncTypeOK, SaverInv, rows, JobTyped
<1> QED
  BY <1>1, <1>2, <1>3, <1>4

LEMMA SaversKeepTypes ==
    ASSUME Typed, NEW s \in Savers,
           \/ EndSave(s) \/ FailSave(s)
           \/ \E c \in Clicked : Delete(s, c) \/ \E b \in Boxes : BeginSave(s, c, b)
    PROVE  Typed'
<1>1. CASE EndSave(s)
  <2> DEFINE c == saver[s].conn
  <2>1. c \in Conns /\ saver[s].box \in Boxes
    BY <1>1 DEF EndSave, Typed, SaverInv
  <2>2. Fresh(saver[s].box) \in RowType \union {Absent}
    BY <2>1, RowShape
  <2>3. conn' \in [Conns -> RowType \union {Absent}]
    BY <1>1, <2>2 DEF EndSave, Typed, SyncTypeOK
  <2> QED
    BY <1>1, <2>1, <2>3, SaverType DEF EndSave, Over, Typed, SyncTypeOK
<1>2. CASE FailSave(s)
  <2>1. saver[s].conn \in Conns
    BY <1>2 DEF FailSave, Typed, SaverInv
  <2>2. saver' = [saver EXCEPT ![s] = Over(saver[s].conn)]
    BY <1>2 DEF FailSave
  <2> QED
    BY <1>2, <2>1, <2>2, SaverType DEF FailSave, Over, Typed, SyncTypeOK, rows
<1>3. ASSUME NEW c \in Clicked, Delete(s, c) PROVE Typed'
  BY <1>3, SaverType, RemoveType, SyncAssumption DEF Delete, Over, Typed, SyncTypeOK
<1>4. ASSUME NEW c \in Clicked, NEW b \in Boxes, BeginSave(s, c, b) PROVE Typed'
  BY <1>4, SaverType, RemoveType, SyncAssumption DEF BeginSave, Typed, SyncTypeOK
<1> QED
  BY <1>1, <1>2, <1>3, <1>4

LEMMA RequestsKeepTypes ==
    ASSUME Typed, NEW r \in Requests, AskBuild(r) \/ \E c \in Clicked : Ask(r, c)
    PROVE  Typed'
<1>0. r \in Actors /\ Idle \in JobType
  BY JobShape DEF Actors
<1>1. CASE AskBuild(r)
  <2>1. PICK w \in Backfills : Moves(r, [Idle EXCEPT !.at = "fetch", !.box = BuildBox,
                                            !.from = w.from, !.to = w.to, !.stamp = today])
    BY <1>1 DEF AskBuild, Moves
  <2> DEFINE to == [Idle EXCEPT !.at = "fetch", !.box = BuildBox, !.from = w.from,
                                !.to = w.to, !.stamp = today]
  <2>2. w.from \in Int /\ w.to \in Days
    BY SyncAssumption DEF Days
  <2>3. to \in JobType /\ to.at = "fetch"
    BY <1>0, <2>2, SyncAssumption DEF Idle, JobType, Working, Typed
  <2>4. JobTyped
    BY <1>0, <2>1, <2>3, MoveTyped
  <2> QED
    BY <1>1, <2>4 DEF AskBuild, Typed, SyncTypeOK, SaverInv, rows, JobTyped
<1>2. ASSUME NEW c \in Clicked, Ask(r, c) PROVE Typed'
  <2>1. PICK w \in NamedWindows(c) : Moves(r, [Idle EXCEPT !.at = "credentials", !.conn = c,
                                            !.from = w.from, !.to = w.to, !.stamp = today])
    BY <1>2 DEF Ask, Moves
  <2> DEFINE to == [Idle EXCEPT !.at = "credentials", !.conn = c, !.from = w.from,
                                !.to = w.to, !.stamp = today]
  <2>2. w.from \in Int /\ w.to \in Days
    BY SyncAssumption DEF Days, NamedWindows, DefaultWindow, Typed
  <2>3. to \in JobType /\ to.conn \in Conns
    BY <1>0, <2>2, SyncAssumption DEF Idle, JobType, Working, Typed
  <2>4. JobTyped
    BY <1>0, <2>1, <2>3, MoveTyped
  <2> QED
    BY <1>2, <2>4 DEF Ask, Typed, SyncTypeOK, SaverInv, rows, JobTyped
<1> QED
  BY <1>1, <1>2

LEMMA WorldKeepsTypes ==
    ASSUME Typed, Day \/ Crash \/ \E m \in Messages : Arrive(m)
    PROVE  Typed'
<1>1. CASE Day
  BY <1>1, SyncAssumption DEF Day, Typed, SyncTypeOK, SaverInv, rows, Days
<1>2. CASE Crash
  <2>1. /\ Idle \in JobType /\ Idle.at = "idle"
        /\ Stopped("failed") \in JobType /\ Stopped("failed").at = "failed"
    BY JobShape DEF Ended, Stopped, Idle
  <2>2. JobTyped
    BY <1>2, <2>1 DEF Crash, JobTyped, Typed, SyncTypeOK, Working
  <2>3. /\ saver' \in [Savers -> [at : {"idle", "insert", "over"}, conn : Conns \union {NoConn},
                                  box : Boxes \union {NoBox}]]
        /\ SaverInv'
    BY <1>2 DEF Crash, Over, Typed, SyncTypeOK, SaverInv
  <2>4. pass' \in [at : {"visiting", "asleep"}, day : Days,
                   listed : SUBSET [id : Conns, last : Days \union {Never}]]
    BY <1>2, SyncAssumption DEF Crash, Resting, Days
  <2> QED
    BY <1>2, <2>2, <2>3, <2>4 DEF Crash, Typed, SyncTypeOK, rows, JobTyped
<1>3. ASSUME NEW m \in Messages, Arrive(m) PROVE Typed'
  BY <1>3 DEF Arrive, Typed, SyncTypeOK, SaverInv, rows
<1> QED
  BY <1>1, <1>2, <1>3

LEMMA TypesKept == ASSUME Typed, [SyncNext]_syncVars PROVE Typed'
<1>1. CASE UNCHANGED syncVars
  BY <1>1 DEF syncVars, rows, Typed, SyncTypeOK, SaverInv
<1>2. CASE SyncNext
  BY <1>2, FetchingKeepsTypes, LoopKeepsTypes, SaversKeepTypes, RequestsKeepTypes,
     WorldKeepsTypes DEF SyncNext, LoopStep, Actors
<1> QED
  BY <1>1, <1>2

----------------------------------------------------------------------------
\* What only grows: the uploads, and the days, by what arrives today.

OnlyGrow ==
    /\ uploads \subseteq uploads'
    /\ today' \in Int /\ today <= today'
    /\ \A m \in Messages : date'[m] # date[m] => date'[m] = today

LEMMA Growing == ASSUME Typed, [SyncNext]_syncVars PROVE OnlyGrow
<1>0. today \in Int /\ date \in [Messages -> Days \union {NotYet}]
  BY DEF Typed, SyncTypeOK, Days
<1>1. CASE Day
  BY <1>0, <1>1 DEF Day, OnlyGrow
<1>2. ASSUME NEW m \in Messages, Arrive(m) PROVE OnlyGrow
  BY <1>0, <1>2 DEF Arrive, OnlyGrow
<1>3. ASSUME NEW a \in Actors, Fetching(a) PROVE OnlyGrow
  <2>1. UNCHANGED <<date, today>>
    BY <1>3 DEF Fetching, ReadCredentials, Fetch, Ingest, Answer, Break, RecordSuccess,
                RecordFailure, LoseOutcome
  <2>2. uploads \subseteq uploads'
    BY <1>3 DEF Fetching, ReadCredentials, Fetch, Ingest, Answer, Break, RecordSuccess,
                RecordFailure, LoseOutcome
  <2> QED
    BY <1>0, <2>1, <2>2 DEF OnlyGrow
<1>4. ASSUME UNCHANGED <<uploads, date, today>> PROVE OnlyGrow
  BY <1>0, <1>4 DEF OnlyGrow
<1>5. CASE \/ StartPass \/ FailPass \/ Visit \/ EndPass
           \/ \E r \in Requests : AskBuild(r) \/ \E c \in Clicked : Ask(r, c)
  <2>1. UNCHANGED <<uploads, date, today>>
    BY <1>5 DEF StartPass, FailPass, Visit, EndPass, AskBuild, Ask
  <2> QED
    BY <1>4, <2>1
<1>6. CASE \/ \E s \in Savers : EndSave(s) \/ FailSave(s)
           \/ \E s \in Savers, c \in Clicked : Delete(s, c) \/ \E b \in Boxes : BeginSave(s, c, b)
  <2>1. UNCHANGED <<uploads, date, today>>
    BY <1>6 DEF EndSave, FailSave, Delete, BeginSave
  <2> QED
    BY <1>4, <2>1
<1>7. CASE Crash \/ UNCHANGED syncVars
  <2>1. UNCHANGED <<uploads, date, today>>
    BY <1>7 DEF Crash, syncVars
  <2> QED
    BY <1>4, <2>1
<1> QED
  BY <1>1, <1>2, <1>3, <1>5, <1>6, <1>7 DEF SyncNext, LoopStep, Actors

\* What was covered up to a moment stays so when nobody's clock is ahead.
LEMMA CoveredFrame ==
    ASSUME Typed, OnlyGrow, NEW j \in JobType, j.stamp <= today, Covered(j)
    PROVE  Covered(j)'
<1> SUFFICES ASSUME NEW m \in Messages, BoxOf[m] = j.box, date'[m] # NotYet,
                    date'[m] \in j.from..j.to, date'[m] < j.stamp,
                    NEW p \in Parts[m], KindOf[p] = "statement"
             PROVE  p \in uploads' \union j.files
  BY DEF Covered
<1>1. j.stamp \in Int /\ today \in Int
  BY DEF JobType, Days, Typed
<1>2. date'[m] = date[m]
  BY <1>1 DEF OnlyGrow
<1> QED
  BY <1>2 DEF Covered, OnlyGrow

LEMMA FoundFrame ==
    ASSUME Typed, OnlyGrow, ClockInv, NEW a \in Actors, job'[a] = job[a], FoundInv(a)
    PROVE  FoundInv(a)'
<1>1. job[a] \in JobType /\ job[a].stamp <= today
  BY DEF Typed, SyncTypeOK, ClockInv
<1>2. job[a].at = "ingest" => Covered(job[a])'
  BY <1>1, CoveredFrame DEF FoundInv
<1> QED
  BY <1>2 DEF FoundInv, OnlyGrow, Covered, Owing, Owed

\* A fetch that stopped, or has yet to search, owes nothing.
LEMMA NothingFound ==
    ASSUME NEW a \in Actors, job'[a].at \notin {"ingest", "synced", "answered"}
    PROVE  FoundInv(a)'
  BY DEF FoundInv

LEMMA StampsKept ==
    ASSUME Typed, ClockInv, [SyncNext]_syncVars
    PROVE  ClockInv'
<1>0. /\ OnlyGrow /\ today \in Int /\ 0 <= today /\ Typed' /\ pass.day \in Int
      /\ job \in [Actors -> JobType] /\ Loop \in Actors
      /\ Idle.stamp = 0 /\ \A at : Stopped(at).stamp = 0
      /\ \A a \in Actors : job[a].stamp \in Int /\ job[a] \in JobType
      /\ \A c \in Conns : conn[c].last \in Int
  <2>1. \A c \in Conns : conn[c].last \in Int
    BY DEF Typed, SyncTypeOK, RowType, Days, Never, Absent, Fresh
  <2> QED
    BY <2>1, Growing, TypesKept DEF Typed, SyncTypeOK, Days, JobType, Actors, Idle, Stopped
<1>1. ASSUME NEW a \in Actors, Fetching(a) PROVE ClockInv'
  <2>1. UNCHANGED today /\ (pass' = pass \/ pass' = Resting("asleep"))
    BY <1>1 DEF Fetching, ReadCredentials, Fetch, Ingest, Answer, Break, RecordSuccess,
                RecordFailure, LoseOutcome
  <2>2. \A k \in Actors : job'[k].stamp <= today'
    <3>1. CASE ReadCredentials(a)
      BY <1>0, <2>1, <3>1 DEF ReadCredentials, ClockInv, JobType
    <3>2. CASE Fetch(a)
      BY <1>0, <2>1, <3>2 DEF Fetch, ClockInv, JobType
    <3>3. CASE Ingest(a)
      BY <1>0, <2>1, <3>3 DEF Ingest, ClockInv, JobType
    <3>4. CASE Answer(a) \/ RecordSuccess(a)
      <4>1. Answered(job[a]).stamp = 0
        BY DEF Answered, Idle
      <4> QED
        BY <1>0, <2>1, <3>4, <4>1 DEF Answer, RecordSuccess, ClockInv
    <3>5. CASE Break(a)
      <4> DEFINE to == [Stopped("fail") EXCEPT !.conn = job[a].conn, !.box = job[a].box,
                                               !.stamp = job[a].stamp]
      <4>1. to.stamp = job[a].stamp
        BY DEF Stopped, Idle
      <4>2. job' = [job EXCEPT ![a] = Stopped("failed")] \/ job' = [job EXCEPT ![a] = to]
        BY <3>5 DEF Break
      <4> HIDE DEF to
      <4> QED
        BY <1>0, <2>1, <4>1, <4>2 DEF ClockInv
    <3>6. CASE RecordFailure(a)
      BY <1>0, <2>1, <3>6 DEF RecordFailure, ClockInv
    <3>7. CASE LoseOutcome(a)
      <4> DEFINE again == [job[a] EXCEPT !.at = "fail again"]
      <4>1. again.stamp = job[a].stamp
        BY <1>0 DEF JobType
      <4>2. \E out \in {Stopped("failed"), Idle, again} : job' = [job EXCEPT ![a] = out]
        BY <3>7 DEF LoseOutcome
      <4>3. Stopped("failed").stamp = 0 /\ Idle.stamp = 0
        BY <1>0
      <4> HIDE DEF again
      <4>4. PICK out \in {Stopped("failed"), Idle, again} : job' = [job EXCEPT ![a] = out]
        BY <4>2
      <4>5. out.stamp = 0 \/ out.stamp = job[a].stamp
        <5>1. out = Stopped("failed") \/ out = Idle \/ out = again
          BY <4>4
        <5> QED
          BY <4>1, <4>3, <5>1
      <4> QED
        BY <1>0, <2>1, <4>4, <4>5 DEF ClockInv
    <3> QED
      BY <1>1, <3>1, <3>2, <3>3, <3>4, <3>5, <3>6, <3>7 DEF Fetching
  <2>3. \A c \in Conns : conn'[c].last <= today'
    <3>1. CASE RecordSuccess(a)
      <4>1. ASSUME Held(job[a].conn) PROVE [conn[job[a].conn] EXCEPT !.last = job[a].stamp].last = job[a].stamp
        BY <3>1, <4>1, HeldBox DEF RecordSuccess, RowType, Typed, SyncTypeOK, JobType
      <4>2. job[a].conn \in Conns
        BY <3>1 DEF RecordSuccess, Typed, SyncTypeOK, JobType
      <4>3. ASSUME NEW c \in Conns PROVE conn'[c] = conn[c] \/ conn'[c].last = job[a].stamp
        BY <3>1, <4>1, <4>2 DEF RecordSuccess, WriteOutcome, Typed, SyncTypeOK
      <4> QED
        BY <2>1, <4>3 DEF ClockInv
    <3>2. CASE RecordFailure(a)
      <4>1. conn' = conn
        BY <3>2 DEF RecordFailure, WriteOutcome, FailedRow, Typed, SyncTypeOK
      <4> QED
        BY <2>1, <4>1 DEF ClockInv
    <3>3. CASE \/ ReadCredentials(a) \/ Fetch(a) \/ Ingest(a) \/ Answer(a) \/ Break(a)
               \/ LoseOutcome(a)
      BY <2>1, <3>3 DEF ReadCredentials, Fetch, Ingest, Answer, Break, LoseOutcome, rows, ClockInv
    <3> QED
      BY <1>1, <3>1, <3>2, <3>3 DEF Fetching
  <2> QED
    BY <1>0, <2>1, <2>2, <2>3 DEF ClockInv, Resting
<1>2. CASE StartPass \/ FailPass \/ EndPass
  BY <1>0, <1>2 DEF StartPass, FailPass, EndPass, Resting, ClockInv, rows, Typed, SyncTypeOK
<1>3. CASE Visit
  <2>1. PICK row \in pass.listed :
           /\ pass' = [pass EXCEPT !.listed = @ \ {row}]
           /\ IF IsDue(row.last, pass.day)
              THEN job' = [job EXCEPT ![Loop] =
                     [Idle EXCEPT !.at = "credentials", !.conn = row.id,
                                  !.from = DefaultWindow(row.id, pass.day).from,
                                  !.to = pass.day, !.stamp = pass.day]]
              ELSE job' = [job EXCEPT ![Loop] = Idle]
    BY <1>3 DEF Visit
  <2>2. UNCHANGED <<rows, today>>
    BY <1>3 DEF Visit
  <2> DEFINE to == [Idle EXCEPT !.at = "credentials", !.conn = row.id,
                                !.from = DefaultWindow(row.id, pass.day).from,
                                !.to = pass.day, !.stamp = pass.day]
  <2>3. to.stamp = pass.day
    BY DEF Idle
  <2>4. job' = [job EXCEPT ![Loop] = to] \/ job' = [job EXCEPT ![Loop] = Idle]
    BY <2>1
  <2>5. pass'.day = pass.day
    BY <2>1 DEF Typed, SyncTypeOK
  <2> HIDE DEF to
  <2> QED
    BY <1>0, <2>2, <2>3, <2>4, <2>5 DEF ClockInv, rows
<1>4. ASSUME NEW r \in Requests, AskBuild(r) \/ \E c \in Clicked : Ask(r, c)
      PROVE  ClockInv'
  <2>1. UNCHANGED <<rows, pass, today>>
    BY <1>4 DEF AskBuild, Ask
  <2>2. r \in Actors /\ job'[r].stamp = today /\ \A k \in Actors \ {r} : job'[k] = job[k]
    BY <1>0, <1>4 DEF AskBuild, Ask, Idle, Actors
  <2> QED
    BY <1>0, <2>1, <2>2 DEF ClockInv, rows
<1>5. ASSUME NEW s \in Savers,
             \/ EndSave(s) \/ FailSave(s)
             \/ \E c \in Clicked : Delete(s, c) \/ \E b \in Boxes : BeginSave(s, c, b)
      PROVE  ClockInv'
  <2>1. UNCHANGED <<job, pass, today>>
    BY <1>5 DEF EndSave, FailSave, Delete, BeginSave
  <2>2. \A c \in Conns : conn'[c] = conn[c] \/ conn'[c].last = Never
    BY <1>5 DEF EndSave, FailSave, Delete, BeginSave, Remove, Fresh, Absent, rows, Typed, SyncTypeOK
  <2> QED
    BY <1>0, <2>1, <2>2 DEF ClockInv, Never
<1>6. CASE Day \/ \E m \in Messages : Arrive(m)
  BY <1>0, <1>6 DEF Day, Arrive, ClockInv, rows
<1>7. CASE Crash
  BY <1>0, <1>7 DEF Crash, ClockInv, Resting, rows
<1>8. CASE UNCHANGED syncVars
  BY <1>8 DEF ClockInv, syncVars, rows
<1> QED
  BY <1>1, <1>2, <1>3, <1>4, <1>5, <1>6, <1>7, <1>8 DEF SyncNext, LoopStep, Actors

----------------------------------------------------------------------------
\* What a fetch has found, and what a success says of it.

LEMMA FetchingKeepsFound ==
    ASSUME Typed, ClockInv, NEW a \in Actors, FoundInv(a), Fetching(a), OnlyGrow
    PROVE  FoundInv(a)'
<1> DEFINE j == job[a]
<1>0. /\ j \in JobType /\ job \in [Actors -> JobType] /\ j.stamp \in Int
      /\ Stopped("failed").at = "failed" /\ Idle.at = "idle"
  BY DEF Typed, SyncTypeOK, JobType, Days, Stopped, Idle
<1>1. CASE ReadCredentials(a)
  <2>1. job'[a].at \in {"fetch", "failed"}
    BY <1>0, <1>1 DEF ReadCredentials, JobType
  <2> QED
    BY <2>1, NothingFound
<1>2. CASE Fetch(a)
  <2> DEFINE found == StatementParts(j)
             files == {p \in found : Fetched(p)}
             to == [j EXCEPT !.at = "ingest", !.found = found,
                             !.files = files, !.skipped = LastSkipped(j)]
  <2>1. job'[a] = to
    BY <1>0, <1>2 DEF Fetch, JobType
  <2>2. /\ to.at = "ingest" /\ to.found = found /\ to.files = files /\ to.conn = j.conn
        /\ to.skipped = LastSkipped(j) /\ to.box = j.box /\ to.from = j.from /\ to.to = j.to
    BY <1>0 DEF JobType
  <2>3. UNCHANGED <<uploads, date>>
    BY <1>2 DEF Fetch
  <2>4. ASSUME NEW m \in Messages, BoxOf[m] = j.box, date[m] # NotYet, date[m] \in j.from..j.to,
               NEW p \in Parts[m], KindOf[p] = "statement"
        PROVE  p \in files
    BY <2>4 DEF StatementParts, Search, IsFile, Wanted, Fetched
  <2>5. \A p \in found : Fetched(p) \/ (j.conn # NoConn /\ ~Wanted(p))
                            => p \in files \union LastSkipped(j)
    BY DEF LastSkipped
  <2>6. /\ job'[a].at = "ingest" /\ job'[a].found = found /\ job'[a].files = files
        /\ job'[a].skipped = LastSkipped(j) /\ job'[a].box = j.box /\ job'[a].from = j.from
        /\ job'[a].to = j.to /\ job'[a].conn = j.conn
    BY <2>1, <2>2
  <2> HIDE DEF to, found, files
  <2>7. Covered(job[a])'
    BY <2>3, <2>4, <2>6 DEF Covered
  <2>8. Owing(job'[a]) \subseteq files \union LastSkipped(j)
    BY <2>5, <2>6 DEF Owing
  <2> QED
    BY <2>6, <2>7, <2>8 DEF FoundInv, Owing
<1>3. CASE Ingest(a)
  <2>1. PICK p \in j.files :
           IF Ingestible(p)
           THEN /\ uploads' = uploads \union {p}
                /\ job' = [job EXCEPT ![a].files = @ \ {p}]
           ELSE /\ job' = [job EXCEPT ![a].files = @ \ {p}, ![a].skipped = @ \union SkipOf(p)]
                /\ UNCHANGED uploads
    BY <1>3 DEF Ingest
  <2>2. UNCHANGED date /\ j.at = "ingest"
    BY <1>3 DEF Ingest
  <2>3. /\ job'[a].at = "ingest" /\ job'[a].found = j.found /\ job'[a].files = j.files \ {p}
        /\ job'[a].box = j.box /\ job'[a].from = j.from /\ job'[a].to = j.to
        /\ job'[a].stamp = j.stamp /\ job'[a].conn = j.conn
        /\ job'[a].skipped = IF Ingestible(p) THEN j.skipped ELSE j.skipped \union SkipOf(p)
    <3>1. CASE Ingestible(p)
      BY <1>0, <2>1, <2>2, <3>1 DEF JobType
    <3>2. CASE ~Ingestible(p)
      <4> DEFINE to == [j EXCEPT !.files = @ \ {p}, !.skipped = @ \union SkipOf(p)]
      <4>1. job'[a] = to
        BY <1>0, <2>1, <3>2 DEF JobType
      <4>2. /\ to.at = j.at /\ to.found = j.found /\ to.files = j.files \ {p}
            /\ to.box = j.box /\ to.from = j.from /\ to.to = j.to
            /\ to.stamp = j.stamp /\ to.conn = j.conn /\ to.skipped = j.skipped \union SkipOf(p)
        BY <1>0 DEF JobType
      <4> HIDE DEF to
      <4> QED
        BY <2>2, <3>2, <4>1, <4>2
    <3> QED
      BY <3>1, <3>2
  <2>4. Owing(job'[a]) \subseteq uploads' \union job'[a].skipped \union job'[a].files
    BY <2>1, <2>2, <2>3 DEF FoundInv, SkipOf, Owing
  <2>5. Covered(job[a])'
    BY <2>1, <2>2, <2>3 DEF FoundInv, Covered, Ingestible
  <2> QED
    BY <2>3, <2>4, <2>5 DEF FoundInv, Owing
<1>4. CASE Answer(a) \/ RecordSuccess(a)
  <2>1. job'[a] = Answered(j) /\ Stored(a) /\ uploads' = uploads
    BY <1>0, <1>4 DEF Answer, RecordSuccess
  <2>2. /\ Answered(j).at = IF j.conn = NoConn THEN "answered" ELSE "synced"
        /\ Answered(j).found = j.found /\ Answered(j).skipped = j.skipped
    BY DEF Answered, Idle
  <2>3. Owed(Answered(j)) = Owing(j)
    BY <2>2 DEF Owed, Owing
  <2>4. job'[a].at # "ingest"
    BY <2>1, <2>2
  <2>5. Owing(j) \subseteq uploads \union j.skipped
    BY <2>1 DEF FoundInv, Stored
  <2> HIDE DEF j
  <2>6. Owed(job'[a]) \subseteq uploads' \union job'[a].skipped
    BY <2>1, <2>2, <2>3, <2>5
  <2> QED
    BY <2>4, <2>6 DEF FoundInv, Owed
<1>5. CASE Break(a)
  <2> DEFINE to == [Stopped("fail") EXCEPT !.conn = j.conn, !.box = j.box, !.stamp = j.stamp]
  <2>1. to.at = "fail"
    BY DEF Stopped, Idle
  <2>2. job'[a] = Stopped("failed") \/ job'[a] = to
    BY <1>0, <1>5 DEF Break
  <2> HIDE DEF to
  <2>3. job'[a].at \notin {"ingest", "synced", "answered"}
    BY <1>0, <2>1, <2>2
  <2> QED
    BY <2>3, NothingFound
<1>6. CASE RecordFailure(a) \/ LoseOutcome(a)
  <2>1. job'[a].at \notin {"ingest", "synced", "answered"}
    BY <1>0, <1>6 DEF RecordFailure, LoseOutcome, JobType
  <2> QED
    BY <2>1, NothingFound
<1> QED
  BY <1>1, <1>2, <1>3, <1>4, <1>5, <1>6 DEF Fetching

LEMMA FoundKept ==
    ASSUME Typed, ClockInv, [SyncNext]_syncVars, NEW k \in Actors, FoundInv(k)
    PROVE  FoundInv(k)'
<1>0. OnlyGrow /\ job \in [Actors -> JobType] /\ Idle.at = "idle" /\ Loop \in Actors
  BY Growing DEF Typed, SyncTypeOK, Idle, Actors
<1>1. ASSUME job'[k] = job[k] PROVE FoundInv(k)'
  BY <1>0, <1>1, FoundFrame
<1>2. ASSUME NEW a \in Actors, Fetching(a) PROVE FoundInv(k)'
  <2>1. CASE a = k
    BY <1>0, <1>2, <2>1, FetchingKeepsFound
  <2>2. CASE a # k
    <3>1. \E to : job' = [job EXCEPT ![a] = to]
      <4>1. CASE Fetch(a)
        BY <1>0, <4>1 DEF Fetch
      <4>2. CASE Ingest(a)
        BY <1>0, <4>2 DEF Ingest
      <4>3. CASE \/ ReadCredentials(a) \/ Answer(a) \/ Break(a) \/ RecordSuccess(a)
                 \/ RecordFailure(a) \/ LoseOutcome(a)
        BY <1>0, <4>3 DEF ReadCredentials, Answer, Break, RecordSuccess, RecordFailure,
                          LoseOutcome
      <4> QED
        BY <1>2, <4>1, <4>2, <4>3 DEF Fetching
    <3> QED
      BY <1>0, <1>1, <2>2, <3>1
  <2> QED
    BY <2>1, <2>2
<1>3. CASE FailPass \/ EndPass
  BY <1>0, <1>1, <1>3, NothingFound DEF FailPass, EndPass
<1>4. CASE Visit
  <2>1. job'[k] = job[k] \/ job'[k] = Idle \/ job'[k].at = "credentials"
    <3>1. PICK row \in pass.listed :
             \/ job' = [job EXCEPT ![Loop] = Idle]
             \/ job' = [job EXCEPT ![Loop] =
                    [Idle EXCEPT !.at = "credentials", !.conn = row.id,
                                 !.from = DefaultWindow(row.id, pass.day).from,
                                 !.to = pass.day, !.stamp = pass.day]]
      BY <1>4 DEF Visit
    <3> DEFINE to == [Idle EXCEPT !.at = "credentials", !.conn = row.id,
                                  !.from = DefaultWindow(row.id, pass.day).from,
                                  !.to = pass.day, !.stamp = pass.day]
    <3>2. to.at = "credentials"
      BY DEF Idle
    <3>3. job' = [job EXCEPT ![Loop] = Idle] \/ job' = [job EXCEPT ![Loop] = to]
      BY <3>1
    <3> HIDE DEF to
    <3> QED
      BY <1>0, <3>2, <3>3
  <2> QED
    BY <1>0, <1>1, <2>1, NothingFound
<1>5. ASSUME NEW r \in Requests, AskBuild(r) \/ \E c \in Clicked : Ask(r, c)
      PROVE  FoundInv(k)'
  <2>1. job'[k] = job[k] \/ job'[k].at \in {"credentials", "fetch"}
    <3>1. job'[r].at \in {"credentials", "fetch"} /\ \A a \in Actors \ {r} : job'[a] = job[a]
      BY <1>0, <1>5 DEF AskBuild, Ask, Idle, Actors
    <3> QED
      BY <3>1
  <2> QED
    BY <1>1, <2>1, NothingFound
<1>6. CASE Crash
  <2>1. job'[k] = Idle \/ job'[k] = Stopped("failed") \/ job'[k] = job[k]
    BY <1>6 DEF Crash
  <2>2. Stopped("failed").at = "failed"
    BY DEF Stopped, Idle
  <2> QED
    BY <1>0, <1>1, <2>1, <2>2, NothingFound
<1>7. CASE \/ StartPass \/ Day \/ \E m \in Messages : Arrive(m)
           \/ \E s \in Savers : EndSave(s) \/ FailSave(s)
           \/ \E s \in Savers, c \in Clicked : Delete(s, c) \/ \E b \in Boxes : BeginSave(s, c, b)
           \/ UNCHANGED syncVars
  <2>1. job' = job
    BY <1>7 DEF StartPass, Day, Arrive, EndSave, FailSave, Delete, BeginSave, syncVars
  <2> QED
    BY <1>1, <2>1
<1> QED
  BY <1>2, <1>3, <1>4, <1>5, <1>6, <1>7 DEF SyncNext, LoopStep, Actors

\* Only statements are stored.
LEMMA StoredKept ==
    ASSUME Typed, StoredInv, [SyncNext]_syncVars
    PROVE  StoredInv'
<1>1. \/ uploads' = uploads
      \/ \E a \in Actors : Ingest(a)
  <2>1. ASSUME NEW a \in Actors, Fetching(a) PROVE uploads' = uploads \/ Ingest(a)
    BY <2>1 DEF Fetching, ReadCredentials, Fetch, Answer, Break, RecordSuccess,
                RecordFailure, LoseOutcome
  <2>2. CASE ~\E a \in Actors : Fetching(a)
    <3>1. CASE \/ StartPass \/ FailPass \/ Visit \/ EndPass
               \/ \E r \in Requests : AskBuild(r) \/ \E c \in Clicked : Ask(r, c)
      BY <3>1 DEF StartPass, FailPass, Visit, EndPass, AskBuild, Ask
    <3>2. CASE \/ \E s \in Savers : EndSave(s) \/ FailSave(s)
               \/ \E s \in Savers, c \in Clicked : Delete(s, c) \/ \E b \in Boxes : BeginSave(s, c, b)
      BY <3>2 DEF EndSave, FailSave, Delete, BeginSave
    <3>3. CASE Day \/ Crash \/ UNCHANGED syncVars \/ \E m \in Messages : Arrive(m)
      BY <3>3 DEF Day, Crash, Arrive, syncVars
    <3> QED
      BY <2>2, <3>1, <3>2, <3>3 DEF SyncNext, LoopStep, Actors
  <2> QED
    BY <2>1, <2>2
<1>2. ASSUME NEW a \in Actors, Ingest(a) PROVE StoredInv'
  BY <1>2 DEF Ingest, Ingestible, StoredInv
<1> QED
  BY <1>1, <1>2 DEF StoredInv

----------------------------------------------------------------------------
\* No hole behind a sync.

LEMMA HoleFrame ==
    ASSUME Typed, ClockInv, OnlyGrow, NEW c \in Conns,
           conn'[c] = conn[c], readBy'[c] = readBy[c],
           Held(c) /\ readBy[c] = conn[c].box => ReadUpTo(conn[c].box, conn[c].last)
    PROVE  (Held(c) /\ readBy[c] = conn[c].box => ReadUpTo(conn[c].box, conn[c].last))'
<1> SUFFICES ASSUME Held(c), readBy[c] = conn[c].box,
                    NEW m \in Messages, BoxOf[m] = conn[c].box, date'[m] # NotYet,
                    date'[m] \in conn[c].last - Window..conn[c].last - 1,
                    NEW p \in Parts[m], KindOf[p] = "statement"
             PROVE  p \in uploads'
  BY DEF ReadUpTo, Held
<1>1. conn[c].last \in Int /\ conn[c].last <= today /\ today \in Int /\ Window \in Int
  BY HeldBox, SyncAssumption DEF RowType, Days, Never, ClockInv, Typed
<1>2. date'[m] = date[m]
  BY <1>1 DEF OnlyGrow
<1> QED
  BY <1>2 DEF ReadUpTo, OnlyGrow

\* A new row was never read, and nothing arrives before the first day.
LEMMA FreshHole ==
    ASSUME Typed', NEW c \in Conns, conn'[c].last = Never
    PROVE  ReadUpTo(conn[c].box, conn[c].last)'
<1>1. \A m \in Messages : date'[m] # NotYet => date'[m] >= 0
  BY SyncAssumption DEF Typed, SyncTypeOK, Days
<1>2. Window \in Nat
  BY SyncAssumption
<1> QED
  BY <1>1, <1>2 DEF ReadUpTo, Never, NotYet

LEMMA HolesKept ==
    ASSUME Typed, ClockInv, \A a \in Actors : FoundInv(a), NoHoleBehindASync,
           [SyncNext]_syncVars
    PROVE  NoHoleBehindASync'
<1>0. OnlyGrow /\ Typed'
  BY Growing, TypesKept
<1> SUFFICES ASSUME NEW c \in Conns
             PROVE (Held(c) /\ readBy[c] = conn[c].box => ReadUpTo(conn[c].box, conn[c].last))'
  BY DEF NoHoleBehindASync
<1> DEFINE Behind == Held(c) /\ readBy[c] = conn[c].box => ReadUpTo(conn[c].box, conn[c].last)
<1>1. ASSUME conn'[c] = conn[c], readBy'[c] = readBy[c] PROVE Behind'
  BY <1>0, <1>1, HoleFrame DEF NoHoleBehindASync
<1>2. ASSUME NEW a \in Actors, RecordSuccess(a) PROVE Behind'
  <2>1. CASE c # job[a].conn
    BY <1>1, <1>2, <2>1 DEF RecordSuccess, WriteOutcome, Typed, SyncTypeOK
  <2>2. CASE c = job[a].conn /\ ~Held(c)
    <3>1. conn' = conn
      BY <1>2, <2>2 DEF RecordSuccess, WriteOutcome
    <3> QED
      BY <2>2, <3>1 DEF Held
  <2>3. CASE c = job[a].conn /\ Held(c)
    <3> DEFINE j == job[a]
    <3>1. conn[c] \in RowType /\ conn[c].box \in Boxes
      BY <2>3, HeldBox
    <3>2. conn'[c].box = conn[c].box /\ conn'[c].last = j.stamp
      BY <1>2, <2>3, <3>1 DEF RecordSuccess, WriteOutcome, RowType, Typed, SyncTypeOK
    <3>3. readBy'[c] = IF IsDefaultWindow(j) THEN j.box ELSE NoBox
      BY <1>2, <2>3 DEF RecordSuccess, Typed, SyncTypeOK
    <3> SUFFICES ASSUME readBy'[c] = conn'[c].box PROVE ReadUpTo(conn[c].box, conn[c].last)'
      OBVIOUS
    <3>4. IsDefaultWindow(j) /\ j.box = conn[c].box
      BY <3>1, <3>2, <3>3, SyncAssumption
    <3>5. UNCHANGED <<uploads, date>> /\ Covered(j) /\ j.files = {}
      BY <1>2 DEF RecordSuccess, Stored, FoundInv
    <3>6. j.stamp \in Int /\ j.from \in Int /\ Window \in Int
      BY SyncAssumption DEF Typed, SyncTypeOK, JobType, Days
    <3> SUFFICES ASSUME NEW m \in Messages, BoxOf[m] = conn[c].box, date[m] # NotYet,
                        date[m] \in j.stamp - Window..j.stamp - 1,
                        NEW p \in Parts[m], KindOf[p] = "statement"
                 PROVE  p \in uploads
      BY <3>2, <3>5 DEF ReadUpTo
    <3>7. date[m] \in j.from..j.to /\ date[m] < j.stamp
      BY <3>4, <3>6 DEF IsDefaultWindow
    <3> QED
      BY <3>4, <3>5, <3>7 DEF Covered
  <2> QED
    BY <2>1, <2>2, <2>3
<1>3. ASSUME NEW a \in Actors, Fetching(a), ~RecordSuccess(a) PROVE Behind'
  <2>1. UNCHANGED rows
    <3>1. CASE RecordFailure(a)
      BY <3>1 DEF RecordFailure, WriteOutcome, FailedRow, rows, Typed, SyncTypeOK
    <3>2. CASE ~RecordFailure(a)
      BY <1>3, <3>2 DEF Fetching, ReadCredentials, Fetch, Ingest, Answer, Break, LoseOutcome
    <3> QED
      BY <3>1, <3>2
  <2> QED
    BY <1>1, <2>1 DEF rows
<1>4. ASSUME NEW d \in Conns, Remove(d) PROVE Behind'
  <2>1. CASE c = d
    BY <1>4, <2>1 DEF Remove, Held, Typed, SyncTypeOK
  <2>2. CASE c # d
    BY <1>1, <1>4, <2>2 DEF Remove, Typed, SyncTypeOK
  <2> QED
    BY <2>1, <2>2
<1>5. ASSUME NEW s \in Savers, EndSave(s) PROVE Behind'
  <2>1. conn'[c] = conn[c] \/ conn'[c].last = Never
    BY <1>5 DEF EndSave, Fresh, Typed, SyncTypeOK
  <2>2. readBy' = readBy
    BY <1>5 DEF EndSave
  <2> QED
    BY <1>0, <1>1, <2>1, <2>2, FreshHole
<1>6. CASE \E s \in Savers, d \in Clicked : Delete(s, d) \/ \E b \in Boxes : BeginSave(s, d, b)
  BY <1>4, <1>6, SyncAssumption DEF Delete, BeginSave
<1>7. CASE \/ StartPass \/ FailPass \/ Visit \/ EndPass
           \/ \E r \in Requests : AskBuild(r) \/ \E d \in Clicked : Ask(r, d)
           \/ \E s \in Savers : FailSave(s)
           \/ \E m \in Messages : Arrive(m)
           \/ Day \/ Crash \/ UNCHANGED syncVars
  <2>1. UNCHANGED rows
    BY <1>7 DEF StartPass, FailPass, Visit, EndPass, AskBuild, Ask, FailSave, Arrive, Day,
                Crash, syncVars
  <2> QED
    BY <1>1, <2>1 DEF rows
<1> QED
  BY <1>2, <1>3, <1>5, <1>6, <1>7 DEF SyncNext, LoopStep, Actors

----------------------------------------------------------------------------
\* The theorems.

LEMMA InitInv == SyncInit => SyncInv
<1> SUFFICES ASSUME SyncInit PROVE SyncInv
  OBVIOUS
<1>1. Typed
  <2>1. conn \in [Conns -> RowType \union {Absent}]
    BY RowShape, SyncAssumption DEF SyncInit
  <2>2. 0 \in Days
    BY SyncAssumption DEF Days
  <2> QED
    BY <2>1, <2>2, JobShape DEF SyncInit, Typed, SyncTypeOK, SaverInv, Idle, Resting
<1>2. ClockInv
  BY DEF SyncInit, ClockInv, Idle, Resting, Fresh, Never
<1>3. \A a \in Actors : FoundInv(a)
  BY DEF SyncInit, FoundInv, Idle
<1>4. NoHoleBehindASync
  BY HeldBox, <1>1, SyncAssumption DEF SyncInit, NoHoleBehindASync
<1> QED
  BY <1>1, <1>2, <1>3, <1>4 DEF SyncInv, StoredInv, SyncInit

\* The fetches in hand, the rows and the uploads fit each other in every
\* reachable state.
THEOREM SyncInvariance == SyncSafety => []SyncInv
<1>1. ASSUME SyncInv, [SyncNext]_syncVars PROVE SyncInv'
  BY <1>1, TypesKept, StampsKept, FoundKept, StoredKept, HolesKept DEF SyncInv
<1> QED
  BY <1>1, InitInv, PTL DEF SyncSafety

\* Whatever failed, stopped or overtook a fetch, a row that says it was synced
\* has every statement of its window behind it.
THEOREM NoHole == SyncSafety => []NoHoleBehindASync
<1>1. SyncInv => NoHoleBehindASync
  BY DEF SyncInv
<1> QED
  BY <1>1, SyncInvariance, PTL

\* A fetch that answers success stored or skipped every file it owes an
\* account of, on either route.
THEOREM FilesAccounted == SyncSafety => []EveryFileIsAccounted
<1>1. SyncInv => EveryFileIsAccounted
  BY DEF SyncInv, EveryFileIsAccounted, FoundInv, StoredInv
<1> QED
  BY <1>1, SyncInvariance, PTL

\* No outcome of a fetch in flight brings back a mailbox that was replaced.
THEOREM Revocation == SyncSafety => RevokedStaysRevoked
<1>1. ASSUME SyncInv, [SyncNext]_syncVars
      PROVE  [\A c \in Conns : conn'[c].box # conn[c].box =>
                \E s \in Savers : saver'[s] # saver[s] /\ saver'[s].conn = c]_syncVars
  <2> SUFFICES ASSUME NEW c \in Conns, conn'[c].box # conn[c].box
               PROVE  \E s \in Savers : saver'[s] # saver[s] /\ saver'[s].conn = c
    OBVIOUS
  <2>0. Typed
    BY <1>1 DEF SyncInv
  <2>1. ASSUME NEW a \in Actors, Fetching(a) PROVE FALSE
    <3>1. CASE RecordSuccess(a)
      <4>1. ASSUME Held(c) PROVE [conn[c] EXCEPT !.last = job[a].stamp].box = conn[c].box
        BY <2>0, <4>1, HeldBox DEF RowType
      <4> QED
        BY <2>0, <3>1, <4>1 DEF RecordSuccess, WriteOutcome, Typed, SyncTypeOK
    <3>2. CASE RecordFailure(a)
      BY <2>0, <3>2 DEF RecordFailure, WriteOutcome, FailedRow, Typed, SyncTypeOK
    <3>3. CASE \/ ReadCredentials(a) \/ Fetch(a) \/ Ingest(a) \/ Answer(a) \/ Break(a)
               \/ LoseOutcome(a)
      BY <3>3 DEF ReadCredentials, Fetch, Ingest, Answer, Break, LoseOutcome, rows
    <3> QED
      BY <2>1, <3>1, <3>2, <3>3 DEF Fetching
  <2>2. ASSUME NEW s \in Savers, EndSave(s) PROVE saver'[s] # saver[s] /\ saver'[s].conn = c
    BY <2>0, <2>2 DEF EndSave, Over, Typed, SyncTypeOK
  <2>3. ASSUME NEW s \in Savers, NEW d \in Clicked,
               Delete(s, d) \/ \E b \in Boxes : BeginSave(s, d, b)
        PROVE  saver'[s] # saver[s] /\ saver'[s].conn = c
    BY <2>0, <2>3 DEF Delete, BeginSave, Remove, Over, Typed, SyncTypeOK
  <2>4. ASSUME UNCHANGED rows PROVE FALSE
    BY <2>4 DEF rows
  <2>5. CASE \/ StartPass \/ FailPass \/ Visit \/ EndPass
             \/ \E r \in Requests : AskBuild(r) \/ \E d \in Clicked : Ask(r, d)
             \/ \E s \in Savers : FailSave(s)
             \/ \E m \in Messages : Arrive(m)
             \/ Day \/ Crash \/ UNCHANGED syncVars
    <3>1. UNCHANGED rows
      BY <2>5 DEF StartPass, FailPass, Visit, EndPass, AskBuild, Ask, FailSave, Arrive, Day,
                  Crash, syncVars
    <3> QED
      BY <2>4, <3>1
  <2> QED
    BY <1>1, <2>1, <2>2, <2>3, <2>5 DEF SyncNext, LoopStep, Actors
<1> QED
  BY <1>1, SyncInvariance, PTL DEF SyncSafety, RevokedStaysRevoked
=============================================================================
