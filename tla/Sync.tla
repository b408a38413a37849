--------------------------------- MODULE Sync ---------------------------------
(***************************************************************************)
(* The stored mailbox connections and everything that fetches for them:    *)
(* the routes of api/connections.py and api/connectors.py, the loop of     *)
(* api/scheduler.py, the rows of core/store/repo.py and the search of      *)
(* core/connectors/imap_mailbox.py.  Routes run in the server's thread     *)
(* pool beside the loop; every step here ends at a commit, at a read of    *)
(* the store, or at the end of one session with the mail server.           *)
(*                                                                         *)
(* Time is whole days.  A mailbox is a value, a message is a set of MIME   *)
(* parts, and what a part is (see Kinds) is a constant of the part.        *)
(***************************************************************************)
EXTENDS Integers, FiniteSets

CONSTANTS
    Conns,          \* connection ids
    Boxes,          \* mailboxes: host, user, folder and sender filter
    BuildBox,       \* the mailbox of the build's own connector
    Messages, BoxOf, Parts, KindOf,
    DayOf,          \* the day the mail server files each message under
    Saved,          \* the mailbox each id was saved for before the process started
    Backfills,      \* the explicit windows a request may name
    Clicked,        \* the ids requests name; the others only the loop visits
    Requests,       \* POST .../sync
    Savers,         \* POST and DELETE of a connection
    Loop,           \* the scheduler's task
    NoConn, NoBox,
    DueAfter,       \* SYNC_DUE_AFTER_DAYS
    Window,         \* SYNC_WINDOW_DAYS
    MaxDay,         \* bound: days
    MaxMishaps      \* bound: store faults and process stops together

\* What the connector and the ingest path make of a MIME part.
Kinds == {"statement",      \* stored as an upload
          "unreadable",     \* fetched, then refused by every adapter
          "declined",       \* outside the merchant's pattern, or a credit report
          "no payload",     \* a statement's name and nothing to decode
          "not a file"}     \* inline, or not a statement's suffix

ASSUME SyncAssumption ==
    /\ DueAfter \in Nat /\ Window \in Nat /\ DueAfter <= Window
    /\ MaxDay \in Nat /\ MaxMishaps \in Nat
    /\ DayOf \in [Messages -> 0..MaxDay]
    /\ BoxOf \in [Messages -> Boxes] /\ BuildBox \in Boxes
    /\ Saved \in [Conns -> Boxes \union {NoBox}]
    /\ Backfills \subseteq {w \in [from : 0..MaxDay, to : 0..MaxDay] : w.from <= w.to}
    /\ \A m \in Messages : \A p \in Parts[m] : KindOf[p] \in Kinds
    /\ Clicked \subseteq Conns
    /\ NoConn \notin Conns /\ NoBox \notin Boxes /\ Loop \notin Requests

VARIABLES
    conn,           \* each id: its row, or Absent
    readBy,         \* the mailbox whose default window the row's last success read
    date,           \* the day each message arrived
    uploads,        \* the parts the store holds
    job,            \* each request's, and the loop's current, fetch
    pass,           \* the loop's pass: its state and the listed rows left to visit
    saver,          \* each configuration request
    today, mishaps

rows == <<conn, readBy>>
syncVars == <<rows, date, uploads, job, pass, saver, today, mishaps>>

Actors == Requests \union {Loop}
AllParts == UNION {Parts[m] : m \in Messages}
Days == 0..MaxDay
Never == -1
NotYet == -1
\* last_sync_at; the status and the error beside it are only shown.
RowType == [box : Boxes, last : Days \union {Never}]
Fresh(box) == [box |-> box, last |-> Never]
Absent == Fresh(NoBox)
Held(c) == conn[c] # Absent

Working == {"credentials", "fetch", "ingest", "fail", "fail again"}
\* run_sync's success and sync_connector's; every refusal and stop is "failed".
Ended == {"synced", "answered", "failed"}
JobType ==
    [at : {"idle"} \union Working \union Ended, conn : Conns \union {NoConn},
     box : Boxes \union {NoBox}, from : Int, to : Days, stamp : Days,
     found : SUBSET AllParts,       \* every statement attachment of the search
     files : SUBSET AllParts,       \* fetched, not yet ingested
     skipped : SUBSET AllParts]     \* what the answer will name, or only count
Idle == [at |-> "idle", conn |-> NoConn, box |-> NoBox, from |-> 0, to |-> 0,
         stamp |-> 0, found |-> {}, files |-> {}, skipped |-> {}]

Resting(at) == [at |-> at, day |-> 0, listed |-> {}]

SyncInit ==
    /\ conn = [c \in Conns |-> Fresh(Saved[c])]
    /\ readBy = [c \in Conns |-> NoBox]
    /\ date = [m \in Messages |-> NotYet]
    /\ uploads = {}
    /\ job = [a \in Actors |-> Idle]
    /\ pass = Resting("asleep")
    /\ saver = [s \in Savers |-> [at |-> "idle", conn |-> NoConn, box |-> NoBox]]
    /\ today = 0 /\ mishaps = 0

\* A request or a pass's fetch that ends without a result.
Stopped(at) == [Idle EXCEPT !.at = at]

\* SyncOutcome, with skipped_names; the build connector's route answers a count.
Answered(j) ==
    [Idle EXCEPT !.at = IF j.conn = NoConn THEN "answered" ELSE "synced",
                 !.found = j.found, !.skipped = j.skipped]

Mishap == mishaps < MaxMishaps /\ mishaps' = mishaps + 1

----------------------------------------------------------------------------
\* Saving and deleting a connection.

Over(c) == [at |-> "over", conn |-> c, box |-> NoBox]

\* The row goes, the credential in it too.
Remove(c) ==
    /\ conn' = [conn EXCEPT ![c] = Absent]
    /\ readBy' = [readBy EXCEPT ![c] = NoBox]

\* The session of save_connection up to its first commit.
BeginSave(s, c, b) ==
    /\ saver[s].at = "idle"
    /\ saver' = [saver EXCEPT ![s] = [at |-> "insert", conn |-> c, box |-> b]]
    /\ Remove(c)
    /\ UNCHANGED <<date, uploads, job, pass, today, mishaps>>

\* Its second commit; a row another save inserted since is a key conflict.
EndSave(s) ==
    LET c == saver[s].conn
    IN  /\ saver[s].at = "insert"
        /\ saver' = [saver EXCEPT ![s] = Over(c)]
        /\ conn' = IF Held(c) THEN conn
                   ELSE [conn EXCEPT ![c] = Fresh(saver[s].box)]
        /\ UNCHANGED <<readBy, date, uploads, job, pass, today, mishaps>>

FailSave(s) ==
    /\ saver[s].at = "insert" /\ Mishap
    /\ saver' = [saver EXCEPT ![s] = Over(@.conn)]
    /\ UNCHANGED <<rows, date, uploads, job, pass, today>>

Delete(s, c) ==
    /\ saver[s].at = "idle" /\ Held(c)
    /\ saver' = [saver EXCEPT ![s] = Over(c)]
    /\ Remove(c)
    /\ UNCHANGED <<date, uploads, job, pass, today, mishaps>>

----------------------------------------------------------------------------
\* One fetch: run_sync, as the route and the loop both call it.

\* The window of a request that names none, and of every scheduled fetch.
DefaultWindow(c, day) == [from |-> day - Window, to |-> day]

NamedWindows(c) == Backfills \union {DefaultWindow(c, today)}

Ask(r, c) ==
    /\ job[r].at = "idle"
    /\ \E w \in NamedWindows(c) :
         job' = [job EXCEPT ![r] =
              [Idle EXCEPT !.at = "credentials", !.conn = c, !.from = w.from,
                           !.to = w.to, !.stamp = today]]
    /\ UNCHANGED <<rows, date, uploads, pass, saver, today, mishaps>>

\* sync_connector: the build's own connector, which has no row.
AskBuild(r) ==
    /\ job[r].at = "idle"
    /\ \E w \in Backfills :
         job' = [job EXCEPT ![r] =
              [Idle EXCEPT !.at = "fetch", !.box = BuildBox, !.from = w.from,
                           !.to = w.to, !.stamp = today]]
    /\ UNCHANGED <<rows, date, uploads, pass, saver, today, mishaps>>

\* The sealed credentials leave the store; no row is a 404, or the next of a pass.
ReadCredentials(a) ==
    LET c == job[a].conn
    IN  /\ job[a].at = "credentials"
        /\ job' = [job EXCEPT ![a] = IF Held(c) THEN [@ EXCEPT !.at = "fetch", !.box = conn[c].box]
                                     ELSE Stopped("failed")]
        /\ UNCHANGED <<rows, date, uploads, pass, saver, today, mishaps>>

\* Both edges of the window are searched: BEFORE is exclusive, so it names the
\* day after.
Search(j) ==
    {m \in Messages : BoxOf[m] = j.box /\ date[m] # NotYet /\ date[m] \in j.from..j.to}

\* is_statement_attachment, and _wanted: the merchant's pattern first, then
\* the list of credit bureaus whatever the pattern says.
IsFile(p) == KindOf[p] # "not a file"
Wanted(p) == KindOf[p] # "declined"

StatementParts(j) == {p \in UNION {Parts[m] : m \in Search(j)} : IsFile(p)}

\* A part get_payload returns nothing for is passed over in silence.
Fetched(p) == Wanted(p) /\ KindOf[p] # "no payload"

\* last_skipped: run_sync reads it, sync_connector does not.
LastSkipped(j) ==
    IF j.conn = NoConn THEN {} ELSE {p \in StatementParts(j) : ~Wanted(p)}

Fetch(a) ==
    LET found == StatementParts(job[a])
    IN  /\ job[a].at = "fetch"
        /\ job' = [job EXCEPT ![a].at = "ingest", ![a].found = found,
                              ![a].files = {p \in found : Fetched(p)},
                              ![a].skipped = LastSkipped(job[a])]
        /\ UNCHANGED <<rows, date, uploads, pass, saver, today, mishaps>>

Ingestible(p) == KindOf[p] = "statement"

\* A slip: a refused file is dropped.
SkipNothing(p) == {}

SkipOf(p) == {p}

\* A refused file is skipped, by name or in the count, and the next one taken.
Ingest(a) ==
    /\ job[a].at = "ingest"
    /\ \E p \in job[a].files :
         IF Ingestible(p)
         THEN /\ uploads' = uploads \union {p}
              /\ job' = [job EXCEPT ![a].files = @ \ {p}]
         ELSE /\ job' = [job EXCEPT ![a].files = @ \ {p}, ![a].skipped = @ \union SkipOf(p)]
              /\ UNCHANGED uploads
    /\ UNCHANGED <<rows, date, pass, saver, today, mishaps>>

Stored(a) == job[a].at = "ingest" /\ job[a].files = {}

\* The build's own connector answers; it has no row to write to.
Answer(a) ==
    /\ Stored(a) /\ job[a].conn = NoConn
    /\ job' = [job EXCEPT ![a] = Answered(job[a])]
    /\ UNCHANGED <<rows, date, uploads, pass, saver, today, mishaps>>

\* The mail server, the credential or the ingest path fails.  The build's own
\* connector has no row to tell.
Break(a) ==
    /\ \/ job[a].at = "fetch" /\ UNCHANGED mishaps
       \/ job[a].at = "ingest" /\ job[a].files # {} /\ Mishap
    /\ job' = [job EXCEPT ![a] = IF job[a].conn = NoConn THEN Stopped("failed")
                                 ELSE [Stopped("fail") EXCEPT !.conn = job[a].conn,
                                        !.box = job[a].box, !.stamp = job[a].stamp]]
    /\ UNCHANGED <<rows, date, uploads, pass, saver, today>>

\* A slip: the row the fetch was started for is written back.
WriteBack(a, row) ==
    conn' = [conn EXCEPT ![job[a].conn] = [row EXCEPT !.box = job[a].box]]

\* _write_sync_outcome: by connection id, whatever row holds it now; nothing
\* where none does.
WriteOutcome(a, row) ==
    IF Held(job[a].conn) THEN conn' = [conn EXCEPT ![job[a].conn] = row]
    ELSE UNCHANGED conn

IsDefaultWindow(j) == j.to = j.stamp /\ j.from <= j.stamp - Window

RecordSuccess(a) ==
    LET c == job[a].conn
    IN  /\ Stored(a) /\ c # NoConn
        /\ WriteOutcome(a, [conn[c] EXCEPT !.last = job[a].stamp])
        /\ readBy' = [readBy EXCEPT ![c] = IF Held(c) /\ IsDefaultWindow(job[a])
                                           THEN job[a].box ELSE NoBox]
        /\ job' = [job EXCEPT ![a] = Answered(job[a])]
        /\ UNCHANGED <<date, uploads, pass, saver, today, mishaps>>

\* A slip: the clock advances on failure too.
FailedRowAdvanced(a) == [conn[job[a].conn] EXCEPT !.last = job[a].stamp]

\* _UNCHANGED: a failure leaves last_sync_at as it was.
FailedRow(a) == conn[job[a].conn]

RecordFailure(a) ==
    /\ job[a].at \in {"fail", "fail again"}
    /\ WriteOutcome(a, FailedRow(a))
    /\ job' = [job EXCEPT ![a] = Stopped("failed")]
    /\ UNCHANGED <<readBy, date, uploads, pass, saver, today, mishaps>>

\* The store refuses an outcome.  A route answers 500; the pass tries once
\* more to record a failure, and its own raise ends the pass.
LoseOutcome(a) ==
    /\ \/ Stored(a) /\ job[a].conn # NoConn
       \/ job[a].at \in {"fail", "fail again"}
       \/ job[a].at = "credentials" /\ a # Loop
    /\ Mishap
    /\ IF a # Loop
       THEN job' = [job EXCEPT ![a] = Stopped("failed")] /\ UNCHANGED pass
       ELSE IF job[a].at # "fail again"
       THEN job' = [job EXCEPT ![a].at = "fail again"] /\ UNCHANGED pass
       ELSE job' = [job EXCEPT ![a] = Idle] /\ pass' = Resting("asleep")
    /\ UNCHANGED <<rows, date, uploads, saver, today>>

----------------------------------------------------------------------------
\* The loop of api/scheduler.py.

IsDue(last, now) == last = Never \/ now - last >= DueAfter

\* A slip: a pass that raised is not followed by another.
AsleepUnlessRaised == pass.at = "asleep" /\ mishaps = 0

\* sync_loop: a pass, then the sleep, for ever; a raise ends only its pass.
Asleep == pass.at = "asleep"

\* list_connections: what a pass needs of each row.
Listed == {[id |-> c, last |-> conn[c].last] : c \in {d \in Conns : Held(d)}}

\* run_due_syncs reads the list once; a raise there ends the pass.
StartPass ==
    /\ Asleep
    /\ pass' = [at |-> "visiting", day |-> today, listed |-> Listed]
    /\ UNCHANGED <<rows, date, uploads, job, saver, today, mishaps>>

FailPass ==
    /\ \/ Asleep /\ Mishap
       \/ pass.at = "visiting" /\ job[Loop].at = "credentials" /\ Mishap
    /\ pass' = Resting("asleep")
    /\ job' = [job EXCEPT ![Loop] = Idle]
    /\ UNCHANGED <<rows, date, uploads, saver, today>>

\* The due rule is asked of the listed row, before anything opens a socket.
\* The clock of the rule, the window and the stamp is the pass's first moment.
Visit ==
    /\ pass.at = "visiting" /\ job[Loop].at \notin Working
    /\ \E row \in pass.listed :
         /\ pass' = [pass EXCEPT !.listed = @ \ {row}]
         /\ IF IsDue(row.last, pass.day)
            THEN job' = [job EXCEPT ![Loop] =
                   [Idle EXCEPT !.at = "credentials", !.conn = row.id,
                                !.from = DefaultWindow(row.id, pass.day).from,
                                !.to = pass.day, !.stamp = pass.day]]
            ELSE job' = [job EXCEPT ![Loop] = Idle]
    /\ UNCHANGED <<rows, date, uploads, saver, today, mishaps>>

EndPass ==
    /\ pass.at = "visiting" /\ pass.listed = {} /\ job[Loop].at \notin Working
    /\ pass' = [pass EXCEPT !.at = "asleep"]
    /\ job' = [job EXCEPT ![Loop] = Idle]
    /\ UNCHANGED <<rows, date, uploads, saver, today, mishaps>>

----------------------------------------------------------------------------
\* The world.

Arrive(m) ==
    /\ date[m] = NotYet /\ DayOf[m] = today
    /\ date' = [date EXCEPT ![m] = today]
    /\ UNCHANGED <<rows, uploads, job, pass, saver, today, mishaps>>

Day ==
    /\ today < MaxDay /\ today' = today + 1
    /\ UNCHANGED <<rows, date, uploads, job, pass, saver, mishaps>>

\* The process stops and starts again; the loop begins with a pass.
Crash ==
    /\ Mishap
    /\ job' = [a \in Actors |->
                 IF a = Loop THEN Idle
                 ELSE IF job[a].at \in Working THEN Stopped("failed") ELSE job[a]]
    /\ saver' = [s \in Savers |-> IF saver[s].at = "insert"
                                  THEN Over(saver[s].conn) ELSE saver[s]]
    /\ pass' = Resting("asleep")
    /\ UNCHANGED <<rows, date, uploads, today>>

Fetching(a) ==
    \/ ReadCredentials(a) \/ Fetch(a) \/ Ingest(a) \/ Answer(a) \/ Break(a)
    \/ RecordSuccess(a) \/ RecordFailure(a) \/ LoseOutcome(a)

LoopStep == StartPass \/ FailPass \/ Visit \/ EndPass \/ Fetching(Loop)

SyncNext ==
    \/ LoopStep
    \/ \E r \in Requests : Fetching(r) \/ AskBuild(r) \/ \E c \in Clicked : Ask(r, c)
    \/ \E s \in Savers : EndSave(s) \/ FailSave(s)
    \/ \E s \in Savers, c \in Clicked : Delete(s, c) \/ \E b \in Boxes : BeginSave(s, c, b)
    \/ \E m \in Messages : Arrive(m)
    \/ Day
    \/ Crash

SyncSafety == SyncInit /\ [][SyncNext]_syncVars

\* The loop's task is scheduled for ever, but inside a session with a mail
\* server it can only wait: imaplib.IMAP4_SSL is built without a timeout, so
\* nothing obliges the session to end.
LoopRuns == LoopStep /\ job[Loop].at # "fetch"

SyncSpec == SyncSafety /\ WF_syncVars(LoopRuns)

----------------------------------------------------------------------------
\* Properties.

\* Every variable keeps its shape.
SyncTypeOK ==
    /\ conn \in [Conns -> RowType \union {Absent}]
    /\ readBy \in [Conns -> Boxes \union {NoBox}]
    /\ date \in [Messages -> Days \union {NotYet}]
    /\ uploads \subseteq AllParts
    /\ job \in [Actors -> JobType]
    /\ pass \in [at : {"visiting", "asleep"}, day : Days,
                listed : SUBSET [id : Conns, last : Days \union {Never}]]
    /\ saver \in [Savers -> [at : {"idle", "insert", "over"}, conn : Conns \union {NoConn},
                            box : Boxes \union {NoBox}]]

\* The statements of box that arrived in the Window days before day are stored.
ReadUpTo(box, day) ==
    \A m \in Messages :
        BoxOf[m] = box /\ date[m] # NotYet /\ date[m] \in day - Window..day - 1
        => \A p \in Parts[m] : KindOf[p] = "statement" => p \in uploads

\* A last_sync_at written by a scheduled or default fetch of the row's own
\* mailbox leaves no hole: whatever failed, stopped or overtook it, every
\* statement of the 45 days before that moment is an upload.
NoHoleBehindASync ==
    \A c \in Conns : Held(c) /\ readBy[c] = conn[c].box => ReadUpTo(conn[c].box, conn[c].last)

\* What the docstring of save_connection says of every row: one that is
\* believed to be read has been, even where the id was replaced meanwhile.
SyncedMeansRead ==
    \A c \in Conns : Held(c) /\ conn[c].last # Never => ReadUpTo(conn[c].box, conn[c].last)

\* What a success owes an account of: every file it fetched and, where the
\* answer names what it skipped, every file the connector declined.
Owed(j) ==
    {p \in j.found : Fetched(p) \/ (j.at = "synced" /\ ~Wanted(p))}

\* On both routes, a fetch that answers success has stored or skipped (named,
\* or counted by the build connector's route) every file it owes an account
\* of, whatever other fetches store meanwhile, and only statements are stored.
EveryFileIsAccounted ==
    /\ \A a \in Actors : job[a].at \in {"synced", "answered"} =>
                          Owed(job[a]) \subseteq uploads \union job[a].skipped
    /\ \A p \in uploads : KindOf[p] = "statement"

\* What the connector's comment says of an attachment it declined, "counted and
\* named, never silently dropped", of every answer it is part of.
DeclinedIsReported ==
    \A a \in Actors : job[a].at \in {"synced", "answered"} =>
        {p \in job[a].found : ~Wanted(p)} \subseteq job[a].skipped

\* Only a save or a delete of an id changes the mailbox its row opens: no
\* outcome of a fetch in flight brings back a credential that was replaced
\* or revoked.
RevokedStaysRevoked ==
    [][\A c \in Conns : conn'[c].box # conn[c].box =>
          \E s \in Savers : saver'[s] # saver[s] /\ saver'[s].conn = c]_syncVars

Tried(c) == job[Loop].conn = c /\ job[Loop].at \in Working

TriedWhileDue(c) == ~Held(c) \/ ~IsDue(conn[c].last, today) \/ Tried(c)

\* A connection that stays due is tried again and again, provided the mail
\* servers end their sessions: no failing mailbox before it, no raised pass and
\* no restart stops the loop from reaching it.
EveryDueConnectionIsTried ==
    []<>(job[Loop].at # "fetch") => \A c \in Conns : []<>TriedWhileDue(c)

\* The scheduler's "one broken mailbox cannot stop the others", of a mailbox
\* that is broken by never answering too.
NoMailboxStopsTheOthers == \A c \in Conns : []<>TriedWhileDue(c)
=============================================================================
