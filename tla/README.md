# TieOut verification

TieOut closes the bank credits of a merchant against the settlements of its
payment provider (PSP). A deterministic matcher decides what the data decides,
a language-model analyst may then propose matches for what is left, and a
verifier re-checks every proposal before it counts. The service around it takes
files in, runs reconciliations in background tasks, and lets a console poll
them.

This directory holds TLA+ modules translated from `src/`, the TLC
configurations that check them on small instances, and theorems about them
checked by TLAPS. `PROJECT.json` is the index: components, runs, hazards with
the line where each bites, the source lines of every definition, the theorems,
and for every property one deliberately wrong variant of the code that the
property catches. Those variants stand in the modules as definitions commented
"a slip"; nothing in a specification uses them.

    tlc -workers 2 -config MCMatcher.cfg MCMatcher     # model-check
    tlapm MatcherProofs.tla                            # check the proofs

## The system

| Part | State | Operations | What is hard in it |
| --- | --- | --- | --- |
| Candidate pool (`core/matcher/pool.py`, `batch.py`) | suppressed rows, recovered orders, claimed settlements | suppress repeated events, recover missing order ids in two passes, net a settlement, answer "who could close this line" | which copy of an event survives; recovery must not depend on row order; both edges of both windows |
| Tiered matcher (`tiers.py`, `engine.py`) | matches, ambiguity and contest notes, exceptions | four tiers, each a search over all open lines and then a resolve; the reason ladder | tie-breaking by file order; a claim made too early or too late; a line in neither half of the partition |
| Analyst client and prompts (`core/llm/analyst.py`, `prompts.py`) | a request, four attempts | ask, parse, retry on a 503 | a failure must not read as an empty answer |
| Accept loop and verifier (`core/llm/pipeline.py`, `verifier.py`) | accepted matches, open exceptions, the claim context | six checks per proposal, then accept or note the failed check | each proposal is judged against what the ones before it claimed; two halves of the system net a settlement from different rows |
| Run job (`api/jobs.py`, `api/routes.py`, `core/store/repo.py`) | one row per run and four result tables | the request that creates a run; a task of some eleven commits; the handler that writes `failed` | several tasks at once, a fault or a process stop between two commits, late finishers |
| Run readers (`web/lib/hooks.ts`, `api/routes.py`, `report/build.py`) | what a page was told | poll, PDF report, drift report, exception detail, settlement pages | each question is a database session of its own, beside the committing task |
| Upload pipeline (`api/ingest.py`, `repo.py`, `blobstore.py`) | upload rows, their records and review queue, blobs | receive, look up, parse, store bytes, look up again, three commits | idempotence by content when two threads carry one file; two stores; a fault between commits |
| Connections and fetcher (`api/connections.py`, `api/scheduler.py`) | one row per mailbox or API with its last outcome | save (delete then add), delete, manual sync, the monthly pass | a sync in flight while its row is replaced; windows and due times after failures; a mail server that never answers |
| Connectors (`core/connectors/`) | none | fetch from IMAP, a folder or an API | which days and which attachments a search covers |
| Source adapters (`core/adapters/`) | a parse in progress: records, quarantine, skipped lines | detect the format; read rows, tags or wrapped lines; check a balance chain | a format guessed, a line dropped silently, a file that decodes otherwise than its head, two records under one id, a damaged statement that looks whole |
| Dataset CSV reader (`core/ingest/`, `core/money.py`) | none | load generated data | straight-line |
| Narration canonicalizer (`core/canonicalize/narration.py`) | none | find a reference in a bank narration | text |
| Scorer, input tax credit, drift (`scorer/`, `core/itc/`, `core/drift/`) | none | rates, monthly GST, changes between two results | denominators taken from the result, zero denominators, months nobody closed |
| Encryption, sessions and settings, PDF layout, generator, scripts, web console | keys, cookies, documents | see `PROJECT.json` | nothing that interleaves |

How they meet. `POST /runs` inserts a pending row and queues the job behind the
response. The job reads a dataset or the stored records of uploads, builds the
pool, runs the matcher, perhaps the accept loop, and writes the result through
`Repo`, one session per commit, moving a progress bar as it goes. The console
polls the row. Uploads are requests in the server's thread pool. Everything
shares one SQLite store and one blob directory; there is no lock above a
session.

What makes each part correct:

- *pool*: a settlement counts every economic event once; an order stands behind
  at most one payment; nothing is guessed and nothing depends on row order;
  every row is placed or reported exactly once;
- *matcher*: a settlement closes one line; matched and excepted partition the
  lines; each match keeps its tier's promise; each tier's outcome is a function
  of the claims it started from; reason codes say what is true;
- *accept loop*: no row is a leg of two matches; an accepted proposal is a
  whole settlement that closes its credit, in time, and the only one;
- *run job*: a completed run shows one whole result, a finished run never
  changes, a polled row never goes back, an accepted run ends;
- *readers*: what a page puts together from several sessions belongs together,
  and a page stops polling at the final state;
- *uploads*: a listed upload can be read back, an answer "new" is whole, a file
  sent again is recognised, runs over the same uploads get the same input;
- *fetcher*: where mail servers end their sessions every due connection is
  tried, a recorded success has every statement of its window behind it, every
  file fetched is stored, named or counted, no late outcome brings a replaced or
  revoked mailbox back;
- *adapters*: no format is guessed, every line of a file is a record, a
  quarantined row or a counted skip, or one row says that the header is gone, an
  id names one record but for the namesakes below, a statement whose balances do
  not close is never taken for a whole one;
- *grades*: doing less work never improves a score, tax is accounted for once
  and missing work is never put on the provider, a drift report tells every code
  that moved.

## Modules

| Module | Models | Built on |
| --- | --- | --- |
| `Ledger` | the promise: closed and reported lines | |
| `Matcher` | `tiers.py`, bank half of `engine.py` | refines `Ledger` |
| `Statements` | the same engine over the lines of several statements that share line ids | `Matcher` |
| `Rows` | the PSP report and the operators the pool and the verifier both use; no state | |
| `Pool` | `CandidatePool.__init__`, PSP half of `engine.py` | `Rows` |
| `AcceptLoop` | `pipeline.py`, `verifier.py`, the attempts of `analyst.py`, from the report through the matcher to the merge | `Matcher`, `Rows`; refines `Ledger` |
| `Grades` | `scorer/`, `core/itc/reconcile.py`, `core/drift/compare.py` over the merged result | `AcceptLoop` |
| `Listing` | the listings of `repo.py` over the merged result: settlements, matches, exceptions, PSP rows | `AcceptLoop` |
| `PublishedRun` | the promise: a run whose result appears in one step | |
| `RunJob` | the request, the job, the run tables, the default drift baseline | refines `PublishedRun` |
| `RunReaders` | polling console, PDF report, drift endpoint, exception and match detail | `RunJob` |
| `Uploads` | the upload request, three tables and the blobs, runs over uploads | |
| `Sync` | connections, the manual fetch, the monthly loop, the mailbox search | |
| `Reading` | what every adapter hands back; no action | |
| `CsvRows`, `Mt940`, `SliceText` | the five CSV layouts, the MT940 tag reader, the PDF row rebuilder | `Reading` |
| `Intake` | detection, the choice of the adapter, the outcome of `ingest_upload` | the three readers |
| `MatcherProofs`, `UploadsProofs`, `SyncProofs` | theorems | the module they are named for |
| `PoolProofs` | theorems of `Pool` | `Pool`, `FoldLemmas` |
| `IntakeProofs` | theorems of `Intake` | `Intake`, `FoldLemmas` |
| `AcceptLoopProofs` | theorems of `AcceptLoop`, of `Grades` and of `Listing` | `Grades`, `Listing`, `MatcherProofs`, `FoldLemmas` |
| `RunJobProofs` | theorems of `RunJob` and of `RunReaders` | `RunReaders` |
| `FoldLemmas` | lemmas about folds over finite sets: sums, sets put in order, the pieces of a sequence | |
| `MC*` | the small instances | |

### Matcher

A file (`file`) is what the pool derived before the first tier runs: for each
settlement its net, its day and its number of payment legs; for each line its
credit, day and resolved reference. `Pass`, `NoteAmbiguity` and `Propose` are
the three ways a line leaves a tier's search, `Contest` and `Build` the two ways
it leaves the resolve, `Classify` is the reason ladder. The loops visit lines in
any order (`\E l \in Lines`), which is more than the code does: a property that
holds here does not depend on the order of the file. A search reads `claimed`
and writes only `proposal`; `TiersAreOrderFree` is the consequence, stated
without the loops.

The last rung of the ladder asks whether the narration yields a signal. That is
a fact about text nothing else here reads, so both codes are allowed.

### Pool and Rows

A row of the report has a type, an order, a settlement, an amount and two days.
`Suppress` visits one group of equal events, `Narrow` gives one anonymous
payment its candidate orders, `Recover` and `Decline` are the second pass,
`Except` the partition. The indexes of the pool are modelled by the predicate
they answer. An instant is a day: the code compares dates, and capture times
only within a group of equal ones. Transaction ids are taken as unique within a
report. The Razorpay adapter refuses a row whose id another row had, but not one
that is named like another's fee or tax (`IdsAreUnique`), and nothing checks
it across files or in a dataset's own report.

### AcceptLoop

`FileOf` derives the matcher's file from the report with the operators of
`Rows`, so one behaviour runs from the raw report to the merged result. When
the matcher leaves nothing to ask about the pass is skipped (`SkipPass`);
otherwise `Retry`, `Answer` and `Fail` are the four attempts of the client, of
which only a 503 is followed by another. A proposal is any member of
`Hypotheses`: unknown ids, rows named twice, subjects that are not bank lines
and lines other than the subject's own included. The checks keep their order
because the first failed one is stored. The matcher reads the surviving rows,
the verifier every row, as in the code. What a report says of the analyst
(`AnalystState`) is derived from the merged result as `report/copy.py` does.

### Grades and Listing

Both read a finished result and change nothing, so their properties are
invariants of `pass = "merged"` that quantify over answers, invoices and
neighbouring results: a rate is compared with the rate of the same result less
one match, a reconciliation with the tax the legs really carry, a drift report
with the two sets of codes. A rate is an exact fraction, compared by cross
multiplication; the floats of the code and the four digits it prints are left
out. That a difference is put on the provider only for tax it did not pass on
presumes that the provider gave no GST back (`NoGstTakenBack`): when a
settlement nobody matched holds such a reversal, the matched ones bear more than
the month's invoice states, and the report blames the invoice. `Listing` sums a settlement a second time, from the rows
the audit trail leaves, and holds that against the matches. It walks every
listing page by page, with a page of one row and one of three: the settlement,
match and exception pages must tell of the same matches, name every bank line
once, and count every rupee of the report once, as part of a settlement or as a
copy or orphan. A copy is both in one case, and the property says so: the
verifier closes a line with every row of a settlement, a suppressed copy
included, and the copy keeps its exception.

### Statements

The engine keeps what it knows of a line under its `line_id`. A statement
without references of its own numbers its lines by their place in the file, so
two statements in one run share ids. Here a value kept by id is kept equal on
all lines sharing it, and lines are visited in the order `upload_inputs` hands
them over, because the last one wins. See `doc_statements`.

### RunJob

One action per commit, in the order of `execute_run`, `_execute` and
`save_result`. A result is reduced to which result it is: the engine's, or the
engine's with the analyst's matches merged in. `Raise` is any exception in the
try block and leads to `Handle`; `Unhandled` is one outside it, in the insert or
in the handler's own write; `Crash` stops every live task. Nothing restarts one,
because no start-up code looks for unfinished rows.

`PreviousCompletedRun` is `repo.previous_completed_run`, with the order
`created_at`, then id.

### RunReaders

One reader beside the workers, with the next question and the answers so far.
`Questions` lists the sessions each handler opens, in order. The default
baseline may be replaced by one the caller names. An exception's detail is asked
for by the id of its subject, which repeats across runs: the newest run holding
it answers, which the guard of `ReadDetail` leaves open between any set of runs
that includes the reader's own. What the report prints (`Statement`,
`TierCounts`, `SumCheck`) is computed from the answers. Two things the model
allows and no property forbids, because the code does them: a newer run still
in flight, or failed, may answer a detail and then shows an empty trail; and
the report of a run that is not completed may print tiers that do not add up to
its count.

### Uploads

A request goes through lookup, parse, blob, second lookup and three commits;
each step ends at a read or write of shared state. What an adapter finds is a
constant of the file (`Found`). A row is visible before its records, as it is
in the code, and a run may be started in between. Encryption and the size
ceiling are not modelled: no property tells them apart.

### Sync

`BeginSave` and `EndSave` are the two commits of `save_connection`, `Ask` and
`AskBuild` the two fetch routes, `StartPass`, `Visit` and `EndPass` the pass of
`scheduler.py`; from `ReadCredentials` to `RecordSuccess` or `RecordFailure` a
fetch is the same steps for a route and for the loop, with the mail server, the
ingest path and the store each able to fail. `LoseOutcome` is the store refusing
an outcome, including the second time, which ends the pass. `Crash` stops every
fetch; the loop begins again with a pass, as the start-up code does.

The two routes differ in what their success tells. `run_sync` reads
`last_skipped` and names what the connector declined and what the ingest path
refused; the build connector's route (`conn = NoConn`, ends as `answered`) only
counts the latter and never reads the former (`LastSkipped`). `skipped` is what a
route will name or count, and `Owed` what it owes an account of on that route. A
part with a statement's name and no payload is passed over by the connector
without a trace (`Fetched`); nobody owes an account of it. Nothing in the service
deletes mail, so that a message found by the search is gone when its body is
fetched, which the connector passes over too, does not occur in the model.

Time is whole days, messages arrive on their day, and a part of a message is
what its kind says. `readBy` is the one variable the code has not: which mailbox
the last recorded default window was read from. The row's status and error are
left out, the list order of a pass is any order, an explicit window is a member
of `Backfills`, and the run starts with connections that were saved before the
process. A deployment without an encryption key and `test_connection` write
nothing and are not actions. There is one organisation: a pass visits the due
connections of each in turn, and no organisation reads what another wrote.

### Reading, CsvRows, Mt940, SliceText and Intake

A file is a head, from which the adapters' scores are computed, and a body of
lines. Cells are abstracted to what reads and what does not: a row is its shape,
the name in its id column, its type, its amounts and its first defect; two rows
are byte-identical exactly when they are equal. The readers are step machines
over `line`: `ReadRow` is one turn of the CSV row loop, `ReadTag` and
`SettleStatement` build and close an MT940 statement, `ReadLine`, `EndOfPages`
and `ValidateChain` rebuild the rows of a PDF and check them. `Answer` is what
the caller of `ingest_upload` is told.

A name is a sequence of parts and the number of the line it was made up from
(`Names`). The code puts `fee_` before a payment's id; the model puts the part
`"fee"` before its name (`Under`). Two names are equal exactly where the strings
are, so a row may carry in its own id column what the adapter makes up for
another row, and `IdsNameOneRecord` says where ids do collide: a row that is the
`Namesake` of another's leg.

A head has a byte order mark or none, the cells that mark spoils where it stays
in the text (`spoilt`), and where the file holds a byte that is no UTF-8
(`foreign`) or a NUL. `decode_bytes` is used twice, on the sniffed prefix (`Cells`)
and by `parse` on the whole file (`ParsedCells`); `Open` is the parse up to its
first row, with what it refuses a whole file for (`FileFault`): a PDF that does
not open or is another's, and a required column that is no longer there
(`HeaderLost`), which is where the two decodings part.

Of a bank statement the model keeps two truths the code does not have: what was
printed, and how many lines were damaged on the way (`printed`, `damage`). The
properties relate what was read to those.

Abstracted: one reason stands for cells that do not read, whatever the order of
the checks within a cell; `SCHEMA_VIOLATION` and `NOT_A_STATEMENT` are one
refusal; the charges of a COD row are one amount; the alternative spelling of
Razorpay's fee column is not there; an error of the CSV reader itself, as for a
cell past its size limit, is not there either; a remittance row without a waybill
is named by its line, its remittance being the file's. That a file has no header
row at all, for which `parse` has a branch, cannot be once a head was recognised.
In an MT940 message a mark that comes back sticks to the first line, which is
then no tag: the body of such a file is its text as decoded. The model shows, and no property denies, that
the first row of a PDF statement is outside the balance chain; that a byte
order mark with a character cut in two at the end of the sniffed prefix hides
the cells it spoils, so that what is detected is what the head shows
(`ShowsAll`); that a lost `:20:` merges two statements into one whose chain may still close; that two
identical MT940 movements quarantine their whole statement as a repeat; that a
defective first copy of a CSV row hides a good second one with the same key; and
that text after a finished PDF row is skipped.

## Runs

| Run | Instance | States | Shows |
| --- | --- | --- | --- |
| `matcher` | 3 lines, 2 settlements, 18,144 files | 727,379 | one claim per settlement, exact partition, justified matches, order-free tiers, honest codes, `Ledger` |
| `pool` | 4 rows, 2 settlements, 3 orders, 6,688 inputs | 148,872 | suppression, recovery and the PSP partition |
| `accept_loop` | 2 lines, 2 settlements, 4 rows, 864 inputs, 2 of 98 proposals | 91,018 | both halves together; `Ledger` across them; the score, GST, drift and listing of every merged result |
| `run_job` | 3 runs with the analyst over 1 dataset, 2 stamps, 1 fault, 1 stop | 1,352,189 | final, monotone, never half; `PublishedRun` |
| `run_readers` | 2 runs (dataset, uploads with analyst), 1 reader, 1 fault | 237,450 | pages, reports, drift and details are consistent; every run ends and polling stops |
| `uploads` | 3 requests, 3 files, 2 runs, 1 fault, 1 stop | 3,088,132 | stored, whole, recognised, same input |
| `sync` | 2 connections, 1 request, 1 save, 1 message of 4 parts, 2 days, 2 faults or stops | 563,921 | no hole behind a success, every file accounted for, revoked stays revoked, every due connection is tried where servers end their sessions |
| `intake` | 22,700 files in twelve families | 243,558 | detection, accounting and identity of every line, statements all or nothing |
| `doc_terminal`, `doc_statements`, `doc_ingest`, `doc_sync` | as above, fewer bounds | | each violates one statement of the source, see Findings |

Why the bounds are enough for the cases that matter:

- *matcher*: nets and credits lie at equality, exactly on the 100 paise
  tolerance and one paisa beyond it, days on and one day beyond the two day
  window, payment legs at 0, 1 and 2, and the third line may be a debit. Three
  lines and two settlements give two-way and three-way contests, a claim at an
  early tier that empties or decides a candidate set at a later one, and a
  reference that is already claimed.
- *pool*: copies across two settlements and none, in groups of up to four;
  losses with up to two anonymous payments against orders of one gross, on and
  beside both edges of the seven day window, with and without a contest.
- *accept_loop*: two proposals are the least for one to change the other's
  verdict. Row 2 may copy row 1, row 3 may be early, late or undated, row 4 may
  have no settlement (though not together with a copy, which is in the other
  settlement); a line that is no credit has one day. Answers give each settlement to some line or nobody, with
  a trap; invoices have months with and without a credit, over and under.
- *run_job*: with three runs a run has two possible baselines that finish in
  either order; stamps may tie. A fault and a stop may fall between any two
  commits. Every run there asks for the analyst, so a result may be either of
  two; runs without one are in *run_readers*, which has two because a drift
  report involves two. Liveness is checked there, where a run ends or its
  handler's write fails; `doc_terminal` adds the stop.
- *uploads*: three requests are the least for two to race and one to come
  after. Stamps all tie (`MaxClock = 0`): id order is then the store order, and
  arrival order is already arbitrary against it.
- *sync*: the interval and the window are one day each (30 and 45 in the code),
  so a connection is due again, and a message leaves the window, within the two
  days; the message holds a statement, a declined report, an unreadable
  scan and a part with nothing in it. Two mishaps are the least for an outcome to be lost and its second
  attempt too. A click and a save meet on one connection, the loop visits both.
- *intake*: heads lose or gain one column, or are two exports at once, one
  of which may be a PDF, with and without a byte order mark, a byte that is no
  UTF-8 in the sniffed prefix or past it, and a cut character; rows may carry the
  name of another row's fee, tax or line; bodies of
  up to three HDFC rows or two of another layout run over every kind of row;
  MT940 messages have two statements of two movements with one line damaged;
  PDF statements have six rows on two pages with one line damaged, or two. `MaxRowLines` is
  3 instead of 6, one more than the longest row printed.

`MaxClock`, `MaxFaults`, `MaxCrashes`, `MaxHypotheses`, `MaxDay` and
`MaxMishaps` are the only bounds in the guards. Model values that could be
exchanged are not declared symmetric. Deadlock is checked where the
specification loops at its end (matcher, pool, accept loop). Jobs, readers,
uploads, fetch requests and the reading of a file do end: those configurations
say `CHECK_DEADLOCK FALSE`.

Fairness. A live job is a thread the process keeps running: weak fairness of
each `JobStep(r)`. An open page asks its next question when the last was
answered: weak fairness of `Ask`. The loop of the scheduler is one task that is
started with the process: weak fairness of `LoopRuns`, every step of it but those
inside a session with a mail server. It goes on whether or not fetches succeed,
but nothing makes a session end: the socket is built without a timeout, and the
pass waits for it in its one thread. `EveryDueConnectionIsTried` is therefore
conditional on the sessions that begin coming to an end, in success or failure;
what one that does not end does to the others is `NoMailboxStopsTheOthers`. Nothing else is fair: no fault, stop, request,
save, opening or closing of a page has to happen. `RunEnds` and `ScreenStops`
are therefore conditional on the run not having been abandoned. `run_job`
checks safety only and needs no fairness (`Safety`).

The type invariants `TypeOK` of `Matcher` and `RunJob` are checked as
invariants; the others (`SyncTypeOK`, `ViewTypeOK`, `UploadTypeOK`,
`LoopTypeOK`, `IntakeTypeOK`, `Pool`'s) document the shape of the state and are
part of the proved invariants where there are proofs.

## Proofs

`tlapm` checks every leaf. The theorems hold for any number of lines,
settlements, files, runs, datasets, requests, connections, messages, days,
faults and stops.

*Matcher* (`MatcherProofs`). Assumptions: `FilesAssumption` (a file has the
declared shape, its settlements are finite, `None` is no settlement and no
number, a reference resolves to a settlement with a leg) and
`ReasonsAssumption`. The safety properties are not inductive: `Build` claims a
settlement on the strength of what a search of the same tier established steps
earlier. `Inv` adds what a pending proposal guarantees, `Sound`: its line is
open, its settlement unclaimed, and the promise of the tier already holds, in
the search for all proposals and in the resolve for those still to be visited.
The contest rule is used exactly once, to show that building one match leaves
the other pending proposals sound. Proved from `Inv`: `TypeCorrect`,
`OneClaim`, `Partition`, `ExactPartition`, `Justification` and `Refinement`
(every step is a step of `Ledger` or a stutter).

Two more properties look back further. `OrderFree` says that what a tier closed
is a function of the file and of the claims before it. `OrderInv` keeps that for
the tiers that are over, and for the running one how far its loops have come:
a searched line proposes its sole choice (`SearchedInv`), the lines it closed
are the resolved ones without a rival (`ResolvedInv`). No step of a later tier
changes what an earlier one started from, because a match keeps its tier.
`HonestReasons` needs `HonestInv`: a line without a match and without a note had
no candidate in the last tier, the widest (`QuietInv`), and a note names the
second settlement or the second line that stood in the way (`NotesInv`). That
more than one candidate means two different ones is where the settlements have
to be finite.

*Pool* (`PoolProofs`). Assumptions: `InputsAssumption`, and `RowsAssumption`
(finitely many rows, ordered by number). `PoolInv` says of each loop what the
groups or rows it has visited have contributed: `DedupInv` the copies of the
groups taken and of no other, `NarrowInv` the candidates as the input determines
them, `RecoverInv` an order for a row that is its only claimant, `ExceptInv` the
reasons of the rows seen. `LeastElement` of `FoldLemmas` shows that the row a
group keeps, the one issued first, exists. Proved: `PoolTypeCorrect`,
`ExactSuppression`, `SoundRecovery` and `RowsAccounted`.

*AcceptLoop* (`AcceptLoopProofs`). Assumptions: those of the matcher,
`LoopAssumption` (proposals and settlements have their shape, the settlements
are finite, a transaction id is a number) and `CasesAssumption` (a case's derived file is a file). `LoopInv`
is the matcher's `Inv` with: the file is the one the report yields, the open
exceptions and the matched lines partition the lines, the outcome of the call
agrees with what was judged, the claimed rows `taken` are the legs of all
matches so far, and the safety properties themselves. The matcher's proof is
used as a lemma: its steps keep `Inv`, the steps of the second half leave its
variables alone. Proved: `LoopInvariance`, `ClaimedOnce`, `Defensible`,
`RanAnswered`, `AcceptedUnique` and `LoopRefinement` (matcher and loop together
implement one `Ledger`).

*Grades* (also in `AcceptLoopProofs`). Assumption besides those:
`GradesAssumption` (a run, its answers and its invoices are finite, amounts are
integers). A grade has no state, so each theorem follows from `LoopInv`; the work
is in counting and adding. `LostWorkNeverPays` compares the counts of a result
with those of the same result less one match; that the matches of a line are one
(`OneEach`) keeps every rate at most one. `GstAccounted` adds the tax of the
matched legs month by month. `DriftTells` relates the two sets of codes of a
line to the counts of the summary. `FoldLemmas` has what they need of
`MapThenSumSet`, which is a recursive function: that it exists on a finite set
and that the order of the elements does not matter are proved by well-founded
induction on the subsets (`WFMin` of the library, which needs no operator
parameter), then that a sum splits over disjoint sets, over the values of an
index, and keeps the order of its summands.

*Listing* (also in `AcceptLoopProofs`). Assumption besides those:
`ListingAssumption` (a reason code is a code, a line is a line). `HonestListing`
states `ListingIsHonest`, and the same for every page size
(`ListingAtEverySize`), in three steps. First, pages: a set listed by id holds
each element once (`ListedOnce`, from what `FoldLemmas` proves of the fold that
puts a set in order), the pages a console offers cut it without a gap or an
overlap (`PagesCover`, `PiecesInARow`), so that walked to the end they are the
whole again (`PagesAreTheWhole`, `ShownPages`), and so is the report's reading
page after page, a recursive function whose existence and value are both shown
(`RestExists`, `RestOfPages`). Second, the sets: `OpenRows`, an invariant beside
`LoopInv`, says which PSP rows are under exception once the matcher's result is
in, and no step of the accept loop touches them; `SettlementKeepsARow` says that
suppression never empties a settlement, so that the tiers, which sum the rows
kept, and the screens, which list the settlements any row names, speak of the
same ones (`ListedIsKnown`); `MatchHolds` and `OneMatchEach` say what a match of
either half holds and that a settlement has one. Third, the money: the rows a
settlement sums (`Counted`) and the rows that have an exception of their own
(`LooseRows`) share out the report, and a sum splits over both
(`TotalUnion`, `TotalByClass`, `TotalOfImage`).

*RunJob* (`RunJobProofs`). Assumptions: `RunsAssumption` (a run's id is a
number), `AskedAssumption` and `BoundsAssumption`. Workers do not write each
other's rows, so the invariant `RunInv(r)` is about one run and `FrameInv`
carries it across the steps of others. It relates where the worker stands to the
state of the row (`StateInv`), to how far the bar may be (`BarInv`), and to
which tables already hold the worker's result (`TablesInv`): `Close` writes one
row but must know that three earlier commits, possibly long ago, wrote the same
result. Proved: `Invariance`, `TypeCorrect`, `WholeWhenCompleted`,
`WholeCounts`, `CountsWhenCompleted`, `Finality`, `PollsMoveForward`, and
`Refinement` (the many commits implement `PublishedRun`, where a whole result
appears in one step).

`BaselineMovesCloser` is about the default baseline, a greatest element: the run
the query returns is before the asking run, and a run that completes later only
ever takes its place from behind. At any moment finitely many runs have a row
(`FiniteStore`), so there is a latest one among those that compare
(`BaselineInv`), and no run stops being comparable.

*RunReaders* (also in `RunJobProofs`). A reader's answers are of different
moments. `Durable` is what it may rely on: a finished row and its tables never
change, and a row never disappears. `ReadInv` says, for each kind of reader and
each next question, what the answers so far still are: once the summary said
"completed", each later answer is the run's own result. `HeldInv` (exceptions
only under a row) is needed for the detail, which may be answered by another
run. Proved: `ReadInvariance`, `StoppedIsFinal` and `WholeResults`.

*Uploads* (`UploadsProofs`). Assumption: `UploadsAssumption`, of which only that
ids and stamps are numbers is used. Each request writes the rows of its own id
only, so `CommittedInv` reads off where a request stands what it has committed;
the uploads and the blobs it shares with others only grow. `AnsweredInv` is what
makes an answered file stay recognised: some upload holds it, so a later request
cannot pass its first lookup. Proved: `UploadInvariance`, `Backed` and
`Recognised`.

`SameInputs` says that two runs over the same uploads, answered as new when they
were chosen, read the same input, whatever else arrives between. The store
returns the chosen uploads arranged by stamp and id (`Arranged`); that there is
one such arrangement, and one only, is shown by counting: the place of an
upload is the number of those before it. `ReadersInv` adds that an answered
upload is never touched again. In the model `InStoreOrder` is the arrangement
itself rather than `SortSeq`, whose recursion the provers cannot unfold.

*Sync* (`SyncProofs`). Assumption: `SyncAssumption` (shapes; `NoConn`, `NoBox`
and `Loop` are apart). `FoundInv` says of a fetch in hand that everything its
search found and its route owes an account of is stored, skipped or still to be
ingested, and that the search covers the
window it will stamp (`Covered`); `ClockInv` that nobody remembers a moment yet
to come, so that what arrives today is behind no stamp. Only with both does a
recorded success leave no hole. Proved: `SyncInvariance`, `NoHole`,
`FilesAccounted` and `Revocation`, from `SyncSafety`: fairness is not needed.

*Intake* (`IntakeProofs`). Assumption: `FilesAssumption`, which says what an
export of a format is: a head that holds all the columns a format cannot be read
without is one of that format, whatever else it is, a file that opens as a PDF
may be a statement, and the rows of a CSV body have their shape. `LinesAccounted`
states `EveryLineIsAccounted`, which is about CSV exports: at every step the
lines above the next one have each been read, refused or skipped, and only one of
the three (`AccountedInv`), or the header went with the mark before any was
(`HeaderGone`). That it can go for no other reason is
`HeaderGoesWithTheMark`: of two decodings of one file only the one that leaves
the mark hides cells. `NeverGuesses` states `DetectionNeverGuesses`: a score
is at least the floor only with the required columns, and certain only with every
column, so an adapter alone at the top has its format's columns and no other
shows all of its own (`WinnerIsSure`, carried by `ChosenInv`).

`RecordsFollowRows` states `RecordsAreTheRows`. For the CSV layouts `MadeInv` says
of the records made so far that they name rows above the next one, each in the way
its layout names, and that two rows with one id have not both passed the duplicate
check. Two records with one id are then two legs of one name, or a leg and a row,
and `NamesUnder` says which row is the namesake of which; `LegsInv` that the records of a settlement or remittance row are exactly
its legs, whose sum `RazorpaySum` and `CodSum` work out. For an MT940 message
`MtState` keeps the movements of the waiting statements apart from each other
and from what was emitted, by their lines (`MovesGrow`, `MtSettle`); for a PDF
`SliceState` keeps the beginnings of the rebuilt rows apart (`SliceStep`).

`GapsShow` states `GapsAreNeverSilent`. `StatementsAssumption` says what the body
of a PDF statement is after any number of lines were lost, doubled or made
unreadable (`PrintedInOrder`: the lines still follow the printed rows, whose
balances go on from one another), and of a body with one line damaged that every
row but one still stands (`OnlyHurt`). TLC evaluates it on every file of *intake*.
From the first alone, the rebuilt rows follow the printed ones, so the rows
between two neighbours that chain come to nothing (`Telescopes`). The rest is the
invariant `StatementInv`: below the line being read every standing row was
rebuilt whole, with its own date, or it is the neighbour of the hurt row and one
of its lines is to be reviewed (`KeptOrReviewed`), and what is pending belongs to
the row being read (`PendingInv`). The proof corrected the model: the property
said that no row at all is missing above a row that chains when one line is
damaged. A lost line that ends a wrapped row can join it to the next one past
`MaxRowLines`; both are then refused, and if their amounts cancel the row below
them chains. That is no silent gap, since one of the two is in the review queue,
which is what the property says now. The statement of *intake* had no two
wrapped rows next to each other; with a sixth row it has, and TLC finds the old
form violated there.

`MessagesWhole` states `StatementsAreAllOrNothing`. Here `StatementsAssumption`
says what the body of an MT940 message is: movements in the order of the bank's
books, a balance tag of the movement after which the account stands there, and
`:20:` between the movements of two statements (`MessageInOrder`). With one line
damaged every movement but one is on one line as printed; that one is on none,
on two or on one with another amount (`MoveHurt`), and the balance tags of both
kinds are as printed. Where no movement is hurt it may be a balance that is, and
those of one kind are left (`OneMoveHurt`). The argument is about the level at a
line: what the account holds there by the books, and the error of the hurt
movement once it is above (`Level`, `Past`). From one movement of a statement to
the next the running balance and the level move alike (`NextMove`,
`LevelAlong`), so with a printed opening and a printed closing balance the chain
closes only if the error is above both or below both. Then no movement between
them is the hurt one (`Spared`), every balance is the printed one (`RunsTrue`),
and since a balance is given where a statement begins or ends, no movement of
the printed statement is missing (`NoneMissing`). What is left is the reader:
`Sits` says what a waiting statement holds of the lines from its first to the
last one read, and `MessageInv` that each does, the ones above the last down to
the next `:20:`, and that what was emitted is whole.

Only model-checked is liveness (`RunEnds`, `ScreenStops`,
`EveryDueConnectionIsTried`): it needs `ENABLED`. Every other property of a
passing run is the statement of a theorem. `Statements` has no theorem: its one
run is a finding.

## Findings

Each is a run that expects a violation of one statement of the source.

- `doc_terminal`: a run whose process stopped stays pending or running for ever.
  `jobs.py:10-13` says the job always reaches a terminal state.
- `doc_statements`: `_resolve` finds a proposal's line by its `line_id`, and two
  statements without references share ids: the match is built on a line that was
  not searched, with another credit or none, and the line that was searched is in
  neither half. `tiers.py:236` calls net equal to credit the invariant.
- `doc_ingest`: a text file with a NUL byte past the sniffed prefix is
  recognised and then raises out of the adapter; the upload answers 500 and a
  sync fails as a whole. `ingest.py:224-227` promises every outcome is a
  persisted upload.
- `doc_sync`: a fetch of the old mailbox that ends after the connection was
  replaced stamps the new row, so the loop leaves a mailbox it never opened alone
  for a month, which `repo.py:1654-1659` says the reset prevents.

Further statements the code does not keep stand in the modules as definitions
no run checks:

- `ContestedMatchesNothing` (`Matcher`): a contest is forgotten at the next
  tier, where one of the contestants may be matched; `tiers.py:21-23` says
  neither is.
- `MismatchIsOutsideTolerance` (`Matcher`): `AMOUNT_MISMATCH` is also given
  when the amount matches and only the date or an earlier claim stood in the way.
- `AmbiguousStaysOpen` (`AcceptLoop`): a line every tier declines as ambiguous
  can be closed through the analyst, because the verifier counts a suppressed
  copy into one of the two settlements; `verifier.py:184` says it is declined
  there too. For the same reason the listing of such a match and the sum of its
  settlement's rows differ, where `tests/api/test_store.py` asks for exact
  agreement of the breakdown.
- `OneUploadPerFile` (`Uploads`): two threads with one file both insert an
  upload, which `repo.py:421-427` says content addressing prevents.
- `KnownAnswerIsWhole` (`Uploads`): a fault after the first of three commits
  leaves an upload without records, and every later upload of the file is
  answered with it.
- `DeclinedIsReported` (`Sync`): what the build's connector declines is in no
  answer of its route, which never reads `last_skipped`; `imap_mailbox.py:228-232`
  says it is counted and named, never silently dropped.
- `NoMailboxStopsTheOthers` (`Sync`): a mail server that accepts the connection
  and never answers keeps the pass for ever, and no other connection is tried;
  `scheduler.py:23` says one broken mailbox cannot stop the others. TLC finds it
  violated under `SyncSpec` without a fault or a stop.
- `RowsAlwaysClose` (`Intake`): a CSV export with a byte order mark is recognised
  by its prefix, and a byte further on that is no UTF-8 brings the mark back into
  the first column's name: no data row is a record, quarantined or skipped.
  `csv_source.py:265-267` says the three always close, and `base.py:318-322` that
  the order of decodings prevents this error.
- `IdsAreUnique` (`Intake`): a settlement row whose own id is `fee_` and another
  row's id is accepted beside it, and two records share an id; `repo.py:1128` says
  it is unique within a run and a source.

## Not modelled

- *Narrations, prompts, response parsing, PDF layout and wording, money
  parsing*: text. What they decide (a reference found, a signal, a proposal) is
  an input of the modules above.
- *Dataset CSV reader, synthetic data generator, command line tools*:
  straight-line code that runs before the service or beside it.
- *Razorpay API client and watched folder*: they feed a command line tool, not
  the service.
- *Encryption, sessions, settings, start-up*: no state that two steps could see
  differently. The access record written after a response is not modelled.
- *Web console*: rendering; its polling hook is in `RunReaders`.
- *The list of runs, the audit page, text search*: single queries.

`PROJECT.json` gives the reason for each component.

## Plan

Done: the matcher and the ledger it implements; the pool; the accept loop with
the analyst's attempts; the run job, its readers and the result it publishes;
uploads; connections and the monthly fetcher; detection and the adapters;
several statements in one run; the score, GST, drift and listing of a result;
proofs for all of them but the several statements.

Next, in order of what could go wrong unseen:

1. that `Statements` keeps what `Matcher` promises where no two lines share an
   id;
2. the composition of `Sync` and `Uploads`, so that the fetch and a manual
   upload of one file race over the same lookups.
