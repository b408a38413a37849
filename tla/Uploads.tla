------------------------------- MODULE Uploads -------------------------------
(***************************************************************************)
(* The upload pipeline of api/ingest.py, record_upload and upload_inputs   *)
(* of core/store/repo.py, and the runs that read uploads.  Requests run in *)
(* the server's thread pool, so several carry the same file at once; each  *)
(* step here ends at a read or a write of the store or the blob directory. *)
(*                                                                         *)
(* A file is a value; what its adapter finds in it is a constant of the    *)
(* file.  A request that makes a new upload is named like the upload.      *)
(***************************************************************************)
EXTENDS Naturals, FiniteSets, SequencesExt

CONSTANTS
    Uploaders,      \* requests, ordered as the store orders their upload ids
    Files,
    Readable,       \* the files some adapter claims
    Found,          \* per file: [records, damaged], the rows read and unread
    WholeFile,      \* the row that stands for a file with neither
    Readers,        \* runs over uploads
    MaxClock,       \* bound: distinct uploaded_at stamps
    MaxFaults,      \* bound: steps that raise
    MaxCrashes      \* bound: process stops

Rows == UNION {Found[f].records \union Found[f].damaged : f \in Files}

ASSUME UploadsAssumption ==
    /\ Uploaders \subseteq Nat
    /\ Readable \subseteq Files
    /\ WholeFile \notin Rows
    /\ MaxClock \in Nat /\ MaxFaults \in Nat /\ MaxCrashes \in Nat

VARIABLES
    req,            \* each request: next step, file, stamp, the id it answers
    uploads,        \* ids with a row in the uploads table
    records,        \* upload_records: the rows committed for each id
    quarantine,     \* upload_quarantine, likewise
    blobs,          \* files in the blob store
    reader,         \* each run: its selection and the inputs it was given
    clock, faults, crashes

store == <<uploads, records, quarantine>>
env == <<clock, faults, crashes>>
uploadVars == <<req, store, blobs, reader, env>>

----------------------------------------------------------------------------
Working ==
    {"lookup", "parse", "put", "check", "insert", "insert records",
     "insert quarantine"}

\* "new" and "known" are the two 200 answers, "refused" the 422.
Ended == {"new", "known", "refused", "failed", "dead"}

NoUpload == 0

ASSUME NoUploadAssumption == NoUpload \notin Uploaders

RequestType ==
    [at : {"none"} \union Working \union Ended, file : Files, stamp : 0..MaxClock,
     answer : Uploaders \union {NoUpload},
     late : BOOLEAN]    \* received after the same file had been answered

Init ==
    /\ req = [u \in Uploaders |-> [at |-> "none", file |-> CHOOSE f \in Files : TRUE,
                                   stamp |-> 0, answer |-> NoUpload, late |-> FALSE]]
    /\ uploads = {}
    /\ records = [u \in Uploaders |-> {}]
    /\ quarantine = [u \in Uploaders |-> {}]
    /\ blobs = {}
    /\ reader = [k \in Readers |-> [at |-> "none", chosen |-> <<>>, trusted |-> FALSE,
                                    inputs |-> <<>>]]
    /\ clock = 0 /\ faults = 0 /\ crashes = 0

\* uploaded_at first, then the id.
Precedes(a, b) ==
    \/ req[a].stamp < req[b].stamp
    \/ req[a].stamp = req[b].stamp /\ a < b

\* A slip: a file is recognised only by the records it gave.
HoldingRecords(f) == {u \in uploads : req[u].file = f /\ records[u] # {}}

Holding(f) == {u \in uploads : req[u].file = f}

\* repo.upload_for_content, where it finds one.
UploadForContent(f) ==
    CHOOSE u \in Holding(f) : \A v \in Holding(f) \ {u} : Precedes(u, v)

\* enforce_visible_outcome: a file that produced nothing says so.
Quarantined(f) ==
    IF Found[f].records = {} /\ Found[f].damaged = {} THEN {WholeFile}
    ELSE Found[f].damaged

----------------------------------------------------------------------------
\* The request.

Step(u, here, there) ==
    /\ req[u].at = here
    /\ req' = [req EXCEPT ![u].at = there]

Receive(u) ==
    /\ req[u].at = "none"
    /\ clock' \in {clock, clock + 1} \intersect (0..MaxClock)
    /\ \E f \in Files :
         req' = [req EXCEPT ![u] =
            [at |-> "lookup", file |-> f, stamp |-> clock',
             answer |-> NoUpload,
             late |-> \E v \in Uploaders : req[v].file = f /\ req[v].at \in {"new", "known"}]]
    /\ UNCHANGED <<store, blobs, reader, faults, crashes>>

\* Both lookups, in ingest_upload and in record_upload: known content is
\* answered with the upload that holds it.
LookUp(u, here, there) ==
    LET f == req[u].file
    IN  /\ req[u].at = here
        /\ req' = [req EXCEPT ![u].at = IF Holding(f) = {} THEN there ELSE "known",
                              ![u].answer = IF Holding(f) = {} THEN NoUpload
                                            ELSE UploadForContent(f)]

FirstLookUp(u) ==
    /\ LookUp(u, "lookup", "parse")
    /\ UNCHANGED <<store, blobs, reader, env>>

\* A slip: the bytes are not kept.
ParseAndDrop(u) ==
    /\ Step(u, "parse", IF req[u].file \in Readable THEN "check" ELSE "refused")
    /\ UNCHANGED <<store, blobs, reader, env>>

\* Detect and parse a plaintext copy, which is removed whatever happens.
Parse(u) ==
    /\ Step(u, "parse", IF req[u].file \in Readable THEN "put" ELSE "refused")
    /\ UNCHANGED <<store, blobs, reader, env>>

\* A temporary file renamed into place; a blob that is there stays.
PutBlob(u) ==
    /\ Step(u, "put", "check")
    /\ blobs' = blobs \union {req[u].file}
    /\ UNCHANGED <<store, reader, env>>

SecondLookUp(u) ==
    /\ LookUp(u, "check", "insert")
    /\ UNCHANGED <<store, blobs, reader, env>>

\* record_upload's three commits.  Nothing in the schema makes the content
\* unique.
InsertUpload(u) ==
    /\ Step(u, "insert", "insert records")
    /\ uploads' = uploads \union {u}
    /\ UNCHANGED <<records, quarantine, blobs, reader, env>>

InsertRecords(u) ==
    /\ Step(u, "insert records", "insert quarantine")
    /\ records' = [records EXCEPT ![u] = Found[req[u].file].records]
    /\ UNCHANGED <<uploads, quarantine, blobs, reader, env>>

InsertQuarantine(u) ==
    /\ req[u].at = "insert quarantine"
    /\ req' = [req EXCEPT ![u].at = "new", ![u].answer = u]
    /\ quarantine' = [quarantine EXCEPT ![u] = Quarantined(req[u].file)]
    /\ UNCHANGED <<uploads, records, blobs, reader, env>>

\* A step raises: the caller gets a 500, and what was committed stays.
Raise(u) ==
    /\ faults < MaxFaults
    /\ faults' = faults + 1
    /\ req[u].at \in Working
    /\ req' = [req EXCEPT ![u].at = "failed"]
    /\ UNCHANGED <<store, blobs, reader, clock, crashes>>

Crash ==
    /\ crashes < MaxCrashes
    /\ \E u \in Uploaders : req[u].at \in Working
    /\ crashes' = crashes + 1
    /\ req' = [u \in Uploaders |->
                 IF req[u].at \in Working THEN [req[u] EXCEPT !.at = "dead"] ELSE req[u]]
    /\ UNCHANGED <<store, blobs, reader, clock, faults>>

----------------------------------------------------------------------------
\* Runs over uploads.

\* Every id must be an upload and some upload must count a record; the
\* counts come from the uploads rows, which are written before the records.
StartRun(k) ==
    /\ reader[k].at = "none"
    /\ \E chosen \in UNION {SetToSeqs(S) : S \in (SUBSET uploads) \ {{}}} :
         /\ \E i \in DOMAIN chosen : Found[req[chosen[i]].file].records # {}
         /\ reader' = [reader EXCEPT ![k] =
              [at |-> "queued", chosen |-> chosen, inputs |-> <<>>,
               trusted |-> \A i \in DOMAIN chosen : req[chosen[i]].at = "new"]]
    /\ UNCHANGED <<req, store, blobs, env>>

\* A slip: the order the console sent its checkboxes in.
InRequestOrder(chosen) == chosen

\* The set of them, in the order of the store.
InStoreOrder(chosen) ==
    CHOOSE ids \in SetToSeqs(ToSet(chosen)) :
        \A i, j \in DOMAIN ids : i < j => Precedes(ids[i], ids[j])

\* repo.upload_inputs.
ReadInputs(k) ==
    LET ids == InStoreOrder(reader[k].chosen)
    IN  /\ reader[k].at = "queued"
        /\ reader' = [reader EXCEPT ![k].at = "read",
                                    ![k].inputs = [i \in DOMAIN ids |-> records[ids[i]]]]
        /\ UNCHANGED <<req, store, blobs, env>>

Next ==
    \/ \E u \in Uploaders :
         \/ Receive(u) \/ FirstLookUp(u) \/ Parse(u) \/ PutBlob(u) \/ SecondLookUp(u)
         \/ InsertUpload(u) \/ InsertRecords(u) \/ InsertQuarantine(u) \/ Raise(u)
    \/ \E k \in Readers : StartRun(k) \/ ReadInputs(k)
    \/ Crash

Spec == Init /\ [][Next]_uploadVars

----------------------------------------------------------------------------
\* Every variable stays in its declared set.
UploadTypeOK ==
    /\ req \in [Uploaders -> RequestType]
    /\ uploads \subseteq Uploaders
    /\ records \in [Uploaders -> SUBSET Rows]
    /\ quarantine \in [Uploaders -> SUBSET (Rows \union {WholeFile})]
    /\ blobs \subseteq Files
    /\ \A k \in Readers : /\ reader[k].at \in {"none", "queued", "read"}
                          /\ reader[k].trusted \in BOOLEAN
    /\ clock \in 0..MaxClock /\ faults \in 0..MaxFaults /\ crashes \in 0..MaxCrashes

Stored(u) ==
    /\ records[u] = Found[req[u].file].records
    /\ quarantine[u] # {} <=>
         Found[req[u].file].damaged # {} \/ Found[req[u].file].records = {}

\* An upload in the listing can always be read back: its bytes were stored
\* before its row, whatever failed or raced in between.
RowHasItsBlob == \A u \in uploads : req[u].file \in blobs

\* An upload answered as new has all its records and its review queue, and
\* a file that gave no record left something to review.
NewAnswerIsWhole ==
    \A u \in Uploaders : req[u].at = "new" => u \in uploads /\ Stored(u)

\* Both together: what the store answers for is in the store.
AnswersAreBacked == RowHasItsBlob /\ NewAnswerIsWhole

\* A file sent again after it was answered is recognised and never stored
\* a second time, by whichever of the two lookups.
LateUploadIsRecognised ==
    \A u \in Uploaders : req[u].late => u \notin uploads

\* Two runs over the same answered uploads read the same rows in the same
\* order, whatever order their requests named them in and whatever was
\* uploaded meanwhile, and miss none.
SameSelectionSameInputs ==
    \A j, k \in Readers :
        /\ reader[j].at = "read" /\ reader[j].trusted
        /\ reader[k].at = "read" /\ reader[k].trusted
        /\ ToSet(reader[j].chosen) = ToSet(reader[k].chosen)
        => /\ reader[j].inputs = reader[k].inputs
           /\ UNION ToSet(reader[j].inputs) =
                UNION {Found[req[u].file].records : u \in ToSet(reader[j].chosen)}

\* The docstring of UploadIngestion in core/store/repo.py: no merchant
\* holds two upload ids for one document.
OneUploadPerFile ==
    \A u, v \in uploads : req[u].file = req[v].file => u = v

\* The docstring of create_upload in api/routes.py: already_ingested says
\* "we have this, here is what it produced".
KnownAnswerIsWhole ==
    \A u \in Uploaders :
        req[u].at = "known" /\ req[req[u].answer].at \in Ended => Stored(req[u].answer)
=============================================================================
