----------------------------- MODULE UploadsProofs -----------------------------
(***************************************************************************)
(* Theorems of Uploads for any number of requests, files, runs, faults and *)
(* stops.  Requests race, but each writes the rows of its own id only, so  *)
(* where a request stands decides what it has committed; what they share,  *)
(* the uploads and the blobs, only grows.                                  *)
(* The last part is about the runs that read them: a set of uploads can be *)
(* arranged by stamp and id in one way only.                               *)
(***************************************************************************)
EXTENDS Uploads, FiniteSetTheorems, TLAPS

\* Every request is a record; the id it answers is of no concern here.
IsRequest(r) ==
    r \in [at : {r.at}, file : {r.file}, stamp : {r.stamp}, answer : {r.answer}, late : BOOLEAN]

Shaped ==
    /\ req = [u \in Uploaders |-> req[u]]
    /\ \A u \in Uploaders : IsRequest(req[u]) /\ req[u].stamp \in Nat
    /\ uploads \subseteq Uploaders
    /\ records = [u \in Uploaders |-> records[u]]
    /\ quarantine = [u \in Uploaders |-> quarantine[u]]

Received(u) == req[u].at # "none"

\* Where a request stands decides what it has committed.
CommittedInv(u) ==
    /\ req[u].at \in {"insert records", "insert quarantine", "new"} => u \in uploads
    /\ req[u].at \in {"check", "insert"} => req[u].file \in blobs
    /\ u \in uploads =>
         /\ req[u].file \in blobs
         /\ req[u].at \notin {"none", "lookup", "parse", "put", "check", "insert"}
    /\ req[u].at \in {"insert quarantine", "new"} => records[u] = Found[req[u].file].records
    /\ req[u].at = "new" => quarantine[u] = Quarantined(req[u].file)

\* The file of v is held by an upload.
Kept(v) == \E u \in uploads : req[u].file = req[v].file

\* A file that was answered once is held from then on, so a request that came
\* later never gets past its first lookup.
AnsweredInv(u) ==
    /\ req[u].at \in {"new", "known"} => Kept(u)
    /\ req[u].late => /\ Kept(u)
                      /\ req[u].at \in {"lookup", "known", "failed", "dead"}
                      /\ u \notin uploads

UploadInv == Shaped /\ \A u \in Uploaders : CommittedInv(u) /\ AnsweredInv(u)

----------------------------------------------------------------------------
\* One request moves, the others do not.

Alone(u) ==
    \A v \in Uploaders \ {u} :
        /\ req'[v] = req[v] /\ records'[v] = records[v] /\ quarantine'[v] = quarantine[v]
        /\ v \in uploads' <=> v \in uploads

\* A received request keeps its file and the shared store only grows.
Grows ==
    /\ uploads \subseteq uploads' /\ blobs \subseteq blobs'
    /\ \A u \in Uploaders : Received(u) => req'[u].file = req[u].file

\* A request that moves.
LEMMA Moving ==
    ASSUME NEW r, IsRequest(r), NEW x
    PROVE  /\ [r EXCEPT !.at = x].at = x
           /\ [r EXCEPT !.at = x].file = r.file
           /\ [r EXCEPT !.at = x].late = r.late
           /\ [r EXCEPT !.at = x].stamp = r.stamp
           /\ IsRequest([r EXCEPT !.at = x])
<1>1. r \in [at : {r.at}, file : {r.file}, stamp : {r.stamp}, answer : {r.answer},
             late : BOOLEAN]
  BY DEF IsRequest
<1>2. /\ [r EXCEPT !.at = x].at = x
      /\ [r EXCEPT !.at = x].file = r.file
      /\ [r EXCEPT !.at = x].late = r.late
      /\ [r EXCEPT !.at = x].stamp = r.stamp
      /\ [r EXCEPT !.at = x] \in [at : {x}, file : {r.file}, stamp : {r.stamp},
                                  answer : {r.answer}, late : BOOLEAN]
  BY <1>1
<1> QED
  BY <1>2 DEF IsRequest

\* A request that is given an answer as well.
LEMMA Answering ==
    ASSUME NEW r, IsRequest(r), NEW x, NEW y
    PROVE  /\ [r EXCEPT !.at = x, !.answer = y].at = x
           /\ [r EXCEPT !.at = x, !.answer = y].file = r.file
           /\ [r EXCEPT !.at = x, !.answer = y].late = r.late
           /\ [r EXCEPT !.at = x, !.answer = y].stamp = r.stamp
           /\ IsRequest([r EXCEPT !.at = x, !.answer = y])
<1>1. r \in [at : {r.at}, file : {r.file}, stamp : {r.stamp}, answer : {r.answer},
             late : BOOLEAN]
  BY DEF IsRequest
<1>2. /\ [r EXCEPT !.at = x, !.answer = y].at = x
      /\ [r EXCEPT !.at = x, !.answer = y].file = r.file
      /\ [r EXCEPT !.at = x, !.answer = y].late = r.late
      /\ [r EXCEPT !.at = x, !.answer = y].stamp = r.stamp
      /\ [r EXCEPT !.at = x, !.answer = y] \in
            [at : {x}, file : {r.file}, stamp : {r.stamp}, answer : {y}, late : BOOLEAN]
  BY <1>1
<1> QED
  BY <1>2 DEF IsRequest

\* What such a step does to the requests.
Goes(u, there) ==
    /\ req' = [v \in Uploaders |-> req'[v]]
    /\ req'[u].at = there /\ req'[u].file = req[u].file /\ req'[u].late = req[u].late
    /\ req'[u].stamp = req[u].stamp
    /\ IsRequest(req'[u])
    /\ \A v \in Uploaders \ {u} : req'[v] = req[v]

LEMMA Going ==
    ASSUME UploadInv, NEW u \in Uploaders, NEW there, NEW y,
           \/ req' = [req EXCEPT ![u].at = there]
           \/ req' = [req EXCEPT ![u].at = there, ![u].answer = y]
    PROVE  Goes(u, there)
<1>1. IsRequest(req[u]) /\ req = [v \in Uploaders |-> req[v]]
  BY DEF UploadInv, Shaped
<1>2. PICK t : /\ req' = [req EXCEPT ![u] = t]
               /\ t.at = there /\ t.file = req[u].file /\ t.late = req[u].late
               /\ t.stamp = req[u].stamp /\ IsRequest(t)
  <2>1. CASE req' = [req EXCEPT ![u].at = there]
    <3> DEFINE t == [req[u] EXCEPT !.at = there]
    <3>1. req' = [req EXCEPT ![u] = t]
      BY <1>1, <2>1
    <3>2. /\ t.at = there /\ t.file = req[u].file /\ t.late = req[u].late
          /\ t.stamp = req[u].stamp /\ IsRequest(t)
      BY <1>1, Moving
    <3> HIDE DEF t
    <3> QED
      BY <3>1, <3>2
  <2>2. CASE req' = [req EXCEPT ![u].at = there, ![u].answer = y]
    <3>1. req' = [req EXCEPT ![u] = [req[u] EXCEPT !.at = there, !.answer = y]]
      BY <1>1, <2>2
    <3> DEFINE t == [req[u] EXCEPT !.at = there, !.answer = y]
    <3>2. /\ t.at = there /\ t.file = req[u].file /\ t.late = req[u].late
          /\ t.stamp = req[u].stamp /\ IsRequest(t)
      <4> DEFINE r == req[u]
      <4>1. IsRequest(r)
        BY <1>1
      <4> HIDE DEF r
      <4>2. /\ [r EXCEPT !.at = there, !.answer = y].at = there
            /\ [r EXCEPT !.at = there, !.answer = y].file = r.file
            /\ [r EXCEPT !.at = there, !.answer = y].late = r.late
            /\ [r EXCEPT !.at = there, !.answer = y].stamp = r.stamp
            /\ IsRequest([r EXCEPT !.at = there, !.answer = y])
        BY <4>1, Answering
      <4> QED
        BY <4>2 DEF r
    <3> HIDE DEF t
    <3> QED
      BY <3>1, <3>2 DEF t
  <2> QED
    BY <2>1, <2>2
<1> QED
  BY <1>1, <1>2 DEF Goes

LEMMA Stepping ==
    ASSUME UploadInv, NEW u \in Uploaders, NEW here, NEW there, Step(u, here, there)
    PROVE  req[u].at = here /\ Goes(u, there)
  BY Going DEF Step

\* Whoever holds a file goes on holding it.
LEMMA HoldersStay ==
    ASSUME UploadInv, Grows
    PROVE  \A f : (\E u \in uploads : req[u].file = f) => \E u \in uploads' : req'[u].file = f
  BY DEF UploadInv, Shaped, CommittedInv, Received, Grows

\* A request nobody touched keeps what holds of it.
LEMMA Untouched ==
    ASSUME UploadInv, Grows, NEW v \in Uploaders, req'[v] = req[v],
           records'[v] = records[v], quarantine'[v] = quarantine[v],
           v \in uploads' <=> v \in uploads
    PROVE  (CommittedInv(v) /\ AnsweredInv(v))'
<1>1. CommittedInv(v)'
  BY DEF UploadInv, CommittedInv, Grows, Quarantined
<1>2. Kept(v) => Kept(v)'
  BY HoldersStay DEF Kept
<1> QED
  BY <1>1, <1>2 DEF UploadInv, AnsweredInv

\* A step of u alone: what is left to show is about u.
LEMMA OneMoves ==
    ASSUME UploadInv, Shaped', Grows, NEW u \in Uploaders, Alone(u),
           (CommittedInv(u) /\ AnsweredInv(u))'
    PROVE  UploadInv'
<1>1. ASSUME NEW v \in Uploaders \ {u} PROVE (CommittedInv(v) /\ AnsweredInv(v))'
  BY Untouched DEF Alone
<1> QED
  BY <1>1 DEF UploadInv

----------------------------------------------------------------------------
\* The steps.

LEMMA ReceiveKeeps ==
    ASSUME UploadInv, NEW u \in Uploaders, Receive(u)
    PROVE  UploadInv'
<1>1. PICK f \in Files :
         req' = [req EXCEPT ![u] =
            [at |-> "lookup", file |-> f, stamp |-> clock', answer |-> NoUpload,
             late |-> \E v \in Uploaders : req[v].file = f /\ req[v].at \in {"new", "known"}]]
  BY DEF Receive
<1>2. UNCHANGED <<store, blobs>> /\ req[u].at = "none"
  BY DEF Receive
<1>3. /\ req'[u].at = "lookup" /\ req'[u].file = f
      /\ req'[u].late = \E v \in Uploaders : req[v].file = f /\ req[v].at \in {"new", "known"}
      /\ \A v \in Uploaders \ {u} : req'[v] = req[v]
  BY <1>1 DEF UploadInv, Shaped
<1>4. Shaped'
  <2>1. req' = [v \in Uploaders |-> req'[v]] /\ IsRequest(req'[u])
    BY <1>1, <1>3 DEF UploadInv, Shaped, IsRequest
  <2>2. req'[u].stamp \in Nat
    <3>1. req'[u].stamp = clock' /\ clock' \in 0..MaxClock
      BY <1>1 DEF Receive, UploadInv, Shaped
    <3> QED
      BY <3>1, UploadsAssumption
  <2> QED
    BY <1>2, <1>3, <2>1, <2>2 DEF UploadInv, Shaped, store
<1>5. Grows /\ Alone(u)
  BY <1>2, <1>3 DEF Grows, Alone, Received, store
<1>6. u \notin uploads
  BY <1>2 DEF UploadInv, CommittedInv
<1>7. req'[u].late => Kept(u)'
  <2> SUFFICES ASSUME req'[u].late PROVE Kept(u)'
    OBVIOUS
  <2>1. \E v \in uploads : req[v].file = f
    BY <1>3 DEF UploadInv, AnsweredInv, Kept
  <2> QED
    BY <1>3, <1>5, <2>1, HoldersStay DEF Kept
<1>8. (CommittedInv(u) /\ AnsweredInv(u))'
  BY <1>2, <1>3, <1>6, <1>7 DEF CommittedInv, AnsweredInv, store
<1> QED
  BY <1>4, <1>5, <1>8, OneMoves

\* Both lookups.
LEMMA LookUpKeeps ==
    ASSUME UploadInv, NEW u \in Uploaders, NEW here \in {"lookup", "check"}, NEW there,
           here = "lookup" => there = "parse", here = "check" => there = "insert",
           LookUp(u, here, there), UNCHANGED <<store, blobs>>
    PROVE  UploadInv'
<1> DEFINE at == IF Holding(req[u].file) = {} THEN there ELSE "known"
<1>1. req[u].at = here /\ Goes(u, at)
  BY Going DEF LookUp
<1>2. (at = "known" /\ Kept(u)) \/ (at = there /\ ~Kept(u))
  BY DEF Holding, Kept
<1> HIDE DEF at
<1>3. Shaped'
  BY <1>1 DEF UploadInv, Shaped, store, Goes
<1>4. Grows /\ Alone(u)
  BY <1>1 DEF Grows, Alone, store, Goes
<1>5. Kept(u) => Kept(u)'
  BY <1>1, <1>4, HoldersStay DEF Kept, Goes
<1>6. (CommittedInv(u) /\ AnsweredInv(u))'
  BY <1>1, <1>2, <1>5 DEF UploadInv, CommittedInv, AnsweredInv, store, Goes
<1> QED
  BY <1>3, <1>4, <1>6, OneMoves

LEMMA ParseKeeps ==
    ASSUME UploadInv, NEW u \in Uploaders, Parse(u)
    PROVE  UploadInv'
<1>1. PICK there \in {"put", "refused"} : req[u].at = "parse" /\ Goes(u, there)
  BY Stepping DEF Parse
<1>2. UNCHANGED <<store, blobs>>
  BY DEF Parse
<1>3. Shaped'
  BY <1>1, <1>2 DEF UploadInv, Shaped, store, Goes
<1>4. Grows /\ Alone(u)
  BY <1>1, <1>2 DEF Grows, Alone, store, Goes
<1>5. (CommittedInv(u) /\ AnsweredInv(u))'
  BY <1>1, <1>2 DEF UploadInv, CommittedInv, AnsweredInv, store, Goes
<1> QED
  BY <1>3, <1>4, <1>5, OneMoves

LEMMA PutBlobKeeps ==
    ASSUME UploadInv, NEW u \in Uploaders, PutBlob(u)
    PROVE  UploadInv'
<1>1. req[u].at = "put" /\ Goes(u, "check")
  BY Stepping DEF PutBlob
<1>2. UNCHANGED store /\ blobs' = blobs \union {req[u].file}
  BY DEF PutBlob
<1>3. Shaped'
  BY <1>1, <1>2 DEF UploadInv, Shaped, store, Goes
<1>4. Grows /\ Alone(u)
  BY <1>1, <1>2 DEF Grows, Alone, store, Goes
<1>5. (CommittedInv(u) /\ AnsweredInv(u))'
  BY <1>1, <1>2 DEF UploadInv, CommittedInv, AnsweredInv, store, Goes
<1> QED
  BY <1>3, <1>4, <1>5, OneMoves

LEMMA InsertUploadKeeps ==
    ASSUME UploadInv, NEW u \in Uploaders, InsertUpload(u)
    PROVE  UploadInv'
<1>1. req[u].at = "insert" /\ Goes(u, "insert records")
  BY Stepping DEF InsertUpload
<1>2. uploads' = uploads \union {u} /\ UNCHANGED <<records, quarantine, blobs>>
  BY DEF InsertUpload
<1>3. Shaped'
  BY <1>1, <1>2 DEF UploadInv, Shaped, Goes
<1>4. Grows /\ Alone(u)
  BY <1>1, <1>2 DEF Grows, Alone, Goes
<1>5. (CommittedInv(u) /\ AnsweredInv(u))'
  BY <1>1, <1>2 DEF UploadInv, CommittedInv, AnsweredInv, Goes
<1> QED
  BY <1>3, <1>4, <1>5, OneMoves

LEMMA InsertRecordsKeeps ==
    ASSUME UploadInv, NEW u \in Uploaders, InsertRecords(u)
    PROVE  UploadInv'
<1>1. req[u].at = "insert records" /\ Goes(u, "insert quarantine")
  BY Stepping DEF InsertRecords
<1>2. /\ records' = [records EXCEPT ![u] = Found[req[u].file].records]
      /\ UNCHANGED <<uploads, quarantine, blobs>>
  BY DEF InsertRecords
<1>3. /\ records' = [v \in Uploaders |-> records'[v]]
      /\ records'[u] = Found[req[u].file].records
      /\ \A v \in Uploaders \ {u} : records'[v] = records[v]
  BY <1>2 DEF UploadInv, Shaped
<1>4. Shaped'
  BY <1>1, <1>2, <1>3 DEF UploadInv, Shaped, Goes
<1>5. Grows /\ Alone(u)
  BY <1>1, <1>2, <1>3 DEF Grows, Alone, Goes
<1>6. (CommittedInv(u) /\ AnsweredInv(u))'
  BY <1>1, <1>2, <1>3 DEF UploadInv, CommittedInv, AnsweredInv, Goes
<1> QED
  BY <1>4, <1>5, <1>6, OneMoves

LEMMA InsertQuarantineKeeps ==
    ASSUME UploadInv, NEW u \in Uploaders, InsertQuarantine(u)
    PROVE  UploadInv'
<1>1. req[u].at = "insert quarantine" /\ Goes(u, "new")
  BY Going DEF InsertQuarantine
<1>2. /\ quarantine' = [quarantine EXCEPT ![u] = Quarantined(req[u].file)]
      /\ UNCHANGED <<uploads, records, blobs>>
  BY DEF InsertQuarantine
<1>3. /\ quarantine' = [v \in Uploaders |-> quarantine'[v]]
      /\ quarantine'[u] = Quarantined(req[u].file)
      /\ \A v \in Uploaders \ {u} : quarantine'[v] = quarantine[v]
  BY <1>2 DEF UploadInv, Shaped
<1>4. Shaped'
  BY <1>1, <1>2, <1>3 DEF UploadInv, Shaped, Goes
<1>5. Grows /\ Alone(u)
  BY <1>1, <1>2, <1>3 DEF Grows, Alone, Goes
<1>6. Kept(u)'
  <2>1. u \in uploads'
    BY <1>1, <1>2 DEF UploadInv, CommittedInv
  <2> QED
    BY <2>1 DEF Kept
<1>7. (CommittedInv(u) /\ AnsweredInv(u))'
  BY <1>1, <1>2, <1>3, <1>6 DEF UploadInv, CommittedInv, AnsweredInv, Goes, Quarantined
<1> QED
  BY <1>4, <1>5, <1>7, OneMoves

LEMMA RaiseKeeps ==
    ASSUME UploadInv, NEW u \in Uploaders, Raise(u)
    PROVE  UploadInv'
<1>1. req[u].at \in Working /\ Goes(u, "failed")
  BY Going DEF Raise
<1>2. UNCHANGED <<store, blobs>>
  BY DEF Raise
<1>3. Shaped'
  BY <1>1, <1>2 DEF UploadInv, Shaped, store, Goes
<1>4. Grows /\ Alone(u)
  BY <1>1, <1>2 DEF Grows, Alone, store, Goes
<1>5. Kept(u) => Kept(u)'
  BY <1>1, <1>4, HoldersStay DEF Kept, Goes
<1>6. (CommittedInv(u) /\ AnsweredInv(u))'
  BY <1>1, <1>2, <1>5 DEF UploadInv, CommittedInv, AnsweredInv, store, Goes
<1> QED
  BY <1>3, <1>4, <1>6, OneMoves

LEMMA CrashKeeps ==
    ASSUME UploadInv, Crash
    PROVE  UploadInv'
<1>1. /\ req' = [u \in Uploaders |->
                   IF req[u].at \in Working THEN [req[u] EXCEPT !.at = "dead"] ELSE req[u]]
      /\ UNCHANGED <<store, blobs>>
  BY DEF Crash
<1>2. ASSUME NEW u \in Uploaders
      PROVE  /\ req'[u].file = req[u].file /\ req'[u].late = req[u].late
             /\ req'[u].stamp = req[u].stamp
             /\ \/ req'[u].at = req[u].at
                \/ req[u].at \in Working /\ req'[u].at = "dead"
             /\ IsRequest(req'[u])
  <2>1. IsRequest(req[u])
    BY DEF UploadInv, Shaped
  <2> DEFINE t == [req[u] EXCEPT !.at = "dead"]
  <2>2. /\ t.at = "dead" /\ t.file = req[u].file /\ t.late = req[u].late
        /\ t.stamp = req[u].stamp /\ IsRequest(t)
    BY <2>1, Moving
  <2>3. (req'[u] = t /\ req[u].at \in Working) \/ req'[u] = req[u]
    BY <1>1
  <2> HIDE DEF t
  <2> QED
    BY <2>1, <2>2, <2>3
<1>3. Shaped'
  <2>1. req' = [u \in Uploaders |-> req'[u]]
    BY <1>1
  <2> QED
    BY <1>1, <1>2, <2>1 DEF UploadInv, Shaped, store
<1>4. Grows
  BY <1>1, <1>2 DEF Grows, store
<1>5. ASSUME NEW u \in Uploaders PROVE (CommittedInv(u) /\ AnsweredInv(u))'
  <2>1. Kept(u) => Kept(u)'
    BY <1>2, <1>4, HoldersStay DEF Kept
  <2>2. UNCHANGED <<uploads, records, quarantine, blobs>>
    BY <1>1 DEF store
  <2>3. CommittedInv(u)'
    BY <1>2, <2>2 DEF UploadInv, CommittedInv, Working
  <2>4. AnsweredInv(u)'
    BY <1>2, <2>1, <2>2 DEF UploadInv, AnsweredInv
  <2> QED
    BY <2>3, <2>4
<1> QED
  BY <1>3, <1>5 DEF UploadInv

LEMMA NextKeeps == ASSUME UploadInv, [Next]_uploadVars PROVE UploadInv'
<1>1. ASSUME NEW u \in Uploaders, FirstLookUp(u) \/ SecondLookUp(u) PROVE UploadInv'
  BY <1>1, LookUpKeeps DEF FirstLookUp, SecondLookUp
<1>3. CASE UNCHANGED <<req, store, blobs>>
  BY <1>3 DEF UploadInv, Shaped, CommittedInv, AnsweredInv, Kept, store, Quarantined
<1>4. CASE (\E k \in Readers : StartRun(k) \/ ReadInputs(k)) \/ UNCHANGED uploadVars
  BY <1>3, <1>4 DEF StartRun, ReadInputs, uploadVars
<1> QED
  BY <1>1, <1>4, ReceiveKeeps, ParseKeeps, PutBlobKeeps, InsertUploadKeeps, InsertRecordsKeeps,
     InsertQuarantineKeeps, RaiseKeeps, CrashKeeps DEF Next

----------------------------------------------------------------------------
\* The theorems.

LEMMA InitUploadInv == Init => UploadInv
<1> SUFFICES ASSUME Init PROVE UploadInv
  OBVIOUS
<1>1. uploads = {} /\ \A u \in Uploaders : req[u].at = "none" /\ ~req[u].late
  BY DEF Init
<1>2. Shaped
  BY DEF Init, Shaped, IsRequest
<1> QED
  BY <1>1, <1>2 DEF UploadInv, CommittedInv, AnsweredInv

\* Where a request stands decides what it committed, and a file once answered
\* is held for ever.
THEOREM UploadInvariance == Spec => []UploadInv
  BY InitUploadInv, NextKeeps, PTL DEF Spec

\* Every listed upload has its bytes, and an answer "new" has every record and
\* every row of its review queue in the store.
THEOREM Backed == Spec => []AnswersAreBacked
<1>1. UploadInv => AnswersAreBacked
  <2> SUFFICES ASSUME UploadInv PROVE AnswersAreBacked
    OBVIOUS
  <2>1. RowHasItsBlob
    BY DEF UploadInv, Shaped, CommittedInv, RowHasItsBlob
  <2>2. ASSUME NEW u \in Uploaders, req[u].at = "new" PROVE u \in uploads /\ Stored(u)
    BY <2>2 DEF UploadInv, CommittedInv, Stored, Quarantined
  <2> QED
    BY <2>1, <2>2 DEF AnswersAreBacked, NewAnswerIsWhole
<1> QED
  BY <1>1, UploadInvariance, PTL

\* A file sent again after it was answered is never stored a second time.
THEOREM Recognised == Spec => []LateUploadIsRecognised
<1>1. UploadInv => LateUploadIsRecognised
  BY DEF UploadInv, AnsweredInv, LateUploadIsRecognised
<1> QED
  BY <1>1, UploadInvariance, PTL

----------------------------------------------------------------------------
\* Runs over uploads: the order of the store.

\* An arrangement of a set of uploads is what ORDER BY uploaded_at, upload_id
\* makes of it.
Arranged(ids, S) ==
    ids \in SetToSeqs(S) /\ \A i, j \in DOMAIN ids : i < j => Precedes(ids[i], ids[j])

Upto(x, S) == {y \in S : y = x \/ Precedes(y, x)}

Place(x, S) == Cardinality(Upto(x, S))

\* Of two uploads one was stored before the other, and never both.
LEMMA PrecedesIsAnOrder ==
    ASSUME Shaped, NEW a \in Uploaders, NEW b \in Uploaders
    PROVE  /\ a = b \/ Precedes(a, b) \/ Precedes(b, a)
           /\ Precedes(a, b) => ~Precedes(b, a) /\ a # b
           /\ \A c \in Uploaders : Precedes(a, b) /\ Precedes(b, c) => Precedes(a, c)
<1>1. \A u \in Uploaders : req[u].stamp \in Nat /\ u \in Nat
  BY UploadsAssumption DEF Shaped
<1> QED
  BY <1>1 DEF Precedes

\* Counting the uploads up to one gives each of them a place of its own.
LEMMA PlacesFollowTheOrder ==
    ASSUME Shaped, NEW S \in SUBSET Uploaders, IsFiniteSet(S), NEW x \in S
    PROVE  /\ Place(x, S) \in 1..Cardinality(S)
           /\ \A y \in S : Precedes(x, y) => Place(x, S) < Place(y, S)
<1>1. ASSUME NEW z \in S
      PROVE  /\ IsFiniteSet(Upto(z, S)) /\ Place(z, S) \in Nat
             /\ Place(z, S) <= Cardinality(S) /\ Cardinality(S) \in Nat
  <2>1. Upto(z, S) \in SUBSET S
    BY DEF Upto
  <2> QED
    BY <2>1, FS_Subset, FS_CardinalityType DEF Place
<1>2. Place(x, S) # 0
  <2>1. x \in Upto(x, S)
    BY DEF Upto
  <2> QED
    BY <1>1, <2>1, FS_EmptySet DEF Place
<1>3. ASSUME NEW y \in S, Precedes(x, y) PROVE Place(x, S) < Place(y, S)
  <2>1. Upto(x, S) \subseteq Upto(y, S)
    BY <1>3, PrecedesIsAnOrder DEF Upto
  <2>2. y \in Upto(y, S) /\ y \notin Upto(x, S)
    BY <1>3, PrecedesIsAnOrder DEF Upto
  <2>3. Place(x, S) <= Place(y, S) /\ Place(x, S) # Place(y, S)
    BY <1>1, <2>1, <2>2, FS_Subset DEF Place
  <2> QED
    BY <1>1, <2>3
<1> QED
  BY <1>1, <1>2, <1>3

LEMMA PlacesApart ==
    ASSUME Shaped, NEW S \in SUBSET Uploaders, IsFiniteSet(S), NEW x \in S, NEW y \in S,
           Place(x, S) = Place(y, S)
    PROVE  x = y
<1>1. Place(x, S) \in Nat /\ Place(y, S) \in Nat
  BY PlacesFollowTheOrder
<1>2. ~Precedes(x, y) /\ ~Precedes(y, x)
  BY <1>1, PlacesFollowTheOrder
<1> QED
  BY <1>2, PrecedesIsAnOrder

\* An injection into a set of as many elements reaches all of them.
LEMMA InjectionReachesAll ==
    ASSUME NEW S, NEW T, IsFiniteSet(S), IsFiniteSet(T),
           Cardinality(S) = Cardinality(T), NEW f \in [S -> T],
           \A a, b \in S : f[a] = f[b] => a = b
    PROVE  \A t \in T : \E s \in S : f[s] = t
<1>1. f \in Injection(S, T)
  BY DEF Injection, IsInjective
<1>2. f \in Surjection(S, T)
  BY <1>1, FS_Injection
<1> QED
  BY <1>2 DEF Surjection

LEMMA OneTo ==
    ASSUME NEW n \in Nat
    PROVE  IsFiniteSet(1..n) /\ Cardinality(1..n) = n
<1>1. n \in Int /\ 1 \in Int /\ (1 > n => n = 0)
  OBVIOUS
<1> QED
  BY <1>1, FS_Interval

\* So there is an arrangement: everything in its place.
LEMMA ArrangementExists ==
    ASSUME Shaped, NEW S \in SUBSET Uploaders, IsFiniteSet(S)
    PROVE  \E ids : Arranged(ids, S)
<1> DEFINE n == Cardinality(S)
           place == [x \in S |-> Place(x, S)]
           at(i) == CHOOSE x \in S : Place(x, S) = i
           ids == [i \in 1..n |-> at(i)]
<1>1. n \in Nat
  BY FS_CardinalityType
<1>2. place \in [S -> 1..n]
  BY PlacesFollowTheOrder
<1>3. \A x, y \in S : place[x] = place[y] => x = y
  BY PlacesApart
<1>4. IsFiniteSet(1..n) /\ Cardinality(1..n) = n
  BY <1>1, OneTo
<1>5. \A i \in 1..n : \E x \in S : place[x] = i
  <2> DEFINE T == 1..n
  <2>1. place \in [S -> T] /\ IsFiniteSet(T) /\ Cardinality(S) = Cardinality(T)
    BY <1>2, <1>4
  <2> HIDE DEF place, n, T
  <2>2. \A i \in T : \E x \in S : place[x] = i
    BY <1>3, <2>1, InjectionReachesAll
  <2> QED
    BY <2>2 DEF T
<1>6. \A i \in 1..n : at(i) \in S /\ Place(at(i), S) = i
  BY <1>5
<1> HIDE DEF at, place
<1>7. \A i, j \in 1..n : i # j => ids[i] # ids[j]
  BY <1>6
<1>8. ids \in SetToSeqs(S)
  BY <1>6, <1>7 DEF SetToSeqs
<1>9. ASSUME NEW i \in 1..n, NEW j \in 1..n, i < j PROVE Precedes(at(i), at(j))
  <2>1. at(i) \in S /\ at(j) \in S /\ at(i) \in Uploaders /\ at(j) \in Uploaders
    BY <1>6
  <2>2. at(i) # at(j) /\ ~Precedes(at(j), at(i))
    <3>1. i \in Int /\ j \in Int
      BY <1>1
    <3>2. Place(at(i), S) = i /\ Place(at(j), S) = j
      BY <1>6
    <3>3. Precedes(at(j), at(i)) => Place(at(j), S) < Place(at(i), S)
      BY <2>1, PlacesFollowTheOrder
    <3> QED
      BY <1>9, <3>1, <3>2, <3>3
  <2> QED
    BY <2>1, <2>2, PrecedesIsAnOrder
<1>10. Arranged(ids, S)
  BY <1>8, <1>9 DEF Arranged
<1> QED
  BY <1>10

\* And no other: the i-th of an arrangement has i uploads up to it.
LEMMA ArrangementPlaces ==
    ASSUME Shaped, NEW S \in SUBSET Uploaders, IsFiniteSet(S), NEW ids, Arranged(ids, S)
    PROVE  /\ ids \in [1..Cardinality(S) -> S]
           /\ ToSet(ids) = S
           /\ \A i \in 1..Cardinality(S) : Place(ids[i], S) = i
<1> DEFINE n == Cardinality(S)
<1>1. n \in Nat /\ IsFiniteSet(1..n) /\ Cardinality(1..n) = n
  BY FS_CardinalityType, OneTo
<1>2. ids \in [1..n -> S] /\ \A i, j \in 1..n : ids[i] = ids[j] => i = j
  BY DEF Arranged, SetToSeqs
<1>3. \A x \in S : \E i \in 1..n : ids[i] = x
  <2>1. Cardinality(S) = Cardinality(1..n)
    BY <1>1
  <2> HIDE DEF n
  <2> QED
    BY <1>1, <1>2, <2>1, InjectionReachesAll
<1>4. ToSet(ids) = S
  BY <1>2, <1>3 DEF ToSet
<1>5. ASSUME NEW i \in 1..n PROVE Place(ids[i], S) = i
  <2>1. \A j \in 1..n : ids[j] \in Uploaders /\ j \in Int /\ i \in Int
    BY <1>1, <1>2
  <2>2. \A j \in 1..n : ids[j] \in Upto(ids[i], S) <=> j <= i
    <3> SUFFICES ASSUME NEW j \in 1..n PROVE ids[j] \in Upto(ids[i], S) <=> j <= i
      OBVIOUS
    <3>1. \A k, l \in 1..n : k < l => Precedes(ids[k], ids[l])
      BY <1>2 DEF Arranged
    <3>2. CASE j < i
      BY <1>2, <2>1, <3>1, <3>2 DEF Upto
    <3>3. CASE j = i
      BY <1>2, <2>1, <3>3 DEF Upto
    <3>4. CASE i < j
      <4>1. Precedes(ids[i], ids[j])
        BY <3>1, <3>4
      <4>2. ids[j] # ids[i] /\ ~Precedes(ids[j], ids[i])
        BY <2>1, <4>1, PrecedesIsAnOrder
      <4> QED
        BY <2>1, <3>4, <4>2 DEF Upto
    <3> QED
      BY <2>1, <3>2, <3>3, <3>4
  <2> DEFINE f == [j \in 1..i |-> ids[j]]
             T == Upto(ids[i], S)
  <2>3. i \in Nat /\ \A j \in 1..i : j \in 1..n /\ j <= i
    BY <1>1
  <2>4. f \in [1..i -> T]
    BY <2>2, <2>3
  <2>5. \A a, b \in 1..i : f[a] = f[b] => a = b
    BY <1>2, <2>3
  <2>6. \A t \in T : \E a \in 1..i : f[a] = t
    <3> SUFFICES ASSUME NEW t \in T PROVE \E a \in 1..i : f[a] = t
      OBVIOUS
    <3>1. PICK a \in 1..n : ids[a] = t
      BY <1>3 DEF Upto
    <3>2. a \in 1..i
      BY <2>1, <2>2, <3>1
    <3> QED
      BY <3>1, <3>2
  <2> HIDE DEF f, T
  <2>7. f \in Bijection(1..i, T)
    BY <2>4, <2>5, <2>6 DEF Bijection, Injection, Surjection, IsInjective
  <2>8. Cardinality(T) = i
    BY <2>3, <2>7, FS_CountingElements DEF ExistsBijection
  <2> QED
    BY <2>8 DEF T, Place
<1> QED
  BY <1>2, <1>4, <1>5

LEMMA ArrangementIsOne ==
    ASSUME Shaped, NEW S \in SUBSET Uploaders, IsFiniteSet(S),
           NEW a, Arranged(a, S), NEW b, Arranged(b, S)
    PROVE  a = b
<1>1. /\ a \in [1..Cardinality(S) -> S] /\ b \in [1..Cardinality(S) -> S]
      /\ \A i \in 1..Cardinality(S) : Place(a[i], S) = Place(b[i], S)
  BY ArrangementPlaces
<1>2. \A i \in 1..Cardinality(S) : a[i] = b[i]
  BY <1>1, PlacesApart
<1>3. a = [i \in 1..Cardinality(S) |-> a[i]] /\ b = [i \in 1..Cardinality(S) |-> b[i]]
  BY <1>1
<1> QED
  BY <1>2, <1>3

----------------------------------------------------------------------------
\* Runs over uploads: what they read.

IsReader(r) ==
    r \in [at : {r.at}, chosen : {r.chosen}, trusted : {r.trusted}, inputs : {r.inputs}]

Chosen(k) == ToSet(reader[k].chosen)

\* A run chooses among the uploads there are; a trusted one has chosen answered
\* uploads, and reads the records of their files in the order of the store.
ReaderInv(k) ==
    reader[k].at # "none" =>
        /\ Chosen(k) \subseteq uploads
        /\ reader[k].trusted => \A u \in Chosen(k) : req[u].at = "new"
        /\ reader[k].at = "read" /\ reader[k].trusted =>
             \E ids : /\ Arranged(ids, Chosen(k))
                      /\ reader[k].inputs =
                           [i \in DOMAIN ids |-> Found[req[ids[i]].file].records]

ReadersInv ==
    /\ IsFiniteSet(uploads)
    /\ reader = [k \in Readers |-> reader[k]]
    /\ \A k \in Readers : IsReader(reader[k]) /\ ReaderInv(k)

\* An answered request is never touched again, and the uploads only grow, by
\* one at a time.
LEMMA AnsweredStays ==
    ASSUME UploadInv, [Next]_uploadVars, NEW u \in Uploaders, req[u].at = "new"
    PROVE  req'[u] = req[u]
<1>1. ASSUME NEW v \in Uploaders,
             \/ Receive(v) \/ FirstLookUp(v) \/ Parse(v) \/ PutBlob(v) \/ SecondLookUp(v)
             \/ InsertUpload(v) \/ InsertRecords(v) \/ InsertQuarantine(v) \/ Raise(v)
      PROVE  req'[u] = req[u]
  <2>1. v # u
    BY <1>1 DEF Receive, FirstLookUp, Parse, PutBlob, SecondLookUp, InsertUpload,
                InsertRecords, InsertQuarantine, Raise, LookUp, Step, Working
  <2>2. PICK t : req' = [req EXCEPT ![v] = t]
    <3>1. CASE Receive(v)
      BY <3>1 DEF Receive
    <3>2. CASE FirstLookUp(v) \/ SecondLookUp(v)
      BY <3>2 DEF FirstLookUp, SecondLookUp, LookUp, UploadInv, Shaped
    <3>3. CASE Parse(v) \/ PutBlob(v) \/ InsertUpload(v) \/ InsertRecords(v) \/ Raise(v)
      BY <3>3 DEF Parse, PutBlob, InsertUpload, InsertRecords, Raise, Step
    <3>4. CASE InsertQuarantine(v)
      BY <3>4 DEF InsertQuarantine, UploadInv, Shaped
    <3> QED
      BY <1>1, <3>1, <3>2, <3>3, <3>4
  <2> QED
    BY <2>1, <2>2 DEF UploadInv, Shaped
<1>2. ASSUME NEW k \in Readers, StartRun(k) \/ ReadInputs(k)
      PROVE  req' = req
  BY <1>2 DEF StartRun, ReadInputs
<1>3. CASE Crash
  BY <1>3 DEF Crash, Working
<1> QED
  BY <1>1, <1>2, <1>3 DEF Next, uploadVars

LEMMA UploadsGrow ==
    ASSUME UploadInv, [Next]_uploadVars
    PROVE  uploads' = uploads \/ \E u \in Uploaders : uploads' = uploads \union {u}
  BY DEF Next, Receive, FirstLookUp, Parse, PutBlob, SecondLookUp, InsertUpload,
         InsertRecords, InsertQuarantine, Raise, StartRun, ReadInputs, Crash, store, uploadVars

\* A run nobody moved keeps what holds of it.
LEMMA ReaderUntouched ==
    ASSUME UploadInv, ReadersInv, [Next]_uploadVars, NEW k \in Readers,
           reader'[k] = reader[k]
    PROVE  ReaderInv(k)'
<1> SUFFICES ASSUME reader[k].at # "none" PROVE ReaderInv(k)'
  BY DEF ReaderInv
<1>1. ReaderInv(k) /\ uploads \subseteq uploads' /\ Chosen(k)' = Chosen(k)
  BY UploadsGrow DEF ReadersInv, Chosen
<1>2. Chosen(k) \subseteq uploads /\ Chosen(k) \subseteq Uploaders
  BY <1>1 DEF ReaderInv, UploadInv, Shaped
<1>3. ASSUME reader[k].trusted, NEW u \in Chosen(k)
      PROVE  req[u].at = "new" /\ req'[u] = req[u]
  BY <1>1, <1>2, <1>3, AnsweredStays DEF ReaderInv
<1>4. ASSUME reader[k].at = "read", reader[k].trusted
      PROVE  \E ids : /\ Arranged(ids, Chosen(k))'
                      /\ reader[k].inputs =
                           [i \in DOMAIN ids |-> Found[req'[ids[i]].file].records]
  <2>1. PICK ids : /\ Arranged(ids, Chosen(k))
                   /\ reader[k].inputs =
                        [i \in DOMAIN ids |-> Found[req[ids[i]].file].records]
    BY <1>1, <1>4 DEF ReaderInv
  <2>2. \A i \in DOMAIN ids : ids[i] \in Chosen(k)
    BY <2>1 DEF Arranged, SetToSeqs
  <2>3. \A i \in DOMAIN ids : req'[ids[i]] = req[ids[i]]
    BY <1>3, <1>4, <2>2
  <2>4. Arranged(ids, Chosen(k))'
    BY <1>1, <2>1, <2>3 DEF Arranged, Precedes
  <2> QED
    BY <2>1, <2>3, <2>4
<1> QED
  BY <1>1, <1>2, <1>3, <1>4 DEF ReaderInv, Chosen

\* The run that moves.
LEMMA StartRunReads ==
    ASSUME UploadInv, ReadersInv, NEW k \in Readers, StartRun(k)
    PROVE  /\ ReaderInv(k)' /\ IsReader(reader'[k])
           /\ reader' = [j \in Readers |-> reader'[j]]
           /\ \A j \in Readers \ {k} : reader'[j] = reader[j]
<1>1. PICK chosen \in UNION {SetToSeqs(S) : S \in (SUBSET uploads) \ {{}}} :
         reader' = [reader EXCEPT ![k] =
              [at |-> "queued", chosen |-> chosen, inputs |-> <<>>,
               trusted |-> \A i \in DOMAIN chosen : req[chosen[i]].at = "new"]]
  BY DEF StartRun
<1>2. PICK S \in SUBSET uploads : chosen \in SetToSeqs(S)
  OBVIOUS
<1>3. /\ reader'[k] = [at |-> "queued", chosen |-> chosen, inputs |-> <<>>,
                       trusted |-> \A i \in DOMAIN chosen : req[chosen[i]].at = "new"]
      /\ reader' = [j \in Readers |-> reader'[j]]
      /\ \A j \in Readers \ {k} : reader'[j] = reader[j]
  BY <1>1 DEF ReadersInv
<1>4. UNCHANGED <<req, store>>
  BY DEF StartRun
<1>5. Chosen(k)' = ToSet(chosen) /\ ToSet(chosen) \subseteq S
  BY <1>2, <1>3 DEF Chosen, ToSet, SetToSeqs
<1>6. ReaderInv(k)'
  BY <1>2, <1>3, <1>4, <1>5 DEF ReaderInv, store, ToSet
<1> QED
  BY <1>3, <1>6 DEF IsReader

LEMMA ReadInputsReads ==
    ASSUME UploadInv, ReadersInv, NEW k \in Readers, ReadInputs(k)
    PROVE  /\ ReaderInv(k)' /\ IsReader(reader'[k])
           /\ reader' = [j \in Readers |-> reader'[j]]
           /\ \A j \in Readers \ {k} : reader'[j] = reader[j]
<1>1. reader[k].at = "queued" /\ UNCHANGED <<req, store>>
  BY DEF ReadInputs
<1>2. PICK ids : /\ Arranged(ids, Chosen(k))
                 /\ reader' = [reader EXCEPT
                      ![k].at = "read", ![k].inputs = [i \in DOMAIN ids |-> records[ids[i]]]]
  <2>1. Chosen(k) \in SUBSET uploads /\ Chosen(k) \in SUBSET Uploaders
    BY <1>1 DEF ReadersInv, ReaderInv, UploadInv, Shaped
  <2>2. IsFiniteSet(Chosen(k))
    BY <2>1, FS_Subset DEF ReadersInv
  <2>3. \E s : Arranged(s, Chosen(k))
    BY <2>1, <2>2, ArrangementExists DEF UploadInv
  <2>4. Arranged(InStoreOrder(reader[k].chosen), Chosen(k))
    BY <2>3 DEF Arranged, InStoreOrder, Chosen
  <2> QED
    BY <2>4 DEF ReadInputs
<1> DEFINE read == [i \in DOMAIN ids |-> records[ids[i]]]
<1> HIDE DEF read
<1>3. IsReader(reader[k]) /\ ReaderInv(k)
  BY DEF ReadersInv
<1>4. /\ reader'[k] = [reader[k] EXCEPT !.at = "read", !.inputs = read]
      /\ reader' = [j \in Readers |-> reader'[j]]
      /\ \A j \in Readers \ {k} : reader'[j] = reader[j]
  BY <1>2 DEF ReadersInv, read
<1>5. /\ reader'[k].at = "read" /\ reader'[k].inputs = read
      /\ reader'[k].chosen = reader[k].chosen /\ reader'[k].trusted = reader[k].trusted
      /\ IsReader(reader'[k])
  BY <1>3, <1>4 DEF IsReader
<1>6. ASSUME reader[k].trusted
      PROVE  read = [i \in DOMAIN ids |-> Found[req[ids[i]].file].records]
  <2>1. \A i \in DOMAIN ids : ids[i] \in Chosen(k)
    BY <1>2 DEF Arranged, SetToSeqs
  <2>2. \A u \in Chosen(k) : u \in Uploaders /\ req[u].at = "new"
    BY <1>1, <1>3, <1>6 DEF ReaderInv, UploadInv, Shaped
  <2>3. \A u \in Chosen(k) : records[u] = Found[req[u].file].records
    BY <2>2 DEF UploadInv, CommittedInv
  <2> QED
    BY <2>1, <2>3 DEF read
<1>7. Arranged(ids, Chosen(k))' /\ Chosen(k)' = Chosen(k)
  BY <1>1, <1>2, <1>5 DEF Arranged, Precedes, Chosen
<1>8. ReaderInv(k)'
  BY <1>1, <1>3, <1>5, <1>6, <1>7 DEF ReaderInv, store
<1> QED
  BY <1>4, <1>5, <1>8

LEMMA ReadersKeep ==
    ASSUME UploadInv, ReadersInv, [Next]_uploadVars
    PROVE  ReadersInv'
<1>1. IsFiniteSet(uploads')
  BY UploadsGrow, FS_AddElement DEF ReadersInv
<1>2. CASE reader' = reader
  BY <1>1, <1>2, ReaderUntouched DEF ReadersInv
<1>3. ASSUME NEW k \in Readers, StartRun(k) \/ ReadInputs(k)
      PROVE  ReadersInv'
  <2>1. /\ ReaderInv(k)' /\ IsReader(reader'[k])
        /\ reader' = [j \in Readers |-> reader'[j]]
        /\ \A j \in Readers \ {k} : reader'[j] = reader[j]
    BY <1>3, StartRunReads, ReadInputsReads
  <2>2. ASSUME NEW j \in Readers \ {k} PROVE IsReader(reader'[j]) /\ ReaderInv(j)'
    BY <2>1, ReaderUntouched DEF ReadersInv
  <2> QED
    BY <1>1, <2>1, <2>2 DEF ReadersInv
<1> QED
  BY <1>2, <1>3
     DEF Next, Receive, FirstLookUp, Parse, PutBlob, SecondLookUp, InsertUpload,
         InsertRecords, InsertQuarantine, Raise, Crash, uploadVars

LEMMA InitReaders == Init => ReadersInv
<1> SUFFICES ASSUME Init PROVE ReadersInv
  OBVIOUS
<1>1. /\ reader = [k \in Readers |-> [at |-> "none", chosen |-> <<>>, trusted |-> FALSE,
                                      inputs |-> <<>>]]
      /\ uploads = {}
  BY DEF Init
<1>2. IsFiniteSet(uploads)
  BY <1>1, FS_EmptySet
<1> QED
  BY <1>1, <1>2 DEF ReadersInv, IsReader, ReaderInv

\* A run over uploads reads the files it chose, in the order of the store.
THEOREM ReadersInvariance == Spec => []ReadersInv
  BY InitReaders, ReadersKeep, UploadInvariance, PTL DEF Spec

\* Two runs over the same answered uploads are given the same inputs, and all
\* the records of those files.
THEOREM SameInputs == Spec => []SameSelectionSameInputs
<1>1. UploadInv /\ ReadersInv => SameSelectionSameInputs
  <2> SUFFICES ASSUME UploadInv, ReadersInv, NEW j \in Readers, NEW k \in Readers,
                      reader[j].at = "read", reader[j].trusted,
                      reader[k].at = "read", reader[k].trusted,
                      Chosen(j) = Chosen(k)
               PROVE  /\ reader[j].inputs = reader[k].inputs
                      /\ UNION ToSet(reader[j].inputs) =
                           UNION {Found[req[u].file].records : u \in Chosen(j)}
    BY DEF SameSelectionSameInputs, Chosen
  <2>1. PICK a : /\ Arranged(a, Chosen(j))
                 /\ reader[j].inputs = [i \in DOMAIN a |-> Found[req[a[i]].file].records]
    BY DEF ReadersInv, ReaderInv
  <2>2. PICK b : /\ Arranged(b, Chosen(k))
                 /\ reader[k].inputs = [i \in DOMAIN b |-> Found[req[b[i]].file].records]
    BY DEF ReadersInv, ReaderInv
  <2>3. Chosen(j) \in SUBSET uploads /\ Chosen(j) \in SUBSET Uploaders /\ Shaped
    BY DEF ReadersInv, ReaderInv, UploadInv, Shaped
  <2>4. IsFiniteSet(Chosen(j))
    BY <2>3, FS_Subset DEF ReadersInv
  <2>5. a = b
    BY <2>1, <2>2, <2>3, <2>4, ArrangementIsOne
  <2>6. ToSet(a) = Chosen(j)
    BY <2>1, <2>3, <2>4, ArrangementPlaces
  <2>7. ToSet(reader[j].inputs) = {Found[req[u].file].records : u \in Chosen(j)}
    BY <2>1, <2>6 DEF ToSet
  <2> QED
    BY <2>1, <2>2, <2>5, <2>7
<1> QED
  BY <1>1, UploadInvariance, ReadersInvariance, PTL
=============================================================================
