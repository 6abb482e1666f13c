----------------------------- MODULE AssetLibrary -----------------------------
(***************************************************************************)
(* The asset library of a plan, services/assets.py over the files of       *)
(* integrations/storage/providers.py: the results of jobs are stored and   *)
(* entered, by the worker that saw the job succeed or by a user who asks   *)
(* for it later, and the assets are read, checked and reviewed.            *)
(*                                                                         *)
(* A request reads under the view its first query fixed; a worker's        *)
(* transaction begins with the lock on the job, so that its view is that   *)
(* of the step that enters the rows.  Entering holds the lock on the plan  *)
(* up to the commit and is one step here.  Files are outside any           *)
(* transaction: looking for a file and replacing it are two steps.         *)
(* Reading a file to judge it is one step with the row it locks, and so is *)
(* the deletion of all files a request created before it fails.            *)
(*                                                                         *)
(* All jobs here are of one plan and one media type, the only ones that    *)
(* share version numbers.  A job that succeeded before there was a library *)
(* has no assets yet.  A file is named by its content, of which key and    *)
(* checksum are made.  The metadata users edit is left out.                *)
(*                                                                         *)
(* An operator whose name extends that of the next one is a slip of the    *)
(* code that the properties below must notice; no action uses it.          *)
(***************************************************************************)
EXTENDS Naturals, Sequences, FiniteSets, FiniteSetsExt

CONSTANTS
    Jobs,           \* generation jobs of the plan
    ResultCount,    \* number of results of a job
    Contents,       \* contents of a file
    Sessions,       \* requests and workers that may be under way at once
    MaxLock,        \* bound on lock versions
    NoContent

ASSUME CountAssumption == ResultCount \in 1..10 /\ MaxLock \in Nat \ {0}
ASSUME NullAssumption == NoContent \notin Contents
ASSUME JobsAssumption == IsFiniteSet(Jobs)

VARIABLES
    job,            \* job_status of each job, "running" or "succeeded"
    asset,          \* generated_assets rows, by job and source_asset_index
    file,           \* the state of each file
    lost,           \* files that were lost or damaged and not found since
    session,        \* what each session is doing
    contested       \* history: jobs whose files a session began to store, or found in
                    \* the store, while another one was storing them

vars == <<job, asset, file, lost, session, contested>>

(***************************************************************************)
(* Rows and files.                                                         *)
(***************************************************************************)

Indexes == 1..ResultCount

(* storage_key: products/<product>/<kind>/<job>/<index>-<checksum>.         *)
Keys == [job: Jobs, index: Indexes, content: Contents]

Key(j, i, content) == [job |-> j, index |-> i, content |-> content]

FileStates == {"absent", "sound", "damaged"}

MaxAssets == Cardinality(Jobs) * ResultCount

AssetRows == [content: Contents \cup {NoContent},
              file_status: {"none", "available", "missing", "invalid"},
              review_status: {"none", "pending", "approved", "rejected"},
              version_no: 0..MaxAssets, lock_version: 0..MaxLock]

AbsentAsset == [content |-> NoContent, file_status |-> "none", review_status |-> "none",
                version_no |-> 0, lock_version |-> 0]

NewAsset(content, version) ==
    [content |-> content, file_status |-> "available", review_status |-> "pending",
     version_no |-> version, lock_version |-> 1]

Prepared == [content: Contents, created: BOOLEAN]

Idle == [at |-> "idle"]

Kinds == {"request", "worker"}

(* What entering the results reads of the rows of the job, and the highest  *)
(* version of the plan.                                                     *)
Views == [rows: [Indexes -> [content: Contents \cup {NoContent},
                             file_status: {"none", "available", "missing", "invalid"}]],
          version: 0..MaxAssets]

(* What a page shows of an asset.                                           *)
Pages == [review_status: {"pending", "approved", "rejected"}, lock_version: 1..MaxLock]

(* prepared: the results stored so far, in order.                           *)
SessionStates ==
    {Idle}
    \cup [at: {"preparing"}, kind: Kinds, job: Jobs, view: Views, prepared: Seq(Prepared)]
    \cup [at: {"putting"}, kind: Kinds, job: Jobs, view: Views, prepared: Seq(Prepared),
          content: Contents, existed: BOOLEAN]
    \cup [at: {"reviewing"}, job: Jobs, index: Indexes, page: Pages]

Init ==
    /\ job \in [Jobs -> {"running", "succeeded"}]
    /\ asset = [j \in Jobs |-> [i \in Indexes |-> AbsentAsset]]
    /\ file = [k \in Keys |-> "absent"]
    /\ lost = {}
    /\ session = [q \in Sessions |-> Idle]
    /\ contested = {}

Goto(q, state) == session' = [session EXCEPT ![q] = state]

Entered(j, i) == asset[j][i] # AbsentAsset

(* Version numbers that are in use.                                         *)
Versions == {asset[j][i].version_no : j \in Jobs, i \in Indexes} \ {0}

View(j) ==
    [rows |-> [i \in Indexes |-> [content |-> asset[j][i].content,
                                  file_status |-> asset[j][i].file_status]],
     version |-> Max(Versions \cup {0})]

(***************************************************************************)
(* Storing the results of a job.                                           *)
(***************************************************************************)

Stores(q, j) == session[q].at \in {"preparing", "putting"} /\ session[q].job = j

(* No guard reads it: it only tells what the storing sessions have met.     *)
Contest(j) ==
    contested' = IF \E q \in Sessions : Stores(q, j) THEN contested \cup {j} ELSE contested

(* A worker stores what a running job has become, a request what a job that *)
(* succeeded was: sync_succeeded_job_assets.                                *)
BeginPrepare(q, kind, j) ==
    /\ session[q].at = "idle"
    /\ job[j] = IF kind = "worker" THEN "running" ELSE "succeeded"
    /\ Goto(q, [at |-> "preparing", kind |-> kind, job |-> j, view |-> View(j), prepared |-> <<>>])
    /\ Contest(j)
    /\ UNCHANGED <<job, asset, file, lost>>

NextIndex(q) == Len(session[q].prepared) + 1

PuttingKey(q) == Key(session[q].job, NextIndex(q), session[q].content)

(* The result is downloaded, and put_bytes looks for the file.              *)
LookForFile(q, content) ==
    LET s == session[q]
        k == Key(s.job, NextIndex(q), content)
    IN  /\ s.at = "preparing"
        /\ NextIndex(q) \in Indexes
        /\ Goto(q, [at |-> "putting", kind |-> s.kind, job |-> s.job, view |-> s.view,
                    prepared |-> s.prepared, content |-> content, existed |-> file[k] # "absent"])
        /\ UNCHANGED <<job, asset, file, lost, contested>>

ReplaceFile(q) ==
    LET s == session[q] IN
    /\ s.at = "putting"
    /\ file' = [file EXCEPT ![PuttingKey(q)] = "sound"]
    /\ Goto(q, [at |-> "preparing", kind |-> s.kind, job |-> s.job, view |-> s.view,
                prepared |-> Append(s.prepared, [content |-> s.content, created |-> ~s.existed])])
    /\ UNCHANGED <<job, asset, lost, contested>>

StoredKeys(q) ==
    {Key(session[q].job, i, session[q].prepared[i].content) : i \in DOMAIN session[q].prepared}

CreatedKeysAll(q) == StoredKeys(q)

CreatedKeys(q) ==
    {Key(session[q].job, i, session[q].prepared[i].content) :
        i \in {n \in DOMAIN session[q].prepared : session[q].prepared[n].created}}

(* cleanup_prepared_assets: what was there before stays.                    *)
Cleaned(q, files) == [k \in Keys |-> IF k \in CreatedKeys(q) THEN "absent" ELSE files[k]]

(* A download or the storage fails, or the worker has lost its lock.        *)
PrepareFails(q) ==
    /\ session[q].at \in {"preparing", "putting"}
    /\ file' = Cleaned(q, file)
    /\ Goto(q, Idle)
    /\ UNCHANGED <<job, asset, lost, contested>>

(* The dimensions are looked at after the file was replaced: it stays.      *)
DimensionsInvalid(q) ==
    /\ session[q].at = "putting"
    /\ file' = Cleaned(q, [file EXCEPT ![PuttingKey(q)] = "sound"])
    /\ Goto(q, Idle)
    /\ UNCHANGED <<job, asset, lost, contested>>

(* The process dies.                                                        *)
Breaks(q) ==
    /\ session[q].at \in {"preparing", "putting"}
    /\ Goto(q, Idle)
    /\ UNCHANGED <<job, asset, file, lost, contested>>

(***************************************************************************)
(* Entering the stored results.                                            *)
(***************************************************************************)

(* What persist_prepared_assets reads after the lock on the plan.           *)
PersistView(q) == IF session[q].kind = "worker" THEN View(session[q].job) ELSE session[q].view

NewIndexes(q) == {i \in Indexes : PersistView(q).rows[i].content = NoContent}

VersionOf(q, i) == PersistView(q).version + Cardinality({n \in NewIndexes(q) : n <= i})

(* An index whose row the view shows must have the same content.            *)
ContentsAgree(q) ==
    \A i \in Indexes \ NewIndexes(q) :
        session[q].prepared[i].content = PersistView(q).rows[i].content

KeysUniqueOfJob(q) == \A i \in NewIndexes(q) : ~Entered(session[q].job, i)

(* The unique constraints: job and index, plan and version.                 *)
KeysUnique(q) ==
    \A i \in NewIndexes(q) : ~Entered(session[q].job, i) /\ VersionOf(q, i) \notin Versions

(* An attribute that is assigned the value read for it is not written.      *)
Assigned(read, value, now) == IF value = read THEN now ELSE value

StoredAgain(row, read) ==
    [row EXCEPT !.file_status = Assigned(read.file_status, "available", row.file_status)]

Persist(q) ==
    LET s == session[q] IN
    /\ s.at = "preparing"
    /\ NextIndex(q) \notin Indexes
    /\ ContentsAgree(q)
    /\ KeysUnique(q)
    /\ s.kind = "worker" => job[s.job] = "running"
    /\ asset' = [asset EXCEPT ![s.job] = [i \in Indexes |->
            IF i \in NewIndexes(q) THEN NewAsset(s.prepared[i].content, VersionOf(q, i))
            ELSE StoredAgain(asset[s.job][i], PersistView(q).rows[i])]]
    /\ job' = [job EXCEPT ![s.job] = "succeeded"]
    /\ lost' = lost \ {k \in StoredKeys(q) : file[k] = "sound"}
    /\ Goto(q, Idle)
    /\ UNCHANGED <<file, contested>>

PersistFails(q) ==
    /\ session[q].at = "preparing"
    /\ NextIndex(q) \notin Indexes
    /\ ~ContentsAgree(q) \/ ~KeysUnique(q)
    /\ file' = Cleaned(q, file)
    /\ Goto(q, Idle)
    /\ UNCHANGED <<job, asset, lost, contested>>

(***************************************************************************)
(* Reading, checking, editing and reviewing.                               *)
(***************************************************************************)

AssetKey(j, i) == Key(j, i, asset[j][i].content)

(* _detect_file_status.                                                     *)
Detected(j, i) ==
    CASE file[AssetKey(j, i)] = "absent"  -> "missing"
      [] file[AssetKey(j, i)] = "damaged" -> "invalid"
      [] file[AssetKey(j, i)] = "sound"   -> "available"

(* A file status that is new is written with a new lock version.            *)
WithStatus(row, status) ==
    IF row.file_status = status THEN row
    ELSE [row EXCEPT !.file_status = status, !.lock_version = @ + 1]

Found(j, i) == IF Detected(j, i) = "available" THEN lost \ {AssetKey(j, i)} ELSE lost

(* check_asset_file, and get_asset_content_path, which also answers with    *)
(* the file, or not.                                                        *)
CheckFile(j, i) ==
    /\ Entered(j, i)
    /\ asset[j][i].lock_version < MaxLock
    /\ asset' = [asset EXCEPT ![j][i] = WithStatus(@, Detected(j, i))]
    /\ lost' = Found(j, i)
    /\ Contest(j)
    /\ UNCHANGED <<job, file, session>>

(* A user looks at an asset, to edit or to review it.                       *)
LookAtAsset(q, j, i) ==
    /\ session[q].at = "idle"
    /\ Entered(j, i)
    /\ Goto(q, [at |-> "reviewing", job |-> j, index |-> i,
                page |-> [review_status |-> asset[j][i].review_status,
                          lock_version |-> asset[j][i].lock_version]])
    /\ UNCHANGED <<job, asset, file, lost, contested>>

(* The row is locked, and has the version the user saw.                     *)
AsSeen(q) ==
    LET s == session[q] IN
    /\ s.at = "reviewing"
    /\ asset[s.job][s.index].lock_version = s.page.lock_version
    /\ s.page.lock_version < MaxLock

UpdateAsset(q) ==
    LET s == session[q] IN
    /\ AsSeen(q)
    /\ asset' = [asset EXCEPT ![s.job][s.index].lock_version = @ + 1]
    /\ Goto(q, Idle)
    /\ UNCHANGED <<job, file, lost, contested>>

ReviewedUncounted(row, status) == [row EXCEPT !.review_status = status]

Reviewed(row, status) == [row EXCEPT !.review_status = status, !.lock_version = @ + 1]

(* Approval looks at the file; what is found instead of it is kept.         *)
ReviewAsset(q, status) ==
    LET s == session[q] IN
    /\ AsSeen(q)
    /\ asset' = [asset EXCEPT ![s.job][s.index] =
            IF status = "approved" /\ Detected(s.job, s.index) # "available"
            THEN WithStatus(@, Detected(s.job, s.index))
            ELSE Reviewed(@, status)]
    /\ lost' = IF status = "approved" THEN Found(s.job, s.index) ELSE lost
    /\ IF status = "approved" THEN Contest(s.job) ELSE UNCHANGED contested
    /\ Goto(q, Idle)
    /\ UNCHANGED <<job, file>>

(* The version is another one by now, or the user changes nothing.          *)
LeaveAsset(q) ==
    /\ session[q].at = "reviewing"
    /\ Goto(q, Idle)
    /\ UNCHANGED <<job, asset, file, lost, contested>>

(* The storage loses a file or its content.                                 *)
StorageFails(k, state) ==
    /\ file[k] = "sound"
    /\ file' = [file EXCEPT ![k] = state]
    /\ lost' = lost \cup {k}
    /\ UNCHANGED <<job, asset, session, contested>>

(***************************************************************************)

Acts(q) ==
    \/ \E kind \in Kinds, j \in Jobs : BeginPrepare(q, kind, j)
    \/ \E content \in Contents : LookForFile(q, content)
    \/ ReplaceFile(q) \/ PrepareFails(q) \/ DimensionsInvalid(q) \/ Breaks(q)
    \/ Persist(q) \/ PersistFails(q)
    \/ \E j \in Jobs, i \in Indexes : LookAtAsset(q, j, i)
    \/ UpdateAsset(q) \/ LeaveAsset(q)
    \/ \E status \in {"pending", "approved", "rejected"} : ReviewAsset(q, status)

Next ==
    \/ \E q \in Sessions : Acts(q)
    \/ \E j \in Jobs, i \in Indexes : CheckFile(j, i)
    \/ \E k \in Keys, state \in {"absent", "damaged"} : StorageFails(k, state)

Spec == Init /\ [][Next]_vars

(***************************************************************************)
(* Properties.                                                             *)
(***************************************************************************)

TypeOK ==
    /\ job \in [Jobs -> {"running", "succeeded"}]
    /\ asset \in [Jobs -> [Indexes -> AssetRows]]
    /\ file \in [Keys -> FileStates]
    /\ lost \subseteq Keys
    /\ session \in [Sessions -> SessionStates]
    /\ contested \subseteq Jobs

(* The assets of the plan are numbered from one on, without gap or double,  *)
(* although a request counts under a view older than the lock on the plan.  *)
VersionsConsecutive ==
    Versions = 1..Cardinality({a \in Jobs \X Indexes : Entered(a[1], a[2])})

(* The file of an asset that is available is there, unless the storage lost *)
(* it.                                                                      *)
JobFilesKept(j) ==
    \A i \in Indexes :
        asset[j][i].file_status = "available" =>
            file[AssetKey(j, i)] = "sound" \/ AssetKey(j, i) \in lost

(* A clean-up deletes no file that a row refers to, however requests and    *)
(* workers fail between storing files and entering them, unless two of them *)
(* met over the files of the same job.                                      *)
UncontestedFilesKept == \A j \in Jobs \ contested : JobFilesKept(j)

(* That it never does is what the breakdown of tasks demands of M7-04; two  *)
(* sessions that both find no file both believe to have created it, and the *)
(* one that fails deletes it (put_bytes).                                   *)
AvailableFilesKept == \A j \in Jobs : JobFilesKept(j)

(* A user whose lock version is current has seen the review as it is,       *)
(* whoever edits, reviews or checks the asset meanwhile.                    *)
CurrentLockShowsReview ==
    \A q \in Sessions : session[q].at = "reviewing" =>
        LET row == asset[session[q].job][session[q].index] IN
        session[q].page.lock_version = row.lock_version =>
            session[q].page.review_status = row.review_status
=============================================================================
