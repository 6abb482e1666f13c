-------------------------- MODULE GenerationWorker --------------------------
(***************************************************************************)
(* The media generation queue: rows of generation_jobs, the worker loop of *)
(* workers/generation.py, the users who cancel and retry jobs              *)
(* (services/generation_jobs.py), and, as its environment, the media       *)
(* provider, the file store and the passage of time.                       *)
(*                                                                         *)
(* One action is one database transaction, or one call to the provider or  *)
(* the file store: that is where workers interleave.  Between the steps of *)
(* a job a worker keeps only what the code keeps in local variables.       *)
(*                                                                         *)
(* Clocks are abstracted to what the code compares: whether next_run_at is *)
(* reached, whether locked_at is older than job_lock_timeout_seconds and   *)
(* whether started_at is older than job_timeout_seconds.                   *)
(*                                                                         *)
(* An operator whose name extends that of the next one (RetryableEver,     *)
(* Retryable) is a slip of the code that the properties below must notice; *)
(* no action uses it.                                                      *)
(***************************************************************************)
EXTENDS Naturals, FiniteSets

CONSTANTS
    Workers,        \* worker ids (threads of the generation_worker process)
    Jobs,           \* idempotency keys of the jobs users may create
    Users,          \* users who watch, cancel and retry jobs
    Tasks,          \* provider tasks; bounds the submissions that are accepted
    MaxAttempts,    \* job_max_attempts
    PromptWorkers,  \* TRUE: a live worker records an answer before its lock expires
    NoTask, NoWorker, NoJob, NoVersion

ASSUME AttemptsAssumption == MaxAttempts \in Nat \ {0}
ASSUME PromptAssumption == PromptWorkers \in BOOLEAN
ASSUME NullAssumption ==
    /\ NoTask \notin Tasks
    /\ NoWorker \notin Workers
    /\ NoJob \notin Jobs

VARIABLES
    row,        \* the generation_jobs row of each job, with the task its assets come from
    worker,     \* each worker's local state
    task,       \* the provider's side of each task
    files,      \* tasks whose output is in the file store
    held        \* what each user last read of a job, while its version_no is current

vars == <<row, worker, task, files, held>>

(***************************************************************************)
(* Rows.                                                                   *)
(***************************************************************************)
Active == {"pending", "running"}
Terminal == {"succeeded", "failed", "cancelled", "timeout"}
Statuses == {"absent"} \cup Active \cup Terminal

(* attempts is only compared with max_attempts, so one value above it       *)
(* stands for all of them.                                                  *)
AttemptCap == MaxAttempts + 1

Increment(n) == IF n < AttemptCap THEN n + 1 ELSE n

Rows == [
    status:   Statuses,
    attempts: 0..AttemptCap,
    ext:      Tasks \cup {NoTask},              \* external_job_id
    next:     {"none", "later", "due"},         \* next_run_at
    lockedBy: Workers \cup {NoWorker},
    lock:     {"none", "fresh", "stale"},       \* age of locked_at
    started:  {"none", "within", "over"},       \* age of started_at
    asset:    Tasks \cup {NoTask}]              \* task the asset records come from

AbsentRow == [
    status |-> "absent", attempts |-> 0, ext |-> NoTask, next |-> "none",
    lockedBy |-> NoWorker, lock |-> "none", started |-> "none", asset |-> NoTask]

(* What a response shows of a job beside its version.                       *)
Shown(r) == [status |-> r.status, attempts |-> r.attempts, ext |-> r.ext]

Unlocked(r) == [r EXCEPT !.lockedBy = NoWorker, !.lock = "none"]

(* transition_job: started_at is set by the first transition to running.    *)
Transition(r, s) ==
    [r EXCEPT !.status = s,
              !.started = IF s = "running" /\ @ = "none" THEN "within" ELSE @]

(* _handle_submission_error                                                 *)
SubmissionError(r, retryable) ==
    IF retryable /\ r.attempts < MaxAttempts
    THEN [Transition(Unlocked(r), "pending") EXCEPT !.ext = NoTask, !.next = "later"]
    ELSE [Transition(Unlocked(r), "failed") EXCEPT !.next = "none"]

(* _release_for_poll, and what a poll that may be repeated leaves           *)
Repolled(r) == [Unlocked(r) EXCEPT !.next = "later"]

(* _handle_poll_error                                                       *)
PollError(r, retryable) ==
    IF retryable
    THEN Repolled(r)
    ELSE [Transition(Unlocked(r), "failed") EXCEPT !.next = "none"]

OutdateNever(js) == UNCHANGED held

(* A commit that increments version_no: no user holds the current version   *)
(* of these jobs any more.                                                  *)
Outdate(js) ==
    held' = [u \in Users |-> [j \in Jobs |-> IF j \in js THEN NoVersion ELSE held[u][j]]]

SetRow(j, r) == row' = [row EXCEPT ![j] = r] /\ Outdate({j})

KeepRows == UNCHANGED <<row, held>>

(***************************************************************************)
(* Workers.  at names the next step; the values after "submit" and "poll"  *)
(* say which answer the worker is about to record.                         *)
(***************************************************************************)
Processing ==
    {"start",
     "submit", "accepted", "rejected",
     "poll", "pending", "delivered", "empty", "broken", "pollError",
     "stored", "storeError",
     "raised"}

Points == {"down", "scan", "claim"} \cup Processing

WorkerStates == [
    at:        Points,
    job:       Jobs \cup {NoJob},
    ext:       Tasks \cup {NoTask},     \* external_job_id read, or received
    retryable: BOOLEAN,                 \* of the error to record
    created:   BOOLEAN]                 \* created_new_file

Idle(point) ==
    [at |-> point, job |-> NoJob, ext |-> NoTask, retryable |-> FALSE, created |-> FALSE]

Goto(w, point) == worker' = [worker EXCEPT ![w].at = point]
Finish(w) == worker' = [worker EXCEPT ![w] = Idle("scan")]

JobOf(w) == row[worker[w].job]

IsRunning(w) == JobOf(w).status = "running"

HoldsUnowned(w) == IsRunning(w)

(* The guard of the transactions that re-check the lock.                    *)
Holds(w) == IsRunning(w) /\ JobOf(w).lockedBy = w

Init ==
    /\ row = [j \in Jobs |-> AbsentRow]
    /\ worker = [w \in Workers |-> Idle("scan")]
    /\ task = [t \in Tasks |-> "unused"]
    /\ files = {}
    /\ held = [u \in Users |-> [j \in Jobs |-> NoVersion]]

(***************************************************************************)
(* Users.                                                                  *)
(***************************************************************************)

Created == [AbsentRow EXCEPT !.status = "pending", !.next = "due"]

(* create_generation_job for a selected plan.                               *)
Create(j) ==
    /\ row[j].status = "absent"
    /\ SetRow(j, Created)
    /\ UNCHANGED <<worker, task, files>>

(* get_generation_job, or a list: the user now holds the current version.   *)
Read(u, j) ==
    /\ row[j].status # "absent"
    /\ held' = [held EXCEPT ![u][j] = Shown(row[j])]
    /\ UNCHANGED <<row, worker, task, files>>

(* _check_action_version: any other version is refused with 409.            *)
VersionMatches(u, j) == held[u][j] # NoVersion

Cancelled(r) == [Transition(Unlocked(r), "cancelled") EXCEPT !.next = "none"]

Cancel(u, j) ==
    /\ VersionMatches(u, j)
    /\ row[j].status \in Active
    /\ SetRow(j, Cancelled(row[j]))
    /\ UNCHANGED <<worker, task, files>>

RetryableEver(r) == r.status \in Terminal /\ r.attempts < MaxAttempts

Retryable(r) == r.status \in {"failed", "timeout"} /\ r.attempts < MaxAttempts

(* Only the task of a job that timed out is resumed.                        *)
Retried(r) ==
    [Transition(Unlocked(r), "pending") EXCEPT
        !.next = "due",
        !.started = "none",
        !.ext = IF r.status = "timeout" THEN r.ext ELSE NoTask]

Retry(u, j) ==
    /\ VersionMatches(u, j)
    /\ Retryable(row[j])
    /\ SetRow(j, Retried(row[j]))
    /\ UNCHANGED <<worker, task, files>>

(***************************************************************************)
(* scan_timeouts_and_recover_locks.                                        *)
(***************************************************************************)
ExpiredUnsubmitted(r) == r.status = "running" /\ r.started = "over" /\ r.ext = NoTask

Expired(r) == r.status = "running" /\ r.started = "over"

LockStale(r) == r.status = "running" /\ r.lock = "stale" /\ r.started # "over"

TimedOut(r) == [Transition(Unlocked(r), "timeout") EXCEPT !.next = "none"]

RecoveredForgetful(r) ==
    [Transition(Unlocked(r), "pending") EXCEPT !.next = "due", !.ext = NoTask]

Recovered(r) ==
    IF r.ext = NoTask
    THEN [Transition(Unlocked(r), "pending") EXCEPT !.next = "due"]
    ELSE [Unlocked(r) EXCEPT !.next = "due"]

Swept(r) ==
    CASE Expired(r)   -> TimedOut(r)
      [] LockStale(r) -> Recovered(r)
      [] OTHER        -> r

(* skipped: rows another transaction has locked at that moment              *)
(* (skip_locked).                                                           *)
Scan(w, skipped) ==
    LET swept == {j \in Jobs \ skipped : Expired(row[j]) \/ LockStale(row[j])}
    IN  /\ worker[w].at = "scan"
        /\ row' = [j \in Jobs |-> IF j \in swept THEN Swept(row[j]) ELSE row[j]]
        /\ Outdate(swept)
        /\ Goto(w, "claim")
        /\ UNCHANGED <<task, files>>

(***************************************************************************)
(* claim_next_job.  The order by next_run_at is left open; a claim that    *)
(* finds every candidate locked by another transaction returns None.       *)
(***************************************************************************)
ClaimableLocked(r) ==
    /\ r.status = "pending" \/ (r.status = "running" /\ r.ext # NoTask)
    /\ r.next # "later"

Claimable(r) ==
    /\ r.status = "pending" \/ (r.status = "running" /\ r.ext # NoTask)
    /\ r.next # "later"
    /\ r.lock # "fresh"

Claimed(r, w) == [Transition(r, "running") EXCEPT !.lockedBy = w, !.lock = "fresh"]

Claim(w, j) ==
    /\ worker[w].at = "claim"
    /\ Claimable(row[j])
    /\ SetRow(j, Claimed(row[j], w))
    /\ worker' = [worker EXCEPT ![w] = [Idle("start") EXCEPT !.job = j]]
    /\ UNCHANGED <<task, files>>

ClaimNothing(w) ==
    /\ worker[w].at = "claim"
    /\ Finish(w)
    /\ KeepRows
    /\ UNCHANGED <<task, files>>

(***************************************************************************)
(* process_claimed_job: the first transaction.                             *)
(***************************************************************************)
StartLost(w) ==
    /\ worker[w].at = "start"
    /\ ~Holds(w)
    /\ Finish(w)
    /\ KeepRows
    /\ UNCHANGED <<task, files>>

Attempted(r) == [r EXCEPT !.attempts = Increment(@)]

StartSubmission(w) ==
    /\ worker[w].at = "start"
    /\ Holds(w)
    /\ JobOf(w).ext = NoTask
    /\ SetRow(worker[w].job, Attempted(JobOf(w)))
    /\ Goto(w, "submit")
    /\ UNCHANGED <<task, files>>

StartPoll(w) ==
    /\ worker[w].at = "start"
    /\ Holds(w)
    /\ JobOf(w).ext # NoTask
    /\ worker' = [worker EXCEPT ![w].at = "poll", ![w].ext = JobOf(w).ext]
    /\ KeepRows
    /\ UNCHANGED <<task, files>>

(***************************************************************************)
(* The provider: submit.  An error may hide a task the provider accepted.  *)
(***************************************************************************)
Unused == {t \in Tasks : task[t] = "unused"}

SubmitAccepted(w) ==
    /\ worker[w].at = "submit"
    /\ \E t \in Unused :
        /\ task' = [task EXCEPT ![t] = "working"]
        /\ worker' = [worker EXCEPT ![w].at = "accepted", ![w].ext = t]
    /\ KeepRows
    /\ UNCHANGED files

SubmitRejected(w) ==
    /\ worker[w].at = "submit"
    /\ \E retryable \in BOOLEAN :
        worker' = [worker EXCEPT ![w].at = "rejected", ![w].retryable = retryable]
    /\ KeepRows
    /\ UNCHANGED <<task, files>>

SubmitAnswerLost(w) ==
    /\ worker[w].at = "submit"
    /\ \E t \in Unused : task' = [task EXCEPT ![t] = "working"]
    /\ worker' = [worker EXCEPT ![w].at = "rejected", ![w].retryable = TRUE]
    /\ KeepRows
    /\ UNCHANGED files

SubmittedLocked(r, t) == [r EXCEPT !.ext = t, !.next = "later"]

(* next_run_at is now for the mock provider and one poll interval away for  *)
(* the other: "later" may become "due" at once.                             *)
Submitted(r, t) == [Unlocked(r) EXCEPT !.ext = t, !.next = "later"]

(* Neither of the two transactions that record a submission looks at        *)
(* locked_by.                                                               *)
RecordAccepted(w) ==
    /\ worker[w].at = "accepted"
    /\ IF IsRunning(w)
       THEN SetRow(worker[w].job, Submitted(JobOf(w), worker[w].ext))
       ELSE KeepRows
    /\ Finish(w)
    /\ UNCHANGED <<task, files>>

RecordRejected(w) ==
    /\ worker[w].at = "rejected"
    /\ IF IsRunning(w)
       THEN SetRow(worker[w].job, SubmissionError(JobOf(w), worker[w].retryable))
       ELSE KeepRows
    /\ Finish(w)
    /\ UNCHANGED <<task, files>>

(***************************************************************************)
(* The provider: poll.  A finished task may come without assets; a broken  *)
(* one says whether a new submission is worth trying.                      *)
(***************************************************************************)
Answers(t) ==
    CASE task[t] = "working" -> {"pending", "pollError"}
      [] task[t] = "done"    -> {"delivered", "empty", "pollError"}
      [] OTHER               -> {"broken", "pollError"}

Poll(w) ==
    /\ worker[w].at = "poll"
    /\ \E answer \in Answers(worker[w].ext) :
        \E retryable \in IF answer \in {"broken", "pollError"} THEN BOOLEAN ELSE {FALSE} :
            worker' = [worker EXCEPT ![w].at = answer, ![w].retryable = retryable]
    /\ KeepRows
    /\ UNCHANGED <<task, files>>

(* A poll that raised is recorded without a look at locked_by.              *)
RecordPollError(w) ==
    /\ worker[w].at = "pollError"
    /\ IF IsRunning(w)
       THEN SetRow(worker[w].job, PollError(JobOf(w), worker[w].retryable))
       ELSE KeepRows
    /\ Finish(w)
    /\ UNCHANGED <<task, files>>

(* prepare_generation_assets.  The storage key is a function of the job     *)
(* and of the content, so that two workers with the same task write the     *)
(* same file; only the first of them has created it.                        *)
Store(w) ==
    /\ worker[w].at = "delivered"
    /\ files' = files \cup {worker[w].ext}
    /\ worker' = [worker EXCEPT ![w].at = "stored", ![w].created = worker[w].ext \notin files]
    /\ KeepRows
    /\ UNCHANGED task

(* A download or a write fails, or what was written turns out to lack its   *)
(* dimensions: that file is not in the list that cleanup receives.          *)
StoreFails(w) ==
    /\ worker[w].at = "delivered"
    /\ \/ /\ UNCHANGED files
          /\ \E retryable \in BOOLEAN :
                worker' = [worker EXCEPT ![w].at = "storeError", ![w].retryable = retryable]
       \/ /\ files' = files \cup {worker[w].ext}
          /\ worker' = [worker EXCEPT ![w].at = "storeError", ![w].retryable = FALSE]
    /\ KeepRows
    /\ UNCHANGED task

(* cleanup_prepared_assets                                                  *)
Cleanup(w) ==
    files' = IF worker[w].created THEN files \ {worker[w].ext} ELSE files

(* persist_prepared_assets, and the transition with the result              *)
Succeeded(r, t) == [Transition(Unlocked(r), "succeeded") EXCEPT !.next = "none", !.asset = t]

(* The last transaction, which re-checks the lock; per answer, what it does *)
(* to the row of a worker that still holds it.                              *)
Answered(w) ==
    LET r == JobOf(w)
    IN  CASE worker[w].at = "pending"    -> Repolled(r)
          [] worker[w].at = "empty"      -> PollError(r, FALSE)
          [] worker[w].at = "broken"     -> SubmissionError(r, worker[w].retryable)
          [] worker[w].at = "storeError" -> PollError(r, worker[w].retryable)
          [] worker[w].at = "stored"     -> Succeeded(r, worker[w].ext)

Checked == {"pending", "empty", "broken", "storeError", "stored"}

RecordAnswerCleaningUp(w) ==
    /\ worker[w].at \in Checked
    /\ Holds(w)
    /\ SetRow(worker[w].job, Answered(w))
    /\ IF worker[w].at = "stored" THEN Cleanup(w) ELSE UNCHANGED files
    /\ Finish(w)
    /\ UNCHANGED task

RecordAnswer(w) ==
    /\ worker[w].at \in Checked
    /\ Holds(w)
    /\ SetRow(worker[w].job, Answered(w))
    /\ Finish(w)
    /\ UNCHANGED <<task, files>>

DiscardAnswer(w) ==
    /\ worker[w].at \in Checked
    /\ ~Holds(w)
    /\ IF worker[w].at = "stored" THEN Cleanup(w) ELSE UNCHANGED files
    /\ Finish(w)
    /\ KeepRows
    /\ UNCHANGED task

(***************************************************************************)
(* Exceptions in process_claimed_job, and the handler of run_once.         *)
(***************************************************************************)

(* persist_prepared_assets raises: its files are cleaned up.                *)
PersistRaises(w) ==
    /\ worker[w].at = "stored"
    /\ Holds(w)
    /\ Cleanup(w)
    /\ Goto(w, "raised")
    /\ KeepRows
    /\ UNCHANGED task

(* A failed transaction or an unexpected error of an adapter.               *)
ProcessRaises(w) ==
    /\ worker[w].at \in Processing \ {"raised"}
    /\ Goto(w, "raised")
    /\ KeepRows
    /\ UNCHANGED <<task, files>>

UnexpectedErrorAsPoll(r) == PollError(r, TRUE)

UnexpectedError(r) ==
    IF r.ext = NoTask THEN SubmissionError(r, TRUE) ELSE PollError(r, TRUE)

HandleRaised(w) ==
    /\ worker[w].at = "raised"
    /\ IF IsRunning(w)
       THEN SetRow(worker[w].job, UnexpectedError(JobOf(w)))
       ELSE KeepRows
    /\ Finish(w)
    /\ UNCHANGED <<task, files>>

(* The process is killed, or an exception that run_once does not catch ends *)
(* the thread; a restarted worker has the same id.                          *)
Crash(w) ==
    /\ worker[w].at # "down"
    /\ worker' = [worker EXCEPT ![w] = Idle("down")]
    /\ KeepRows
    /\ UNCHANGED <<task, files>>

Restart(w) ==
    /\ worker[w].at = "down"
    /\ Finish(w)
    /\ KeepRows
    /\ UNCHANGED <<task, files>>

(***************************************************************************)
(* Time and the provider.                                                  *)
(***************************************************************************)
Age(j, r) == row' = [row EXCEPT ![j] = r] /\ UNCHANGED <<worker, task, files, held>>

BecomesDue(j) ==
    /\ row[j].next = "later"
    /\ Age(j, [row[j] EXCEPT !.next = "due"])

Busy(w, j) == worker[w].at \in Processing /\ worker[w].job = j

LockExpires(j) ==
    /\ row[j].lock = "fresh"
    /\ PromptWorkers => \A w \in Workers : ~(Busy(w, j) /\ row[j].lockedBy = w)
    /\ Age(j, [row[j] EXCEPT !.lock = "stale"])

(* Only the age of an active job is ever read.                              *)
RunsTooLong(j) ==
    /\ row[j].started = "within"
    /\ row[j].status \in Active
    /\ Age(j, [row[j] EXCEPT !.started = "over"])

TaskEnds(t) ==
    /\ task[t] = "working"
    /\ \E outcome \in {"done", "broken"} : task' = [task EXCEPT ![t] = outcome]
    /\ UNCHANGED <<row, worker, files, held>>

UserActs == \E j \in Jobs : Create(j) \/ \E u \in Users : Read(u, j) \/ Cancel(u, j) \/ Retry(u, j)

(* One step of process_claimed_job or of its exception handler.             *)
Process(w) ==
    \/ StartLost(w)
    \/ StartSubmission(w)
    \/ StartPoll(w)
    \/ SubmitAccepted(w)
    \/ SubmitRejected(w)
    \/ SubmitAnswerLost(w)
    \/ RecordAccepted(w)
    \/ RecordRejected(w)
    \/ Poll(w)
    \/ RecordPollError(w)
    \/ Store(w)
    \/ StoreFails(w)
    \/ RecordAnswer(w)
    \/ DiscardAnswer(w)
    \/ PersistRaises(w)
    \/ ProcessRaises(w)
    \/ HandleRaised(w)

WorkerActs(w) ==
    \/ \E skipped \in SUBSET Jobs : Scan(w, skipped)
    \/ \E j \in Jobs : Claim(w, j)
    \/ ClaimNothing(w)
    \/ Process(w)
    \/ Crash(w)
    \/ Restart(w)

TimePasses(j) == BecomesDue(j) \/ LockExpires(j) \/ RunsTooLong(j)

Next ==
    \/ UserActs
    \/ \E w \in Workers : WorkerActs(w)
    \/ \E j \in Jobs : TimePasses(j)
    \/ \E t \in Tasks : TaskEnds(t)

Spec == Init /\ [][Next]_vars

(* Time passes; a worker that was stopped is started again (the worker      *)
(* service is restarted unless stopped); a started transaction or call      *)
(* ends.  A row is skipped by a scan or a claim only while a short          *)
(* transaction holds it, and next_run_at orders the claims: so a worker     *)
(* that keeps looping neither misses a row nor passes a job over for ever.  *)
Fairness ==
    /\ \A j \in Jobs : WF_vars(BecomesDue(j)) /\ WF_vars(LockExpires(j)) /\ WF_vars(RunsTooLong(j))
    /\ \A t \in Tasks : WF_vars(TaskEnds(t))
    /\ \A w \in Workers :
        /\ WF_vars(Restart(w))
        /\ WF_vars(ClaimNothing(w))
        /\ SF_vars(Scan(w, {}))
        /\ \A j \in Jobs : SF_vars(Claim(w, j))
        /\ WF_vars(Process(w))
        /\ SF_vars(StartSubmission(w))

FairSpec == Spec /\ Fairness

(***************************************************************************)
(* Properties.                                                             *)
(***************************************************************************)

TypeOK ==
    /\ row \in [Jobs -> Rows]
    /\ worker \in [Workers -> WorkerStates]
    /\ task \in [Tasks -> {"unused", "working", "done", "broken"}]
    /\ files \in SUBSET Tasks
    /\ held \in [Users -> [Jobs -> [status: Statuses, attempts: 0..AttemptCap,
                                    ext: Tasks \cup {NoTask}] \cup {NoVersion}]]

(* The columns of a row agree whatever transactions interleave: a lock has  *)
(* an owner, only running jobs are locked, an active job has a time to run  *)
(* at and a finished one has not, and a running job has a start to time it  *)
(* out by.                                                                  *)
RowsConsistent ==
    \A j \in Jobs : LET r == row[j] IN
        /\ r.lockedBy = NoWorker <=> r.lock = "none"
        /\ r.lock # "none" => r.status = "running"
        /\ r.next = "none" <=> r.status \notin Active
        /\ r.status = "running" => r.started # "none"

(* A job that succeeded shows the output of the task it records as its      *)
(* external task, and that task had ended well; no other job shows assets.  *)
ResultMatchesTask ==
    \A j \in Jobs :
        IF row[j].status = "succeeded"
        THEN row[j].asset = row[j].ext /\ row[j].ext # NoTask /\ task[row[j].ext] = "done"
        ELSE row[j].asset = NoTask

(* No task is recorded for two jobs, so that no output is delivered twice.  *)
TasksNotShared ==
    \A j, k \in Jobs : row[j].ext = row[k].ext /\ row[j].ext # NoTask => j = k

(* Mutual exclusion as the final transactions rely on it: a worker that     *)
(* still holds the lock works from the task the row records, whatever was   *)
(* recorded by others since it started.                                     *)
LockProtectsTask ==
    \A w \in Workers :
        /\ worker[w].at \in {"poll", "delivered"} \cup Checked
        /\ Holds(w)
        => worker[w].ext = JobOf(w).ext

(* Optimistic locking: a user whose version_no is current sees the current  *)
(* status, attempts and task; no transaction changes them under a version.  *)
CurrentVersionShowsRow ==
    \A u \in Users, j \in Jobs :
        held[u][j] # NoVersion => held[u][j] = Shown(row[j])

(* Mutual exclusion: one worker at a time submits, polls or records a job.   *)
OneWorkerPerJob ==
    \A v, w \in Workers, j \in Jobs :
        /\ Busy(v, j) /\ worker[v].at # "start"
        /\ Busy(w, j) /\ worker[w].at # "start"
        => v = w

(* attempts never exceeds max_attempts: what 项目进度.md:273 says of the      *)
(* worker, and recovery does not keep.                                      *)
AttemptsBounded == \A j \in Jobs : row[j].attempts <= MaxAttempts

(* A row that succeeded or was cancelled never changes again; one that      *)
(* failed or timed out changes only by a retry within the attempts.         *)
TerminalStays ==
    [][\A j \in Jobs :
        row[j].status \in Terminal /\ row'[j] # row[j] =>
            /\ row[j].status \in {"failed", "timeout"}
            /\ row'[j].status = "pending"
            /\ row[j].attempts < MaxAttempts]_vars

(* The job as its creator sees it.                                          *)
Lifecycle == INSTANCE JobLifecycle WITH
    status <- [j \in Jobs |-> row[j].status],
    delivered <- [j \in Jobs |-> row[j].asset]

LifecycleSpec == Lifecycle!Spec

(* Every job that is queued or running comes to an end, even if its worker  *)
(* dies and whatever the provider answers.                                  *)
ActiveJobsSettle == \A j \in Jobs : Lifecycle!Settles(j)
=============================================================================
