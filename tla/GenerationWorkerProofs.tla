----------------------- MODULE GenerationWorkerProofs -----------------------
(***************************************************************************)
(* Theorems about GenerationWorker and GenerationOverlaps for every set of *)
(* workers, jobs, users and tasks and every MaxAttempts, however late a    *)
(* worker records an answer and wherever it crashes.                       *)
(*                                                                         *)
(* The argument.  A worker's local copy of the task (worker.ext) may be    *)
(* out of date, and two of the recording transactions do not look at the   *)
(* lock.  What saves the result is that every transaction that changes the *)
(* task of a row also frees its lock, so that a worker that still holds    *)
(* the lock has an up-to-date copy (LockProtectsTask).  Provider ids are   *)
(* fresh when they are recorded, so that rows never share one.             *)
(***************************************************************************)
EXTENDS GenerationOverlaps, TLAPS

(***************************************************************************)
(* The inductive invariant.                                                *)
(***************************************************************************)
RowConsistent(r) ==
    /\ r.lockedBy = NoWorker <=> r.lock = "none"
    /\ r.lock # "none" => r.status = "running"
    /\ r.next = "none" <=> r.status \notin Active
    /\ r.status = "running" => r.started # "none"

(* Points at which a worker relies on its copy of the task.                 *)
Engaged == {"accepted", "poll", "delivered", "pollError"} \cup Checked

WorkersAttached ==
    \A w \in Workers :
        /\ worker[w].at \in Processing => worker[w].job \in Jobs
        /\ worker[w].at \in Engaged => worker[w].ext \in Tasks

(* Whatever is recorded or remembered of a task, the provider accepted it.  *)
TasksAccepted ==
    /\ \A j \in Jobs : row[j].ext \in Tasks => task[row[j].ext] # "unused"
    /\ \A w \in Workers : worker[w].ext \in Tasks => task[worker[w].ext] # "unused"

(* An accepted task that is not recorded yet is known to its worker only.   *)
AcceptedIsFresh ==
    \A w \in Workers : worker[w].at = "accepted" =>
        /\ \A j \in Jobs : row[j].ext # worker[w].ext
        /\ \A v \in Workers \ {w} : worker[v].ext # worker[w].ext

DeliveredIsDone ==
    \A w \in Workers :
        worker[w].at \in {"delivered", "stored"} => task[worker[w].ext] = "done"

IInv ==
    /\ TypeOK
    /\ RowsConsistent
    /\ WorkersAttached
    /\ TasksAccepted
    /\ AcceptedIsFresh
    /\ LockProtectsTask
    /\ DeliveredIsDone
    /\ ResultMatchesTask
    /\ TasksNotShared
    /\ CurrentVersionShowsRow

(***************************************************************************)
(* What the row functions do, column by column.                            *)
(***************************************************************************)

(* n is r without its lock; status, task and schedule are left open.        *)
Freed(r, n) ==
    /\ n \in Rows
    /\ n.attempts = r.attempts
    /\ n.lockedBy = NoWorker
    /\ n.lock = "none"
    /\ n.asset = r.asset

(* Unlocked frees the lock and nothing else.                                *)
LEMMA UnlockedRow ==
    ASSUME NEW r \in Rows
    PROVE  /\ Freed(r, Unlocked(r))
           /\ Unlocked(r).status = r.status
           /\ Unlocked(r).ext = r.ext
           /\ Unlocked(r).next = r.next
           /\ Unlocked(r).started = r.started
  BY DEF Rows, Unlocked, Freed

(* transition_job sets the status, and started_at of a job that starts.     *)
LEMMA TransitionRow ==
    ASSUME NEW r \in Rows, NEW s \in Statuses
    PROVE  LET n == Transition(r, s)
           IN  /\ n \in Rows
               /\ n.status = s
               /\ n.attempts = r.attempts
               /\ n.ext = r.ext
               /\ n.next = r.next
               /\ n.lockedBy = r.lockedBy
               /\ n.lock = r.lock
               /\ n.asset = r.asset
               /\ s # "running" => n.started = r.started
               /\ s = "running" => n.started # "none"
  BY DEF Rows, Transition, Statuses

(* The statuses, spelled out.                                               *)
LEMMA StatusMembers ==
    /\ Statuses = {"absent", "pending", "running", "succeeded", "failed", "cancelled", "timeout"}
    /\ Active \subseteq Statuses
    /\ Terminal \subseteq Statuses
  BY DEF Statuses, Active, Terminal

(* A row that leaves the running status loses its lock.                     *)
LEMMA LeftRow ==
    ASSUME NEW r \in Rows, NEW s \in Statuses, s # "running"
    PROVE  LET n == Transition(Unlocked(r), s)
           IN  /\ Freed(r, n)
               /\ n.status = s
               /\ n.ext = r.ext
               /\ n.next = r.next
               /\ n.started = r.started
  <1>1. Unlocked(r) \in Rows
    BY UnlockedRow DEF Freed
  <1> QED
    BY <1>1, UnlockedRow, TransitionRow DEF Freed

(* Leaving the running status for good.                                     *)
LEMMA EndedRow ==
    ASSUME NEW r \in Rows, NEW s \in Terminal
    PROVE  LET n == [Transition(Unlocked(r), s) EXCEPT !.next = "none"]
           IN  /\ Freed(r, n)
               /\ n.status = s
               /\ n.ext = r.ext
               /\ n.next = "none"
  <1> DEFINE f == Transition(Unlocked(r), s)
  <1>1. Freed(r, f) /\ f.status = s /\ f.ext = r.ext
    BY LeftRow, StatusMembers DEF Terminal
  <1> HIDE DEF f
  <1>2. LET n == [f EXCEPT !.next = "none"]
        IN  Freed(r, n) /\ n.status = s /\ n.ext = r.ext /\ n.next = "none"
    BY <1>1 DEF Freed, Rows
  <1> QED
    BY <1>2 DEF f

(* A failed submission is queued again without a task, or fails.            *)
LEMMA SubmissionErrorRow ==
    ASSUME NEW r \in Rows, NEW b \in BOOLEAN
    PROVE  LET n == SubmissionError(r, b)
           IN  /\ Freed(r, n)
               /\ \/ n.status = "pending" /\ n.ext = NoTask /\ n.next = "later"
                  \/ n.status = "failed" /\ n.ext = r.ext /\ n.next = "none"
  <1> DEFINE p == Transition(Unlocked(r), "pending")
             n == [p EXCEPT !.ext = NoTask, !.next = "later"]
  <1>1. Freed(r, p) /\ p.status = "pending"
    BY LeftRow, StatusMembers
  <1>2. Freed(r, n) /\ n.status = "pending" /\ n.ext = NoTask /\ n.next = "later"
    <2> HIDE DEF p
    <2> QED  BY <1>1 DEF Freed, Rows
  <1>3. "failed" \in Terminal
    BY DEF Terminal
  <1> QED
    BY <1>2, <1>3, EndedRow DEF SubmissionError

(* A job released for another poll keeps its task and status.               *)
LEMMA RepolledRow ==
    ASSUME NEW r \in Rows
    PROVE  LET n == Repolled(r)
           IN  /\ Freed(r, n)
               /\ n.status = r.status
               /\ n.ext = r.ext
               /\ n.next = "later"
               /\ n.started = r.started
  <1> DEFINE u == Unlocked(r)
  <1>1. Freed(r, u) /\ u.status = r.status /\ u.ext = r.ext /\ u.started = r.started
    BY UnlockedRow
  <1> HIDE DEF u
  <1>2. LET n == [u EXCEPT !.next = "later"]
        IN  /\ Freed(r, n)
            /\ n.status = r.status
            /\ n.ext = r.ext
            /\ n.next = "later"
            /\ n.started = r.started
    BY <1>1 DEF Freed, Rows
  <1> QED
    BY <1>2 DEF Repolled, u

(* A failed poll releases the job for another one, or fails it.             *)
LEMMA PollErrorRow ==
    ASSUME NEW r \in Rows, NEW b \in BOOLEAN
    PROVE  LET n == PollError(r, b)
           IN  /\ Freed(r, n)
               /\ n.ext = r.ext
               /\ \/ n.status = r.status /\ n.next = "later" /\ n.started = r.started
                  \/ n.status = "failed" /\ n.next = "none"
  <1>1. "failed" \in Terminal
    BY DEF Terminal
  <1> QED
    BY <1>1, EndedRow, RepolledRow DEF PollError

(* A recovered job is due, and keeps its task.                              *)
LEMMA RecoveredRow ==
    ASSUME NEW r \in Rows
    PROVE  LET n == Recovered(r)
           IN  /\ Freed(r, n)
               /\ n.ext = r.ext
               /\ n.next = "due"
               /\ n.started = r.started
               /\ n.status \in {r.status, "pending"}
  <1> DEFINE p == Transition(Unlocked(r), "pending")
             u == Unlocked(r)
  <1>1. /\ Freed(r, p) /\ p.status = "pending" /\ p.ext = r.ext /\ p.started = r.started
        /\ Freed(r, u) /\ u.status = r.status /\ u.ext = r.ext /\ u.started = r.started
    BY LeftRow, UnlockedRow, StatusMembers
  <1> HIDE DEF p, u
  <1>2. LET n == [p EXCEPT !.next = "due"]
        IN  /\ Freed(r, n) /\ n.ext = r.ext /\ n.next = "due"
            /\ n.started = r.started /\ n.status = "pending"
    BY <1>1 DEF Freed, Rows
  <1>3. LET n == [u EXCEPT !.next = "due"]
        IN  /\ Freed(r, n) /\ n.ext = r.ext /\ n.next = "due"
            /\ n.started = r.started /\ n.status = r.status
    BY <1>1 DEF Freed, Rows
  <1> QED
    BY <1>2, <1>3 DEF Recovered, p, u

(* A retried job is queued, with its task or without any.                   *)
LEMMA RetriedRow ==
    ASSUME NEW r \in Rows
    PROVE  LET n == Retried(r)
           IN  /\ Freed(r, n)
               /\ n.status = "pending"
               /\ n.next = "due"
               /\ n.ext \in {r.ext, NoTask}
               /\ r.status = "timeout" => n.ext = r.ext
  <1> DEFINE p == Transition(Unlocked(r), "pending")
             e == IF r.status = "timeout" THEN r.ext ELSE NoTask
  <1>1. Freed(r, p) /\ p.status = "pending"
    BY LeftRow, StatusMembers
  <1>2. e \in {r.ext, NoTask} /\ e \in Tasks \cup {NoTask}
    BY DEF Rows
  <1>3. r.status = "timeout" => e = r.ext
    OBVIOUS
  <1> HIDE DEF p, e
  <1>4. LET n == [p EXCEPT !.next = "due", !.started = "none", !.ext = e]
        IN  Freed(r, n) /\ n.status = "pending" /\ n.next = "due" /\ n.ext = e
    BY <1>1, <1>2 DEF Freed, Rows
  <1> QED
    BY <1>2, <1>3, <1>4 DEF Retried, p, e

(* A recorded submission sets the task and frees the lock.                  *)
LEMMA SubmittedRow ==
    ASSUME NEW r \in Rows, NEW t \in Tasks
    PROVE  LET n == Submitted(r, t)
           IN  /\ Freed(r, n)
               /\ n.status = r.status
               /\ n.ext = t
               /\ n.next = "later"
               /\ n.started = r.started
  <1> DEFINE u == Unlocked(r)
  <1>1. Freed(r, u) /\ u.status = r.status /\ u.started = r.started
    BY UnlockedRow
  <1> HIDE DEF u
  <1>2. LET n == [u EXCEPT !.ext = t, !.next = "later"]
        IN  /\ Freed(r, n) /\ n.status = r.status /\ n.ext = t
            /\ n.next = "later" /\ n.started = r.started
    BY <1>1 DEF Freed, Rows
  <1> QED
    BY <1>2 DEF Submitted, u

(* A success shows the assets of the task it was given.                     *)
LEMMA SucceededRow ==
    ASSUME NEW r \in Rows, NEW t \in Tasks
    PROVE  LET n == Succeeded(r, t)
           IN  /\ n \in Rows
               /\ n.status = "succeeded"
               /\ n.ext = r.ext
               /\ n.asset = t
               /\ n.next = "none"
               /\ n.lockedBy = NoWorker
               /\ n.lock = "none"
  <1> DEFINE f == Transition(Unlocked(r), "succeeded")
  <1>1. Freed(r, f) /\ f.status = "succeeded" /\ f.ext = r.ext
    BY LeftRow, StatusMembers
  <1> HIDE DEF f
  <1>2. LET n == [f EXCEPT !.next = "none", !.asset = t]
        IN  /\ n \in Rows /\ n.status = "succeeded" /\ n.ext = r.ext /\ n.asset = t
            /\ n.next = "none" /\ n.lockedBy = NoWorker /\ n.lock = "none"
    BY <1>1 DEF Freed, Rows
  <1> QED
    BY <1>2 DEF Succeeded, f

(* A claimed job runs under the fresh lock of its worker.                   *)
LEMMA ClaimedRow ==
    ASSUME NEW r \in Rows, NEW w \in Workers
    PROVE  LET n == Claimed(r, w)
           IN  /\ n \in Rows
               /\ n.status = "running"
               /\ n.ext = r.ext
               /\ n.asset = r.asset
               /\ n.next = r.next
               /\ n.lockedBy = w
               /\ n.lock = "fresh"
               /\ n.started # "none"
  <1> DEFINE f == Transition(r, "running")
  <1>1. /\ f \in Rows /\ f.status = "running" /\ f.ext = r.ext /\ f.asset = r.asset
        /\ f.next = r.next /\ f.started # "none"
    BY TransitionRow, StatusMembers
  <1> HIDE DEF f
  <1>2. LET n == [f EXCEPT !.lockedBy = w, !.lock = "fresh"]
        IN  /\ n \in Rows /\ n.status = "running" /\ n.ext = r.ext /\ n.asset = r.asset
            /\ n.next = r.next /\ n.started # "none" /\ n.lockedBy = w /\ n.lock = "fresh"
    BY <1>1 DEF Rows
  <1> QED
    BY <1>2 DEF Claimed, f

(* A start counts an attempt and leaves the rest of the row.                *)
LEMMA AttemptedRow ==
    ASSUME NEW r \in Rows
    PROVE  LET n == Attempted(r)
           IN  /\ n \in Rows
               /\ n.status = r.status
               /\ n.ext = r.ext
               /\ n.asset = r.asset
               /\ n.next = r.next
               /\ n.lockedBy = r.lockedBy
               /\ n.lock = r.lock
               /\ n.started = r.started
  <1>1. Increment(r.attempts) \in 0..AttemptCap
    BY AttemptsAssumption DEF Rows, Increment, AttemptCap
  <1> QED
    BY <1>1 DEF Attempted, Rows

(***************************************************************************)
(* Steps that no conjunct of IInv can tell from a stutter but by the       *)
(* columns they free.                                                      *)
(***************************************************************************)

(* The rule of TerminalStays, for one row.                                  *)
TerminalKept(r, n) ==
    r.status \in Terminal /\ n # r =>
        /\ r.status \in {"failed", "timeout"}
        /\ n.status = "pending"
        /\ r.attempts < MaxAttempts

(* What each action is shown to do: keep IInv, and the rule of TerminalStays. *)
SafeStep == IInv' /\ \A j \in Jobs : TerminalKept(row[j], row'[j])

(* A row keeps or drops its task, and keeps its lock only with both.        *)
QuietRow(r, n) ==
    /\ n \in Rows
    /\ RowConsistent(n)
    /\ n.ext \in {r.ext, NoTask}
    /\ n.lockedBy # NoWorker =>
        n.lockedBy = r.lockedBy /\ n.ext = r.ext /\ n.status = r.status
    /\ n.asset = r.asset
    /\ n.status = "succeeded" <=> r.status = "succeeded"
    /\ TerminalKept(r, n)

QuietRows ==
    /\ row' = [j \in Jobs |-> row'[j]]
    /\ \A j \in Jobs : QuietRow(row[j], row'[j])

Disengaged == Points \ Engaged

QuietWorker(o, n) ==
    \/ n = o
    \/ /\ n \in WorkerStates
       /\ n.at \in Disengaged
       /\ n.ext \in {o.ext, NoTask}
       /\ n.at \in Processing => n.job \in Jobs

QuietWorkers ==
    /\ worker' = [w \in Workers |-> worker'[w]]
    /\ \A w \in Workers : QuietWorker(worker[w], worker'[w])

QuietTasks ==
    /\ task' \in [Tasks -> {"unused", "working", "done", "broken"}]
    /\ \A t \in Tasks :
        /\ task[t] # "unused" => task'[t] # "unused"
        /\ task[t] = "done" => task'[t] = "done"

HeldType == [Users -> [Jobs -> [status: Statuses, attempts: 0..AttemptCap,
                                ext: Tasks \cup {NoTask}] \cup {NoVersion}]]

QuietHeld == held' \in HeldType /\ CurrentVersionShowsRow'

(* Quiet rows, workers, tasks and versions: the step keeps IInv.            *)
LEMMA QuietStep ==
    ASSUME IInv, QuietRows, QuietWorkers, QuietTasks, QuietHeld, files' \in SUBSET Tasks
    PROVE  SafeStep
  <1> USE DEF IInv
  <1>1. TypeOK'
    <2>1. row' \in [Jobs -> Rows]
      BY DEF QuietRows, QuietRow
    <2>2. worker' \in [Workers -> WorkerStates]
      BY DEF QuietWorkers, QuietWorker, TypeOK
    <2> QED
      BY <2>1, <2>2 DEF TypeOK, QuietTasks, QuietHeld, HeldType
  <1>2. RowsConsistent'
    BY DEF RowsConsistent, QuietRows, QuietRow, RowConsistent
  <1>3. WorkersAttached'
    BY DEF WorkersAttached, QuietWorkers, QuietWorker, Disengaged
  <1>4. TasksAccepted'
    <2>1. \A j \in Jobs : row'[j].ext \in Tasks => row'[j].ext = row[j].ext
      BY NullAssumption DEF QuietRows, QuietRow
    <2>2. \A w \in Workers : worker'[w].ext \in Tasks => worker'[w].ext = worker[w].ext
      BY NullAssumption DEF QuietWorkers, QuietWorker
    <2> QED
      BY <2>1, <2>2 DEF TasksAccepted, QuietTasks
  <1>5. AcceptedIsFresh'
    <2> SUFFICES ASSUME NEW w \in Workers, worker'[w].at = "accepted"
                 PROVE  /\ \A j \in Jobs : row'[j].ext # worker'[w].ext
                        /\ \A v \in Workers \ {w} : worker'[v].ext # worker'[w].ext
      BY DEF AcceptedIsFresh
    <2>1. worker'[w] = worker[w]
      BY DEF QuietWorkers, QuietWorker, Disengaged, Engaged
    <2>2. worker[w].ext \in Tasks
      BY <2>1 DEF WorkersAttached, Engaged
    <2>3. \A j \in Jobs : row'[j].ext # worker'[w].ext
      BY <2>1, <2>2, NullAssumption DEF AcceptedIsFresh, QuietRows, QuietRow
    <2>4. \A v \in Workers \ {w} : worker'[v].ext # worker'[w].ext
      BY <2>1, <2>2, NullAssumption DEF AcceptedIsFresh, QuietWorkers, QuietWorker
    <2> QED
      BY <2>3, <2>4
  <1>6. LockProtectsTask'
    <2> SUFFICES ASSUME NEW w \in Workers,
                        worker'[w].at \in {"poll", "delivered"} \cup Checked, Holds(w)'
                 PROVE  worker'[w].ext = (JobOf(w).ext)'
      BY DEF LockProtectsTask
    <2>1. worker'[w] = worker[w]
      BY DEF QuietWorkers, QuietWorker, Disengaged, Engaged
    <2>2. worker[w].job \in Jobs
      BY <2>1 DEF WorkersAttached, Processing, Checked
    <2>3. QuietRow(row[worker[w].job], row'[worker[w].job])
      BY <2>2 DEF QuietRows
    <2>4. Holds(w) /\ JobOf(w).ext = (JobOf(w).ext)'
      BY <2>1, <2>3, NullAssumption DEF Holds, IsRunning, JobOf, QuietRow
    <2> QED
      BY <2>1, <2>4 DEF LockProtectsTask
  <1>7. DeliveredIsDone'
    <2>1. \A w \in Workers :
            worker'[w].at \in {"delivered", "stored"} =>
                worker'[w] = worker[w] /\ worker[w].ext \in Tasks
      BY DEF QuietWorkers, QuietWorker, Disengaged, Engaged, Checked, WorkersAttached
    <2> QED
      BY <2>1 DEF DeliveredIsDone, QuietTasks
  <1>8. ResultMatchesTask'
    <2> SUFFICES ASSUME NEW j \in Jobs
                 PROVE  IF row'[j].status = "succeeded"
                        THEN /\ row'[j].asset = row'[j].ext
                             /\ row'[j].ext # NoTask
                             /\ task'[row'[j].ext] = "done"
                        ELSE row'[j].asset = NoTask
      BY DEF ResultMatchesTask
    <2>1. row[j] \in Rows /\ QuietRow(row[j], row'[j])
      BY DEF QuietRows, TypeOK
    <2>2. CASE row'[j].status # "succeeded"
      BY <2>1, <2>2 DEF QuietRow, ResultMatchesTask
    <2>3. CASE row'[j].status = "succeeded"
      <3>1. row'[j] = row[j]
        BY <2>1, <2>3 DEF QuietRow, TerminalKept, Terminal
      <3>2. row[j].ext \in Tasks /\ task[row[j].ext] = "done" /\ row[j].asset = row[j].ext
        BY <2>1, <2>3, <3>1 DEF ResultMatchesTask, Rows
      <3> QED
        BY <2>3, <3>1, <3>2, NullAssumption DEF QuietTasks
    <2> QED
      BY <2>2, <2>3
  <1>9. TasksNotShared'
    BY DEF TasksNotShared, QuietRows, QuietRow
  <1>10. CurrentVersionShowsRow'
    BY DEF QuietHeld
  <1>11. \A j \in Jobs : TerminalKept(row[j], row'[j])
    BY DEF QuietRows, QuietRow
  <1> QED
    BY <1>1, <1>2, <1>3, <1>4, <1>5, <1>6, <1>7, <1>8, <1>9, <1>10, <1>11 DEF SafeStep

(***************************************************************************)
(* The row functions make quiet rows where the code calls them.            *)
(***************************************************************************)
LEMMA QuietRowRefl ==
    ASSUME NEW r \in Rows, RowConsistent(r)
    PROVE  QuietRow(r, r)
  BY DEF QuietRow, TerminalKept

(* A freed row that was running may stay, be queued, or end.                *)
LEMMA FromRunningQuiet ==
    ASSUME NEW r \in Rows, RowConsistent(r), r.status = "running",
           NEW n, Freed(r, n), n.ext \in {r.ext, NoTask},
           \/ n.status = "running" /\ n.next # "none" /\ n.started = r.started
           \/ n.status = "pending" /\ n.next # "none"
           \/ n.status \in Terminal \ {"succeeded"} /\ n.next = "none"
    PROVE  QuietRow(r, n)
  BY DEF QuietRow, Freed, RowConsistent, TerminalKept, Terminal, Active

(* Every error or release of a running job is quiet.                        *)
LEMMA ErrorsQuiet ==
    ASSUME NEW r \in Rows, RowConsistent(r), r.status = "running", NEW b \in BOOLEAN
    PROVE  /\ QuietRow(r, SubmissionError(r, b))
           /\ QuietRow(r, PollError(r, b))
           /\ QuietRow(r, Repolled(r))
           /\ QuietRow(r, UnexpectedError(r))
  <1>1. "failed" \in Terminal \ {"succeeded"}
    BY DEF Terminal
  <1>2. \A c \in BOOLEAN : QuietRow(r, SubmissionError(r, c))
    BY <1>1, SubmissionErrorRow, FromRunningQuiet
  <1>3. \A c \in BOOLEAN : QuietRow(r, PollError(r, c))
    BY <1>1, PollErrorRow, FromRunningQuiet
  <1>4. QuietRow(r, Repolled(r))
    BY RepolledRow, FromRunningQuiet
  <1> QED
    BY <1>2, <1>3, <1>4 DEF UnexpectedError

(* What a scan does to a row is quiet.                                      *)
LEMMA SweptQuiet ==
    ASSUME NEW r \in Rows, RowConsistent(r)
    PROVE  QuietRow(r, Swept(r))
  <1>1. CASE Expired(r)
    <2>1. "timeout" \in Terminal \ {"succeeded"}
      BY DEF Terminal
    <2>2. QuietRow(r, TimedOut(r))
      BY <1>1, <2>1, EndedRow, FromRunningQuiet DEF TimedOut, Expired
    <2> QED
      BY <1>1, <2>2 DEF Swept, Expired, LockStale
  <1>2. CASE LockStale(r)
    <2>1. QuietRow(r, Recovered(r))
      BY <1>2, RecoveredRow, FromRunningQuiet DEF LockStale
    <2> QED
      BY <1>2, <2>1 DEF Swept, Expired, LockStale
  <1>3. CASE ~Expired(r) /\ ~LockStale(r)
    BY <1>3, QuietRowRefl DEF Swept
  <1> QED
    BY <1>1, <1>2, <1>3

(* Cancelling an active job is quiet.                                       *)
LEMMA CancelledQuiet ==
    ASSUME NEW r \in Rows, RowConsistent(r), r.status \in Active
    PROVE  QuietRow(r, Cancelled(r))
  <1>1. "cancelled" \in Terminal
    BY DEF Terminal
  <1>2. LET n == Cancelled(r)
        IN  Freed(r, n) /\ n.status = "cancelled" /\ n.ext = r.ext /\ n.next = "none"
    BY <1>1, EndedRow DEF Cancelled
  <1> QED
    BY <1>2 DEF QuietRow, Freed, RowConsistent, TerminalKept, Terminal, Active

(* A retry within the attempts is quiet.                                    *)
LEMMA RetriedQuiet ==
    ASSUME NEW r \in Rows, RowConsistent(r), Retryable(r)
    PROVE  QuietRow(r, Retried(r))
  BY RetriedRow DEF QuietRow, Freed, RowConsistent, TerminalKept, Terminal, Active, Retryable

(* Creating a job is quiet.                                                 *)
LEMMA CreatedQuiet ==
    ASSUME NEW r \in Rows, r.status = "absent", r.asset = NoTask
    PROVE  QuietRow(r, Created)
  <1>1. /\ AbsentRow \in Rows
        /\ AbsentRow.ext = NoTask /\ AbsentRow.asset = NoTask
        /\ AbsentRow.lockedBy = NoWorker /\ AbsentRow.lock = "none"
    BY AttemptsAssumption, StatusMembers DEF AbsentRow, Rows, AttemptCap
  <1>2. /\ Created \in Rows
        /\ Created.status = "pending" /\ Created.next = "due"
        /\ Created.ext = NoTask /\ Created.asset = NoTask
        /\ Created.lockedBy = NoWorker /\ Created.lock = "none"
    BY <1>1, StatusMembers DEF Created, Rows
  <1> QED
    BY <1>2 DEF QuietRow, RowConsistent, TerminalKept, Terminal, Active

(* Counting an attempt is quiet.                                            *)
LEMMA AttemptedQuiet ==
    ASSUME NEW r \in Rows, RowConsistent(r), r.status = "running"
    PROVE  QuietRow(r, Attempted(r))
  BY AttemptedRow DEF QuietRow, RowConsistent, TerminalKept, Terminal, Active

(***************************************************************************)
(* What the action idioms SetRow, KeepRows, Age, Finish and Goto provide.  *)
(***************************************************************************)
LEMMA RowFacts ==
    ASSUME IInv, NEW j \in Jobs
    PROVE  row[j] \in Rows /\ RowConsistent(row[j])
  BY DEF IInv, TypeOK, RowsConsistent, RowConsistent

(* A commit on one quiet row keeps rows and versions quiet.                 *)
LEMMA SetRowQuiet ==
    ASSUME IInv, NEW j \in Jobs, NEW n, SetRow(j, n), QuietRow(row[j], n)
    PROVE  QuietRows /\ QuietHeld
  <1>1. /\ row' = [k \in Jobs |-> IF k = j THEN n ELSE row[k]]
        /\ held' = [u \in Users |-> [k \in Jobs |-> IF k = j THEN NoVersion ELSE held[u][k]]]
    BY DEF SetRow, Outdate, IInv, TypeOK
  <1>2. QuietRows
    BY <1>1, RowFacts, QuietRowRefl DEF QuietRows
  <1>3. held' \in HeldType
    BY <1>1 DEF IInv, TypeOK, HeldType
  <1>4. CurrentVersionShowsRow'
    BY <1>1 DEF IInv, CurrentVersionShowsRow
  <1> QED
    BY <1>2, <1>3, <1>4 DEF QuietHeld

(* No commit keeps rows and versions quiet.                                 *)
LEMMA KeepRowsQuiet ==
    ASSUME IInv, KeepRows
    PROVE  QuietRows /\ QuietHeld
  <1>1. QuietRows
    BY RowFacts, QuietRowRefl DEF KeepRows, QuietRows, IInv, TypeOK
  <1> QED
    BY <1>1 DEF KeepRows, IInv, TypeOK, QuietHeld, HeldType, CurrentVersionShowsRow

(* A worker that finishes knows no task.                                    *)
LEMMA FinishQuiet ==
    ASSUME IInv, NEW w \in Workers, Finish(w)
    PROVE  QuietWorkers
  <1>1. Idle("scan") \in WorkerStates /\ Idle("scan").at = "scan" /\ Idle("scan").ext = NoTask
    BY DEF Idle, WorkerStates, Points
  <1> QED
    BY <1>1 DEF Finish, QuietWorkers, QuietWorker, IInv, TypeOK, Disengaged, Engaged,
                Checked, Points, Processing

(* A worker that goes to a disengaged point is quiet.                       *)
LEMMA GotoQuiet ==
    ASSUME IInv, NEW w \in Workers, NEW p \in Disengaged, Goto(w, p),
           p \in Processing => worker[w].at \in Processing
    PROVE  QuietWorkers
  <1>1. worker' = [v \in Workers |-> IF v = w THEN [worker[w] EXCEPT !.at = p] ELSE worker[v]]
    BY DEF Goto, IInv, TypeOK
  <1>2. worker[w] \in WorkerStates /\ p \in Points
    BY DEF IInv, TypeOK, Disengaged
  <1>3. LET n == [worker[w] EXCEPT !.at = p]
        IN  n \in WorkerStates /\ n.at = p /\ n.ext = worker[w].ext /\ n.job = worker[w].job
    BY <1>2 DEF WorkerStates
  <1> QED
    BY <1>1, <1>3 DEF QuietWorkers, QuietWorker, IInv, WorkersAttached

(* Unchanged workers are quiet.                                             *)
LEMMA SameWorkers == ASSUME IInv, UNCHANGED worker PROVE QuietWorkers
  BY DEF QuietWorkers, QuietWorker, IInv, TypeOK

(* Unchanged tasks are quiet.                                               *)
LEMMA SameTasks == ASSUME IInv, UNCHANGED task PROVE QuietTasks
  BY DEF QuietTasks, IInv, TypeOK

(* Unchanged files keep their type.                                         *)
LEMMA SameFiles == ASSUME IInv, UNCHANGED files PROVE files' \in SUBSET Tasks
  BY DEF IInv, TypeOK

(* Time changes what no user is shown.                                      *)
LEMMA AgeQuiet ==
    ASSUME IInv, NEW j \in Jobs, NEW n, Age(j, n), QuietRow(row[j], n),
           Shown(n) = Shown(row[j])
    PROVE  SafeStep
  <1>1. /\ row' = [k \in Jobs |-> IF k = j THEN n ELSE row[k]]
        /\ UNCHANGED <<worker, task, files, held>>
    BY DEF Age, IInv, TypeOK
  <1>2. QuietRows
    BY <1>1, RowFacts, QuietRowRefl DEF QuietRows
  <1>3. QuietHeld
    <2>1. held' \in HeldType
      BY <1>1 DEF IInv, TypeOK, HeldType
    <2>2. \A k \in Jobs : Shown(row'[k]) = Shown(row[k])
      BY <1>1
    <2>3. CurrentVersionShowsRow'
      BY <1>1, <2>2 DEF IInv, CurrentVersionShowsRow
    <2> QED
      BY <2>1, <2>3 DEF QuietHeld
  <1> QED
    BY <1>1, <1>2, <1>3, SameWorkers, SameTasks, SameFiles, QuietStep

(***************************************************************************)
(* One lemma per group of actions: each keeps the inductive invariant.     *)
(***************************************************************************)
LEMMA UserStep ==
    ASSUME IInv, UserActs
    PROVE  SafeStep
  <1> PICK j \in Jobs : Create(j) \/ \E u \in Users : Read(u, j) \/ Cancel(u, j) \/ Retry(u, j)
    BY DEF UserActs
  <1>1. CASE Create(j)
    <2>1. row[j].asset = NoTask
      BY <1>1 DEF Create, IInv, ResultMatchesTask
    <2>2. QuietRows /\ QuietHeld
      BY <1>1, <2>1, RowFacts, CreatedQuiet, SetRowQuiet DEF Create
    <2> QED
      BY <1>1, <2>2, SameWorkers, SameTasks, SameFiles, QuietStep DEF Create
  <1>2. ASSUME NEW u \in Users, Read(u, j) PROVE SafeStep
    <2>1. QuietRows
      BY <1>2, RowFacts, QuietRowRefl DEF Read, QuietRows, IInv, TypeOK
    <2>2. held' \in HeldType
      <3>1. Shown(row[j]) \in [status: Statuses, attempts: 0..AttemptCap, ext: Tasks \cup {NoTask}]
        BY RowFacts DEF Shown, Rows
      <3> QED
        BY <1>2, <3>1 DEF Read, HeldType, IInv, TypeOK
    <2>3. CurrentVersionShowsRow'
      BY <1>2 DEF Read, IInv, TypeOK, CurrentVersionShowsRow
    <2> QED
      BY <1>2, <2>1, <2>2, <2>3, SameWorkers, SameTasks, SameFiles, QuietStep DEF Read, QuietHeld
  <1>3. ASSUME NEW u \in Users, Cancel(u, j) PROVE SafeStep
    <2>1. QuietRows /\ QuietHeld
      BY <1>3, RowFacts, CancelledQuiet, SetRowQuiet DEF Cancel
    <2> QED
      BY <1>3, <2>1, SameWorkers, SameTasks, SameFiles, QuietStep DEF Cancel
  <1>4. ASSUME NEW u \in Users, Retry(u, j) PROVE SafeStep
    <2>1. QuietRows /\ QuietHeld
      BY <1>4, RowFacts, RetriedQuiet, SetRowQuiet DEF Retry
    <2> QED
      BY <1>4, <2>1, SameWorkers, SameTasks, SameFiles, QuietStep DEF Retry
  <1> QED
    BY <1>1, <1>2, <1>3, <1>4

(* The passage of time keeps the invariant.                                 *)
LEMMA TimeStep ==
    ASSUME IInv, NEW j \in Jobs, TimePasses(j)
    PROVE  SafeStep
  <1>1. CASE BecomesDue(j)
    <2> DEFINE n == [row[j] EXCEPT !.next = "due"]
    <2>1. QuietRow(row[j], n) /\ Shown(n) = Shown(row[j])
      BY <1>1, RowFacts DEF BecomesDue, QuietRow, RowConsistent, Rows, Shown, TerminalKept,
                            Terminal, Active
    <2> QED
      BY <1>1, <2>1, AgeQuiet DEF BecomesDue
  <1>2. CASE LockExpires(j)
    <2> DEFINE n == [row[j] EXCEPT !.lock = "stale"]
    <2>1. QuietRow(row[j], n) /\ Shown(n) = Shown(row[j])
      BY <1>2, RowFacts DEF LockExpires, QuietRow, RowConsistent, Rows, Shown, TerminalKept,
                            Terminal
    <2> QED
      BY <1>2, <2>1, AgeQuiet DEF LockExpires
  <1>3. CASE RunsTooLong(j)
    <2> DEFINE n == [row[j] EXCEPT !.started = "over"]
    <2>1. QuietRow(row[j], n) /\ Shown(n) = Shown(row[j])
      BY <1>3, RowFacts DEF RunsTooLong, QuietRow, RowConsistent, Rows, Shown, TerminalKept,
                            Terminal, Active
    <2> QED
      BY <1>3, <2>1, AgeQuiet DEF RunsTooLong
  <1> QED
    BY <1>1, <1>2, <1>3 DEF TimePasses

(* The end of a task at the provider keeps the invariant.                   *)
LEMMA TaskStep ==
    ASSUME IInv, NEW t \in Tasks, TaskEnds(t)
    PROVE  SafeStep
  <1>1. QuietTasks
    BY DEF TaskEnds, QuietTasks, IInv, TypeOK
  <1>2. KeepRows
    BY DEF TaskEnds, KeepRows
  <1> QED
    BY <1>1, <1>2, KeepRowsQuiet, SameWorkers, SameFiles, QuietStep DEF TaskEnds

(* scan_timeouts_and_recover_locks keeps the invariant.                     *)
LEMMA ScanStep ==
    ASSUME IInv, NEW w \in Workers, NEW skipped \in SUBSET Jobs, Scan(w, skipped)
    PROVE  SafeStep
  <1> DEFINE swept == {j \in Jobs \ skipped : Expired(row[j]) \/ LockStale(row[j])}
  <1>1. /\ row' = [j \in Jobs |-> IF j \in swept THEN Swept(row[j]) ELSE row[j]]
        /\ Outdate(swept)
        /\ Goto(w, "claim")
        /\ UNCHANGED <<task, files>>
    BY DEF Scan
  <1>2. QuietRows
    BY <1>1, RowFacts, SweptQuiet, QuietRowRefl DEF QuietRows
  <1>3. QuietHeld
    <2>1. held' \in HeldType
      BY <1>1 DEF Outdate, HeldType, IInv, TypeOK
    <2>2. CurrentVersionShowsRow'
      BY <1>1 DEF Outdate, IInv, CurrentVersionShowsRow
    <2> QED
      BY <2>1, <2>2 DEF QuietHeld
  <1>4. QuietWorkers
    BY <1>1, GotoQuiet DEF Disengaged, Engaged, Points, Processing, Checked
  <1> QED
    BY <1>1, <1>2, <1>3, <1>4, SameTasks, SameFiles, QuietStep

(***************************************************************************)
(* Steps of one worker that leave the rows alone but may engage it.        *)
(***************************************************************************)

(* The conjuncts of IInv that speak of worker w, when its state becomes n.  *)
FitsWorker(w, n) ==
    /\ n \in WorkerStates
    /\ n.at \in Processing => n.job \in Jobs
    /\ n.at \in Engaged => n.ext \in Tasks
    /\ n.ext \in Tasks => task'[n.ext] # "unused"
    /\ n.at = "accepted" =>
        /\ \A j \in Jobs : row[j].ext # n.ext
        /\ \A v \in Workers \ {w} : worker[v].ext # n.ext
    /\ \A v \in Workers \ {w} : worker[v].at = "accepted" => worker[v].ext # n.ext
    /\ /\ n.at \in {"poll", "delivered"} \cup Checked
       /\ row[n.job].status = "running" /\ row[n.job].lockedBy = w
       => n.ext = row[n.job].ext
    /\ n.at \in {"delivered", "stored"} => task'[n.ext] = "done"

(* If w's new state fits, the step keeps the invariant.                     *)
LEMMA WorkerMoves ==
    ASSUME IInv, NEW w \in Workers, NEW n, FitsWorker(w, n),
           worker' = [worker EXCEPT ![w] = n],
           KeepRows, QuietTasks, files' \in SUBSET Tasks
    PROVE  SafeStep
  <1>1. /\ worker' = [v \in Workers |-> IF v = w THEN n ELSE worker[v]]
        /\ row' = row /\ held' = held
    BY DEF IInv, TypeOK, KeepRows
  <1>2. TypeOK'
    BY <1>1 DEF IInv, TypeOK, FitsWorker, QuietTasks
  <1>3. RowsConsistent' /\ TasksNotShared' /\ CurrentVersionShowsRow'
    BY <1>1 DEF IInv, RowsConsistent, TasksNotShared, CurrentVersionShowsRow
  <1>4. WorkersAttached'
    BY <1>1 DEF IInv, WorkersAttached, FitsWorker
  <1>5. TasksAccepted'
    BY <1>1 DEF IInv, TasksAccepted, FitsWorker, QuietTasks
  <1>6. AcceptedIsFresh'
    BY <1>1 DEF IInv, AcceptedIsFresh, FitsWorker
  <1>7. LockProtectsTask'
    BY <1>1 DEF IInv, LockProtectsTask, FitsWorker, Holds, IsRunning, JobOf
  <1>8. DeliveredIsDone'
    BY <1>1 DEF IInv, DeliveredIsDone, WorkersAttached, Engaged, Checked, FitsWorker, QuietTasks
  <1>9. ResultMatchesTask'
    <2>1. \A j \in Jobs : row[j].ext # NoTask => row[j].ext \in Tasks
      BY RowFacts DEF Rows
    <2> QED
      BY <1>1, <2>1 DEF IInv, ResultMatchesTask, QuietTasks
  <1>10. \A j \in Jobs : TerminalKept(row[j], row'[j])
    BY <1>1 DEF TerminalKept
  <1> QED
    BY <1>2, <1>3, <1>4, <1>5, <1>6, <1>7, <1>8, <1>9, <1>10 DEF IInv, SafeStep

(* A worker that is polling or has been answered goes on with the same job  *)
(* and the same task.                                                       *)
LEMMA AdvanceFits ==
    ASSUME IInv, QuietTasks, NEW w \in Workers, worker[w].at \in {"poll", "delivered"},
           NEW n \in WorkerStates, n.job = worker[w].job, n.ext = worker[w].ext,
           n.at \in {"pollError"} \cup {"delivered"} \cup Checked,
           n.at \in {"delivered", "stored"} => task'[n.ext] = "done"
    PROVE  FitsWorker(w, n)
  <1>1. worker[w].job \in Jobs /\ worker[w].ext \in Tasks /\ task[worker[w].ext] # "unused"
    BY DEF IInv, WorkersAttached, TasksAccepted, Processing, Engaged
  <1>2. \A v \in Workers \ {w} : worker[v].at = "accepted" => worker[v].ext # worker[w].ext
    BY DEF IInv, AcceptedIsFresh
  <1>3. row[n.job].status = "running" /\ row[n.job].lockedBy = w => n.ext = row[n.job].ext
    BY DEF IInv, LockProtectsTask, Holds, IsRunning, JobOf
  <1>4. n.at # "accepted"
    BY DEF Checked
  <1> QED
    BY <1>1, <1>2, <1>3, <1>4 DEF FitsWorker, QuietTasks

(***************************************************************************)
(* Steps of one worker that change a row in a way QuietRow does not allow, *)
(* and leave the worker disengaged.                                        *)
(***************************************************************************)

(* What the new row n of job j must satisfy; o is the worker's new state.   *)
FitsRow(j, n, w, o) ==
    /\ n \in Rows
    /\ RowConsistent(n)
    /\ TerminalKept(row[j], n)
    /\ \/ n.ext = row[j].ext
       \/ /\ n.ext \in Tasks
          /\ task[n.ext] # "unused"
          /\ \A k \in Jobs : row[k].ext # n.ext
          /\ \A v \in Workers \ {w} : worker[v].ext # n.ext
    /\ n.lockedBy \in {w, NoWorker}
    /\ IF n.status = "succeeded"
       THEN n.asset = n.ext /\ n.ext # NoTask /\ task[n.ext] = "done"
       ELSE n.asset = NoTask
    /\ o \in WorkerStates
    /\ o.at \in Disengaged
    /\ o.ext = NoTask
    /\ o.at \in Processing => o.job \in Jobs

(* If both fit, the step keeps the invariant.                               *)
LEMMA RowMoves ==
    ASSUME IInv, NEW w \in Workers, NEW j \in Jobs, NEW n, NEW o, FitsRow(j, n, w, o),
           SetRow(j, n), worker' = [worker EXCEPT ![w] = o], UNCHANGED <<task, files>>
    PROVE  SafeStep
  <1>1. /\ row' = [k \in Jobs |-> IF k = j THEN n ELSE row[k]]
        /\ held' = [u \in Users |-> [k \in Jobs |-> IF k = j THEN NoVersion ELSE held[u][k]]]
        /\ worker' = [v \in Workers |-> IF v = w THEN o ELSE worker[v]]
        /\ task' = task /\ files' = files
    BY DEF SetRow, Outdate, IInv, TypeOK
  <1>2. TypeOK'
    <2>1. row' \in [Jobs -> Rows] /\ worker' \in [Workers -> WorkerStates]
      BY <1>1 DEF IInv, TypeOK, FitsRow
    <2>2. held' \in HeldType
      BY <1>1 DEF IInv, TypeOK, HeldType
    <2> QED
      BY <1>1, <2>1, <2>2 DEF IInv, TypeOK, HeldType
  <1>3. RowsConsistent'
    BY <1>1 DEF IInv, RowsConsistent, FitsRow, RowConsistent
  <1>4. WorkersAttached'
    BY <1>1 DEF IInv, WorkersAttached, FitsRow, Disengaged
  <1>5. TasksAccepted'
    BY <1>1, NullAssumption DEF IInv, TasksAccepted, FitsRow
  <1>6. AcceptedIsFresh'
    <2> SUFFICES ASSUME NEW v \in Workers, worker'[v].at = "accepted"
                 PROVE  /\ \A k \in Jobs : row'[k].ext # worker'[v].ext
                        /\ \A u \in Workers \ {v} : worker'[u].ext # worker'[v].ext
      BY DEF AcceptedIsFresh
    <2>1. v # w /\ worker'[v] = worker[v]
      BY <1>1 DEF FitsRow, Disengaged, Engaged
    <2>2. worker[v].ext \in Tasks
      BY <2>1 DEF IInv, WorkersAttached, Engaged
    <2>3. \A k \in Jobs : row[k].ext # worker[v].ext
      BY <2>1 DEF IInv, AcceptedIsFresh
    <2>4. n.ext # worker[v].ext
      BY <2>1, <2>3 DEF FitsRow
    <2>5. \A u \in Workers \ {v} : worker'[u].ext # worker[v].ext
      BY <1>1, <2>1, <2>2, NullAssumption DEF IInv, AcceptedIsFresh, FitsRow
    <2> QED
      BY <1>1, <2>1, <2>3, <2>4, <2>5
  <1>7. LockProtectsTask'
    <2> SUFFICES ASSUME NEW v \in Workers,
                        worker'[v].at \in {"poll", "delivered"} \cup Checked, Holds(v)'
                 PROVE  worker'[v].ext = (JobOf(v).ext)'
      BY DEF LockProtectsTask
    <2>1. v # w /\ worker'[v] = worker[v]
      BY <1>1 DEF FitsRow, Disengaged, Engaged
    <2>2. worker[v].job \in Jobs
      BY <2>1 DEF IInv, WorkersAttached, Processing, Checked
    <2>3. worker[v].job # j
      BY <1>1, <2>1, <2>2, NullAssumption DEF Holds, IsRunning, JobOf, FitsRow
    <2> QED
      BY <1>1, <2>1, <2>2, <2>3 DEF IInv, LockProtectsTask, Holds, IsRunning, JobOf
  <1>8. DeliveredIsDone'
    BY <1>1 DEF IInv, DeliveredIsDone, FitsRow, Disengaged, Engaged, Checked
  <1>9. ResultMatchesTask'
    BY <1>1 DEF IInv, ResultMatchesTask, FitsRow
  <1>10. TasksNotShared'
    BY <1>1, NullAssumption DEF IInv, TasksNotShared, FitsRow
  <1>11. CurrentVersionShowsRow'
    BY <1>1 DEF IInv, CurrentVersionShowsRow
  <1>12. \A k \in Jobs : TerminalKept(row[k], row'[k])
    BY <1>1 DEF FitsRow, TerminalKept
  <1> QED
    BY <1>2, <1>3, <1>4, <1>5, <1>6, <1>7, <1>8, <1>9, <1>10, <1>11, <1>12 DEF IInv, SafeStep

(* The state of a worker between jobs, or just after a claim.               *)
LEMMA IdleFacts ==
    \A p \in {"scan", "down", "start"} :
        LET o == Idle(p)
        IN o \in WorkerStates /\ o.at = p /\ o.ext = NoTask /\ p \in Disengaged
  BY DEF Idle, WorkerStates, Points, Processing, Disengaged, Engaged, Checked

(* claim_next_job keeps the invariant: another worker's lock is gone.       *)
LEMMA ClaimStep ==
    ASSUME IInv, NEW w \in Workers, NEW j \in Jobs, Claim(w, j)
    PROVE  SafeStep
  <1> DEFINE r == row[j]
             n == Claimed(r, w)
             o == [Idle("start") EXCEPT !.job = j]
  <1>1. r \in Rows /\ RowConsistent(r) /\ r.status \in Active
    BY RowFacts DEF Claim, Claimable, Active
  <1>2. /\ n \in Rows /\ n.status = "running" /\ n.ext = r.ext /\ n.asset = r.asset
        /\ n.next = r.next /\ n.lockedBy = w /\ n.lock = "fresh" /\ n.started # "none"
    BY <1>1, ClaimedRow
  <1>3. r.asset = NoTask
    BY <1>1 DEF IInv, ResultMatchesTask, Active
  <1>4. o \in WorkerStates /\ o.at = "start" /\ o.ext = NoTask /\ o.job = j /\ o.at \in Disengaged
    BY IdleFacts DEF WorkerStates
  <1>5. RowConsistent(n)
    BY <1>1, <1>2, NullAssumption DEF RowConsistent, Active
  <1>6. TerminalKept(r, n)
    BY <1>1 DEF TerminalKept, Terminal, Active
  <1> HIDE DEF n, o
  <1>7. FitsRow(j, n, w, o)
    BY <1>2, <1>3, <1>4, <1>5, <1>6 DEF FitsRow
  <1> QED
    BY <1>7, RowMoves DEF Claim, n, o

(* A submission recorded without a look at the lock keeps the invariant,    *)
(* because the task it records is fresh and it frees the lock.              *)
LEMMA RecordAcceptedStep ==
    ASSUME IInv, NEW w \in Workers, RecordAccepted(w)
    PROVE  SafeStep
  <1> DEFINE j == worker[w].job
             t == worker[w].ext
             r == row[j]
             n == Submitted(r, t)
             o == Idle("scan")
  <1>1. j \in Jobs /\ t \in Tasks /\ task[t] # "unused"
    BY DEF RecordAccepted, IInv, WorkersAttached, TasksAccepted, Processing, Engaged
  <1>2. r \in Rows /\ RowConsistent(r)
    BY <1>1, RowFacts
  <1>3. CASE IsRunning(w)
    <2>1. r.status = "running" /\ r.asset = NoTask
      BY <1>1, <1>3 DEF IsRunning, JobOf, IInv, ResultMatchesTask
    <2>2. /\ Freed(r, n) /\ n.status = "running" /\ n.ext = t /\ n.next = "later"
          /\ n.started = r.started
      BY <1>1, <1>2, <2>1, SubmittedRow
    <2>3. n \in Rows /\ RowConsistent(n) /\ n.asset = NoTask /\ n.lockedBy = NoWorker
      BY <1>2, <2>1, <2>2 DEF Freed, RowConsistent, Active
    <2>4. TerminalKept(r, n)
      BY <2>1 DEF TerminalKept, Terminal
    <2>5. /\ \A k \in Jobs : row[k].ext # t
          /\ \A v \in Workers \ {w} : worker[v].ext # t
      BY DEF RecordAccepted, IInv, AcceptedIsFresh
    <2>6. o \in WorkerStates /\ o.at = "scan" /\ o.ext = NoTask /\ o.at \in Disengaged
      BY IdleFacts
    <2>7. SetRow(j, n) /\ worker' = [worker EXCEPT ![w] = o] /\ UNCHANGED <<task, files>>
      BY <1>3 DEF RecordAccepted, JobOf, Finish
    <2> HIDE DEF n, o
    <2>8. FitsRow(j, n, w, o)
      BY <1>1, <2>2, <2>3, <2>4, <2>5, <2>6 DEF FitsRow, Processing
    <2> QED
      BY <1>1, <2>7, <2>8, RowMoves
  <1>4. CASE ~IsRunning(w)
    BY <1>4, KeepRowsQuiet, FinishQuiet, SameTasks, SameFiles, QuietStep DEF RecordAccepted
  <1> QED
    BY <1>3, <1>4

(* The holder of the lock stores the output of the task the row records.    *)
LEMMA SucceedStep ==
    ASSUME IInv, NEW w \in Workers, RecordAnswer(w), worker[w].at = "stored"
    PROVE  SafeStep
  <1> DEFINE j == worker[w].job
             t == worker[w].ext
             r == row[j]
             n == Succeeded(r, t)
             o == Idle("scan")
  <1>1. j \in Jobs /\ t \in Tasks
    BY DEF IInv, WorkersAttached, Processing, Engaged, Checked
  <1>2. r \in Rows /\ RowConsistent(r)
    BY <1>1, RowFacts
  <1>3. r.status = "running" /\ t = r.ext /\ task[t] = "done"
    BY DEF RecordAnswer, Holds, IsRunning, JobOf, IInv, LockProtectsTask, DeliveredIsDone
  <1>4. /\ n \in Rows /\ n.status = "succeeded" /\ n.ext = r.ext /\ n.asset = t
        /\ n.next = "none" /\ n.lockedBy = NoWorker /\ n.lock = "none"
    BY <1>1, <1>2, SucceededRow
  <1>5. RowConsistent(n)
    BY <1>4 DEF RowConsistent, Active
  <1>6. TerminalKept(r, n)
    BY <1>3 DEF TerminalKept, Terminal
  <1>7. o \in WorkerStates /\ o.at = "scan" /\ o.ext = NoTask /\ o.at \in Disengaged
    BY IdleFacts
  <1>8. SetRow(j, n) /\ worker' = [worker EXCEPT ![w] = o] /\ UNCHANGED <<task, files>>
    BY DEF RecordAnswer, Answered, JobOf, Finish
  <1> HIDE DEF n, o
  <1>9. FitsRow(j, n, w, o)
    BY <1>1, <1>3, <1>4, <1>5, <1>6, <1>7, NullAssumption DEF FitsRow, Processing
  <1> QED
    BY <1>1, <1>8, <1>9, RowMoves

(***************************************************************************)
(* The steps of process_claimed_job, in its order.                         *)
(***************************************************************************)

(* A transaction that records an error or releases the job, if it runs.     *)
LEMMA RecordQuiet ==
    ASSUME IInv, NEW w \in Workers, worker[w].at \in Processing, NEW n,
           IF IsRunning(w) THEN SetRow(worker[w].job, n) ELSE KeepRows,
           IsRunning(w) => QuietRow(JobOf(w), n)
    PROVE  QuietRows /\ QuietHeld
  <1>1. worker[w].job \in Jobs
    BY DEF IInv, WorkersAttached
  <1> QED
    BY <1>1, SetRowQuiet, KeepRowsQuiet DEF JobOf

(* The row functions of errors, applied to the job of a worker.             *)
LEMMA ErrorsOfJob ==
    ASSUME IInv, NEW w \in Workers, worker[w].at \in Processing, IsRunning(w)
    PROVE  /\ worker[w].job \in Jobs
           /\ QuietRow(JobOf(w), SubmissionError(JobOf(w), worker[w].retryable))
           /\ QuietRow(JobOf(w), PollError(JobOf(w), worker[w].retryable))
           /\ QuietRow(JobOf(w), PollError(JobOf(w), FALSE))
           /\ QuietRow(JobOf(w), Repolled(JobOf(w)))
           /\ QuietRow(JobOf(w), UnexpectedError(JobOf(w)))
           /\ QuietRow(JobOf(w), Attempted(JobOf(w)))
  <1>1. worker[w].job \in Jobs /\ worker[w].retryable \in BOOLEAN
    BY DEF IInv, TypeOK, WorkersAttached, WorkerStates
  <1>2. JobOf(w) \in Rows /\ RowConsistent(JobOf(w)) /\ JobOf(w).status = "running"
    BY <1>1, RowFacts DEF JobOf, IsRunning
  <1> QED
    BY <1>1, <1>2, ErrorsQuiet, AttemptedQuiet

(* Claiming nothing, losing the job before the start, a crash, a restart.   *)
LEMMA LeaveStep ==
    ASSUME IInv, NEW w \in Workers,
           ClaimNothing(w) \/ StartLost(w) \/ Crash(w) \/ Restart(w)
    PROVE  SafeStep
  <1>1. QuietRows /\ QuietHeld
    BY KeepRowsQuiet DEF ClaimNothing, StartLost, Crash, Restart
  <1>2. QuietWorkers
    <2>1. CASE Crash(w)
      BY <2>1, IdleFacts DEF Crash, QuietWorkers, QuietWorker, IInv, TypeOK, Processing
    <2> QED
      BY <2>1, FinishQuiet DEF ClaimNothing, StartLost, Restart
  <1> QED
    BY <1>1, <1>2, SameTasks, SameFiles, QuietStep DEF ClaimNothing, StartLost, Crash, Restart

(* The first transaction of process_claimed_job.                            *)
LEMMA StartStep ==
    ASSUME IInv, NEW w \in Workers, StartSubmission(w) \/ StartPoll(w)
    PROVE  SafeStep
  <1>1. worker[w].at \in Processing /\ worker[w].job \in Jobs /\ IsRunning(w)
    BY DEF StartSubmission, StartPoll, Processing, IInv, WorkersAttached, Holds
  <1>2. CASE StartSubmission(w)
    <2>1. QuietRows /\ QuietHeld
      BY <1>1, <1>2, ErrorsOfJob, SetRowQuiet DEF StartSubmission, JobOf
    <2>2. QuietWorkers
      BY <1>1, <1>2, GotoQuiet
        DEF StartSubmission, Disengaged, Engaged, Points, Processing, Checked
    <2> QED
      BY <1>2, <2>1, <2>2, SameTasks, SameFiles, QuietStep DEF StartSubmission
  <1>3. CASE StartPoll(w)
    <2> DEFINE t == JobOf(w).ext
               n == [worker[w] EXCEPT !.at = "poll", !.ext = t]
    <2>1. worker[w] \in WorkerStates /\ t \in Tasks /\ task[t] # "unused"
      BY <1>1, <1>3, RowFacts DEF StartPoll, JobOf, Rows, IInv, TypeOK, TasksAccepted
    <2>2. /\ n \in WorkerStates /\ n.at = "poll" /\ n.ext = t /\ n.job = worker[w].job
      BY <2>1 DEF WorkerStates, Points, Processing
    <2>3. \A v \in Workers \ {w} : worker[v].at = "accepted" => worker[v].ext # t
      BY <1>1 DEF IInv, AcceptedIsFresh, JobOf
    <2>4. worker' = [worker EXCEPT ![w] = n] /\ KeepRows /\ UNCHANGED <<task, files>>
      BY <1>3 DEF StartPoll, IInv, TypeOK
    <2> HIDE DEF n
    <2>5. FitsWorker(w, n)
      BY <1>1, <2>1, <2>2, <2>3, <2>4 DEF FitsWorker, JobOf
    <2> QED
      BY <2>4, <2>5, WorkerMoves, SameTasks, SameFiles
  <1> QED
    BY <1>2, <1>3

(* The call of submit: the provider may accept a task in each of its        *)
(* outcomes but one.                                                        *)
LEMMA SubmitStep ==
    ASSUME IInv, NEW w \in Workers,
           SubmitAccepted(w) \/ SubmitRejected(w) \/ SubmitAnswerLost(w)
    PROVE  SafeStep
  <1>1. worker[w].at = "submit" /\ worker[w] \in WorkerStates /\ worker[w].job \in Jobs
    BY DEF SubmitAccepted, SubmitRejected, SubmitAnswerLost, IInv, TypeOK, WorkersAttached,
           Processing
  <1>2. CASE SubmitAccepted(w)
    <2> PICK t \in Unused :
          /\ task' = [task EXCEPT ![t] = "working"]
          /\ worker' = [worker EXCEPT ![w].at = "accepted", ![w].ext = t]
      BY <1>2 DEF SubmitAccepted
    <2> DEFINE n == [worker[w] EXCEPT !.at = "accepted", !.ext = t]
    <2>1. t \in Tasks /\ task[t] = "unused"
      BY DEF Unused
    <2>2. n \in WorkerStates /\ n.at = "accepted" /\ n.ext = t /\ n.job = worker[w].job
      BY <1>1, <2>1 DEF WorkerStates, Points, Processing
    <2>3. QuietTasks /\ task'[t] = "working"
      BY <2>1 DEF QuietTasks, IInv, TypeOK
    <2>4. /\ \A k \in Jobs : row[k].ext # t
          /\ \A v \in Workers : worker[v].ext # t
      BY <2>1 DEF IInv, TasksAccepted
    <2>5. worker' = [worker EXCEPT ![w] = n] /\ KeepRows /\ UNCHANGED files
      BY <1>2 DEF SubmitAccepted, IInv, TypeOK
    <2> HIDE DEF n
    <2>6. FitsWorker(w, n)
      BY <1>1, <2>1, <2>2, <2>3, <2>4 DEF FitsWorker, Checked
    <2> QED
      BY <2>3, <2>5, <2>6, WorkerMoves, SameFiles
  <1>3. CASE SubmitRejected(w) \/ SubmitAnswerLost(w)
    <2>1. QuietRows /\ QuietHeld
      BY <1>3, KeepRowsQuiet DEF SubmitRejected, SubmitAnswerLost
    <2>2. PICK b \in BOOLEAN : worker' = [worker EXCEPT ![w].at = "rejected", ![w].retryable = b]
      BY <1>3 DEF SubmitRejected, SubmitAnswerLost
    <2>3. QuietWorkers
      <3> DEFINE n == [worker[w] EXCEPT !.at = "rejected", !.retryable = b]
      <3>1. n \in WorkerStates /\ n.at = "rejected" /\ n.ext = worker[w].ext /\ n.job = worker[w].job
        BY <1>1 DEF WorkerStates, Points, Processing
      <3>2. worker' = [v \in Workers |-> IF v = w THEN n ELSE worker[v]]
        BY <2>2 DEF IInv, TypeOK
      <3>3. "rejected" \in Disengaged
        BY DEF Disengaged, Engaged, Points, Processing, Checked
      <3> HIDE DEF n
      <3> QED
        BY <1>1, <3>1, <3>2, <3>3 DEF QuietWorkers, QuietWorker
    <2>4. QuietTasks
      <3>1. CASE SubmitRejected(w)
        BY <3>1, SameTasks DEF SubmitRejected
      <3>2. CASE SubmitAnswerLost(w)
        BY <3>2 DEF SubmitAnswerLost, Unused, QuietTasks, IInv, TypeOK
      <3> QED
        BY <1>3, <3>1, <3>2
    <2>5. files' \in SUBSET Tasks
      BY <1>3, SameFiles DEF SubmitRejected, SubmitAnswerLost
    <2> QED
      BY <2>1, <2>3, <2>4, <2>5, QuietStep
  <1> QED
    BY <1>2, <1>3

(* Recording an error, with or without a look at the lock.                  *)
LEMMA RecordErrorStep ==
    ASSUME IInv, NEW w \in Workers,
           RecordRejected(w) \/ RecordPollError(w) \/ HandleRaised(w)
    PROVE  SafeStep
  <1>1. worker[w].at \in Processing
    BY DEF RecordRejected, RecordPollError, HandleRaised, Processing
  <1>2. QuietRows /\ QuietHeld
    <2>1. CASE RecordRejected(w)
      BY <1>1, <2>1, ErrorsOfJob, RecordQuiet DEF RecordRejected
    <2>2. CASE RecordPollError(w)
      BY <1>1, <2>2, ErrorsOfJob, RecordQuiet DEF RecordPollError
    <2>3. CASE HandleRaised(w)
      BY <1>1, <2>3, ErrorsOfJob, RecordQuiet DEF HandleRaised
    <2> QED
      BY <2>1, <2>2, <2>3
  <1> QED
    BY <1>2, FinishQuiet, SameTasks, SameFiles, QuietStep
      DEF RecordRejected, RecordPollError, HandleRaised

(* The calls of poll and of prepare_generation_assets.                      *)
LEMMA AnswerStep ==
    ASSUME IInv, NEW w \in Workers, Poll(w) \/ Store(w) \/ StoreFails(w)
    PROVE  SafeStep
  <1> DEFINE s == worker[w]
  <1>1. /\ s \in WorkerStates /\ s.at \in {"poll", "delivered"} /\ s.ext \in Tasks
        /\ task[s.ext] # "unused"
    BY DEF Poll, Store, StoreFails, IInv, TypeOK, WorkersAttached, TasksAccepted, Engaged
  <1>2. KeepRows /\ UNCHANGED task /\ QuietTasks
    BY SameTasks DEF Poll, Store, StoreFails
  <1>3. files' \in SUBSET Tasks
    BY <1>1 DEF Poll, Store, StoreFails, IInv, TypeOK
  <1>4. \E n \in WorkerStates :
          /\ worker' = [worker EXCEPT ![w] = n]
          /\ n.job = s.job /\ n.ext = s.ext
          /\ n.at \in {"pollError"} \cup {"delivered"} \cup Checked
          /\ n.at \in {"delivered", "stored"} => task[s.ext] = "done"
    <2>1. CASE Poll(w)
      <3> PICK a \in Answers(s.ext), b \in BOOLEAN :
            worker' = [worker EXCEPT ![w].at = a, ![w].retryable = b]
        BY <2>1 DEF Poll
      <3> DEFINE n == [s EXCEPT !.at = a, !.retryable = b]
      <3>1. a \in {"pending", "pollError", "delivered", "empty", "broken"}
        BY DEF Answers
      <3>2. a = "delivered" => task[s.ext] = "done"
        BY DEF Answers
      <3>3. n \in WorkerStates /\ n.at = a /\ n.job = s.job /\ n.ext = s.ext
        BY <1>1, <3>1 DEF WorkerStates, Points, Processing
      <3>4. worker' = [worker EXCEPT ![w] = n]
        BY DEF IInv, TypeOK
      <3> HIDE DEF n
      <3> QED
        BY <3>1, <3>2, <3>3, <3>4 DEF Checked
    <2>2. CASE Store(w)
      <3> DEFINE n == [s EXCEPT !.at = "stored", !.created = s.ext \notin files]
      <3>1. task[s.ext] = "done"
        BY <2>2 DEF Store, IInv, DeliveredIsDone
      <3>2. n \in WorkerStates /\ n.at = "stored" /\ n.job = s.job /\ n.ext = s.ext
        BY <1>1 DEF WorkerStates, Points, Processing
      <3>3. worker' = [worker EXCEPT ![w] = n]
        BY <2>2 DEF Store, IInv, TypeOK
      <3> HIDE DEF n
      <3> QED
        BY <3>1, <3>2, <3>3 DEF Checked
    <2>3. CASE StoreFails(w)
      <3> PICK b \in BOOLEAN :
            worker' = [worker EXCEPT ![w].at = "storeError", ![w].retryable = b]
        BY <2>3 DEF StoreFails
      <3> DEFINE n == [s EXCEPT !.at = "storeError", !.retryable = b]
      <3>1. n \in WorkerStates /\ n.at = "storeError" /\ n.job = s.job /\ n.ext = s.ext
        BY <1>1 DEF WorkerStates, Points, Processing
      <3>2. worker' = [worker EXCEPT ![w] = n]
        BY DEF IInv, TypeOK
      <3> HIDE DEF n
      <3> QED
        BY <3>1, <3>2 DEF Checked
    <2> QED
      BY <2>1, <2>2, <2>3
  <1>5. PICK n \in WorkerStates :
          /\ worker' = [worker EXCEPT ![w] = n]
          /\ n.job = s.job /\ n.ext = s.ext
          /\ n.at \in {"pollError"} \cup {"delivered"} \cup Checked
          /\ n.at \in {"delivered", "stored"} => task[s.ext] = "done"
    BY <1>4
  <1>6. FitsWorker(w, n)
    BY <1>1, <1>2, <1>5, AdvanceFits
  <1> QED
    BY <1>2, <1>3, <1>5, <1>6, WorkerMoves

(* The last transaction of process_claimed_job.                             *)
LEMMA RecordAnswerStep ==
    ASSUME IInv, NEW w \in Workers, RecordAnswer(w) \/ DiscardAnswer(w)
    PROVE  SafeStep
  <1>1. worker[w].at \in Processing /\ worker[w].at \in Checked
    BY DEF RecordAnswer, DiscardAnswer, Checked, Processing
  <1>2. CASE RecordAnswer(w) /\ worker[w].at # "stored"
    <2>1. IsRunning(w)
      BY <1>2 DEF RecordAnswer, Holds
    <2>2. QuietRow(JobOf(w), Answered(w))
      <3> DEFINE at == worker[w].at
      <3>1. CASE at = "pending"
        BY <1>1, <2>1, <3>1, ErrorsOfJob DEF Answered
      <3>2. CASE at = "empty"
        BY <1>1, <2>1, <3>2, ErrorsOfJob DEF Answered
      <3>3. CASE at = "broken"
        BY <1>1, <2>1, <3>3, ErrorsOfJob DEF Answered
      <3>4. CASE at = "storeError"
        BY <1>1, <2>1, <3>4, ErrorsOfJob DEF Answered
      <3> QED
        BY <1>1, <1>2, <3>1, <3>2, <3>3, <3>4 DEF Checked
    <2>3. QuietRows /\ QuietHeld
      BY <1>1, <1>2, <2>1, <2>2, RecordQuiet DEF RecordAnswer
    <2> QED
      BY <1>2, <2>3, FinishQuiet, SameTasks, SameFiles, QuietStep DEF RecordAnswer
  <1>3. CASE DiscardAnswer(w)
    <2>1. files' \in SUBSET Tasks
      BY <1>3 DEF DiscardAnswer, Cleanup, IInv, TypeOK
    <2> QED
      BY <1>3, <2>1, KeepRowsQuiet, FinishQuiet, SameTasks, QuietStep DEF DiscardAnswer
  <1> QED
    BY <1>2, <1>3, SucceedStep

(* An exception leaves the job as it is until run_once handles it.          *)
LEMMA RaiseStep ==
    ASSUME IInv, NEW w \in Workers, PersistRaises(w) \/ ProcessRaises(w)
    PROVE  SafeStep
  <1>1. files' \in SUBSET Tasks
    BY DEF PersistRaises, ProcessRaises, Cleanup, IInv, TypeOK
  <1>2. QuietWorkers
    <2>1. worker[w].at \in Processing /\ Goto(w, "raised")
      BY DEF PersistRaises, ProcessRaises, Processing
    <2> QED
      BY <2>1, GotoQuiet DEF Disengaged, Engaged, Points, Processing, Checked
  <1> QED
    BY <1>1, <1>2, KeepRowsQuiet, SameTasks, QuietStep DEF PersistRaises, ProcessRaises

(* Every step of a worker keeps the invariant.                              *)
LEMMA WorkerStep ==
    ASSUME IInv, NEW w \in Workers, WorkerActs(w)
    PROVE  SafeStep
  <1>1. CASE Process(w)
    BY <1>1, LeaveStep, StartStep, SubmitStep, RecordAcceptedStep, RecordErrorStep, AnswerStep,
       RecordAnswerStep, RaiseStep DEF Process
  <1> QED
    BY <1>1, ScanStep, ClaimStep, LeaveStep DEF WorkerActs

(***************************************************************************)
(* The theorems that hold whatever workers and users do.                   *)
(***************************************************************************)

(* Nothing has happened yet: no job, no task, every worker about to scan.   *)
LEMMA InitInv == Init => IInv
  <1> SUFFICES ASSUME Init PROVE IInv
    OBVIOUS
  <1>1. AbsentRow \in Rows
    BY AttemptsAssumption, StatusMembers DEF AbsentRow, Rows, AttemptCap
  <1>2. \A w \in Workers :
          worker[w] \in WorkerStates /\ worker[w].at = "scan" /\ worker[w].ext = NoTask
    BY IdleFacts DEF Init
  <1>3. \A j \in Jobs :
          /\ row[j].status = "absent" /\ row[j].next = "none" /\ row[j].ext = NoTask
          /\ row[j].lockedBy = NoWorker /\ row[j].lock = "none" /\ row[j].asset = NoTask
    BY DEF Init, AbsentRow
  <1>4. TypeOK
    BY <1>1, <1>2 DEF Init, TypeOK
  <1>5. RowsConsistent
    BY <1>3 DEF RowsConsistent, Active
  <1>6. WorkersAttached /\ AcceptedIsFresh /\ LockProtectsTask /\ DeliveredIsDone
    BY <1>2 DEF WorkersAttached, AcceptedIsFresh, LockProtectsTask, DeliveredIsDone,
                Processing, Engaged, Checked
  <1>7. TasksAccepted /\ ResultMatchesTask /\ TasksNotShared
    BY <1>2, <1>3, NullAssumption DEF TasksAccepted, ResultMatchesTask, TasksNotShared
  <1>8. CurrentVersionShowsRow
    BY DEF Init, CurrentVersionShowsRow
  <1> QED
    BY <1>4, <1>5, <1>6, <1>7, <1>8 DEF IInv

(* Every step keeps the invariant and finished rows.                        *)
LEMMA NextInv == IInv /\ [Next]_vars => SafeStep
  <1> SUFFICES ASSUME IInv, [Next]_vars PROVE SafeStep
    OBVIOUS
  <1>1. CASE UNCHANGED vars
    <2>1. KeepRows
      BY <1>1 DEF vars, KeepRows
    <2> QED
      BY <1>1, <2>1, KeepRowsQuiet, SameWorkers, SameTasks, SameFiles, QuietStep DEF vars
  <1> QED
    BY <1>1, UserStep, WorkerStep, TimeStep, TaskStep DEF Next

(* IInv holds in every reachable state.                                     *)
THEOREM Invariance == Spec => []IInv
  <1>1. IInv /\ [Next]_vars => IInv'
    BY NextInv DEF SafeStep
  <1> QED
    BY InitInv, <1>1, PTL DEF Spec

(* Rows, workers, tasks, files and versions always have their types.        *)
THEOREM TypeCorrect == Spec => []TypeOK
  <1>1. IInv => TypeOK
    BY DEF IInv
  <1> QED
    BY Invariance, <1>1, PTL

(* The columns of a row always agree, whatever transactions interleave.     *)
THEOREM RowsStayConsistent == Spec => []RowsConsistent
  <1>1. IInv => RowsConsistent
    BY DEF IInv
  <1> QED
    BY Invariance, <1>1, PTL

(* A worker that still holds the lock of a job works from the task that the *)
(* row records, although recordings of submissions and poll errors do not   *)
(* look at the lock.                                                        *)
THEOREM LockProtects == Spec => []LockProtectsTask
  <1>1. IInv => LockProtectsTask
    BY DEF IInv
  <1> QED
    BY Invariance, <1>1, PTL

(* A succeeded job shows the output of its recorded task, which ended well. *)
THEOREM ResultsMatch == Spec => []ResultMatchesTask
  <1>1. IInv => ResultMatchesTask
    BY DEF IInv
  <1> QED
    BY Invariance, <1>1, PTL

(* No provider task is recorded for two jobs.                               *)
THEOREM TasksStayApart == Spec => []TasksNotShared
  <1>1. IInv => TasksNotShared
    BY DEF IInv
  <1> QED
    BY Invariance, <1>1, PTL

(* A user who holds the current version_no of a job sees its current row.   *)
THEOREM VersionsCurrent == Spec => []CurrentVersionShowsRow
  <1>1. IInv => CurrentVersionShowsRow
    BY DEF IInv
  <1> QED
    BY Invariance, <1>1, PTL

(* Succeeded and cancelled rows never change; failed and timed out ones     *)
(* change only by a retry within the attempts.                              *)
THEOREM TerminalRowsStay == Spec => TerminalStays
  <1>1. IInv /\ [Next]_vars =>
          [\A j \in Jobs :
            row[j].status \in Terminal /\ row'[j] # row[j] =>
                /\ row[j].status \in {"failed", "timeout"}
                /\ row'[j].status = "pending"
                /\ row[j].attempts < MaxAttempts]_vars
    BY NextInv DEF SafeStep, TerminalKept
  <1> QED
    BY Invariance, <1>1, PTL DEF Spec, TerminalStays

(***************************************************************************)
(* Jobs that several workers are busy with.                                *)
(*                                                                         *)
(* What follows is about GenerationOverlaps.  The argument has two parts.  *)
(* A job that was never overrun has at most one busy worker, which has its *)
(* fresh lock as long as the job runs, so that nobody else can claim it.   *)
(* And a job that no two workers met over has at most one worker past the  *)
(* check of its lock; even if that worker lost the lock long ago, the row  *)
(* still has the task it knows, since only a worker past the check changes *)
(* the task of a job that has not failed.                                  *)
(***************************************************************************)

(* One worker at a time has a job, from its claim to its last transaction.   *)
OneBusy ==
    \A v, w \in Workers, j \in Jobs \ overrun : Busy(v, j) /\ Busy(w, j) => v = w

(* A job with a busy worker is run by it, or has ended without a result.    *)
Held(w, j) ==
    /\ row[j].status \in {"running", "failed", "cancelled", "timeout"}
    /\ row[j].status = "running" => row[j].lockedBy = w /\ row[j].lock = "fresh"

BusyHolds == \A w \in Workers, j \in Jobs \ overrun : Busy(w, j) => Held(w, j)

Submitting == {"submit", "accepted", "rejected"}

Polling == {"poll", "delivered", "pollError"} \cup Checked

(* Busy at a point where the worker relies on what it knows of the task.    *)
Relies(w, j) == Busy(w, j) /\ worker[w].at \in Submitting \cup Polling

Unfinished == {"pending", "running", "cancelled", "timeout"}

(* The row has the task the worker knows, or none yet, and no result.       *)
Knows(w, j) ==
    /\ row[j].status \in Unfinished
    /\ worker[w].at \in Submitting => row[j].ext = NoTask
    /\ worker[w].at \in Polling => row[j].ext = worker[w].ext
    /\ worker[w].at = "stored" => worker[w].ext \in files

NoneMeet == \A j \in Jobs \ met : ~WorkersMeet(j)

ReliersKnow == \A w \in Workers, j \in Jobs \ met : Relies(w, j) => Knows(w, j)

(* The task a busy worker knows is no other job's, in the table or at work. *)
TasksApart ==
    \A w \in Workers, k \in Jobs : Busy(w, k) /\ worker[w].ext \in Tasks =>
        /\ \A j \in Jobs : row[j].ext = worker[w].ext => j = k
        /\ \A v \in Workers, j \in Jobs :
            Busy(v, j) /\ worker[v].ext = worker[w].ext => j = k

(* A worker that is told of a broken task is told the truth.                *)
AnswersTrue == \A w \in Workers : worker[w].at = "broken" => task[worker[w].ext] = "broken"

(* The rows alone: none stranded, none shown without its files, and none    *)
(* that has a task before it exists.                                        *)
RowSound(r, stored) ==
    /\ r.status = "running" /\ r.lock = "none" => r.ext # NoTask
    /\ r.status = "succeeded" => r.asset \in stored
    /\ r.status = "absent" => r.ext = NoTask

RowsSound == \A j \in Jobs \ met : RowSound(row[j], files)

(* The strengthening that is inductive, given IInv.                         *)
Apart ==
    /\ OneBusy
    /\ BusyHolds
    /\ MeetingsAreOverruns
    /\ NoneMeet
    /\ ReliersKnow
    /\ TasksApart
    /\ AnswersTrue
    /\ RowsSound

(* The rule of TaskLostOnlyIfMet, for one row.                              *)
TaskStays(r, n) ==
    r.ext # NoTask /\ n.ext # r.ext =>
        task[r.ext] = "broken" \/ r.status \in {"failed", "timeout"}

ApartStep == Apart' /\ \A j \in Jobs \ met : TaskStays(row[j], row'[j])

(* What the history variables remember of a step.                           *)
Remembers ==
    /\ met' = met \cup {j \in Jobs : WorkersMeet(j)'}
    /\ overrun' = overrun \cup {j \in Jobs : Overruns(j)}

(* Every step changes the state of one worker at most: w, or no worker if   *)
(* w is not one.  What must hold of the others, of w and of the rows.       *)
OthersRest(w) ==
    /\ \A v \in Workers \ {w} : worker'[v] = worker[v]
    /\ \A v \in Workers \ {w} :
        worker[v].at = "stored" /\ worker[v].job \notin met
            => worker[v].ext \in files \cap files' \/ worker[v].ext \notin files
    /\ \A t \in Tasks : task[t] = "broken" => task'[t] = "broken"

(* Where the task comes from that w knows after the step.                   *)
Learnt(w) ==
    LET t == worker'[w].ext
        k == worker'[w].job
    IN  \/ t = NoTask
        \/ Busy(w, k) /\ t = worker[w].ext
        \/ t = row[k].ext
        \/ /\ \A j \in Jobs : row[j].ext # t
           /\ \A v \in Workers : worker[v].ext # t

Proceeds(w) ==
    worker'[w].at \in Processing =>
        /\ worker'[w].job \notin overrun' =>
            Held(w, worker[w].job)' /\ \A v \in Workers \ {w} : ~Busy(v, worker'[w].job)
        /\ worker'[w].job \notin met' /\ worker'[w].at \in Submitting \cup Polling =>
            Knows(w, worker[w].job)'
        /\ Learnt(w)
        /\ worker'[w].at = "broken" => task'[worker'[w].ext] = "broken"

(* n replaces the row of j: no busy worker knows a task it now records; if  *)
(* a worker other than w is busy with a job that was not overrun, then that *)
(* ends or keeps its lock; and if it relies on the task, the task stays.    *)
RowRests(w, j, n) ==
    /\ \/ n.ext \in {row[j].ext, NoTask}
       \/ \A v \in Workers : worker'[v].at \in Processing => worker'[v].ext # n.ext
    /\ j \notin overrun' =>
        \/ n.status \in {"failed", "cancelled", "timeout"}
        \/ n.status = row[j].status /\ n.lockedBy = row[j].lockedBy /\ n.lock = row[j].lock
        \/ \A v \in Workers \ {w} : ~Busy(v, j)
    /\ j \notin met =>
        /\ \/ n.ext = row[j].ext /\ n.status \in Unfinished \cup {row[j].status}
           \/ \A v \in Workers \ {w} : ~Relies(v, j)
        /\ RowSound(n, files')
        /\ TaskStays(row[j], n)

(* If all of them do, the step keeps Apart and the tasks.                   *)
LEMMA RestStep ==
    ASSUME IInv, Apart, NEW w, w \in Workers => Proceeds(w), OthersRest(w), Remembers,
           \A j \in Jobs : RowRests(w, j, row'[j]), IInv'
    PROVE  ApartStep
  <1>1. OneBusy'
    <2> SUFFICES ASSUME NEW u \in Workers, NEW v \in Workers, NEW j \in Jobs, j \notin overrun',
                        Busy(u, j)', Busy(v, j)', u # v
                 PROVE  FALSE
      BY DEF OneBusy
    <2>0. j \notin overrun
      BY DEF Remembers
    <2>1. CASE u # w /\ v # w
      BY <2>0, <2>1 DEF OthersRest, Apart, OneBusy, Busy
    <2>2. CASE u = w
      BY <2>2 DEF OthersRest, Proceeds, Busy
    <2>3. CASE v = w
      BY <2>3 DEF OthersRest, Proceeds, Busy
    <2> QED
      BY <2>1, <2>2, <2>3
  <1>2. BusyHolds'
    <2> SUFFICES ASSUME NEW v \in Workers, NEW j \in Jobs, j \notin overrun', Busy(v, j)'
                 PROVE  Held(v, j)'
      BY DEF BusyHolds
    <2>0. j \notin overrun
      BY DEF Remembers
    <2>1. CASE v = w
      BY <2>1 DEF Proceeds, Busy
    <2>2. CASE v # w
      <3>1. worker'[v] = worker[v] /\ Busy(v, j)
        BY <2>2 DEF OthersRest, Busy
      <3>2. Held(v, j)
        BY <2>0, <3>1 DEF Apart, BusyHolds
      <3>3. CASE row'[j].status \in {"failed", "cancelled", "timeout"}
        BY <3>3 DEF Held
      <3>4. CASE /\ row'[j].status = row[j].status
                 /\ row'[j].lockedBy = row[j].lockedBy /\ row'[j].lock = row[j].lock
        BY <3>2, <3>4 DEF Held
      <3> QED
        BY <2>2, <3>1, <3>3, <3>4 DEF RowRests
    <2> QED
      BY <2>1, <2>2
  <1>3. ASSUME NEW u \in Workers, NEW k \in Jobs, Busy(u, k)', worker'[u].ext \in Tasks
        PROVE  \A j \in Jobs : row'[j].ext = worker'[u].ext => row[j].ext = worker'[u].ext
    BY <1>3, NullAssumption DEF RowRests, Busy
  <1>4. ASSUME NEW u \in Workers, NEW k \in Jobs, Busy(u, k)', worker'[u].ext \in Tasks, u # w
        PROVE  /\ Busy(u, k) /\ worker'[u].ext = worker[u].ext
               /\ \A j \in Jobs : row[j].ext = worker'[u].ext => j = k
               /\ \A v \in Workers, j \in Jobs :
                    Busy(v, j) /\ worker[v].ext = worker'[u].ext => j = k
    <2>1. worker'[u] = worker[u]
      BY <1>4 DEF OthersRest
    <2> QED
      BY <1>4, <2>1 DEF Apart, TasksApart, Busy
  <1>5. ASSUME w \in Workers, NEW k \in Jobs, Busy(w, k)', worker'[w].ext \in Tasks
        PROVE  /\ \A j \in Jobs : row[j].ext = worker'[w].ext => j = k
               /\ \A v \in Workers \ {w}, j \in Jobs :
                    Busy(v, j) /\ worker[v].ext = worker'[w].ext => j = k
    <2>1. worker'[w].job = k /\ worker'[w].at \in Processing
      BY <1>5 DEF Busy
    <2>2. Learnt(w)
      BY <1>5, <2>1 DEF Proceeds
    <2>3. CASE Busy(w, k) /\ worker'[w].ext = worker[w].ext
      BY <1>5, <2>3 DEF Apart, TasksApart
    <2>4. CASE worker'[w].ext = row[k].ext
      <3>1. \A j \in Jobs : row[j].ext = worker'[w].ext => j = k
        BY <1>5, <2>4, NullAssumption DEF IInv, TasksNotShared
      <3>2. ASSUME NEW v \in Workers, NEW j \in Jobs, Busy(v, j), worker[v].ext = row[k].ext
            PROVE  j = k
        BY <1>5, <2>4, <3>2 DEF Apart, TasksApart
      <3> QED
        BY <2>4, <3>1, <3>2
    <2>5. CASE /\ \A j \in Jobs : row[j].ext # worker'[w].ext
               /\ \A v \in Workers : worker[v].ext # worker'[w].ext
      BY <2>5
    <2> QED
      BY <1>5, <2>1, <2>2, <2>3, <2>4, <2>5, NullAssumption DEF Learnt
  <1>6. TasksApart'
    <2> SUFFICES ASSUME NEW u \in Workers, NEW k \in Jobs, Busy(u, k)', worker'[u].ext \in Tasks
                 PROVE  /\ \A j \in Jobs : row'[j].ext = worker'[u].ext => j = k
                        /\ \A v \in Workers, j \in Jobs :
                            Busy(v, j)' /\ worker'[v].ext = worker'[u].ext => j = k
      BY DEF TasksApart
    <2>1. \A j \in Jobs : row'[j].ext = worker'[u].ext => j = k
      BY <1>3, <1>4, <1>5
    <2>2. ASSUME NEW v \in Workers, NEW j \in Jobs, Busy(v, j)', worker'[v].ext = worker'[u].ext
          PROVE  j = k
      <3>1. CASE u = w /\ v = w
        BY <2>2, <3>1 DEF Busy
      <3>2. CASE u # w /\ v # w
        BY <1>4, <2>2, <3>2
      <3>3. CASE u = w /\ v # w
        BY <1>4, <1>5, <2>2, <3>3
      <3>4. CASE u # w /\ v = w
        BY <1>4, <1>5, <2>2, <3>4
      <3> QED
        BY <3>1, <3>2, <3>3, <3>4
    <2> QED
      BY <2>1, <2>2
  <1>7. AnswersTrue'
    <2> SUFFICES ASSUME NEW v \in Workers, worker'[v].at = "broken"
                 PROVE  task'[worker'[v].ext] = "broken"
      BY DEF AnswersTrue
    <2>1. CASE v = w
      BY <2>1 DEF Proceeds, Processing
    <2>2. CASE v # w
      <3>1. worker'[v] = worker[v]
        BY <2>2 DEF OthersRest
      <3>2. worker[v].at = "broken" => worker[v].ext \in Tasks
        BY DEF IInv, WorkersAttached, Engaged, Checked
      <3> QED
        BY <2>2, <3>1, <3>2 DEF OthersRest, Apart, AnswersTrue
    <2> QED
      BY <2>1, <2>2
  <1>8. ReliersKnow'
    <2> SUFFICES ASSUME NEW v \in Workers, NEW j \in Jobs, j \notin met', Relies(v, j)'
                 PROVE  Knows(v, j)'
      BY DEF ReliersKnow
    <2>0. j \notin met
      BY DEF Remembers
    <2>1. CASE v = w
      BY <2>1 DEF Proceeds, Relies, Busy
    <2>2. CASE v # w
      <3>1. worker'[v] = worker[v] /\ Relies(v, j)
        BY <2>2 DEF OthersRest, Relies, Busy
      <3>2. Knows(v, j)
        BY <2>0, <3>1 DEF Apart, ReliersKnow
      <3>3. row'[j].ext = row[j].ext /\ row'[j].status \in Unfinished \cup {row[j].status}
        BY <2>0, <2>2, <3>1 DEF RowRests
      <3>4. worker[v].at = "stored" => worker[v].ext \in files'
        BY <2>0, <2>2, <3>1, <3>2 DEF OthersRest, Knows, Relies, Busy
      <3> QED
        BY <3>1, <3>2, <3>3, <3>4 DEF Knows
    <2> QED
      BY <2>1, <2>2
  <1>9. NoneMeet'
    BY DEF Remembers, NoneMeet
  <1>10. MeetingsAreOverruns'
    <2> SUFFICES ASSUME NEW j \in met', j \notin overrun'
                 PROVE  FALSE
      BY DEF MeetingsAreOverruns
    <2>1. j \in Jobs /\ WorkersMeet(j)'
      BY DEF Remembers, Apart, MeetingsAreOverruns
    <2> QED
      BY <1>1, <2>1 DEF OneBusy, WorkersMeet, Past
  <1>11. RowsSound' /\ \A j \in Jobs \ met : TaskStays(row[j], row'[j])
    BY DEF RowRests, RowsSound, Remembers
  <1> QED
    BY <1>1, <1>2, <1>6, <1>7, <1>8, <1>9, <1>10, <1>11 DEF Apart, ApartStep

(***************************************************************************)
(* What the action idioms provide for RestStep.                            *)
(***************************************************************************)

(* A row that keeps its task and its lock rests, if its files are kept.     *)
LEMMA SameRowRests ==
    ASSUME Apart, NEW w, NEW j \in Jobs, NEW n,
           n.status = row[j].status, n.ext = row[j].ext, n.asset = row[j].asset,
           n.lockedBy = row[j].lockedBy,
           n.lock = "none" => row[j].lock = "none",
           j \notin overrun' => n.lock = row[j].lock \/ \A v \in Workers \ {w} : ~Busy(v, j),
           j \notin met /\ row[j].status = "succeeded" => row[j].asset \in files'
    PROVE  RowRests(w, j, n)
  BY DEF RowRests, Apart, RowsSound, RowSound, TaskStays

(* Unchanged rows and files: every row rests.                               *)
LEMMA KeepRowsRest ==
    ASSUME Apart, NEW w, UNCHANGED row,
           \A j \in Jobs \ met : row[j].status = "succeeded" => row[j].asset \in files'
    PROVE  \A j \in Jobs : RowRests(w, j, row'[j])
  BY SameRowRests

(* Unchanged rows, with the files that were there.                          *)
LEMMA KeepAllRest ==
    ASSUME Apart, NEW w, UNCHANGED row, files \subseteq files'
    PROVE  \A j \in Jobs : RowRests(w, j, row'[j])
  <1>1. \A j \in Jobs \ met : row[j].status = "succeeded" => row[j].asset \in files'
    BY DEF Apart, RowsSound, RowSound
  <1> QED
    BY <1>1, KeepRowsRest

(* One new row that rests, among rows and files that are kept.              *)
LEMMA SetRowRests ==
    ASSUME IInv, Apart, NEW w, NEW j \in Jobs, NEW n, row' = [row EXCEPT ![j] = n],
           UNCHANGED files, RowRests(w, j, n)
    PROVE  \A k \in Jobs : RowRests(w, k, row'[k])
  <1>1. ASSUME NEW k \in Jobs PROVE row'[k] = IF k = j THEN n ELSE row[k]
    BY DEF IInv, TypeOK
  <1>2. \A k \in Jobs \ met : row[k].status = "succeeded" => row[k].asset \in files'
    BY DEF Apart, RowsSound, RowSound
  <1> QED
    BY <1>1, <1>2, SameRowRests

(* The new state n of one worker, and what happens to tasks and files.      *)
LEMMA OneMoves ==
    ASSUME IInv, NEW w, NEW n, worker' = [worker EXCEPT ![w] = n],
           files \subseteq files',
           \A t \in Tasks : task[t] = "broken" => task'[t] = "broken"
    PROVE  /\ OthersRest(w)
           /\ w \in Workers => worker'[w] = n
  BY DEF OthersRest, IInv, TypeOK

(* No worker moves.                                                         *)
LEMMA NoneMoves ==
    ASSUME UNCHANGED worker, files \subseteq files',
           \A t \in Tasks : task[t] = "broken" => task'[t] = "broken"
    PROVE  OthersRest(NoWorker)
  BY DEF OthersRest

(* What is known of a worker that is busy with j.                           *)
LEMMA BusyFacts ==
    ASSUME IInv, Apart, NEW w \in Workers, worker[w].at \in Processing
    PROVE  LET j == worker[w].job
           IN  /\ j \in Jobs
               /\ Busy(w, j)
               /\ row[j] \in Rows
               /\ RowConsistent(row[j])
               /\ j \notin overrun =>
                    Held(w, j) /\ \A v \in Workers \ {w} : ~Busy(v, j)
               /\ j \notin met /\ worker[w].at # "start" =>
                    \A v \in Workers \ {w} : ~Past(v, j) /\ ~Relies(v, j)
               /\ j \notin met /\ worker[w].at \in Submitting \cup Polling => Knows(w, j)
  <1> DEFINE j == worker[w].job
  <1>1. j \in Jobs /\ Busy(w, j)
    BY DEF IInv, WorkersAttached, Busy
  <1>2. row[j] \in Rows /\ RowConsistent(row[j])
    BY <1>1, RowFacts
  <1>3. j \notin overrun => Held(w, j) /\ \A v \in Workers \ {w} : ~Busy(v, j)
    BY <1>1 DEF Apart, OneBusy, BusyHolds
  <1>4. j \notin met /\ worker[w].at # "start" => \A v \in Workers \ {w} : ~Past(v, j)
    BY <1>1 DEF Apart, NoneMeet, WorkersMeet, Past
  <1>5. \A v \in Workers : Relies(v, j) => Past(v, j)
    BY DEF Relies, Past, Submitting, Polling, Checked
  <1>6. j \notin met /\ worker[w].at \in Submitting \cup Polling => Knows(w, j)
    BY <1>1 DEF Apart, ReliersKnow, Relies
  <1> QED
    BY <1>1, <1>2, <1>3, <1>4, <1>5, <1>6

(***************************************************************************)
(* One lemma per group of actions, as for IInv.                            *)
(***************************************************************************)

(* A job is created when nobody is busy with it, and a retry under a busy   *)
(* worker is remembered; what a worker relies on outlives it.               *)
LEMMA UserRests ==
    ASSUME IInv, Apart, IInv', Remembers, UserActs
    PROVE  ApartStep
  <1> PICK j \in Jobs : Create(j) \/ \E u \in Users : Read(u, j) \/ Cancel(u, j) \/ Retry(u, j)
    BY DEF UserActs
  <1>1. UNCHANGED <<worker, task, files>> /\ OthersRest(NoWorker) /\ NoWorker \notin Workers
    BY NoneMoves, NullAssumption DEF Create, Read, Cancel, Retry
  <1>2. ASSUME NEW n, SetRow(j, n), RowRests(NoWorker, j, n) PROVE ApartStep
    BY <1>1, <1>2, SetRowRests, RestStep DEF SetRow
  <1>3. ASSUME NEW v \in Workers, Relies(v, j), j \notin met PROVE row[j].status \in Unfinished
    BY <1>3 DEF Apart, ReliersKnow, Knows
  <1>4. j \notin overrun' => j \notin overrun /\ ~Overruns(j)
    BY DEF Remembers
  <1>5. CASE Create(j)
    <2>1. Created.status = "pending" /\ Created.ext = NoTask
      BY DEF Created, AbsentRow
    <2>2. row[j].status = "absent"
      BY <1>5 DEF Create
    <2>3. j \notin overrun' => \A v \in Workers : ~Busy(v, j)
      BY <1>4, <2>2 DEF Apart, BusyHolds, Held
    <2>4. j \notin met => row[j].ext = NoTask /\ \A v \in Workers : ~Relies(v, j)
      BY <1>3, <2>2 DEF Apart, RowsSound, RowSound, Unfinished
    <2>5. RowRests(NoWorker, j, Created)
      BY <2>1, <2>3, <2>4 DEF RowRests, RowSound, TaskStays
    <2> QED
      BY <1>2, <1>5, <2>5 DEF Create
  <1>6. ASSUME NEW u \in Users, Read(u, j) PROVE ApartStep
    BY <1>1, <1>6, KeepAllRest, RestStep DEF Read
  <1>7. ASSUME NEW u \in Users, Cancel(u, j) PROVE ApartStep
    <2>1. Cancelled(row[j]).status = "cancelled" /\ Cancelled(row[j]).ext = row[j].ext
      BY RowFacts, EndedRow DEF Cancelled, Terminal
    <2>2. RowRests(NoWorker, j, Cancelled(row[j]))
      BY <2>1 DEF RowRests, RowSound, TaskStays, Unfinished
    <2> QED
      BY <1>2, <1>7, <2>2 DEF Cancel
  <1>8. ASSUME NEW u \in Users, Retry(u, j) PROVE ApartStep
    <2> DEFINE n == Retried(row[j])
    <2>1. /\ n.status = "pending" /\ n.ext \in {row[j].ext, NoTask}
          /\ row[j].status = "timeout" => n.ext = row[j].ext
      BY RowFacts, RetriedRow
    <2>2. SetRow(j, n) /\ row[j].status \in {"failed", "timeout"}
      BY <1>8 DEF Retry, Retryable
    <2> HIDE DEF n
    <2>3. row'[j] = n
      BY <2>2 DEF SetRow, IInv, TypeOK
    <2>4. j \notin overrun' => \A v \in Workers : ~Busy(v, j)
      BY <1>4, <2>1, <2>2, <2>3 DEF Overruns, RetriedNow
    <2>5. j \notin met /\ row[j].status = "failed" => \A v \in Workers : ~Relies(v, j)
      BY <1>3 DEF Unfinished
    <2>6. RowRests(NoWorker, j, n)
      BY <2>1, <2>2, <2>4, <2>5 DEF RowRests, RowSound, TaskStays, Unfinished
    <2> QED
      BY <1>2, <2>2, <2>6
  <1> QED
    BY <1>5, <1>6, <1>7, <1>8

(* A lock that expires under a busy worker is remembered; nothing else      *)
(* matters here.                                                            *)
LEMMA TimeRests ==
    ASSUME IInv, Apart, IInv', Remembers, NEW j \in Jobs, TimePasses(j)
    PROVE  ApartStep
  <1>1. ASSUME NEW n, Age(j, n), RowRests(NoWorker, j, n) PROVE ApartStep
    <2>1. OthersRest(NoWorker) /\ NoWorker \notin Workers
      BY <1>1, NoneMoves, NullAssumption DEF Age
    <2> QED
      BY <1>1, <2>1, SetRowRests, RestStep DEF Age
  <1>2. row[j] \in Rows /\ RowConsistent(row[j])
    BY RowFacts
  <1>3. TimePasses(j) => UNCHANGED files
    BY DEF TimePasses, BecomesDue, LockExpires, RunsTooLong, Age
  <1>4. j \notin met /\ row[j].status = "succeeded" => row[j].asset \in files'
    BY <1>3 DEF Apart, RowsSound, RowSound
  <1>5. CASE BecomesDue(j)
    <2> DEFINE n == [row[j] EXCEPT !.next = "due"]
    <2>1. /\ n.status = row[j].status /\ n.ext = row[j].ext /\ n.asset = row[j].asset
          /\ n.lockedBy = row[j].lockedBy /\ n.lock = row[j].lock
      BY <1>2 DEF Rows
    <2> HIDE DEF n
    <2>2. RowRests(NoWorker, j, n)
      BY <1>4, <2>1, SameRowRests
    <2> QED
      BY <1>1, <1>5, <2>2 DEF BecomesDue, n
  <1>6. CASE LockExpires(j)
    <2> DEFINE n == [row[j] EXCEPT !.lock = "stale"]
    <2>1. /\ n.status = row[j].status /\ n.ext = row[j].ext /\ n.asset = row[j].asset
          /\ n.lockedBy = row[j].lockedBy /\ n.lock = "stale"
      BY <1>2 DEF Rows
    <2>2. row[j].status = "running" /\ row[j].lock = "fresh"
      BY <1>2, <1>6 DEF LockExpires, RowConsistent
    <2>3. row'[j] = n
      BY <1>6 DEF LockExpires, Age, IInv, TypeOK
    <2>4. ASSUME NEW v \in Workers, Busy(v, j), j \notin overrun' PROVE FALSE
      <3>1. j \notin overrun /\ ~Overruns(j)
        BY <2>4 DEF Remembers
      <3>2. row[j].lockedBy = v
        BY <2>2, <2>4, <3>1 DEF Apart, BusyHolds, Held
      <3>3. OutlivesLock(v, j)
        BY <2>1, <2>2, <2>3, <3>2 DEF OutlivesLock
      <3> QED
        BY <2>4, <3>1, <3>3 DEF Overruns
    <2> HIDE DEF n
    <2>5. RowRests(NoWorker, j, n)
      BY <1>4, <2>1, <2>4, SameRowRests
    <2> QED
      BY <1>1, <1>6, <2>5 DEF LockExpires, n
  <1>7. CASE RunsTooLong(j)
    <2> DEFINE n == [row[j] EXCEPT !.started = "over"]
    <2>1. /\ n.status = row[j].status /\ n.ext = row[j].ext /\ n.asset = row[j].asset
          /\ n.lockedBy = row[j].lockedBy /\ n.lock = row[j].lock
      BY <1>2 DEF Rows
    <2> HIDE DEF n
    <2>2. RowRests(NoWorker, j, n)
      BY <1>4, <2>1, SameRowRests
    <2> QED
      BY <1>1, <1>7, <2>2 DEF RunsTooLong, n
  <1> QED
    BY <1>5, <1>6, <1>7 DEF TimePasses

(* A task that ends was working, so that no broken one changes.             *)
LEMMA TaskRests ==
    ASSUME IInv, Apart, IInv', Remembers, NEW t \in Tasks, TaskEnds(t)
    PROVE  ApartStep
  <1>1. \A s \in Tasks : task[s] = "broken" => task'[s] = "broken"
    BY DEF TaskEnds, IInv, TypeOK
  <1>2. OthersRest(NoWorker) /\ NoWorker \notin Workers
    BY <1>1, NoneMoves, NullAssumption DEF TaskEnds
  <1> QED
    BY <1>2, KeepAllRest, RestStep DEF TaskEnds

(* A row is swept when it ends, or when its lock is stale and therefore no  *)
(* worker is busy with it, unless it was overrun; either way it keeps its   *)
(* task.                                                                    *)
LEMMA SweptRests ==
    ASSUME IInv, Apart, Remembers, NEW w, NEW j \in Jobs, Expired(row[j]) \/ LockStale(row[j])
    PROVE  RowRests(w, j, Swept(row[j]))
  <1> DEFINE r == row[j]
  <1>1. r \in Rows
    BY RowFacts
  <1>2. CASE Expired(r)
    <2>1. TimedOut(r).status = "timeout" /\ TimedOut(r).ext = r.ext
      BY <1>1, EndedRow DEF TimedOut, Terminal
    <2>2. Swept(r) = TimedOut(r)
      BY <1>2 DEF Swept, Expired, LockStale
    <2> QED
      BY <2>1, <2>2 DEF RowRests, RowSound, TaskStays, Unfinished
  <1>3. CASE LockStale(r)
    <2>1. ASSUME NEW v \in Workers, Busy(v, j), j \notin overrun' PROVE FALSE
      BY <1>3, <2>1 DEF LockStale, Apart, BusyHolds, Held, Remembers
    <2>2. Recovered(r).ext = r.ext /\ Recovered(r).status \in {r.status, "pending"}
      BY <1>1, RecoveredRow
    <2>3. r.ext = NoTask => Recovered(r).status = "pending"
      <3> DEFINE p == Transition(Unlocked(r), "pending")
      <3>1. Freed(r, p) /\ p.status = "pending"
        BY <1>1, LeftRow, StatusMembers
      <3> HIDE DEF p
      <3>2. [p EXCEPT !.next = "due"].status = "pending"
        BY <3>1 DEF Freed, Rows
      <3> QED
        BY <3>2 DEF Recovered, p
    <2>4. Swept(r) = Recovered(r)
      BY <1>3 DEF Swept, Expired, LockStale
    <2>5. r.status = "running"
      BY <1>3 DEF LockStale
    <2> QED
      BY <2>1, <2>2, <2>3, <2>4, <2>5 DEF RowRests, RowSound, TaskStays, Unfinished
  <1> QED
    BY <1>2, <1>3

(* A sweep takes no job from a busy worker but to end it, or an overrun one. *)
LEMMA ScanRests ==
    ASSUME IInv, Apart, IInv', Remembers, NEW w \in Workers, NEW skipped \in SUBSET Jobs,
           Scan(w, skipped)
    PROVE  ApartStep
  <1> DEFINE swept == {j \in Jobs \ skipped : Expired(row[j]) \/ LockStale(row[j])}
             n == [worker[w] EXCEPT !.at = "claim"]
  <1>1. row' = [j \in Jobs |-> IF j \in swept THEN Swept(row[j]) ELSE row[j]]
    BY DEF Scan
  <1>2. worker' = [worker EXCEPT ![w] = n] /\ UNCHANGED <<task, files>>
    BY DEF Scan, Goto
  <1>3. n.at = "claim"
    BY DEF IInv, TypeOK, WorkerStates
  <1>4. OthersRest(w) /\ Proceeds(w)
    BY <1>2, <1>3, OneMoves DEF Proceeds, Processing
  <1>5. \A j \in Jobs \ met : row[j].status = "succeeded" => row[j].asset \in files'
    BY <1>2 DEF Apart, RowsSound, RowSound
  <1>6. ASSUME NEW j \in Jobs PROVE RowRests(w, j, row'[j])
    <2>1. CASE j \in swept
      BY <1>1, <2>1, SweptRests
    <2>2. CASE j \notin swept
      BY <1>1, <1>5, <2>2, SameRowRests
    <2> QED
      BY <2>1, <2>2
  <1> QED
    BY <1>4, <1>6, RestStep

(* A claimed job had no busy worker, unless it was overrun: its lock would  *)
(* be fresh.                                                                *)
LEMMA ClaimRests ==
    ASSUME IInv, Apart, IInv', Remembers, NEW w \in Workers, NEW j \in Jobs, Claim(w, j)
    PROVE  ApartStep
  <1> DEFINE r == row[j]
             n == Claimed(r, w)
             o == [Idle("start") EXCEPT !.job = j]
  <1>1. ASSUME NEW v \in Workers, Busy(v, j), j \notin overrun' PROVE FALSE
    BY <1>1 DEF Claim, Claimable, Apart, BusyHolds, Held, Remembers
  <1>2. /\ n.status = "running" /\ n.ext = r.ext /\ n.asset = r.asset
        /\ n.lockedBy = w /\ n.lock = "fresh"
    BY RowFacts, ClaimedRow
  <1>3. o.at = "start" /\ o.ext = NoTask /\ o.job = j
    BY IdleFacts DEF WorkerStates
  <1>4. /\ row' = [row EXCEPT ![j] = n]
        /\ worker' = [worker EXCEPT ![w] = o]
        /\ UNCHANGED <<task, files>>
    BY DEF Claim, SetRow
  <1> HIDE DEF n, o
  <1>5. OthersRest(w) /\ worker'[w] = o
    BY <1>4, OneMoves
  <1>6. row'[j] = n
    BY <1>4 DEF IInv, TypeOK
  <1>7. Held(w, worker[w].job)'
    BY <1>2, <1>3, <1>5, <1>6 DEF Held
  <1>8. "start" \notin Submitting \cup Polling
    BY DEF Submitting, Polling, Checked
  <1>9. Proceeds(w)
    BY <1>1, <1>3, <1>5, <1>7, <1>8 DEF Proceeds, Learnt
  <1>10. RowRests(w, j, n)
    BY <1>1, <1>2 DEF RowRests, RowSound, TaskStays, Unfinished
  <1>11. \A k \in Jobs : RowRests(w, k, row'[k])
    BY <1>4, <1>10, SetRowRests
  <1> QED
    BY <1>5, <1>9, <1>11, RestStep

(* A worker without a job leaves everyone else as they are.                 *)
LEMMA LeaveRests ==
    ASSUME IInv, Apart, IInv', Remembers, NEW w \in Workers,
           ClaimNothing(w) \/ StartLost(w) \/ Crash(w) \/ Restart(w)
    PROVE  ApartStep
  <1>1. PICK p \in {"scan", "down"} : worker' = [worker EXCEPT ![w] = Idle(p)]
    BY DEF ClaimNothing, StartLost, Crash, Restart, Finish
  <1>2. KeepRows /\ UNCHANGED <<task, files>>
    BY DEF ClaimNothing, StartLost, Crash, Restart
  <1>3. OthersRest(w) /\ worker'[w] = Idle(p)
    BY <1>1, <1>2, OneMoves
  <1>4. Proceeds(w)
    BY <1>3, IdleFacts DEF Proceeds, Processing
  <1> QED
    BY <1>2, <1>3, <1>4, KeepAllRest, RestStep DEF KeepRows

(* A busy worker that goes on with its job, its row unchanged but for the   *)
(* attempts; its task is the one it knew, the one of the row, or fresh.     *)
LEMMA GoOn ==
    ASSUME IInv, Apart, IInv', Remembers, NEW w \in Workers, worker[w].at \in Processing,
           NEW n, worker' = [worker EXCEPT ![w] = n], n.job = worker[w].job,
           worker[w].job \notin overrun => Held(w, worker[w].job)',
           worker[w].job \notin met /\ n.at \in Submitting \cup Polling =>
               Knows(w, worker[w].job)',
           Learnt(w),
           n.at = "broken" => task'[n.ext] = "broken",
           OthersRest(w), \A j \in Jobs : RowRests(w, j, row'[j])
    PROVE  ApartStep
  <1>1. worker'[w] = n
    BY DEF IInv, TypeOK
  <1>2. worker[w].job \notin overrun => \A v \in Workers \ {w} : ~Busy(v, worker[w].job)
    BY BusyFacts
  <1>3. Proceeds(w)
    BY <1>1, <1>2 DEF Proceeds, Remembers
  <1> QED
    BY <1>3, RestStep

(* Starting: the worker holds the job, and takes the row's task if any.     *)
LEMMA StartRests ==
    ASSUME IInv, Apart, IInv', Remembers, NEW w \in Workers, StartSubmission(w) \/ StartPoll(w)
    PROVE  ApartStep
  <1> DEFINE s == worker[w]
             j == s.job
             r == row[j]
  <1>1. /\ s.at = "start" /\ s.at \in Processing /\ s \in WorkerStates
        /\ r.status = "running" /\ UNCHANGED <<task, files>>
    BY DEF StartSubmission, StartPoll, Processing, Holds, IsRunning, JobOf, IInv, TypeOK
  <1>2. j \in Jobs /\ r \in Rows /\ Busy(w, j)
    BY <1>1, BusyFacts
  <1>3. j \notin overrun => r.lockedBy = w /\ r.lock = "fresh"
    BY <1>1, BusyFacts DEF Held
  <1>4. j \notin met /\ r.status = "succeeded" => r.asset \in files'
    BY <1>1
  <1>5. CASE StartSubmission(w)
    <2> DEFINE n == [s EXCEPT !.at = "submit"]
               m == Attempted(r)
    <2>1. n.at = "submit" /\ n.job = s.job /\ n.ext = s.ext
      BY <1>1 DEF WorkerStates
    <2>2. /\ m.status = r.status /\ m.ext = r.ext /\ m.asset = r.asset
          /\ m.lockedBy = r.lockedBy /\ m.lock = r.lock
      BY <1>2, AttemptedRow
    <2>3. /\ worker' = [worker EXCEPT ![w] = n]
          /\ row' = [row EXCEPT ![j] = m]
          /\ r.ext = NoTask
      BY <1>5 DEF StartSubmission, Goto, SetRow, JobOf
    <2> HIDE DEF n, m
    <2>4. OthersRest(w) /\ worker'[w] = n
      BY <1>1, <2>3, OneMoves
    <2>5. row'[j] = m
      BY <1>2, <2>3 DEF IInv, TypeOK
    <2>6. j \notin overrun => Held(w, worker[w].job)'
      BY <1>1, <1>3, <2>1, <2>2, <2>4, <2>5 DEF Held
    <2>7. Knows(w, worker[w].job)'
      BY <1>1, <2>1, <2>2, <2>3, <2>4, <2>5 DEF Knows, Unfinished, Polling, Checked
    <2>8. Learnt(w)
      BY <1>2, <2>1, <2>4 DEF Learnt
    <2>9. RowRests(w, j, m)
      BY <1>2, <1>4, <2>2, SameRowRests
    <2>10. \A k \in Jobs : RowRests(w, k, row'[k])
      BY <1>1, <1>2, <2>3, <2>9, SetRowRests
    <2> QED
      BY <1>1, <2>1, <2>3, <2>4, <2>6, <2>7, <2>8, <2>10, GoOn
  <1>6. CASE StartPoll(w)
    <2> DEFINE n == [s EXCEPT !.at = "poll", !.ext = r.ext]
    <2>1. n.at = "poll" /\ n.job = s.job /\ n.ext = r.ext
      BY <1>1 DEF WorkerStates
    <2>2. worker' = [worker EXCEPT ![w] = n] /\ UNCHANGED row
      BY <1>6 DEF StartPoll, KeepRows, JobOf, IInv, TypeOK
    <2> HIDE DEF n
    <2>3. OthersRest(w) /\ worker'[w] = n
      BY <1>1, <2>2, OneMoves
    <2>4. j \notin overrun => Held(w, worker[w].job)'
      BY <1>1, <1>3, <2>1, <2>2, <2>3 DEF Held
    <2>5. Knows(w, worker[w].job)'
      BY <1>1, <2>1, <2>2, <2>3 DEF Knows, Unfinished, Submitting
    <2>6. Learnt(w)
      BY <2>1, <2>3 DEF Learnt
    <2>7. \A k \in Jobs : RowRests(w, k, row'[k])
      BY <1>1, <2>2, KeepAllRest
    <2> QED
      BY <1>1, <2>1, <2>2, <2>3, <2>4, <2>5, <2>6, <2>7, GoOn
  <1> QED
    BY <1>5, <1>6

(* The worker goes on and no row changes: what is left to show of it.       *)
LEMMA GoOnAlone ==
    ASSUME IInv, Apart, IInv', Remembers, NEW w \in Workers, worker[w].at \in Processing,
           NEW n, worker' = [worker EXCEPT ![w] = n], n.job = worker[w].job, UNCHANGED row,
           n.at \in Submitting => worker[w].at \in Submitting,
           n.at \in Polling => worker[w].at \in Polling /\ n.ext = worker[w].ext,
           Learnt(w),
           n.at = "broken" => task'[n.ext] = "broken",
           n.at = "stored" => n.ext \in files',
           OthersRest(w),
           \A j \in Jobs \ met : row[j].status = "succeeded" => row[j].asset \in files'
    PROVE  ApartStep
  <1> DEFINE j == worker[w].job
  <1>1. worker'[w] = n
    BY DEF IInv, TypeOK
  <1>2. j \notin overrun => Held(w, j)
    BY BusyFacts
  <1>3. j \notin overrun => Held(w, worker[w].job)'
    BY <1>1, <1>2 DEF Held
  <1>4. j \notin met /\ n.at \in Submitting \cup Polling => Knows(w, j)
    BY BusyFacts
  <1>5. j \notin met /\ n.at \in Submitting \cup Polling => Knows(w, worker[w].job)'
    BY <1>1, <1>4 DEF Knows
  <1>6. \A k \in Jobs : RowRests(w, k, row'[k])
    BY KeepRowsRest
  <1> QED
    BY <1>3, <1>5, <1>6, GoOn

(* Submitting: the task of an accepted one is known to nobody else.         *)
LEMMA SubmitRests ==
    ASSUME IInv, Apart, IInv', Remembers, NEW w \in Workers,
           SubmitAccepted(w) \/ SubmitRejected(w) \/ SubmitAnswerLost(w)
    PROVE  ApartStep
  <1>1. /\ worker[w].at = "submit" /\ worker[w] \in WorkerStates
        /\ worker[w].at \in Processing /\ worker[w].at \in Submitting
    BY DEF SubmitAccepted, SubmitRejected, SubmitAnswerLost, Processing, Submitting, IInv, TypeOK
  <1>2. UNCHANGED <<row, files>>
    BY DEF SubmitAccepted, SubmitRejected, SubmitAnswerLost, KeepRows
  <1>3. \A t \in Tasks : task[t] = "broken" => task'[t] = "broken"
    BY DEF SubmitAccepted, SubmitRejected, SubmitAnswerLost, Unused, IInv, TypeOK
  <1>4. \A j \in Jobs \ met : row[j].status = "succeeded" => row[j].asset \in files'
    BY <1>2 DEF Apart, RowsSound, RowSound
  <1>5. Busy(w, worker[w].job)
    BY <1>1, BusyFacts
  <1>6. \A p \in {"accepted", "rejected"} :
            p \notin Polling /\ p # "broken" /\ p # "stored"
    BY DEF Polling, Checked
  <1>7. CASE SubmitAccepted(w)
    <2> PICK t \in Unused : worker' = [worker EXCEPT ![w].at = "accepted", ![w].ext = t]
      BY <1>7 DEF SubmitAccepted
    <2> DEFINE n == [worker[w] EXCEPT !.at = "accepted", !.ext = t]
    <2>1. n.at = "accepted" /\ n.ext = t /\ n.job = worker[w].job
      BY <1>1 DEF WorkerStates
    <2>2. worker' = [worker EXCEPT ![w] = n]
      BY DEF IInv, TypeOK
    <2> HIDE DEF n
    <2>3. OthersRest(w) /\ worker'[w] = n
      BY <1>2, <1>3, <2>2, OneMoves
    <2>4. t \in Tasks /\ task[t] = "unused"
      BY DEF Unused
    <2>5. (\A j \in Jobs : row[j].ext # t) /\ (\A v \in Workers : worker[v].ext # t)
      BY <2>4 DEF IInv, TasksAccepted
    <2>6. Learnt(w)
      BY <2>1, <2>3, <2>5 DEF Learnt
    <2>7. n.at \notin Polling /\ n.at # "broken" /\ n.at # "stored"
      BY <1>6, <2>1
    <2> QED
      BY <1>1, <1>2, <1>4, <2>1, <2>2, <2>3, <2>6, <2>7, GoOnAlone
  <1>8. CASE SubmitRejected(w) \/ SubmitAnswerLost(w)
    <2> PICK b \in BOOLEAN : worker' = [worker EXCEPT ![w].at = "rejected", ![w].retryable = b]
      BY <1>8 DEF SubmitRejected, SubmitAnswerLost
    <2> DEFINE n == [worker[w] EXCEPT !.at = "rejected", !.retryable = b]
    <2>1. n.at = "rejected" /\ n.ext = worker[w].ext /\ n.job = worker[w].job
      BY <1>1 DEF WorkerStates
    <2>2. worker' = [worker EXCEPT ![w] = n]
      BY DEF IInv, TypeOK
    <2> HIDE DEF n
    <2>3. OthersRest(w) /\ worker'[w] = n
      BY <1>2, <1>3, <2>2, OneMoves
    <2>4. Learnt(w)
      BY <1>5, <2>1, <2>3 DEF Learnt
    <2>5. n.at \notin Polling /\ n.at # "broken" /\ n.at # "stored"
      BY <1>6, <2>1
    <2> QED
      BY <1>1, <1>2, <1>4, <2>1, <2>2, <2>3, <2>4, <2>5, GoOnAlone
  <1> QED
    BY <1>7, <1>8

(* What a busy worker removes is its own job's, and that job shows nothing, *)
(* unless two workers met over it.                                          *)
LEMMA CleanupSpares ==
    ASSUME IInv, Apart, NEW w \in Workers, worker[w].at = "stored",
           files \ {worker[w].ext} \subseteq files'
    PROVE  /\ \A v \in Workers \ {w} :
                worker[v].at = "stored" /\ worker[v].job \notin met
                    => worker[v].ext \in files \cap files' \/ worker[v].ext \notin files
           /\ \A j \in Jobs \ met : row[j].status = "succeeded" => row[j].asset \in files'
  <1> DEFINE k == worker[w].job
             t == worker[w].ext
  <1>1. /\ worker[w].at \in Processing /\ worker[w].at \in Polling
        /\ worker[w].at # "start" /\ t \in Tasks
    BY DEF Processing, Polling, IInv, WorkersAttached, Engaged, Checked
  <1>2. k \in Jobs /\ Busy(w, k) /\ (k \notin met => Knows(w, k))
    BY <1>1, BusyFacts
  <1>3. ASSUME NEW v \in Workers \ {w}, worker[v].at = "stored", worker[v].job \notin met,
               worker[v].ext \in files
        PROVE  worker[v].ext \in files'
    <2>1. worker[v].job \in Jobs /\ Busy(v, worker[v].job) /\ ~Past(w, worker[v].job)
      BY <1>3, BusyFacts DEF Processing
    <2>2. worker[v].job # k
      BY <1>1, <1>2, <2>1 DEF Past
    <2>3. worker[v].ext # t
      BY <1>1, <1>2, <2>1, <2>2 DEF Apart, TasksApart
    <2> QED
      BY <1>3, <2>3
  <1>4. ASSUME NEW j \in Jobs \ met, row[j].status = "succeeded"
        PROVE  row[j].asset \in files'
    <2>1. row[j].asset = row[j].ext
      BY <1>4 DEF IInv, ResultMatchesTask
    <2>2. j # k
      BY <1>2, <1>4 DEF Knows, Unfinished
    <2>3. row[j].ext # t
      BY <1>1, <1>2, <2>2 DEF Apart, TasksApart
    <2> QED
      BY <1>4, <2>1, <2>3 DEF Apart, RowsSound, RowSound
  <1> QED
    BY <1>3, <1>4

(* Polling, storing, failing to store.                                      *)
LEMMA AnswerRests ==
    ASSUME IInv, Apart, IInv', Remembers, NEW w \in Workers, Poll(w) \/ Store(w) \/ StoreFails(w)
    PROVE  ApartStep
  <1> DEFINE s == worker[w]
  <1>1. /\ s.at \in {"poll", "delivered"} /\ s \in WorkerStates
        /\ s.at \in Processing /\ s.at \in Polling
        /\ s.ext \in Tasks /\ task[s.ext] # "unused"
    BY DEF Poll, Store, StoreFails, Processing, Polling, IInv, TypeOK, WorkersAttached,
           TasksAccepted, Engaged
  <1>2. UNCHANGED <<row, task>> /\ files \subseteq files'
    BY DEF Poll, Store, StoreFails, KeepRows
  <1>3. \A j \in Jobs \ met : row[j].status = "succeeded" => row[j].asset \in files'
    BY <1>2 DEF Apart, RowsSound, RowSound
  <1>4. Busy(w, s.job)
    BY <1>1, BusyFacts
  <1>5. \E n \in WorkerStates :
          /\ worker' = [worker EXCEPT ![w] = n]
          /\ n.job = s.job /\ n.ext = s.ext
          /\ n.at \in {"delivered", "pollError"} \cup Checked
          /\ n.at = "broken" => task[s.ext] = "broken"
          /\ n.at = "stored" => s.ext \in files'
    <2>1. CASE Poll(w)
      <3> PICK a \in Answers(s.ext), b \in BOOLEAN :
            worker' = [worker EXCEPT ![w].at = a, ![w].retryable = b]
        BY <2>1 DEF Poll
      <3> DEFINE n == [s EXCEPT !.at = a, !.retryable = b]
      <3>1. a \in {"pending", "pollError", "delivered", "empty", "broken"}
        BY DEF Answers
      <3>2. a = "broken" => task[s.ext] = "broken"
        BY <1>1 DEF Answers, IInv, TypeOK
      <3>3. n \in WorkerStates /\ n.at = a /\ n.job = s.job /\ n.ext = s.ext
        BY <1>1, <3>1 DEF WorkerStates, Points, Processing
      <3>4. worker' = [worker EXCEPT ![w] = n]
        BY DEF IInv, TypeOK
      <3> HIDE DEF n
      <3> QED
        BY <3>1, <3>2, <3>3, <3>4 DEF Checked
    <2>2. CASE Store(w)
      <3> DEFINE n == [s EXCEPT !.at = "stored", !.created = s.ext \notin files]
      <3>1. n \in WorkerStates /\ n.at = "stored" /\ n.job = s.job /\ n.ext = s.ext
        BY <1>1 DEF WorkerStates, Points, Processing
      <3>2. worker' = [worker EXCEPT ![w] = n] /\ s.ext \in files'
        BY <2>2 DEF Store, IInv, TypeOK
      <3> HIDE DEF n
      <3> QED
        BY <3>1, <3>2 DEF Checked
    <2>3. CASE StoreFails(w)
      <3> PICK b \in BOOLEAN :
            worker' = [worker EXCEPT ![w].at = "storeError", ![w].retryable = b]
        BY <2>3 DEF StoreFails
      <3> DEFINE n == [s EXCEPT !.at = "storeError", !.retryable = b]
      <3>1. n \in WorkerStates /\ n.at = "storeError" /\ n.job = s.job /\ n.ext = s.ext
        BY <1>1 DEF WorkerStates, Points, Processing
      <3>2. worker' = [worker EXCEPT ![w] = n]
        BY DEF IInv, TypeOK
      <3> HIDE DEF n
      <3> QED
        BY <3>1, <3>2 DEF Checked
    <2> QED
      BY <2>1, <2>2, <2>3
  <1>6. PICK n \in WorkerStates :
          /\ worker' = [worker EXCEPT ![w] = n]
          /\ n.job = s.job /\ n.ext = s.ext
          /\ n.at \in {"delivered", "pollError"} \cup Checked
          /\ n.at = "broken" => task[s.ext] = "broken"
          /\ n.at = "stored" => s.ext \in files'
    BY <1>5
  <1>7. OthersRest(w) /\ worker'[w] = n
    BY <1>2, <1>6, OneMoves
  <1>8. n.at \in Processing /\ n.at \notin Submitting
    BY <1>6 DEF Processing, Submitting, Checked
  <1>9. Learnt(w)
    BY <1>4, <1>6, <1>7 DEF Learnt
  <1> QED
    BY <1>1, <1>2, <1>3, <1>6, <1>7, <1>8, <1>9, GoOnAlone

(* An exception leaves the job with its worker.                             *)
LEMMA RaiseRests ==
    ASSUME IInv, Apart, IInv', Remembers, NEW w \in Workers, PersistRaises(w) \/ ProcessRaises(w)
    PROVE  ApartStep
  <1> DEFINE s == worker[w]
             n == [s EXCEPT !.at = "raised"]
  <1>1. s.at \in Processing /\ s \in WorkerStates
    BY DEF PersistRaises, ProcessRaises, Processing, IInv, TypeOK
  <1>2. n.at = "raised" /\ n.job = s.job /\ n.ext = s.ext
    BY <1>1 DEF WorkerStates
  <1>3. worker' = [worker EXCEPT ![w] = n] /\ UNCHANGED <<row, task>>
    BY DEF PersistRaises, ProcessRaises, Goto, KeepRows
  <1> HIDE DEF n
  <1>4. worker'[w] = n
    BY <1>3 DEF IInv, TypeOK
  <1>5. /\ \A v \in Workers \ {w} :
            worker[v].at = "stored" /\ worker[v].job \notin met
                => worker[v].ext \in files \cap files' \/ worker[v].ext \notin files
        /\ \A j \in Jobs \ met : row[j].status = "succeeded" => row[j].asset \in files'
    <2>1. CASE PersistRaises(w)
      BY <2>1, CleanupSpares DEF PersistRaises, Cleanup
    <2>2. CASE ProcessRaises(w)
      BY <2>2 DEF ProcessRaises, Apart, AnswersTrue, RowsSound, RowSound
    <2> QED
      BY <2>1, <2>2
  <1>6. OthersRest(w)
    BY <1>3, <1>5 DEF OthersRest, IInv, TypeOK
  <1>7. Busy(w, s.job)
    BY <1>1, BusyFacts
  <1>8. Learnt(w)
    BY <1>2, <1>4, <1>7 DEF Learnt
  <1>9. "raised" \in Processing /\ "raised" \notin Submitting /\ "raised" \notin Polling
    BY DEF Processing, Submitting, Polling, Checked
  <1> QED
    BY <1>1, <1>2, <1>3, <1>5, <1>6, <1>8, <1>9, GoOnAlone

(* A worker that records an answer, or throws it away, leaves its job: what *)
(* is left to show of the row it records, if any.                           *)
LEMMA RecordRests ==
    ASSUME IInv, Apart, IInv', Remembers, NEW w \in Workers,
           worker[w].at \in Processing, worker[w].at # "start",
           Finish(w), UNCHANGED <<task, files>>, NEW n,
           row' = row \/ row' = [row EXCEPT ![worker[w].job] = n],
           row' # row =>
            /\ \/ n.ext \in {row[worker[w].job].ext, NoTask}
               \/ \A v \in Workers \ {w} : worker[v].ext # n.ext
            /\ worker[w].job \notin met =>
                RowSound(n, files) /\ TaskStays(row[worker[w].job], n)
    PROVE  ApartStep
  <1> DEFINE j == worker[w].job
  <1>1. worker' = [worker EXCEPT ![w] = Idle("scan")]
    BY DEF Finish
  <1>2. OthersRest(w) /\ worker'[w] = Idle("scan")
    BY <1>1, OneMoves
  <1>3. Idle("scan").at \notin Processing
    BY IdleFacts DEF Processing
  <1>4. Proceeds(w)
    BY <1>2, <1>3 DEF Proceeds
  <1>5. /\ j \in Jobs
        /\ j \notin overrun => \A v \in Workers \ {w} : ~Busy(v, j)
        /\ j \notin met => \A v \in Workers \ {w} : ~Relies(v, j)
    BY BusyFacts
  <1>6. CASE row' = row
    BY <1>2, <1>4, <1>6, KeepAllRest, RestStep
  <1>7. CASE row' # row
    <2>1. \/ n.ext \in {row[j].ext, NoTask}
          \/ \A v \in Workers : worker'[v].at \in Processing => worker'[v].ext # n.ext
      BY <1>2, <1>3, <1>7 DEF OthersRest
    <2>2. RowRests(w, j, n)
      BY <1>5, <1>7, <2>1 DEF RowRests, Remembers
    <2>3. row' = [row EXCEPT ![j] = n]
      BY <1>7
    <2> QED
      BY <1>2, <1>4, <1>5, <2>2, <2>3, SetRowRests, RestStep
  <1> QED
    BY <1>6, <1>7

(* The errors of a job that runs with a task leave the task, unless it      *)
(* broke; those of a job without one leave nothing to strand.               *)
LEMMA ErrorRows ==
    ASSUME NEW r \in Rows, r.status = "running", NEW b \in BOOLEAN, NEW stored
    PROVE  /\ r.ext # NoTask =>
                /\ RowSound(PollError(r, b), stored)
                /\ PollError(r, b).ext = r.ext
                /\ RowSound(Repolled(r), stored)
                /\ Repolled(r).ext = r.ext
           /\ RowSound(SubmissionError(r, b), stored)
           /\ SubmissionError(r, b).ext \in {r.ext, NoTask}
  <1>1. /\ PollError(r, b).ext = r.ext
        /\ PollError(r, b).status \in {"running", "failed"}
    BY PollErrorRow
  <1>2. Repolled(r).ext = r.ext /\ Repolled(r).status = "running"
    BY RepolledRow
  <1>3. /\ SubmissionError(r, b).ext \in {r.ext, NoTask}
        /\ SubmissionError(r, b).status \in {"pending", "failed"}
    BY SubmissionErrorRow
  <1> QED
    BY <1>1, <1>2, <1>3 DEF RowSound

(* Transactions that do not look at the lock: unless two workers met over   *)
(* the job, the row still has what the worker knows.                        *)
LEMMA RecordErrorRests ==
    ASSUME IInv, Apart, IInv', Remembers, NEW w \in Workers,
           RecordAccepted(w) \/ RecordRejected(w) \/ RecordPollError(w) \/ HandleRaised(w)
    PROVE  ApartStep
  <1> DEFINE s == worker[w]
             j == s.job
             r == row[j]
  <1>1. /\ s.at \in {"accepted", "rejected", "pollError", "raised"} /\ s.at \in Processing
        /\ s \in WorkerStates /\ s.at # "start"
        /\ Finish(w) /\ UNCHANGED <<task, files>>
    BY DEF RecordAccepted, RecordRejected, RecordPollError, HandleRaised, Processing, IInv, TypeOK
  <1>2. /\ j \in Jobs /\ r \in Rows /\ s.retryable \in BOOLEAN
        /\ j \notin met /\ s.at \in Submitting \cup Polling => Knows(w, j)
    BY <1>1, BusyFacts DEF WorkerStates
  <1>3. CASE ~IsRunning(w)
    <2>1. row' = row
      BY <1>3 DEF RecordAccepted, RecordRejected, RecordPollError, HandleRaised, KeepRows
    <2> QED
      BY <1>1, <2>1, RecordRests
  <1>4. ASSUME NEW n, row' = [row EXCEPT ![j] = n],
               \/ n.ext \in {r.ext, NoTask}
               \/ \A v \in Workers \ {w} : worker[v].ext # n.ext,
               j \notin met => RowSound(n, files) /\ TaskStays(r, n)
        PROVE  ApartStep
    BY <1>1, <1>4, RecordRests
  <1>5. IsRunning(w) => r.status = "running"
    BY DEF IsRunning, JobOf
  <1>6. CASE IsRunning(w) /\ RecordAccepted(w)
    <2>1. j \notin met => r.ext = NoTask
      BY <1>2, <1>6 DEF RecordAccepted, Knows, Submitting
    <2>2. s.ext \in Tasks /\ \A v \in Workers \ {w} : worker[v].ext # s.ext
      BY <1>6 DEF RecordAccepted, IInv, WorkersAttached, AcceptedIsFresh, Engaged
    <2>3. Submitted(r, s.ext).ext = s.ext /\ Submitted(r, s.ext).status = "running"
      BY <1>2, <1>5, <1>6, <2>2, SubmittedRow
    <2>4. j \notin met =>
            RowSound(Submitted(r, s.ext), files) /\ TaskStays(r, Submitted(r, s.ext))
      BY <2>1, <2>2, <2>3, NullAssumption DEF RowSound, TaskStays
    <2>5. row' = [row EXCEPT ![j] = Submitted(r, s.ext)]
      BY <1>6 DEF RecordAccepted, SetRow, JobOf
    <2> QED
      BY <1>4, <2>2, <2>3, <2>4, <2>5
  <1>7. CASE IsRunning(w) /\ RecordRejected(w)
    <2> DEFINE n == SubmissionError(r, s.retryable)
    <2>1. j \notin met => r.ext = NoTask
      BY <1>2, <1>7 DEF RecordRejected, Knows, Submitting
    <2>2. n.ext \in {r.ext, NoTask} /\ RowSound(n, files)
      BY <1>2, <1>5, <1>7, ErrorRows
    <2>3. j \notin met => TaskStays(r, n)
      BY <2>1 DEF TaskStays
    <2>4. row' = [row EXCEPT ![j] = n]
      BY <1>7 DEF RecordRejected, SetRow, JobOf
    <2> QED
      BY <1>4, <2>2, <2>3, <2>4
  <1>8. CASE IsRunning(w) /\ RecordPollError(w)
    <2> DEFINE n == PollError(r, s.retryable)
    <2>1. j \notin met => r.ext = s.ext
      BY <1>2, <1>8 DEF RecordPollError, Knows, Polling
    <2>2. s.ext \in Tasks
      BY <1>8 DEF RecordPollError, IInv, WorkersAttached, Engaged
    <2>3. n.ext = r.ext
      BY <1>2, PollErrorRow
    <2>4. j \notin met => RowSound(n, files)
      BY <1>2, <1>5, <1>8, <2>1, <2>2, ErrorRows, NullAssumption
    <2>5. TaskStays(r, n)
      BY <2>3 DEF TaskStays
    <2>6. row' = [row EXCEPT ![j] = n]
      BY <1>8 DEF RecordPollError, SetRow, JobOf
    <2> QED
      BY <1>4, <2>3, <2>4, <2>5, <2>6
  <1>9. CASE IsRunning(w) /\ HandleRaised(w)
    <2> DEFINE n == UnexpectedError(r)
    <2>1. row' = [row EXCEPT ![j] = n]
      BY <1>9 DEF HandleRaised, SetRow, JobOf
    <2>2. CASE r.ext = NoTask
      <3>1. n.ext \in {r.ext, NoTask} /\ RowSound(n, files)
        BY <1>2, <1>5, <1>9, <2>2, ErrorRows DEF UnexpectedError
      <3>2. TaskStays(r, n)
        BY <2>2 DEF TaskStays
      <3> QED
        BY <1>4, <2>1, <3>1, <3>2
    <2>3. CASE r.ext # NoTask
      <3>1. n.ext = r.ext /\ RowSound(n, files)
        BY <1>2, <1>5, <1>9, <2>3, ErrorRows DEF UnexpectedError
      <3>2. TaskStays(r, n)
        BY <3>1 DEF TaskStays
      <3> QED
        BY <1>4, <2>1, <3>1, <3>2
    <2> QED
      BY <2>2, <2>3
  <1> QED
    BY <1>3, <1>6, <1>7, <1>8, <1>9

(* The last transaction: the task it gives up broke, and the output it      *)
(* shows is in the store.                                                   *)
LEMMA RecordAnswerRests ==
    ASSUME IInv, Apart, IInv', Remembers, NEW w \in Workers, RecordAnswer(w)
    PROVE  ApartStep
  <1> DEFINE s == worker[w]
             j == s.job
             r == row[j]
             n == Answered(w)
  <1>1. /\ s.at \in Checked /\ s.at \in Processing /\ s \in WorkerStates /\ s.at # "start"
        /\ Finish(w) /\ UNCHANGED <<task, files>>
        /\ r.status = "running" /\ row' = [row EXCEPT ![j] = n]
    BY DEF RecordAnswer, Checked, Processing, IInv, TypeOK, Holds, IsRunning, JobOf, SetRow
  <1>2. j \in Jobs /\ r \in Rows /\ s.retryable \in BOOLEAN /\ s.ext \in Tasks
    BY <1>1, BusyFacts DEF WorkerStates, IInv, WorkersAttached, Engaged
  <1>3. r.ext = s.ext /\ r.ext # NoTask
    BY <1>1, <1>2, NullAssumption DEF RecordAnswer, IInv, LockProtectsTask, JobOf
  <1>4. ASSUME NEW m, n = m, m.ext \in {r.ext, NoTask},
               j \notin met => RowSound(m, files) /\ TaskStays(r, m)
        PROVE  ApartStep
    BY <1>1, <1>4, RecordRests
  <1>5. /\ RowSound(PollError(r, s.retryable), files) /\ PollError(r, s.retryable).ext = r.ext
        /\ RowSound(Repolled(r), files) /\ Repolled(r).ext = r.ext
        /\ RowSound(SubmissionError(r, s.retryable), files)
        /\ SubmissionError(r, s.retryable).ext \in {r.ext, NoTask}
    BY <1>1, <1>2, <1>3, ErrorRows
  <1>6. RowSound(PollError(r, FALSE), files) /\ PollError(r, FALSE).ext = r.ext
    BY <1>1, <1>2, <1>3, ErrorRows
  <1>7. \A m : m.ext = r.ext => TaskStays(r, m)
    BY DEF TaskStays
  <1>8. CASE s.at = "pending"
    <2>1. n = Repolled(r)
      BY <1>8 DEF Answered, JobOf
    <2> QED
      BY <1>4, <1>5, <1>7, <2>1
  <1>9. CASE s.at = "empty"
    <2>1. n = PollError(r, FALSE)
      BY <1>9 DEF Answered, JobOf
    <2> QED
      BY <1>4, <1>6, <1>7, <2>1
  <1>10. CASE s.at = "storeError"
    <2>1. n = PollError(r, s.retryable)
      BY <1>10 DEF Answered, JobOf
    <2> QED
      BY <1>4, <1>5, <1>7, <2>1
  <1>11. CASE s.at = "broken"
    <2>1. n = SubmissionError(r, s.retryable)
      BY <1>11 DEF Answered, JobOf
    <2>2. task[r.ext] = "broken"
      BY <1>3, <1>11 DEF Apart, AnswersTrue
    <2>3. TaskStays(r, n)
      BY <2>2 DEF TaskStays
    <2> QED
      BY <1>4, <1>5, <2>1, <2>3
  <1>12. CASE s.at = "stored"
    <2>1. n = Succeeded(r, s.ext)
      BY <1>12 DEF Answered, JobOf
    <2>2. n.status = "succeeded" /\ n.ext = r.ext /\ n.asset = s.ext
      BY <1>2, <2>1, SucceededRow
    <2>3. j \notin met => s.ext \in files
      BY <1>1, <1>12, BusyFacts DEF Knows, Polling
    <2>4. j \notin met => RowSound(n, files)
      BY <2>2, <2>3 DEF RowSound
    <2> QED
      BY <1>4, <1>7, <2>1, <2>2, <2>4
  <1> QED
    BY <1>1, <1>8, <1>9, <1>10, <1>11, <1>12 DEF Checked

(* An answer that comes too late removes no file that such a job shows.     *)
LEMMA DiscardRests ==
    ASSUME IInv, Apart, IInv', Remembers, NEW w \in Workers, DiscardAnswer(w)
    PROVE  ApartStep
  <1>1. /\ worker' = [worker EXCEPT ![w] = Idle("scan")]
        /\ UNCHANGED <<row, task>>
    BY DEF DiscardAnswer, Finish, KeepRows
  <1>2. worker'[w] = Idle("scan")
    BY <1>1 DEF IInv, TypeOK
  <1>3. Proceeds(w)
    BY <1>2, IdleFacts DEF Proceeds, Processing
  <1>4. /\ \A v \in Workers \ {w} :
            worker[v].at = "stored" /\ worker[v].job \notin met
                => worker[v].ext \in files \cap files' \/ worker[v].ext \notin files
        /\ \A j \in Jobs \ met : row[j].status = "succeeded" => row[j].asset \in files'
    <2>1. CASE worker[w].at = "stored"
      BY <2>1, CleanupSpares DEF DiscardAnswer, Cleanup
    <2>2. CASE worker[w].at # "stored"
      BY <2>2 DEF DiscardAnswer, Apart, RowsSound, RowSound
    <2> QED
      BY <2>1, <2>2
  <1>5. OthersRest(w)
    BY <1>1, <1>4 DEF OthersRest, IInv, TypeOK
  <1> QED
    BY <1>1, <1>3, <1>4, <1>5, KeepRowsRest, RestStep

(***************************************************************************)
(* The theorems about overlaps.                                            *)
(***************************************************************************)
(* At first no worker is busy and no job exists.                            *)
LEMMA InitApart == OverlapInit => Apart
  <1> SUFFICES ASSUME OverlapInit PROVE Apart
    OBVIOUS
  <1>1. \A w \in Workers : worker[w].at = "scan"
    BY IdleFacts DEF OverlapInit, Init
  <1>2. \A w \in Workers, j \in Jobs : ~Busy(w, j)
    BY <1>1 DEF Busy, Processing
  <1>3. RowsSound
    BY DEF OverlapInit, Init, AbsentRow, RowsSound, RowSound
  <1>4. NoneMeet /\ ReliersKnow /\ MeetingsAreOverruns
    BY <1>2 DEF NoneMeet, ReliersKnow, MeetingsAreOverruns, WorkersMeet, Past, Relies, OverlapInit
  <1> QED
    BY <1>1, <1>2, <1>3, <1>4 DEF Apart, OneBusy, BusyHolds, TasksApart, AnswersTrue

(* The history variables look on: a step of OverlapSpec is one of Spec.     *)
LEMMA OverlapsOnlyLook == [OverlapNext]_overlapVars => [Next]_vars
  BY DEF OverlapNext, overlapVars, vars

(* Every step keeps Apart, and the tasks of the jobs not met over.          *)
LEMMA NextApart ==
    ASSUME IInv, Apart, [OverlapNext]_overlapVars
    PROVE  ApartStep
  <1>1. IInv'
    BY OverlapsOnlyLook, NextInv DEF SafeStep
  <1>2. CASE UNCHANGED overlapVars
    BY <1>2 DEF overlapVars, ApartStep, TaskStays, Apart, OneBusy, BusyHolds, Held,
       MeetingsAreOverruns, NoneMeet, WorkersMeet, Past, ReliersKnow, Relies, Knows, TasksApart,
       AnswersTrue, RowsSound, Busy
  <1>3. CASE OverlapNext
    <2>1. Remembers /\ Next
      BY <1>3 DEF OverlapNext, Remembers
    <2>2. ASSUME NEW w \in Workers, Process(w) PROVE ApartStep
      BY <1>1, <2>1, <2>2, LeaveRests, StartRests, SubmitRests, AnswerRests, RaiseRests,
         RecordErrorRests, RecordAnswerRests, DiscardRests DEF Process
    <2>3. ASSUME NEW w \in Workers, WorkerActs(w) PROVE ApartStep
      BY <1>1, <2>1, <2>2, <2>3, ScanRests, ClaimRests, LeaveRests DEF WorkerActs
    <2> QED
      BY <1>1, <2>1, <2>3, UserRests, TimeRests, TaskRests DEF Next
  <1> QED
    BY <1>2, <1>3

(* IInv and Apart hold in every reachable state.                            *)
THEOREM OverlapInvariance == OverlapSpec => [](IInv /\ Apart)
  <1>1. OverlapInit => IInv /\ Apart
    BY InitInv, InitApart DEF OverlapInit
  <1>2. IInv /\ Apart /\ [OverlapNext]_overlapVars => (IInv /\ Apart)'
    BY NextApart, OverlapsOnlyLook, NextInv DEF ApartStep, SafeStep
  <1> QED
    BY <1>1, <1>2, PTL DEF OverlapSpec

(* Two workers meet over a job only after it was overrun.                   *)
THEOREM MeetingsNeedOverruns == OverlapSpec => []MeetingsAreOverruns
  <1>1. Apart => MeetingsAreOverruns
    BY DEF Apart
  <1> QED
    BY OverlapInvariance, <1>1, PTL

(* No job is left running without a lock and without a task, unless two     *)
(* workers met over it.                                                     *)
THEOREM NoneStranded == OverlapSpec => []StrandedOnlyIfMet
  <1>1. Apart => StrandedOnlyIfMet
    BY DEF Apart, RowsSound, RowSound, StrandedOnlyIfMet
  <1> QED
    BY OverlapInvariance, <1>1, PTL

(* The files of a job that succeeded stay in the store, unless two workers  *)
(* met over it.                                                             *)
THEOREM FilesKept == OverlapSpec => []FilesLostOnlyIfMet
  <1>1. Apart => FilesLostOnlyIfMet
    BY DEF Apart, RowsSound, RowSound, FilesLostOnlyIfMet
  <1> QED
    BY OverlapInvariance, <1>1, PTL

(* An accepted task is given up only when it broke, when a user retries the *)
(* job, or if two workers met over it.                                      *)
THEOREM TasksKept == OverlapSpec => TaskLostOnlyIfMet
  <1>1. IInv /\ Apart /\ [OverlapNext]_overlapVars =>
          [\A j \in Jobs \ met :
            LET t == row[j].ext IN
            t # NoTask /\ row'[j].ext # t =>
                task[t] = "broken" \/ row[j].status \in {"failed", "timeout"}]_overlapVars
    BY NextApart DEF ApartStep, TaskStays
  <1> QED
    BY OverlapInvariance, <1>1, PTL DEF OverlapSpec, TaskLostOnlyIfMet

(***************************************************************************)
(* The refinement.  GenerationWorker implements JobLifecycle: each         *)
(* transaction of a worker or a user moves a job as the table              *)
(* VALID_TRANSITIONS allows, or is invisible; and no two jobs are          *)
(* delivered the same task.                                                *)
(***************************************************************************)

(* The changes of one row that do not deliver anything.                     *)
Moves(r, n) ==
    /\ n.asset = r.asset
    /\ \/ n.status = r.status
       \/ r.status = "absent" /\ n.status = "pending"
       \/ r.status = "pending" /\ n.status = "running"
       \/ r.status = "running" /\ n.status \in {"failed", "pending"}
       \/ r.status \in Active /\ n.status = "cancelled"
       \/ r.status \in {"failed", "timeout"} /\ n.status = "pending"

(* What every step is shown to be.                                          *)
Implements == [Lifecycle!Next]_(Lifecycle!lifecycleVars)

(* A step of one abstract job is an abstract step.                          *)
LEMMA JobMoveImplements ==
    ASSUME NEW j \in Jobs, Lifecycle!JobMoves(j)
    PROVE  Implements
  BY DEF Implements, Lifecycle!Next

(* A transaction on one row that Moves it implements a step of the job.     *)
LEMMA RowImplements ==
    ASSUME IInv, NEW j \in Jobs, NEW n, SetRow(j, n), Moves(row[j], n)
    PROVE  Implements
  <1> DEFINE st == [k \in Jobs |-> row[k].status]
             de == [k \in Jobs |-> row[k].asset]
             r == row[j]
  <1>1. row' = [k \in Jobs |-> IF k = j THEN n ELSE row[k]]
    BY DEF SetRow, IInv, TypeOK
  <1>2. [k \in Jobs |-> row'[k].asset] = de
    BY <1>1 DEF Moves
  <1>3. [k \in Jobs |-> row'[k].status] = [st EXCEPT ![j] = n.status]
    BY <1>1
  <1>4. CASE n.status = r.status
    <2>1. [k \in Jobs |-> row'[k].status] = st
      BY <1>1, <1>4
    <2> QED
      BY <1>2, <2>1 DEF Implements, Lifecycle!lifecycleVars
  <1>5. CASE r.status = "absent" /\ n.status = "pending"
    <2>1. Lifecycle!Create(j)
      BY <1>2, <1>3, <1>5 DEF Lifecycle!Create, Lifecycle!Move
    <2> QED
      BY <2>1, JobMoveImplements DEF Lifecycle!JobMoves
  <1>6. CASE r.status = "pending" /\ n.status = "running"
    <2>1. Lifecycle!Begin(j)
      BY <1>2, <1>3, <1>6 DEF Lifecycle!Begin, Lifecycle!Move
    <2> QED
      BY <2>1, JobMoveImplements DEF Lifecycle!JobMoves
  <1>7. CASE r.status = "running" /\ n.status = "failed"
    <2>1. Lifecycle!Fail(j)
      BY <1>2, <1>3, <1>7 DEF Lifecycle!Fail, Lifecycle!Move
    <2> QED
      BY <2>1, JobMoveImplements DEF Lifecycle!JobMoves
  <1>8. CASE r.status = "running" /\ n.status = "pending"
    <2>1. Lifecycle!SetBack
      <3>1. \A k \in Jobs : row[k].status \in Statuses /\ row'[k].status \in Statuses
        BY <1>1, <1>8, StatusMembers DEF IInv, TypeOK, Rows
      <3> QED
        BY <1>1, <1>2, <1>8, <3>1, StatusMembers
          DEF Lifecycle!SetBack, Lifecycle!Statuses, Lifecycle!ActiveStatuses,
              Lifecycle!TerminalStatuses
    <2> QED
      BY <2>1 DEF Implements, Lifecycle!Next
  <1>9. CASE r.status \in Active /\ n.status = "cancelled"
    <2>1. Lifecycle!Cancel(j)
      BY <1>2, <1>3, <1>9
        DEF Lifecycle!Cancel, Lifecycle!Move, Lifecycle!ActiveStatuses, Active
    <2> QED
      BY <2>1, JobMoveImplements DEF Lifecycle!JobMoves
  <1>10. CASE r.status \in {"failed", "timeout"} /\ n.status = "pending"
    <2>1. Lifecycle!Retry(j)
      BY <1>2, <1>3, <1>10 DEF Lifecycle!Retry, Lifecycle!Move
    <2> QED
      BY <2>1, JobMoveImplements DEF Lifecycle!JobMoves
  <1> QED
    BY <1>4, <1>5, <1>6, <1>7, <1>8, <1>9, <1>10 DEF Moves

(* A step that leaves status and asset of every row is invisible.           *)
LEMMA InvisibleStep ==
    ASSUME \A j \in Jobs : row'[j].status = row[j].status /\ row'[j].asset = row[j].asset
    PROVE  Implements
  BY DEF Implements, Lifecycle!lifecycleVars

(* Errors and releases of a running job are moves the table allows.         *)
LEMMA ErrorMoves ==
    ASSUME NEW r \in Rows, r.status = "running", NEW b \in BOOLEAN
    PROVE  /\ Moves(r, SubmissionError(r, b))
           /\ Moves(r, PollError(r, b))
           /\ Moves(r, Repolled(r))
           /\ Moves(r, UnexpectedError(r))
  <1>1. ASSUME NEW c \in BOOLEAN
        PROVE  Moves(r, SubmissionError(r, c)) /\ Moves(r, PollError(r, c))
    <2>1. /\ SubmissionError(r, c).asset = r.asset
          /\ SubmissionError(r, c).status \in {"pending", "failed"}
      BY SubmissionErrorRow DEF Freed
    <2>2. /\ PollError(r, c).asset = r.asset
          /\ PollError(r, c).status \in {r.status, "failed"}
      BY PollErrorRow DEF Freed
    <2> QED
      BY <2>1, <2>2 DEF Moves
  <1>2. Moves(r, Repolled(r))
    BY RepolledRow DEF Moves, Freed
  <1> QED
    BY <1>1, <1>2 DEF UnexpectedError

(* Creating, reading, cancelling and retrying implement the life cycle.     *)
LEMMA UserImplements ==
    ASSUME IInv, UserActs
    PROVE  Implements
  <1> PICK j \in Jobs : Create(j) \/ \E u \in Users : Read(u, j) \/ Cancel(u, j) \/ Retry(u, j)
    BY DEF UserActs
  <1>1. CASE Create(j)
    <2>1. Moves(row[j], Created)
      BY <1>1 DEF Create, Created, AbsentRow, Moves, IInv, ResultMatchesTask
    <2> QED
      BY <1>1, <2>1, RowImplements DEF Create
  <1>2. ASSUME NEW u \in Users, Read(u, j) PROVE Implements
    BY <1>2, InvisibleStep DEF Read
  <1>3. ASSUME NEW u \in Users, Cancel(u, j) PROVE Implements
    <2>1. Cancelled(row[j]).status = "cancelled" /\ Cancelled(row[j]).asset = row[j].asset
      BY RowFacts, EndedRow DEF Cancelled, Freed, Terminal
    <2> QED
      BY <1>3, <2>1, RowImplements DEF Cancel, Moves
  <1>4. ASSUME NEW u \in Users, Retry(u, j) PROVE Implements
    <2>1. Retried(row[j]).status = "pending" /\ Retried(row[j]).asset = row[j].asset
      BY RowFacts, RetriedRow DEF Freed
    <2> QED
      BY <1>4, <2>1, RowImplements DEF Retry, Retryable, Moves
  <1> QED
    BY <1>1, <1>2, <1>3, <1>4

(* One sweep may set several jobs back.                                     *)
LEMMA ScanImplements ==
    ASSUME IInv, NEW w \in Workers, NEW skipped \in SUBSET Jobs, Scan(w, skipped)
    PROVE  Implements
  <1> DEFINE swept == {j \in Jobs \ skipped : Expired(row[j]) \/ LockStale(row[j])}
  <1>1. row' = [j \in Jobs |-> IF j \in swept THEN Swept(row[j]) ELSE row[j]]
    BY DEF Scan
  <1>2. \A j \in Jobs :
          /\ row'[j].asset = row[j].asset
          /\ \/ row'[j].status = row[j].status
             \/ row[j].status = "running" /\ row'[j].status \in {"pending", "timeout"}
    <2> SUFFICES ASSUME NEW j \in Jobs, j \in swept
                 PROVE  /\ Swept(row[j]).asset = row[j].asset
                        /\ row[j].status = "running"
                        /\ Swept(row[j]).status \in {"running", "pending", "timeout"}
      BY <1>1
    <2>1. /\ TimedOut(row[j]).asset = row[j].asset /\ TimedOut(row[j]).status = "timeout"
      BY RowFacts, EndedRow DEF TimedOut, Freed, Terminal
    <2>2. /\ Recovered(row[j]).asset = row[j].asset
          /\ Recovered(row[j]).status \in {row[j].status, "pending"}
      BY RowFacts, RecoveredRow DEF Freed
    <2>3. CASE Expired(row[j])
      BY <2>1, <2>3 DEF Swept, Expired, LockStale
    <2>4. CASE ~Expired(row[j])
      BY <1>1, <2>2, <2>4 DEF Swept, LockStale
    <2> QED
      BY <2>3, <2>4
  <1>3. \A j \in Jobs : row[j].status \in Statuses
    BY RowFacts DEF Rows
  <1>4. \A j \in Jobs : row'[j].status \in Statuses
    BY <1>2, <1>3, StatusMembers
  <1>5. Lifecycle!SetBack
    BY <1>2, <1>4, StatusMembers
      DEF Lifecycle!SetBack, Lifecycle!Statuses, Lifecycle!ActiveStatuses,
          Lifecycle!TerminalStatuses
  <1> QED
    BY <1>5 DEF Implements, Lifecycle!Next

(* The task of a delivery is shown by no other job.                         *)
LEMMA SucceedImplements ==
    ASSUME IInv, NEW w \in Workers, RecordAnswer(w), worker[w].at = "stored"
    PROVE  Implements
  <1>1. worker[w].job \in Jobs /\ worker[w].ext \in Tasks
    BY DEF IInv, WorkersAttached, Processing, Engaged, Checked
  <1> PICK j \in Jobs, t \in Tasks : j = worker[w].job /\ t = worker[w].ext
    BY <1>1
  <1> DEFINE n == Succeeded(row[j], t)
  <1>2. row[j].status = "running" /\ t = row[j].ext
    BY DEF RecordAnswer, Holds, IsRunning, JobOf, IInv, LockProtectsTask
  <1>3. n.status = "succeeded" /\ n.asset = t
    BY RowFacts, SucceededRow
  <1>4. row' = [k \in Jobs |-> IF k = j THEN n ELSE row[k]]
    BY DEF RecordAnswer, Answered, JobOf, SetRow, IInv, TypeOK
  <1> HIDE DEF n
  <1>5. \A k \in Jobs : row[k].asset # t
    BY <1>2, NullAssumption DEF IInv, ResultMatchesTask, TasksNotShared
  <1>6. Lifecycle!Deliver(j)
    <2>1. [k \in Jobs |-> row'[k].status]
            = [[k \in Jobs |-> row[k].status] EXCEPT ![j] = "succeeded"]
      BY <1>3, <1>4
    <2>2. [k \in Jobs |-> row'[k].asset] = [[k \in Jobs |-> row[k].asset] EXCEPT ![j] = t]
      BY <1>3, <1>4
    <2> QED
      BY <1>2, <1>5, <2>1, <2>2 DEF Lifecycle!Deliver, Lifecycle!Move
  <1> QED
    BY <1>6, JobMoveImplements DEF Lifecycle!JobMoves

(* Every step of a worker implements the life cycle.                        *)
LEMMA WorkerImplements ==
    ASSUME IInv, NEW w \in Workers, WorkerActs(w)
    PROVE  Implements
  <1> DEFINE j == worker[w].job
  <1>1. KeepRows => Implements
    BY InvisibleStep DEF KeepRows
  <1>2. ASSUME NEW k \in Jobs, Claim(w, k) PROVE Implements
    <2>1. Claimed(row[k], w).status = "running" /\ Claimed(row[k], w).asset = row[k].asset
      BY RowFacts, ClaimedRow
    <2> QED
      BY <1>2, <2>1, RowImplements DEF Claim, Claimable, Moves
  <1>3. ASSUME worker[w].at \in Processing, NEW n, IsRunning(w) => Moves(row[j], n),
               IF IsRunning(w) THEN SetRow(j, n) ELSE KeepRows
        PROVE  Implements
    BY <1>1, <1>3, RowImplements DEF IInv, WorkersAttached
  <1>4. ASSUME worker[w].at \in Processing, IsRunning(w)
        PROVE  /\ j \in Jobs
               /\ Moves(row[j], SubmissionError(row[j], worker[w].retryable))
               /\ Moves(row[j], PollError(row[j], worker[w].retryable))
               /\ Moves(row[j], PollError(row[j], FALSE))
               /\ Moves(row[j], Repolled(row[j]))
               /\ Moves(row[j], UnexpectedError(row[j]))
               /\ Moves(row[j], Attempted(row[j]))
    <2>1. j \in Jobs /\ worker[w].retryable \in BOOLEAN
      BY <1>4 DEF IInv, TypeOK, WorkersAttached, WorkerStates
    <2>2. row[j] \in Rows /\ row[j].status = "running"
      BY <1>4, <2>1, RowFacts DEF JobOf, IsRunning
    <2>3. /\ Moves(row[j], SubmissionError(row[j], worker[w].retryable))
          /\ Moves(row[j], PollError(row[j], worker[w].retryable))
      BY <2>1, <2>2, ErrorMoves
    <2>4. Moves(row[j], PollError(row[j], FALSE))
      BY <2>2, ErrorMoves
    <2>5. Moves(row[j], Repolled(row[j])) /\ Moves(row[j], UnexpectedError(row[j]))
      BY <2>2, ErrorMoves
    <2>6. Moves(row[j], Attempted(row[j]))
      BY <2>2, AttemptedRow DEF Moves
    <2> QED
      BY <2>1, <2>3, <2>4, <2>5, <2>6
  <1>5. CASE StartSubmission(w)
    BY <1>4, <1>5, RowImplements DEF StartSubmission, Holds, JobOf, Processing
  <1>6. CASE RecordAccepted(w)
    <2>1. worker[w].at \in Processing /\ worker[w].ext \in Tasks
      BY <1>6 DEF RecordAccepted, Processing, IInv, WorkersAttached, Engaged
    <2>2. IsRunning(w) => Moves(row[j], Submitted(row[j], worker[w].ext))
      BY <1>4, <2>1, RowFacts, SubmittedRow DEF Moves, Freed
    <2> QED
      BY <1>3, <1>6, <2>1, <2>2 DEF RecordAccepted, JobOf
  <1>7. CASE RecordRejected(w)
    BY <1>3, <1>4, <1>7 DEF RecordRejected, JobOf, Processing
  <1>8. CASE RecordPollError(w)
    BY <1>3, <1>4, <1>8 DEF RecordPollError, JobOf, Processing
  <1>9. CASE HandleRaised(w)
    BY <1>3, <1>4, <1>9 DEF HandleRaised, JobOf, Processing
  <1>10. CASE RecordAnswer(w) /\ worker[w].at # "stored"
    <2>1. worker[w].at \in Processing /\ IsRunning(w)
      BY <1>10 DEF RecordAnswer, Holds, Checked, Processing
    <2>2. Moves(row[j], Answered(w))
      <3> DEFINE at == worker[w].at
      <3>1. CASE at = "pending"
        BY <1>4, <2>1, <3>1 DEF Answered, JobOf
      <3>2. CASE at = "empty"
        BY <1>4, <2>1, <3>2 DEF Answered, JobOf
      <3>3. CASE at = "broken"
        BY <1>4, <2>1, <3>3 DEF Answered, JobOf
      <3>4. CASE at = "storeError"
        BY <1>4, <2>1, <3>4 DEF Answered, JobOf
      <3> QED
        BY <1>10, <3>1, <3>2, <3>3, <3>4 DEF RecordAnswer, Checked
    <2> QED
      BY <1>3, <1>10, <2>1, <2>2 DEF RecordAnswer
  <1>11. CASE Process(w)
    BY <1>1, <1>5, <1>6, <1>7, <1>8, <1>9, <1>10, <1>11, SucceedImplements
      DEF Process, StartLost, StartPoll, SubmitAccepted, SubmitRejected, SubmitAnswerLost,
          Poll, Store, StoreFails, DiscardAnswer, PersistRaises, ProcessRaises
  <1> QED
    BY <1>1, <1>2, <1>11, ScanImplements DEF WorkerActs, ClaimNothing, Crash, Restart

(* Every step implements the life cycle.                                    *)
LEMMA NextImplements == IInv /\ [Next]_vars => Implements
  <1> SUFFICES ASSUME IInv, [Next]_vars PROVE Implements
    OBVIOUS
  <1>1. CASE UNCHANGED vars
    BY <1>1, InvisibleStep DEF vars
  <1>2. ASSUME NEW j \in Jobs, TimePasses(j) PROVE Implements
    <2>1. ASSUME NEW n, Age(j, n), n.status = row[j].status, n.asset = row[j].asset
          PROVE  Implements
      BY <2>1, InvisibleStep DEF Age, IInv, TypeOK
    <2>2. row[j] \in Rows
      BY RowFacts
    <2>3. CASE BecomesDue(j)
      BY <2>1, <2>2, <2>3 DEF BecomesDue, Rows
    <2>4. CASE LockExpires(j)
      BY <2>1, <2>2, <2>4 DEF LockExpires, Rows
    <2>5. CASE RunsTooLong(j)
      BY <2>1, <2>2, <2>5 DEF RunsTooLong, Rows
    <2> QED
      BY <1>2, <2>3, <2>4, <2>5 DEF TimePasses
  <1>3. ASSUME NEW t \in Tasks, TaskEnds(t) PROVE Implements
    BY <1>3, InvisibleStep DEF TaskEnds
  <1> QED
    BY <1>1, <1>2, <1>3, UserImplements, WorkerImplements DEF Next

(* The queue with its workers, locks and clocks is the life cycle that      *)
(* users see: the abstract specification is implemented.                    *)
THEOREM Refinement == Spec => LifecycleSpec
  <1>1. Init => Lifecycle!Init
    BY DEF Init, AbsentRow, Lifecycle!Init
  <1>2. IInv /\ [Next]_vars => [Lifecycle!Next]_(Lifecycle!lifecycleVars)
    BY NextImplements DEF Implements
  <1> QED
    BY Invariance, <1>1, <1>2, PTL DEF Spec, LifecycleSpec, Lifecycle!Spec
=============================================================================
