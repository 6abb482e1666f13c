---------------------------- MODULE JobLifecycle ----------------------------
(***************************************************************************)
(* What a media generation job promises to the people who created it,      *)
(* without workers, locks, clocks or the provider: the six statuses of     *)
(* generation_jobs.job_status, the transitions of VALID_TRANSITIONS, and   *)
(* the task whose output was delivered.  GenerationWorker implements it.   *)
(***************************************************************************)
CONSTANTS
    Jobs,       \* idempotency keys; a job row exists once per key
    Tasks,      \* media tasks the provider may run for us
    NoTask      \* no task has been delivered

VARIABLES
    status,     \* status of each job, "absent" before it is created
    delivered   \* the task whose files a job shows

lifecycleVars == <<status, delivered>>

ActiveStatuses == {"pending", "running"}

TerminalStatuses == {"succeeded", "failed", "cancelled", "timeout"}

Statuses == {"absent"} \cup ActiveStatuses \cup TerminalStatuses

Init ==
    /\ status = [j \in Jobs |-> "absent"]
    /\ delivered = [j \in Jobs |-> NoTask]

Move(j, from, to) ==
    /\ status[j] \in from
    /\ status' = [status EXCEPT ![j] = to]

Create(j) == Move(j, {"absent"}, "pending") /\ UNCHANGED delivered

Begin(j) == Move(j, {"pending"}, "running") /\ UNCHANGED delivered

Deliver(j) ==
    /\ Move(j, {"running"}, "succeeded")
    /\ \E t \in Tasks :
        \* one task is delivered to one job
        /\ \A k \in Jobs : delivered[k] # t
        /\ delivered' = [delivered EXCEPT ![j] = t]

Fail(j) == Move(j, {"running"}, "failed") /\ UNCHANGED delivered

Cancel(j) == Move(j, ActiveStatuses, "cancelled") /\ UNCHANGED delivered

Retry(j) == Move(j, {"failed", "timeout"}, "pending") /\ UNCHANGED delivered

(* Running jobs are put back in the queue or given up for their age; one    *)
(* sweep of the database may do so to several of them.                      *)
SetBack ==
    /\ status' \in [Jobs -> Statuses]
    /\ \A j \in Jobs :
        \/ status'[j] = status[j]
        \/ status[j] = "running" /\ status'[j] \in {"pending", "timeout"}
    /\ UNCHANGED delivered

JobMoves(j) ==
    \/ Create(j)
    \/ Begin(j)
    \/ Deliver(j)
    \/ Fail(j)
    \/ Cancel(j)
    \/ Retry(j)

Next == SetBack \/ \E j \in Jobs : JobMoves(j)

Spec == Init /\ [][Next]_lifecycleVars

(* A job that is active stops being active.                                *)
Settles(j) == status[j] \in ActiveStatuses ~> status[j] \in TerminalStatuses
=============================================================================
