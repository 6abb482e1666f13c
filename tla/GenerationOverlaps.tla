------------------------- MODULE GenerationOverlaps -------------------------
(***************************************************************************)
(* What becomes of a job of GenerationWorker if two workers are busy with  *)
(* it at once, and how that may happen.                                    *)
(*                                                                         *)
(* A worker checks its lock when it starts (process_claimed_job) and, for  *)
(* most answers, when it records them; two recording transactions and the  *)
(* handler of exceptions look at the status only.  Nothing keeps a worker  *)
(* from outliving its lock, or a user from retrying a job that timed out   *)
(* while its worker still waits for the provider.                          *)
(*                                                                         *)
(* met and overrun are history variables: no step of the queue looks at    *)
(* them.                                                                   *)
(***************************************************************************)
EXTENDS GenerationWorker

VARIABLES
    met,        \* jobs two workers were busy with at once, both past the check at the start
    overrun     \* jobs whose lock expired, or that a user retried, while a worker was busy

overlapVars == <<row, worker, task, files, held, met, overrun>>

(* Busy with the job and past the check of the lock.                        *)
Past(w, j) == Busy(w, j) /\ worker[w].at # "start"

WorkersMeet(j) == \E v, w \in Workers : v # w /\ Past(v, j) /\ Past(w, j)

(* The lock of a worker that is busy with the job grows stale.              *)
OutlivesLock(w, j) ==
    /\ row[j].lockedBy = w
    /\ row[j].lock = "fresh"
    /\ row'[j].lock = "stale"

RetriedNow(j) == row[j].status \in {"failed", "timeout"} /\ row'[j].status = "pending"

Overruns(j) == \E w \in Workers : Busy(w, j) /\ (OutlivesLock(w, j) \/ RetriedNow(j))

OverlapInit == Init /\ met = {} /\ overrun = {}

OverlapNext ==
    /\ Next
    /\ met' = met \cup {j \in Jobs : WorkersMeet(j)'}
    /\ overrun' = overrun \cup {j \in Jobs : Overruns(j)}

OverlapSpec == OverlapInit /\ [][OverlapNext]_overlapVars

(***************************************************************************)
(* Properties.                                                             *)
(***************************************************************************)

(* Claims and recovery by themselves give no job to two workers at once:    *)
(* they meet over a job only after a lock expired under a busy worker or a  *)
(* user retried the job under it (claim_next_job, scan_timeouts_and_recover *)
(* _locks, process_claimed_job).                                            *)
MeetingsAreOverruns == met \subseteq overrun

(* A job that is running but unlocked can be claimed for a poll, unless two *)
(* workers met over it: otherwise neither claim_next_job nor the recovery   *)
(* of locks would ever find it, and only its timeout would end it.          *)
StrandedOnlyIfMet ==
    \A j \in Jobs \ met :
        row[j].status = "running" /\ row[j].lock = "none" => row[j].ext # NoTask

(* The files of a job that succeeded are in the store, unless two workers   *)
(* met over it: no worker that gives up, late or not, removes them          *)
(* (cleanup_prepared_assets).                                               *)
FilesLostOnlyIfMet ==
    \A j \in Jobs \ met : row[j].status = "succeeded" => row[j].asset \in files

(* An accepted task is given up only when the provider reported that it     *)
(* broke, when a user retries the job, or if two workers met over it.       *)
TaskLostOnlyIfMet ==
    [][\A j \in Jobs \ met :
        LET t == row[j].ext IN
        t # NoTask /\ row'[j].ext # t =>
            task[t] = "broken" \/ row[j].status \in {"failed", "timeout"}]_overlapVars

=============================================================================
