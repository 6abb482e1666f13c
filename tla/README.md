# Verification of the e-commerce operations assistant

TLA+ models of the services in `src/backend/app`, what TLC checks about them on
small instances, and what TLAPS proves about them for every value of the
constants. Paths below are relative to the repository (`src/`).

- [1 The system](#1-the-system)
- [2 The modules](#2-the-modules)
- [3 What the runs show](#3-what-the-runs-show)
- [4 What is proved](#4-what-is-proved)
- [5 Where code and documents differ](#5-where-code-and-documents-differ)
- [6 What is not modelled, and the plan](#6-what-is-not-modelled-and-the-plan)

## 1 The system

A FastAPI service with one MySQL database, a Vue client, and a separate worker
process. Requests run in threads, each with one session and one transaction
(`backend/app/database.py`); the worker runs `JOB_WORKER_CONCURRENCY` threads
(default 2). MySQL's default isolation applies: the first query of a transaction
(the one that authenticates the user) fixes a read view for every plain
`SELECT`, while `SELECT ... FOR UPDATE`, `INSERT` and `UPDATE` work on the
latest rows. Components share state only through the database, the file store
and the media provider.

| Component | State | Operations | Hard behaviour | What makes it correct |
|---|---|---|---|---|
| Generation jobs and worker (`workers/generation.py`, `services/generation_jobs.py`) | `generation_jobs`: status, attempts, lock, schedule, external task; worker locals | create, cancel, retry; scan for timeouts and stale locks, claim, submit, poll, store files, record | calls that outlive locks, answers after the row moved on, crashes between a call and its record, lost answers, cancel against completion | exclusive work, result of the recorded task, no task thrown away, nothing stranded, terminal states final, every job settles |
| Inventory (`services/inventory.py`) | `inventory`, `inventory_movements`, `version_no` | adjust, configure, read | overlapping requests, statuses read from an old view | ledger adds up to the quantities, never more locked than there is, versions guard every change, growth only on sale |
| Imports (`services/imports.py`) | `import_batches`, `import_rows` | upload and validate, confirm with savepoints per row | confirmation long after validation, twice, or half failed | booked once, rows whole or not at all |
| Stores, products, SKUs | statuses, versions, platform mappings | create, edit, activate, deactivate | write skew between statuses of three tables | nothing active under something closed |
| Creative plans (`services/creative_plans.py`) | `creative_plans`, `creative_plan_revisions` | generate, edit, select / deselect / archive | two users select different plans at once | one plan selected per type, complete history, archived for good |
| Asset library (`services/assets.py`, `integrations/storage`) | `generated_assets`, files | sync, review, edit, check files, serve content | files before rows, concurrent syncs, version numbers under an old view | rows and files agree, versions unique, approved means available |
| Competitors (`services/competitors.py`) | competitors, parse tasks, monitors, snapshots | create, edit, run a task, take over a result, configure, run and sweep monitors | claims by token that expire, edits during a run, processes that die, all sources in one attribute | one run at a time, changes tracked, sources true, pages fetched no more often than allowed, no task stuck |
| Performance (`services/performance.py`) | `performance_records` | create, update, void | overlap looked for in an old view | active periods disjoint |
| Marketing (`services/marketing.py`) | links, clicks, recommendations, experiments | click, generate, confirm, experiment states | counters under concurrency, references that change | clicks counted once, what was confirmed is what was seen |
| Reports and diagnoses (`services/review_reports.py`, `services/diagnoses.py`) | `review_reports`, revisions, `product_diagnoses` | generate from records, or from a report, edit | provider call inside a transaction | no day counted twice, revisions complete, references true |
| Inventory advice | runs and items | generate, read | classification at thresholds | priorities ordered |
| Users, authentication (`services/users.py`, `api/dependencies/auth.py`) | users, revoked tokens | create, update, log in, log out, admit a request | two administrators demote each other, a role changes while a token lives | an active administrator remains, nobody exceeds his role |
| Platform accounts (`services/platform_accounts.py`) | accounts, authorization state | create, start, callback, revoke | answers that come late, twice or after a revocation | a state is used once |
| Settings | `system_settings` | resolve, update | processes see a change at different times | secrets stay encrypted |
| Dashboard, demo data, audit, HTTP layer, migrations, frontend | - | reads, fixed inserts, plumbing | - | - |

The last column says what each component is for; section 5 says where the code
falls short of it.

Interactions: a plan that is selected is what a job is created from; a job's
input is a snapshot, so that nothing later changes it; a worker turns a job into
files and asset rows; approved assets, links and performance records feed
recommendations, experiments, reports and the next diagnosis; imports write what
the inventory, product and performance services write, by their own code.

## 2 The modules

| Module | Models | State and actions |
|---|---|---|
| `JobLifecycle` | what a job promises its creator | the six statuses and the delivered task; the transitions of `VALID_TRANSITIONS` |
| `GenerationWorker` | job rows, workers, provider, file store, users, clocks | `row`, `worker`, `task`, `files`, `held`; one action per transaction, provider call or file operation |
| `GenerationOverlaps` | what becomes of a job two workers are busy with at once | `GenerationWorker` with the history of meetings, `met` and `overrun` |
| `Inventory` | SKUs, inventory rows and movements, statuses of product and store, sku_inventory batches | `account`, `product`, `store`, `batch`, `view`, `held`; `Begin` and one committing action per service function |
| `CreativePlans` | plans, revisions, locks, creation of jobs | `plan`, `revisions`, `job`, `productLock`, `planLock`, `request`, `seen`; one action per lock step and per commit |
| `CompetitorService` | what the two models of `competitors.py` share | competitors, requests, `Assigned` |
| `CompetitorMonitors` | statuses of competitors, monitors, claims, snapshots, users and sweeps | `competitor`, `monitor`, `claim`, `snapshots`, `request`; `Open`, one committing action per service function, and the four steps of a run |
| `Marketing` | links, clicks, recommendations, experiments | `link`, `clicks`, `assetUsable`, `recommendation`, `experiment`, `session`; the look at a page, `Open...` and the committing action of each service function, the two steps of a click |
| `PerformanceReviews` | records and their import, review reports with revisions, diagnoses | `record`, `batch`, `report`, `revisions`, `diagnosis`, `request`; `Open...` and the committing action of each service function |
| `LinkParseTasks` | what the rows of competitors say, the sources of their fields, parse tasks | `profile`, `task`, `visit`; `Open...` and the committing action of each service function, a run in three steps |
| `AssetLibrary` | asset rows and files of the jobs of a plan | `job`, `asset`, `file`, `session`; one action per file operation and per transaction |
| `Access` | users, roles, tokens, routes and their permissions, a platform account | `user`, `token`, `revoked`, `account`, `request`; the begin of a request (admission) and its commit |
| `MC*` | symmetry sets and constraints for TLC | |
| `*Proofs` | theorems (`CompetitorMonitorsProofs` extends both models of `competitors.py`) | |

Conventions. A user who acts with an `expected_version` holds, in `held`, what
the last read of the row showed, for as long as the row has that version; a
version changes exactly where the code increments it, and an outdated user holds
`NoVersion`. This avoids version counters. (`CreativePlans` keeps the numbers,
because revisions are indexed by them.) A name that extends another one
(`RetryableEver` for `Retryable`) is the form a plausible slip of the code would
have; no action uses it, and `PROJECT.json` pairs it with the property that
notices.

A request with a read view is `Open...` or `Begin...`, which keeps in `request`
or `session` what the request reads under its view, and an action that commits.
`Assigned` is the same everywhere: an attribute that is assigned the value that
was read for it is not part of the `UPDATE`, so that the latest row keeps
whatever it has. History variables record what only properties speak of, and no
guard reads them: `agreed` and `draftedFrom` (what a user saw when he decided),
`origin` (who gave a field its value), `fetches` (how often a page was fetched),
`lost` (files the storage lost), `started` and `used` (states handed out and
accepted), and the `role` of a request.

Where overlapping requests or workers break what a document promises, the
modules record the overlap as it happens, and the property says that nothing
goes wrong without it, in behaviours that have overlaps:

| History | Records |
|---|---|
| `met`, `overrun` (`GenerationOverlaps`) | jobs two workers were busy with at once, past the check of their locks; jobs whose lock expired, or that a user retried, under a busy worker |
| `contested` (`LinkParseTasks`), (`AssetLibrary`) | tasks two requests were running at once; jobs whose files a session began to store, or found in order, while another one was storing them |
| `crossed` (`LinkParseTasks`) | competitors that were written while another request, which had read them, was still to write them |
| `unseen`, `blind` (`PerformanceReviews`) | records that got a period since a request's view; pairs of records of which one got its period from a request that had not seen the other's |
| `overtaken` (`Access`) | requests since whose view another one took the role or status of an administrator, or wrote the account |

**GenerationWorker.** The worker's loop is `Scan` (timeouts, then stale locks,
skipping rows that are locked), `Claim` or `ClaimNothing`, and the steps of
`process_claimed_job`: start, `Submit...`, `Record...`, `Poll`, `Store`,
`RecordAnswer`, `DiscardAnswer`, and the handlers of errors. Between steps a
worker keeps what the code keeps in local variables: the job, the task it read,
the answer, and whether it created the file. Times are what the code compares:
`next_run_at` reached, `locked_at` and `started_at` older than their limits. A
submission may be accepted although its answer is lost. A crash loses the
worker's locals at any point. `attempts` saturates one above `max_attempts`,
which is exact because it is only compared with it. A task yields one file and
one asset row. Progress, heartbeats, events, error texts and the split of errors
into codes are left out: no decision reads them. Of the provider's answers to a
poll, `UNKNOWN` and `CANCELED` are not modelled.

**Inventory.** A request is `Begin`, which fixes the read view, and one action
that commits: it reads statuses from the view and inventory rows from the
current state, as `FOR UPDATE` does. An attribute that a request assigns the
value it had in the view is not written (`Assigned`): the session writes only
what changed. `ConfirmBatch` imports the rows in order, each with its own
outcome, in one step: the batch row is locked throughout, and the model leaves
out what another request could do between the row locks of one batch.

**CreativePlans.** `update_creative_plan_status` locks the product, then the
plan and the plans it displaces, and commits; other requests interleave with
these steps. Requests that lock one row are one step. `create_generation_job`
reads the plan (`ReadPlan`) and inserts later (`InsertJob`). Deadlocks the
database breaks, and every failed check, are `GiveUp`.

**CompetitorMonitors.** A run is `Open` (competitor and monitor under one view),
`ClaimMonitor` (an `UPDATE` committed at once, forced or not), `LoadMonitor`
(the refreshed row and the last success, under a new view; the competitor stays
as it was read), and `RunSucceeds`, `RunFails` or, when the process dies or
fetching raises something unexpected, `RunBreaks`, which leaves the claim. The
sweep runs its monitors one by one through the same steps without force. A pause
that commits during a run survives it if the run read the monitor as active.
What a page shows is one value, and the changed fields of a snapshot are whether
there are any. The failure count saturates at three, which is exact because only
the limit is compared with it.

**Marketing.** A user looks at a page (`LookAt...`), the request opens under a
view, and its `UPDATE` succeeds if the row still has the version of the page (a
recommendation must also still be pending). Other checks on statuses and
references are made on the view. The redirect for the public is different:
`LockLink` is its first query, so that what it reads next is what holds under
the lock, and `DecideClick` and `RecordClick` cannot be overtaken. `AskProvider`
and `GenerateRecommendation` are the two sides of the call to the text provider:
link and asset may change meanwhile. An edit whose `experiment_status` is an
explicit null is not modelled.

**PerformanceReviews.** `OpenCreate`, `OpenUpdate` and `OpenImport` include the
search for overlapping records, because it answers for the view, although the
product is locked before it is made. `unseen` follows each such request, and
`blind` keeps the pairs it leaves behind. The rows of a batch are disjoint when it is
uploaded and compared with the records again when it is confirmed. A report
covers the active records whose period lies within its own; a diagnosis cites
what the report said at the time.

**LinkParseTasks.** The sources of all fields are one JSON attribute, read under
the view and written whole: `Written` says so, and `Originated` what a reader
should be told instead. A run commits that it is running, fetches, and commits
the outcome; `ParseBreaks` is a process that dies or an exception that is not a
`ParseFailure`. Runs of one task may overlap (`contested`), as may writers of one
competitor (`crossed`). Snapshots of monitors are taken over by the same code as results
of tasks, whence `ApplySnapshot` here. `CreateProfile` and `UpdateProfile` are
`create_competitor` and `update_competitor` as far as the fields go; what they do
to the status is in `CompetitorMonitors`, which this module may be extended with.

**AssetLibrary.** Results are stored by the worker that saw the job succeed or
by a request that asks for it later; the first reads under the locks, the second
under its older view (`PersistView`). `put_bytes` looks for the file and then
replaces it (`LookForFile`, `ReplaceFile`), and a session that fails deletes
what it believes it created. The unique constraints of the table turn a clash of
versions into a failure with a clean-up (`PersistFails`). `GenerationWorker` has
the race of workers for one job, with one file; this module has several jobs,
several contents, requests, checks and reviews. Sessions may store the same
job's files at once (`contested`).

**Access.** Each file of `api/routes` is a set of routes, with the handlers it
declares, the permission each asks for and the area of state it changes. A
request begins if its token, looked up in the current state, admits it to some
route of the area; it then keeps the role its user had. Handling business data
is one kind of request, since the other modules say what it does. A token
carries the role of the sign-in as the code's does, and the code must not trust
it. Requests overlap freely (`overtaken`). The metadata of the account is absent,
there without a state, or there with the state that was handed out; a
revocation writes it whenever the view shows any.

## 3 What the runs show

Loops and users can always act, so that deadlock checking is on. The exception
is `access_pair`: once no active user is left, nothing can happen any more.

| Run | Instance | Shows |
|---|---|---|
| `worker_pair` | 2 workers, 1 job, 1 user, 2 tasks, 2 attempts; 445,208 states | results match tasks, locks protect the recorded task, versions guard users, and `JobLifecycle` is implemented, although workers outlive their locks; workers meet over a job only after a lock expired or a user retried under one; only a job they met over is stranded, or loses its files or its task |
| `worker_prompt` | 2 workers that answer before their locks expire, no users, under `FairSpec`; 34,992 states (of the state and the progress of the temporal formula) | one worker per job, every active job settles |
| `inventory_pair` | 1 SKU, 2 users, 1 batch, quantities to 1, 4 movements; 479,050 states | ledger and versions under overlapping requests; a batch is booked once, whole, and in an order that always fits |
| `plans_pair` | 2 plans, 2 types, 2 contents, 2 users, 1 job, versions to 3; 919,070 states | one plan selected, history complete, jobs match revisions, archived plans stay as they are |
| `monitors_prompt` | 1 competitor, 2 users or sweeps, 2 contents of the page, 4 snapshots, runs recorded before their claims lapse; 122,581 states | runs of a monitor exclude each other, changes are tracked from success to success, a monitor is given up only after three failures in a row |
| `marketing_pair` | 1 link, 1 recommendation, 1 experiment, 2 sessions, 2 visitors, 2 texts, 3 clicks, versions to 4 (of a link to 2); 354,428 states | counters match the clicks, a visitor counts once, decisions are about what was seen, drafts follow what was agreed, experiments respect their rules |
| `reviews_pair` | 2 records, 2 days, 1 report, 1 diagnosis, 2 texts, 2 requests, versions to 3; 1,268,163 states | records share a day, and a report counts it twice, only if one of them got its period from a request that had not seen the other's; diagnoses cite what a report said |
| `assets_pair` | 2 jobs with 1 result, 2 contents, 2 sessions, lock versions to 2; 1,116,742 states | versions consecutive, reviewers act on what they saw; what a row calls available is there, unless the storage lost it or sessions met over the job's files |
| `parse_pair` | 1 competitor, 2 fields, 1 task, 2 attempts, 2 requests; 434,684 states | results and errors fit the status of a task no two requests ran together; sources tell where values come from, of a competitor that was not written under another request's view |
| `access_pair` | 2 users, 2 tokens, 2 requests, 2 states; 1,751,355 states | requests stay within the roles of their users; the last administrator goes, and a state is accepted that was used or given up, only through a request that was overtaken |
| `inventory_closed_store`, `parse_stranded` | 1 SKU, 1 user, 1 batch; as `parse_pair` with 2 competitors | violations, see section 5 |

The runs do not repeat what section 4 proves at no further interest: `TypeOK`,
`RowsConsistent`, `TerminalStays`, `TasksNotShared`, `EditsInformed`,
`AdjustmentsInformed`, and `RevisionsComplete` of `PerformanceReviews`.

Assumptions of instances. Two remain, each a constant of its module.
`PromptRuns`, in `monitors_prompt`: a run is recorded before its claim lapses
after five minutes. `PromptWorkers`, in `worker_prompt` only: a worker records
its answer before its lock expires, the case the lock timeout is chosen for;
that run has no users either. Everything else interleaves in every run, and
overlaps that do harm are told by the histories of section 2. Section 5 says
what happens without the two assumptions and without the histories.

Constraints. `ClicksApart` cuts off behaviours with both clicks and
recommendations that were edited or decided: a click reads and writes nothing of
those. `RecordsApart` does the same for reviews: behaviours with several
versions of a report, or with a diagnosis, go without an import and with one
record of one day that is not changed. `OneJobOrContent` keeps either to one job
whose results differ from session to session, or to several jobs with one
content, and includes `OneLoss`: the storage loses one file at a time, since what
happens to one file is independent of what was lost before. `OneTokenOrState`
has one token, or one state of an authorization: tokens admit requests, and
states decide about the account. `FewFetches` ends behaviours in which two
requests keep running one task together, which may go on for ever.

Bounds, and why they are enough. Two workers are needed for one to overtake the
other, and two tasks for one to replace the other; a third worker adds another
victim of the same race. Two attempts distinguish the first, the last and one
too many. One job suffices because every transaction but the sweep touches one
row, the sweep treats each by itself, and the properties checked speak of one
row; that no task serves two jobs is a theorem. Quantities to 1 and four
movements allow growth, shrinkage, a lock in between and an import on top.
Versions to 3 allow a plan to be selected and displaced, edited in between or
archived. Four snapshots are three failures and a success between or before
them; monitors are independent of each other, so that one competitor suffices.
Three clicks are a first one, a duplicate and one after the ten minutes; four
versions are a recommendation that is edited twice and decided, or an experiment
that is edited, confirmed and started, or goes all its way. Two days allow
periods that touch, contain each other or are apart. Two attempts of the code's
three are a run and a last one; two fields are one written and one that is only
carried along; rows of competitors are independent of each other. Two jobs share
the version numbers of a plan. Two users are two administrators, or an
administrator and somebody he demotes, and two states are an outdated and a
current one. The safety results of section 4 do not depend on these bounds.

Fairness (`FairSpec`). Time passes and the provider ends its tasks (weak
fairness). `docker-compose.yml` restarts the worker unless it is stopped, hence
weak fairness of `Restart`; steps under way end, hence weak fairness of
`Process`. A row is skipped by `skip_locked` only during another worker's short
transaction, and claims are ordered by `next_run_at`, so a looping worker
reaches every row: strong fairness of a scan that skips nothing and of each
claim. `StartSubmission` is strongly fair: a worker is not always killed before
its first step. No fairness is assumed of users, crashes, or of which answer the
provider gives.

## 4 What is proved

`tlapm` checks every leaf. Every property of a passing run is a theorem, for
every value of the constants, but two, which are only model-checked: liveness
(`ActiveJobsSettle`, under fairness) is beyond the prover, and `OneWorkerPerJob`
holds only of the instance of its run; what holds of every instance is
`MeetingsAreOverruns`. `GrowsOnlyOnSale` and `NoTaskStranded` do not hold
(section 5).

The modules assume what any instance satisfies: at least one attempt, null
values that are not members of the sets they extend, natural bounds, an initial
configuration among the configurations, a finite set of jobs whose assets are
counted. Nothing restricts the number of workers, users, jobs, SKUs, plans,
links, records or requests, nor how they overlap. Three theorems assume more:
those about monitors have `PromptRuns` as their hypothesis, which the code does
not enforce.

| Module | Theorems about |
|---|---|
| `GenerationWorkerProofs` | `TypeOK`, `RowsConsistent`, `LockProtectsTask`, `ResultMatchesTask`, `TasksNotShared`, `CurrentVersionShowsRow`, `TerminalStays`, `LifecycleSpec`; of `GenerationOverlaps`: `MeetingsAreOverruns`, `StrandedOnlyIfMet`, `FilesLostOnlyIfMet`, `TaskLostOnlyIfMet` |
| `InventoryProofs` | `TypeOK`, `LedgerReplays`, `ReplayFits`, `CurrentVersionShowsQuantities`, `BatchBookedOnce`, `BatchRowsWhole`, `AdjustmentsInformed` |
| `CreativePlansProofs` | `TypeOK`, `AtMostOneSelected`, `RevisionsComplete`, `JobsMatchRevisions`, `ArchivedStays`, `EditsInformed` |
| `CompetitorMonitorsProofs` | `TypeOK`; under `PromptRuns`: `OneRunPerMonitor`, `ChangesTracked`, `FailedAfterThree`; of `LinkParseTasks`: `LinkTypeOK`, `UncontestedOutcomesMatch`, `UncrossedSourcesTold` |
| `MarketingProofs` | `TypeOK`, `CountersMatch`, `CountedOnce`, `DecidedAsSeen`, `DraftedFromAgreed`, `ExperimentRules` |
| `PerformanceReviewsProofs` | `TypeOK`, `RevisionsComplete`, `DiagnosesCiteRevisions`, `SeenPeriodsDisjoint`, `ReportsCountSeenDaysOnce` |
| `AssetLibraryProofs` | `TypeOK`, `VersionsConsecutive`, `CurrentLockShowsReview`, `UncontestedFilesKept` |
| `AccessProofs` | `TypeOK`, `RolesRespected`, `LastAdminGoesUnseen`, `StatesReplayedByOverlap` |

None of the properties is inductive by itself. What follows names, for each
module, what has to be added and why it holds.

**GenerationWorkerProofs.** That a result matches its task rests on what a
worker knows when it records it: `IInv` adds `WorkersAttached` (a busy worker
has a job, and what it remembers has the type of its step), `TasksAccepted` and
`AcceptedIsFresh` (a task known to a row or a worker was accepted; the answer a
worker is about to record is known to nobody else), and `DeliveredIsDone` (what
a worker delivers ended well). A step of a worker changes one worker, at most
one row, and at most one task; `SafeStep` says what such a step must respect,
and one lemma per action shows that it does.

The second part is about `GenerationOverlaps`, for workers that outlive their
locks and users who retry under them. `Apart` is inductive together with `IInv`
and has two layers. Of a job that is not in `overrun`: it has one busy worker
(`OneBusy`), which holds its lock, fresh, as long as the job is running
(`BusyHolds`); so that a claim or a recovery never finds it free, and workers
meet only over jobs that are. Of a job that is not in `met`, overrun or not: no
two workers are past the check at the start (`NoneMeet`), and what the one that
is relies on, the task and the file it stored, is still so (`ReliersKnow`); a
row that is running unlocked has its task, one that succeeded has its file
(`RowsSound`). A worker that comes after another one has given up cannot
surprise it: apart from claims and recovery, only a worker past the check
changes the task of a job that has not failed. `TasksApart` keeps the tasks of
different jobs apart throughout, and `AnswersTrue` makes a reported break a real
one.

The refinement `Spec => LifecycleSpec`: every step moves the status of one job
legally, or is a sweep, or leaves statuses alone; a delivery is of a task no
other job delivered, which needs `TasksNotShared` and `ResultMatchesTask`.

**InventoryProofs.** The ledger is described without recursion: `StandsAt(log,
n, k, q)` says what quantity k is after n movements. `IInv` says of each account
that its movements lead to its quantities (`Replays`), that every prefix fits
(`FitsThroughout`), and that the quantities fit now; an import moves in the
order locked-down, stock, locked, and `QuantitiesImportedSound` shows that each
of its movements fits. For the action properties every step is a `LedgerStep`:
it confirms no batch and adds movements to one SKU, without batch and for a user
who knows the quantities (`Adjusted`), or to none; or it confirms one batch, and
each SKU is untouched or as its row says, with movements of that batch only
(`Confirmed`).

**CreativePlansProofs.** That `CommitStatus` leaves one plan selected rests on
the set of plans found when they were locked; `LocksHeld` says that the set
stays the right one, because every change of status of the product's plans holds
the product row. Jobs match revisions because revisions only grow
(`RevisionsGrow`) and a request remembers a version that had its revision.

**CompetitorMonitorsProofs.** With `PromptRuns` (the page is fetched well within
the five minutes of a claim), `RunsClaimed` says that whoever runs a monitor
holds its claim, so that nobody else adds snapshots; `RunsInformed` that what a
run read when it started is still borne out by the snapshots, and (`StillRead`)
that meanwhile failures were only reset and the monitor not given up, since
users do no more than that. A last success exists because a finite set of
positions has a greatest element (`LastExists`).

Its second half is about `LinkParseTasks` and assumes nothing. Whoever runs a
task that is not contested is alone with it (`RunnersApart`), so that the row is
what it read, up to its start (`RunsRead`); from then on the row says that the
task is running, and only that run changes this. Whoever has read a competitor
that is not crossed and is still to write it holds the row as it is
(`ReadersCurrent`), so that the sources it writes whole differ from those in the
table by what it changed; it reads rows that are there (`ReadersFound`), and a
row that is not has no sources (`AbsentUnsourced`).

**MarketingProofs.** A click holds its link from the lock to the commit
(`OneHolds`), so that the counter it read and its search for duplicates still
hold when it writes (`ClickSound`); time only passes, and makes no duplicate.
For recommendations and experiments, whatever a session saw at some version is
what the row says if it still has that version (`RecommendationSeen`,
`ExperimentSeen`), because each change of text or status has a version of its
own. A confirmed recommendation never changes, so that a draft made under an old
view that shows it confirmed is about what was agreed.

**PerformanceReviewsProofs.** `History` is about reports: a row that exists has
a version (`Numbered`), revisions only grow, and what a provider is working on
is among them (`RequestsCite`), as is therefore what it answers about. About
records: what a request found free when it searched is still free of all records
but those in its `unseen` (`SearchesHold`), which it turns into pairs of `blind`
when it writes; the rows of a batch are disjoint from its upload on
(`RowsDisjoint`). A report's snapshot was as the table when it was read, and
stays what it is, while `blind` only grows (`SnapshotsSound`).

**AssetLibraryProofs.** Rows are never deleted, so that a request that counts
under an old view counts at most what is there (`ViewOld`); if it counts less,
the unique constraint refuses its first number and nothing is entered. The same
growth makes a page with a current lock version a current page (`PageOld`). The
files of a job that is not contested have one session that stores them
(`Exclusive`); what it has stored stays sound unless the storage loses it
(`StoredKept`), and what it would delete on failure was absent when it looked, so
that no row relies on it but one whose file was lost (`CreatedExpendable`).

**AccessProofs.** Each route is shown to ask for permissions that only roles
have which may change its area (`EachAllowed`), and a request keeps the role it
was admitted with. Users are never deleted (`UsersStay`). A request that was not
overtaken finds the administrators it counted still there (`AdminsSeen`), and
the account as it saw it (`AccountSeen`). No view shows a state that was not
handed out, and a callback is for the one its view shows (`StatesSeen`); a state
that the account keeps is the last one and was not used (`LastKept`).

Induction over data is not used: what would need it is stated without recursion
(`StandsAt`, `Statistics`), and no module declares a recursive operator.

## 5 Where code and documents differ

Lines `W:` are of `backend/app/workers/generation.py`, other files of
`backend/app/services` unless they are named in full; documents are
`项目进度.md`, the analysis `电商运营助手-需求分析与任务拆解.md` and the design
`技术方案与开发约定.md`. Two runs are violations; `PROJECT.json` quotes their
lines.

**A task that nobody runs.** `run_parse_task` (`competitors.py:610`) expects
`ParseFailure` only. Any other exception, or the end of the process, leaves the
task running, `competitors.py:592` refuses to run it, and nothing resets it,
although `README.md:165` and `项目进度.md:311` promise retries. `parse_stranded`
is the run.

**An import into a closed store.** `_import_sku_inventory` (`imports.py:569`)
looks at the product, and at the status the row gives the SKU, but not at the
store, which was looked at when the file was uploaded. A batch that is confirmed
after its store was closed raises and locks quantities, which the design (line
109) and `项目进度.md:352` rule out. `inventory_closed_store` is the run.

What follows is shown by the same modules, when the property named is added to a
`.cfg`, or the assumption named is dropped. The passing properties say when it
happens; these are the promises without the exception.

*The worker.* Without `PromptWorkers`, `OneWorkerPerJob` fails: `locked_at` is
set when a job is claimed and not renewed during a call, although the analysis
(line 816) asks for regular renewal. With it, it fails as soon as a user retries
a job that timed out while its worker is at the provider. A job that two workers met over may lose what the documents promise. A
late poll error (W:338) clears the lock of another worker that is submitting; if
that one dies the row is running, unlocked and without a task, and only its time
limit ends it (analysis, line 430: a task is resumed after a restart). A worker
that lost its lock (W:376) deletes a file the asset row of the job refers to
(line 460). A late submission (W:298) replaces the recorded task, so that work is
done twice (line 819). Independently of this `AttemptsBounded` fails: neither
lock recovery nor the start of a submission (W:268) looks at `max_attempts`, so
that a worker that dies after submitting starts the job again without limit
(`项目进度.md:273`).

*Inventory.* `GrowsOnlyOnSale` also fails without batches when requests overlap:
statuses come from a view older than the lock (`inventory.py:222`; design, line
109). `CurrentVersionShowsConfig` fails with a batch and two configurations: an
import changes threshold and location under an unchanged version
(`imports.py:643`; design, line 111).

*Plans.* `create_generation_job` reads the plan without a lock and inserts the
job later: by then the plan may be deselected, edited or archived, although
`项目进度.md:269` has jobs created only from plans that are selected; the job still
carries a version in which the plan was (`JobsMatchRevisions`).

*Monitors.* Without `PromptRuns`, `OneRunPerMonitor`, `ChangesTracked` and
`FailedAfterThree` fail: a run that takes longer than five minutes loses its
claim, and when it ends it clears the claim of the run that took its place
(`competitors.py:933`). A forced run of an archived competitor's monitor fails
and by that sets the monitor to active, which `upsert_monitor` refuses
("停用竞品不能启用监控"); the sweep then runs it again and again until it has failed
three times. And a monitor enabled under a view that shows it active, while a
run gives it up, stays failed with no failure counted.

*Records.* `ActivePeriodsDisjoint` fails: two requests both search before either
has entered its record (`performance.py:173`; the lock on the product comes
after the view; design, line 136), and a report may then count a day twice.

*Competitors.* `SourcesTold` fails: two edits of different fields keep both
values and one of the two sources (`competitors.py:434`; `项目进度.md:310` has the
source of each field recorded). A name the user gives while he takes over the
field is shown as parsed (`competitors.py:691`), which is why `SourcesTold` and
`UncrossedSourcesTold` leave the name out. `FetchesLimited` fails: two requests
that run a task together both count from the attempts they read
(`competitors.py:597`; `项目进度.md:311`, three retries at most), and each may
leave its result next to the other's status.

*Assets.* `AvailableFilesKept` fails: two sessions both find no file, both
believe they created it, and the one that fails deletes it
(`backend/app/integrations/storage/providers.py:88`; analysis, line 826); or an
asset is found available before the failing session cleans up. A file whose
dimensions are not known is left behind without a row (`assets.py:83`,
`DimensionsInvalid`).

*Access.* `AnAdminRemains` fails: two administrators demote each other, each
under a view with two (`users.py:100`; analysis, line 251, and `项目进度.md:17`).
`StatesUsedOnce` fails: a callback that read the account before a revocation, or
before another callback with the same state, still completes
(`platform_accounts.py:199`; design, line 84).

## 6 What is not modelled, and the plan

Not modelled, and why:

- **Inventory advice**: a run reads sales and stock, classifies each SKU by
  fixed thresholds and inserts its items in one transaction. Nothing interleaves
  with it, and what it computes is arithmetic on decimals.
- **System settings**: one row per group, written whole by an administrator;
  validation and encryption of values are data. That processes see a change at
  different times is their choice of when to read.
- **Dashboard and lists, audit log, demo data**: pure reads, a log no operation
  reads, and one transaction of fixed rows.
- **Text provider and prompts**: text; an answer is a choice of contents or a failure.
- **Migrations**: run once before the service starts; the constraints a service
  relies on are in its module.
- **Frontend, HTTP schemas, error bodies**: what a client may ask for is the
  choice of inputs. The routes and their permissions are in `Access`.
- **Product imports, platform mappings, edits of stores, products and SKUs**
  beyond their statuses: single-row writes under a version, of which `Inventory`
  has the ones other state depends on.
- **The worker's thread that ends by an exception outside `process`**
  (`generation_worker.py:59`): within the model a worker that is slow to restart.
- **Two inputs**: the provider's answers `UNKNOWN` and `CANCELED` to a poll, and
  an `experiment_status` that is an explicit null.
- **The abort of a batch in a deadlock** of two confirmations (`imports.py:722`).

What is left, in this order:

- Abstract specifications for more components, each implemented by the module
  that exists: an inventory as a ledger that only grows by informed adjustments
  and whole batches (of which `LedgerStep` is the step), a click counter that
  counts atomically, the life of an experiment.
- Monitors without `PromptRuns`: a history of claims that lapsed under a run, as
  the other modules have it of their overlaps.
- Properties for the hazards that have none: the attempts a job may exceed
  through recovery, a monitor enabled while it is given up.
- Liveness of monitors and parse tasks under `PromptRuns`, by TLC.
