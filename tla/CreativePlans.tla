--------------------------- MODULE CreativePlans ---------------------------
(***************************************************************************)
(* Creative plans of one product, their revisions, and the generation jobs *)
(* created from them: services/creative_plans.py and create_generation_job *)
(* of services/generation_jobs.py.                                         *)
(*                                                                         *)
(* A request is one transaction.  One that locks a single row is a single  *)
(* step.  A change of status locks the product, then the plan and, to      *)
(* select it, the selected plans of its type; it holds these locks until   *)
(* it commits.  Creating a job locks nothing: it reads the plan, and       *)
(* inserts the job later.                                                  *)
(*                                                                         *)
(* An operator whose name extends that of the next one is a slip of the    *)
(* code that the properties below must notice; no action uses it.          *)
(***************************************************************************)
EXTENDS Naturals, Sequences, FiniteSets

CONSTANTS
    Plans,          \* plans that may be generated
    Types,          \* plan types
    Contents,       \* title, content and rationale
    Users,          \* users, each with at most one request at a time
    Jobs,           \* idempotency keys of generation jobs
    MaxVersion,     \* bound on version_no
    NoOne, NoRequest, NoJob, NoType, NoContent

ASSUME VersionAssumption == MaxVersion \in Nat
ASSUME NullAssumption == NoOne \notin Users

VARIABLES
    plan,           \* creative_plans rows
    revisions,      \* creative_plan_revisions of each plan
    job,            \* generation_jobs rows, as far as they refer to plans
    productLock,    \* the user whose transaction has the product row locked
    planLock,       \* the same for each plan
    request,        \* the request of each user that is between two steps
    seen            \* the version_no each user last read of a plan, or 0

vars == <<plan, revisions, job, productLock, planLock, request, seen>>

locks == <<productLock, planLock>>

(***************************************************************************)
(* Rows.                                                                   *)
(***************************************************************************)
PlanStatuses == {"draft", "selected", "archived"}
Versions == 0..MaxVersion

Rows == [type: Types \cup {NoType}, status: PlanStatuses \cup {"absent"},
         content: Contents \cup {NoContent}, version: Versions]

AbsentRow == [type |-> NoType, status |-> "absent", content |-> NoContent, version |-> 0]

RevisionOf(r) == [version |-> r.version, content |-> r.content, status |-> r.status]

JobRows == [plan: Plans, version: Versions, content: Contents \cup {NoContent}]

ReviseBefore(ps, new) ==
    /\ plan' = [p \in Plans |-> IF p \in ps THEN new[p] ELSE plan[p]]
    /\ revisions' = [p \in Plans |->
            IF p \in ps THEN Append(revisions[p], RevisionOf(plan[p])) ELSE revisions[p]]

(* Plans ps get new rows, each with a revision (_add_revision).             *)
Revise(ps, new) ==
    /\ plan' = [p \in Plans |-> IF p \in ps THEN new[p] ELSE plan[p]]
    /\ revisions' = [p \in Plans |->
            IF p \in ps THEN Append(revisions[p], RevisionOf(new[p])) ELSE revisions[p]]

Init ==
    /\ plan = [p \in Plans |-> AbsentRow]
    /\ revisions = [p \in Plans |-> <<>>]
    /\ job = [j \in Jobs |-> NoJob]
    /\ productLock = NoOne
    /\ planLock = [p \in Plans |-> NoOne]
    /\ request = [u \in Users |-> NoRequest]
    /\ seen = [u \in Users |-> [p \in Plans |-> 0]]

Exists(p) == plan[p].status # "absent"
Free(p) == planLock[p] = NoOne
Idle(u) == request[u] = NoRequest

(***************************************************************************)
(* Generating, reading and editing.                                        *)
(***************************************************************************)

(* generate_creative_plans: what the provider returned becomes drafts.      *)
Generate(u, ps, type, contents) ==
    /\ Idle(u)
    /\ \A p \in ps : ~Exists(p)
    /\ MaxVersion > 0
    /\ Revise(ps, [p \in ps |->
            [type |-> type, status |-> "draft", content |-> contents[p], version |-> 1]])
    /\ UNCHANGED <<job, locks, request, seen>>

(* get_creative_plan, or a list.                                            *)
Read(u, p) ==
    /\ Idle(u)
    /\ Exists(p)
    /\ seen' = [seen EXCEPT ![u][p] = plan[p].version]
    /\ UNCHANGED <<plan, revisions, job, locks, request>>

(* The check of expected_version; any other is refused with 409.            *)
VersionMatches(u, p) == Exists(p) /\ seen[u][p] = plan[p].version

RoomForVersion(p) == plan[p].version < MaxVersion

NotArchived(p) == plan[p].status # "archived"

(* update_creative_plan                                                     *)
Edit(u, p, content) ==
    /\ Idle(u)
    /\ Free(p)
    /\ VersionMatches(u, p)
    /\ NotArchived(p)
    /\ RoomForVersion(p)
    /\ Revise({p}, [q \in {p} |->
            [plan[p] EXCEPT !.content = content, !.version = @ + 1]])
    /\ UNCHANGED <<job, locks, request, seen>>

(***************************************************************************)
(* update_creative_plan_status.                                            *)
(***************************************************************************)
StatusRequests == [kind: {"status"}, plan: Plans, status: PlanStatuses,
                   at: {"product", "rows"}, others: SUBSET Plans]

Request(u, r) == request' = [request EXCEPT ![u] = r]

ProductUnlocked(u) == UNCHANGED productLock

LockProduct(u) == productLock = NoOne /\ productLock' = u

(* The transaction ends: its locks are released.                            *)
Release(u) ==
    /\ productLock' = IF productLock = u THEN NoOne ELSE productLock
    /\ planLock' = [p \in Plans |-> IF planLock[p] = u THEN NoOne ELSE planLock[p]]
    /\ Request(u, NoRequest)

BeginStatus(u, p, status) ==
    /\ Idle(u)
    /\ LockProduct(u)
    /\ Request(u, [kind |-> "status", plan |-> p, status |-> status,
                   at |-> "product", others |-> {}])
    /\ UNCHANGED <<plan, revisions, job, planLock, seen>>

HasLocked(u, what) == ~Idle(u) /\ request[u].kind = "status" /\ request[u].at = what

StatusAllowed(p, status) ==
    /\ status # plan[p].status
    /\ NotArchived(p)
    /\ ~(status = "archived" /\ plan[p].status = "selected")

OtherSelectedOrNot(p) == {q \in Plans \ {p} : Exists(q) /\ plan[q].type = plan[p].type}

OtherSelected(p) ==
    {q \in Plans \ {p} : plan[q].status = "selected" /\ plan[q].type = plan[p].type}

(* The plan is locked and checked, and the plans it takes the place of are  *)
(* locked.                                                                  *)
LockRows(u) ==
    LET p == request[u].plan
        others == IF request[u].status = "selected" THEN OtherSelected(p) ELSE {}
    IN  /\ HasLocked(u, "product")
        /\ VersionMatches(u, p)
        /\ StatusAllowed(p, request[u].status)
        /\ \A q \in {p} \cup others : Free(q) /\ RoomForVersion(q)
        /\ planLock' = [q \in Plans |-> IF q \in {p} \cup others THEN u ELSE planLock[q]]
        /\ Request(u, [request[u] EXCEPT !.at = "rows", !.others = others])
        /\ UNCHANGED <<plan, revisions, job, productLock, seen>>

(* A check fails, or the transaction does.                                  *)
GiveUp(u) ==
    /\ ~Idle(u)
    /\ Release(u)
    /\ UNCHANGED <<plan, revisions, job, seen>>

CommitStatus(u) ==
    LET p == request[u].plan
        others == request[u].others
    IN  /\ HasLocked(u, "rows")
        /\ Revise({p} \cup others, [q \in {p} \cup others |->
                [plan[q] EXCEPT
                    !.status = IF q = p THEN request[u].status ELSE "draft",
                    !.version = @ + 1]])
        /\ Release(u)
        /\ UNCHANGED <<job, seen>>

(***************************************************************************)
(* create_generation_job.                                                  *)
(***************************************************************************)
JobRequests == [kind: {"job"}, row: JobRows]

SelectedUnchecked(p) == TRUE

Selected(p) == plan[p].status = "selected"

ReadPlan(u, p) ==
    /\ Idle(u)
    /\ Selected(p)
    /\ VersionMatches(u, p)
    /\ Request(u, [kind |-> "job",
                   row |-> [plan |-> p, version |-> plan[p].version,
                            content |-> plan[p].content]])
    /\ UNCHANGED <<plan, revisions, job, locks, seen>>

CreatesJob(u) == ~Idle(u) /\ request[u].kind = "job"

InsertJob(u, j) ==
    /\ CreatesJob(u)
    /\ job[j] = NoJob
    /\ job' = [job EXCEPT ![j] = request[u].row]
    /\ Request(u, NoRequest)
    /\ UNCHANGED <<plan, revisions, locks, seen>>

(* The key is taken: the request answers with that job or with a conflict.  *)
AnswerExisting(u, j) ==
    /\ CreatesJob(u)
    /\ job[j] # NoJob
    /\ Request(u, NoRequest)
    /\ UNCHANGED <<plan, revisions, job, locks, seen>>

(***************************************************************************)

Next ==
    \E u \in Users :
        \/ \E ps \in SUBSET Plans \ {{}}, type \in Types :
            \E contents \in [ps -> Contents] : Generate(u, ps, type, contents)
        \/ \E p \in Plans : Read(u, p)
        \/ \E p \in Plans, content \in Contents : Edit(u, p, content)
        \/ \E p \in Plans, status \in PlanStatuses : BeginStatus(u, p, status)
        \/ LockRows(u)
        \/ GiveUp(u)
        \/ CommitStatus(u)
        \/ \E p \in Plans : ReadPlan(u, p)
        \/ \E j \in Jobs : InsertJob(u, j) \/ AnswerExisting(u, j)

Spec == Init /\ [][Next]_vars

(***************************************************************************)
(* Properties.                                                             *)
(***************************************************************************)

TypeOK ==
    /\ plan \in [Plans -> Rows]
    /\ revisions \in [Plans -> Seq([version: Versions, content: Contents \cup {NoContent},
                                    status: PlanStatuses])]
    /\ job \in [Jobs -> JobRows \cup {NoJob}]
    /\ productLock \in Users \cup {NoOne}
    /\ planLock \in [Plans -> Users \cup {NoOne}]
    /\ request \in [Users -> StatusRequests \cup JobRequests \cup {NoRequest}]
    /\ seen \in [Users -> [Plans -> Versions]]

(* Whatever requests interleave, at most one plan of a type is selected.    *)
AtMostOneSelected ==
    \A p, q \in Plans :
        Selected(p) /\ Selected(q) /\ plan[p].type = plan[q].type => p = q

(* The revisions of a plan are its versions 1, 2, ... without gaps, and the *)
(* last one is the plan as it is: also a plan that lost its place keeps its *)
(* history.                                                                 *)
RevisionsComplete ==
    \A p \in Plans :
        /\ Len(revisions[p]) = plan[p].version
        /\ \A i \in 1..Len(revisions[p]) : revisions[p][i].version = i
        /\ Exists(p) => revisions[p][plan[p].version] = RevisionOf(plan[p])

(* A job carries the content of the plan version it names, and in that      *)
(* version the plan was selected, although the plan is read without a lock. *)
JobsMatchRevisions ==
    \A j \in Jobs : job[j] # NoJob =>
        LET r == revisions[job[j].plan][job[j].version] IN
        r.content = job[j].content /\ r.status = "selected"

(* An archived plan never changes again, neither by a request that read it  *)
(* before it was archived nor by one that selects another plan of its type. *)
ArchivedStays == [][\A p \in Plans : plan[p].status = "archived" => plan'[p] = plan[p]]_vars

(* Content is only replaced by a user who had read the version replaced.    *)
EditsInformed ==
    [][\A p \in Plans : Exists(p) /\ plan'[p].content # plan[p].content =>
        \E u \in Users : seen[u][p] = plan[p].version]_vars

=============================================================================
