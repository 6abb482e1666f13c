------------------------ MODULE CreativePlansProofs ------------------------
(***************************************************************************)
(* Proofs of the properties of CreativePlans, for every number of plans,   *)
(* types, users and jobs.                                                  *)
(*                                                                         *)
(* AtMostOneSelected is not inductive: that CommitStatus leaves one plan   *)
(* selected rests on the set of plans the request found when it locked     *)
(* them.  LocksHeld says that this set is still the right one, because     *)
(* every change of status of the product's plans holds the product row.    *)
(* That a job matches its revision likewise rests on what its request read *)
(* (JobsSound), and on revisions that only grow.                           *)
(***************************************************************************)
EXTENDS CreativePlans, TLAPS

RevisionRows == [version: Versions, content: Contents \cup {NoContent}, status: PlanStatuses]

(* A plan has a version exactly when it was generated.                      *)
VersionsStart == \A p \in Plans : plan[p].version = 0 <=> ~Exists(p)

JobRowMatches(r) ==
    /\ r.version \in 1..Len(revisions[r.plan])
    /\ revisions[r.plan][r.version].content = r.content
    /\ revisions[r.plan][r.version].status = "selected"

JobsSound ==
    /\ \A j \in Jobs : job[j] # NoJob => JobRowMatches(job[j])
    /\ \A u \in Users : CreatesJob(u) => JobRowMatches(request[u].row)

Displaced(u) ==
    IF request[u].status = "selected" THEN OtherSelected(request[u].plan) ELSE {}

RowsHeld(u) ==
    /\ productLock = u
    /\ Exists(request[u].plan)
    /\ NotArchived(request[u].plan)
    /\ request[u].others = Displaced(u)
    /\ \A q \in {request[u].plan} \cup request[u].others :
            planLock[q] = u /\ RoomForVersion(q)

LocksHeld ==
    \A u \in Users :
        /\ HasLocked(u, "product") => productLock = u
        /\ HasLocked(u, "rows") => RowsHeld(u)

IInv ==
    /\ TypeOK
    /\ VersionsStart
    /\ RevisionsComplete
    /\ JobsSound
    /\ LocksHeld
    /\ AtMostOneSelected

(***************************************************************************)
(* What a step may do to the rows.                                         *)
(***************************************************************************)

(* Plans ps get their next version and its revision.                        *)
Revised(ps) ==
    /\ plan' \in [Plans -> Rows]
    /\ revisions' = [p \in Plans |->
            IF p \in ps THEN Append(revisions[p], RevisionOf(plan'[p])) ELSE revisions[p]]
    /\ \A p \in Plans \ ps : plan'[p] = plan[p]
    /\ \A p \in ps : plan'[p].version = plan[p].version + 1 /\ plan'[p].status # "absent"

RevisionsGrow ==
    \A p \in Plans :
        /\ Len(revisions'[p]) \in Nat
        /\ Len(revisions[p]) <= Len(revisions'[p])
        /\ \A i \in 1..Len(revisions[p]) : revisions'[p][i] = revisions[p][i]

(* No plan changes its status, except that a draft may appear.              *)
StatusesStay ==
    \A p \in Plans :
        \/ plan'[p].status = plan[p].status /\ plan'[p].type = plan[p].type
        \/ ~Exists(p) /\ plan'[p].status = "draft"

(* What a request that is between two steps relies on.                      *)
Undisturbed(v) ==
    /\ request'[v] = request[v]
    /\ productLock = v => productLock' = v /\ StatusesStay
    /\ \A p \in Plans : planLock[p] = v =>
            planLock'[p] = v /\ (Exists(p) => plan'[p] = plan[p])

(* Revisions stay complete when plans get their next versions.              *)
LEMMA HistoryKept ==
    ASSUME TypeOK, VersionsStart, RevisionsComplete,
           NEW ps \in SUBSET Plans, Revised(ps)
    PROVE  /\ revisions' \in [Plans -> Seq(RevisionRows)]
           /\ VersionsStart'
           /\ RevisionsComplete'
           /\ RevisionsGrow
<1> USE DEF RevisionRows
<1>1. ASSUME NEW p \in Plans
      PROVE  /\ revisions'[p] \in Seq(RevisionRows)
             /\ plan'[p].version = 0 <=> ~Exists(p)'
             /\ Len(revisions'[p]) = plan'[p].version
             /\ \A i \in 1..Len(revisions'[p]) : revisions'[p][i].version = i
             /\ Exists(p)' => revisions'[p][plan'[p].version] = RevisionOf(plan'[p])
             /\ Len(revisions[p]) <= Len(revisions'[p])
             /\ \A i \in 1..Len(revisions[p]) : revisions'[p][i] = revisions[p][i]
  <2>1. /\ revisions[p] \in Seq(RevisionRows)
        /\ plan[p] \in Rows
        /\ plan'[p] \in Rows
    BY DEF TypeOK, Revised
  <2>2. /\ plan[p].version = 0 <=> ~Exists(p)
        /\ Len(revisions[p]) = plan[p].version
        /\ \A i \in 1..Len(revisions[p]) : revisions[p][i].version = i
        /\ Exists(p) => revisions[p][plan[p].version] = RevisionOf(plan[p])
    BY DEF VersionsStart, RevisionsComplete
  <2>3. CASE p \notin ps
    <3>1. plan'[p] = plan[p] /\ revisions'[p] = revisions[p]
      BY <2>3 DEF Revised
    <3>2. QED  BY <2>1, <2>2, <3>1 DEF Exists
  <2>4. CASE p \in ps
    <3> DEFINE new == RevisionOf(plan'[p])
    <3>1. /\ revisions'[p] = Append(revisions[p], new)
          /\ plan'[p].version = plan[p].version + 1
          /\ plan'[p].status # "absent"
      BY <2>4 DEF Revised
    <3>2. new \in RevisionRows /\ new.version = plan[p].version + 1
      BY <2>1, <3>1 DEF RevisionOf, Rows
    <3>3. plan[p].version \in Nat
      BY <2>1 DEF Rows, Versions
    <3> HIDE DEF new
    <3>4. /\ revisions'[p] \in Seq(RevisionRows)
          /\ Len(revisions'[p]) = Len(revisions[p]) + 1
          /\ revisions'[p][Len(revisions[p]) + 1] = new
          /\ \A i \in 1..Len(revisions[p]) : revisions'[p][i] = revisions[p][i]
      BY <2>1, <3>1, <3>2
    <3>5. /\ Len(revisions'[p]) = plan'[p].version
          /\ Len(revisions[p]) <= Len(revisions'[p])
      BY <2>2, <3>1, <3>3, <3>4
    <3>6. ASSUME NEW i \in 1..Len(revisions'[p])
          PROVE  revisions'[p][i].version = i
      <4>1. Len(revisions[p]) \in Nat /\ i \in 1..(Len(revisions[p]) + 1)
        BY <2>2, <3>3, <3>4
      <4>2. CASE i = Len(revisions[p]) + 1
        BY <2>2, <3>2, <3>4, <4>2
      <4>3. CASE i \in 1..Len(revisions[p])
        BY <2>2, <3>4, <4>3
      <4>4. QED  BY <4>1, <4>2, <4>3
    <3>7. revisions'[p][plan'[p].version] = RevisionOf(plan'[p])
      BY <2>2, <3>1, <3>4 DEF new
    <3>8. Exists(p)' /\ plan'[p].version # 0
      BY <3>1, <3>3 DEF Exists
    <3>9. QED  BY <3>4, <3>5, <3>6, <3>7, <3>8
  <2>5. QED  BY <2>3, <2>4
<1>2. revisions' \in [Plans -> Seq(RevisionRows)]
  BY <1>1 DEF Revised
<1>3. VersionsStart'
  BY <1>1 DEF VersionsStart
<1>4. RevisionsComplete'
  BY <1>1 DEF RevisionsComplete
<1>5. RevisionsGrow
  BY <1>1 DEF RevisionsGrow
<1>6. QED  BY <1>2, <1>3, <1>4, <1>5

(* What a job copied stays true of the revision it names.                   *)
LEMMA JobRowStays ==
    ASSUME TypeOK, RevisionsGrow, NEW r \in JobRows, JobRowMatches(r)
    PROVE  JobRowMatches(r)'
<1>1. r.plan \in Plans /\ Len(revisions[r.plan]) \in Nat
  BY DEF TypeOK, JobRows
<1>2. QED  BY <1>1 DEF JobRowMatches, RevisionsGrow

(* A request relies on its locks only.                                      *)
LEMMA OthersUndisturbed ==
    ASSUME TypeOK, LocksHeld, NEW v \in Users, Undisturbed(v)
    PROVE  /\ HasLocked(v, "product")' => productLock' = v
           /\ HasLocked(v, "rows")' => RowsHeld(v)'
<1>1. \A what : HasLocked(v, what)' <=> HasLocked(v, what)
  BY DEF Undisturbed, HasLocked, Idle
<1>2. HasLocked(v, "product") => productLock' = v
  BY DEF LocksHeld, Undisturbed
<1>3. ASSUME HasLocked(v, "rows") PROVE RowsHeld(v)'
  <2>1. RowsHeld(v)
    BY <1>3 DEF LocksHeld
  <2>2. productLock' = v /\ StatusesStay /\ request'[v] = request[v]
    BY <2>1 DEF RowsHeld, Undisturbed
  <2>3. request[v] \in StatusRequests
    BY <1>3 DEF TypeOK, HasLocked, Idle, JobRequests
  <2>4. request[v].plan \in Plans /\ request[v].others \subseteq Plans
    BY <2>3 DEF StatusRequests
  <2>5. \A q \in {request[v].plan} \cup request[v].others :
            planLock'[q] = v /\ plan'[q] = plan[q] /\ RoomForVersion(q)
    <3>1. ASSUME NEW q \in {request[v].plan} \cup request[v].others
          PROVE  q \in Plans /\ Exists(q) /\ planLock[q] = v /\ RoomForVersion(q)
      BY <2>1, <2>4 DEF RowsHeld, Displaced, OtherSelected, Exists
    <3>2. QED  BY <3>1 DEF Undisturbed
  <2>6. Exists(request[v].plan)' /\ NotArchived(request[v].plan)'
    BY <2>1, <2>2, <2>5 DEF RowsHeld, Exists, NotArchived
  <2>7. OtherSelected(request[v].plan)' = OtherSelected(request[v].plan)
    BY <2>2, <2>4, <2>5 DEF StatusesStay, OtherSelected, Exists
  <2>8. Displaced(v)' = Displaced(v)
    BY <2>2, <2>7 DEF Displaced
  <2>9. QED  BY <2>1, <2>2, <2>5, <2>6, <2>8 DEF RowsHeld, RoomForVersion
<1>4. QED  BY <1>1, <1>2, <1>3

(* No second plan is selected while statuses stay.                          *)
LEMMA SelectionStays ==
    ASSUME AtMostOneSelected, StatusesStay
    PROVE  AtMostOneSelected'
BY DEF AtMostOneSelected, StatusesStay, Selected

(***************************************************************************)
(* Every step is one of user u that revises plans ps.                      *)
(***************************************************************************)
OthersTyped ==
    /\ job \in [Jobs -> JobRows \cup {NoJob}]
    /\ productLock \in Users \cup {NoOne}
    /\ planLock \in [Plans -> Users \cup {NoOne}]
    /\ request \in [Users -> StatusRequests \cup JobRequests \cup {NoRequest}]
    /\ seen \in [Users -> [Plans -> Versions]]

JobsMade(u) ==
    /\ \A j \in Jobs : job'[j] # job[j] =>
            job'[j] \in JobRows /\ JobRowMatches(job'[j])
    /\ CreatesJob(u)' =>
            request'[u].row \in JobRows /\ JobRowMatches(request'[u].row)

(* What a job, or the request for one, names is still there after the step. *)
LEMMA JobsStaySound ==
    ASSUME TypeOK, JobsSound, RevisionsGrow, NEW u \in Users, OthersTyped', JobsMade(u),
           \A v \in Users \ {u} : request'[v] = request[v]
    PROVE  JobsSound'
<1>1. ASSUME NEW j \in Jobs, job'[j] # NoJob
      PROVE  JobRowMatches(job[j])'
  <2>1. PICK r : r = job'[j]
    OBVIOUS
  <2>2. r \in JobRows
    BY <1>1, <2>1 DEF OthersTyped
  <2>3. JobRowMatches(r)
    BY <1>1, <2>1 DEF JobsSound, JobsMade
  <2>4. JobRowMatches(r)'
    BY <2>2, <2>3, JobRowStays
  <2>5. QED  BY <2>1, <2>4 DEF JobRowMatches
<1>2. ASSUME NEW v \in Users, CreatesJob(v)'
      PROVE  JobRowMatches(request[v].row)'
  <2>1. PICK r : r = request'[v].row
    OBVIOUS
  <2>2. r \in JobRows
    BY <1>2, <2>1 DEF OthersTyped, CreatesJob, Idle, JobRequests, StatusRequests
  <2>3. JobRowMatches(r)
    <3>1. CASE v = u
      BY <1>2, <2>1, <3>1 DEF JobsMade
    <3>2. CASE v # u
      <4>1. request'[v] = request[v]
        BY <3>2
      <4>2. CreatesJob(v)
        BY <1>2, <4>1 DEF CreatesJob, Idle
      <4>3. QED  BY <2>1, <4>1, <4>2 DEF JobsSound
    <3>3. QED  BY <3>1, <3>2
  <2>4. JobRowMatches(r)'
    BY <2>2, <2>3, JobRowStays
  <2>5. QED  BY <2>1, <2>4 DEF JobRowMatches
<1>3. QED  BY <1>1, <1>2 DEF JobsSound

LEMMA SafeStep ==
    ASSUME IInv, NEW u \in Users, NEW ps \in SUBSET Plans, Revised(ps), OthersTyped',
           AtMostOneSelected',
           \A v \in Users \ {u} : Undisturbed(v),
           HasLocked(u, "product")' => productLock' = u,
           HasLocked(u, "rows")' => RowsHeld(u)',
           JobsMade(u)
    PROVE  IInv'
<1> USE DEF IInv
<1>1. /\ revisions' \in [Plans -> Seq(RevisionRows)]
      /\ VersionsStart'
      /\ RevisionsComplete'
      /\ RevisionsGrow
  BY HistoryKept
<1>2. TypeOK'
  BY <1>1 DEF Revised, OthersTyped, TypeOK, RevisionRows
<1>3. LocksHeld'
  BY OthersUndisturbed DEF LocksHeld
<1>4. JobsSound'
  BY <1>1, JobsStaySound DEF Undisturbed
<1>5. QED  BY <1>1, <1>2, <1>3, <1>4

LEMMA NothingRevised ==
    ASSUME TypeOK, UNCHANGED <<plan, revisions>>
    PROVE  Revised({}) /\ StatusesStay
BY DEF TypeOK, Revised, StatusesStay

LEMMA OthersAreTyped ==
    ASSUME TypeOK
    PROVE  OthersTyped
BY DEF TypeOK, OthersTyped

(***************************************************************************)
(* One lemma per operation.                                                *)
(***************************************************************************)
LEMMA GenerateSafe ==
    ASSUME IInv, NEW u \in Users, NEW ps \in SUBSET Plans, NEW type \in Types,
           NEW contents \in [ps -> Contents], Generate(u, ps, type, contents)
    PROVE  IInv'
<1>1. Revised(ps) /\ StatusesStay
  <2>1. 1 \in Versions
    BY VersionAssumption DEF Generate, Versions
  <2>2. ASSUME NEW p \in ps
        PROVE  /\ p \in Plans
               /\ ~Exists(p)
               /\ plan[p].version = 0
               /\ plan'[p].version = 1
               /\ plan'[p].status = "draft"
               /\ plan'[p] \in Rows
               /\ revisions'[p] = Append(revisions[p], RevisionOf(plan'[p]))
    <3>1. p \in Plans /\ ~Exists(p) /\ plan[p].version = 0
      BY DEF Generate, IInv, VersionsStart
    <3>2. plan'[p] = [type |-> type, status |-> "draft",
                      content |-> contents[p], version |-> 1]
      BY <3>1 DEF Generate, Revise
    <3>3. contents[p] \in Contents
      OBVIOUS
    <3>4. plan'[p] \in Rows
      BY <2>1, <3>2, <3>3 DEF Rows, PlanStatuses
    <3>5. plan'[p].version = 1 /\ plan'[p].status = "draft"
      BY <3>2
    <3>6. revisions'[p] = Append(revisions[p], RevisionOf(plan'[p]))
      BY <3>1, <3>2 DEF Generate, Revise
    <3>7. QED  BY <3>1, <3>4, <3>5, <3>6
  <2>3. plan' \in [Plans -> Rows]
    BY <2>2 DEF Generate, Revise, IInv, TypeOK
  <2>4. \A p \in Plans \ ps : plan'[p] = plan[p]
    BY DEF Generate, Revise
  <2>5. revisions' = [p \in Plans |->
            IF p \in ps THEN Append(revisions[p], RevisionOf(plan'[p])) ELSE revisions[p]]
    BY <2>2 DEF Generate, Revise
  <2>6. \A p \in ps : plan'[p].version = plan[p].version + 1 /\ plan'[p].status # "absent"
    BY <2>2
  <2>7. StatusesStay
    BY <2>2, <2>4 DEF StatusesStay
  <2>8. QED  BY <2>3, <2>4, <2>5, <2>6, <2>7 DEF Revised
<1>2. AtMostOneSelected'
  BY <1>1, SelectionStays DEF IInv
<1>3. UNCHANGED <<job, locks, request, seen>>
  BY DEF Generate
<1>4. OthersTyped'
  BY <1>3, OthersAreTyped DEF IInv, OthersTyped, locks
<1>5. ASSUME NEW v \in Users \ {u} PROVE Undisturbed(v)
  <2>1. \A p \in Plans : Exists(p) => plan'[p] = plan[p]
    BY DEF Generate, Revise
  <2>2. QED  BY <1>1, <1>3, <2>1 DEF Undisturbed, locks
<1>6. /\ ~HasLocked(u, "product")' /\ ~HasLocked(u, "rows")'
      /\ JobsMade(u)
  BY <1>3 DEF Generate, HasLocked, JobsMade, CreatesJob, Idle
<1>7. QED  BY <1>1, <1>2, <1>4, <1>5, <1>6, SafeStep

(* A step that leaves the plans alone: only what its user gains or gives up *)
(* is at stake.                                                             *)
LEMMA QuietStep ==
    ASSUME IInv, NEW u \in Users, UNCHANGED <<plan, revisions>>, OthersTyped',
           \A v \in Users \ {u} :
               /\ request'[v] = request[v]
               /\ productLock = v => productLock' = v
               /\ \A p \in Plans : planLock[p] = v => planLock'[p] = v,
           HasLocked(u, "product")' => productLock' = u,
           HasLocked(u, "rows")' => RowsHeld(u)',
           JobsMade(u)
    PROVE  IInv'
<1>1. Revised({}) /\ StatusesStay
  BY NothingRevised DEF IInv
<1>2. AtMostOneSelected'
  BY <1>1, SelectionStays DEF IInv
<1>3. \A v \in Users \ {u} : Undisturbed(v)
  BY <1>1 DEF Undisturbed
<1>4. {} \in SUBSET Plans
  OBVIOUS
<1>5. QED  BY <1>1, <1>2, <1>3, <1>4, SafeStep

LEMMA ReadSafe ==
    ASSUME IInv, NEW u \in Users, NEW p \in Plans, Read(u, p)
    PROVE  IInv'
<1>1. UNCHANGED <<plan, revisions, job, productLock, planLock, request>> /\ Idle(u)
  BY DEF Read, locks
<1>2. plan[p].version \in Versions
  BY DEF IInv, TypeOK, Rows
<1>3. seen' \in [Users -> [Plans -> Versions]]
  BY <1>2 DEF Read, IInv, TypeOK
<1>4. OthersTyped'
  BY <1>1, <1>3, OthersAreTyped DEF IInv, OthersTyped
<1>5. /\ ~HasLocked(u, "product")' /\ ~HasLocked(u, "rows")'
      /\ JobsMade(u)
  BY <1>1 DEF HasLocked, JobsMade, CreatesJob, Idle
<1>6. QED  BY <1>1, <1>4, <1>5, QuietStep

LEMMA BeginStatusSafe ==
    ASSUME IInv, NEW u \in Users, NEW p \in Plans, NEW status \in PlanStatuses,
           BeginStatus(u, p, status)
    PROVE  IInv'
<1> DEFINE r == [kind |-> "status", plan |-> p, status |-> status,
                 at |-> "product", others |-> {}]
<1>1. /\ UNCHANGED <<plan, revisions, job, planLock, seen>>
      /\ productLock = NoOne /\ productLock' = u
      /\ request' = [request EXCEPT ![u] = r]
  BY DEF BeginStatus, LockProduct, Request
<1>2. r \in StatusRequests
  BY DEF StatusRequests
<1>3. request'[u] = r /\ \A v \in Users \ {u} : request'[v] = request[v]
  BY <1>1 DEF IInv, TypeOK
<1>4. request' \in [Users -> StatusRequests \cup JobRequests \cup {NoRequest}]
  BY <1>1, <1>2 DEF IInv, TypeOK
<1>5. OthersTyped'
  BY <1>1, <1>4, OthersAreTyped DEF IInv, OthersTyped
<1>6. ~HasLocked(u, "rows")' /\ JobsMade(u)
  BY <1>1, <1>3 DEF HasLocked, JobsMade, CreatesJob, Idle
<1>7. QED  BY <1>1, <1>3, <1>5, <1>6, NullAssumption, QuietStep

(* A request that has locked something is a change of status.               *)
LEMMA StatusRequestTyped ==
    ASSUME TypeOK, NEW u \in Users, NEW what, HasLocked(u, what)
    PROVE  /\ request[u] \in StatusRequests
           /\ request[u].plan \in Plans
           /\ request[u].status \in PlanStatuses
           /\ request[u].others \subseteq Plans
<1>1. request[u] \in StatusRequests
  BY DEF TypeOK, HasLocked, Idle, JobRequests
<1>2. QED  BY <1>1 DEF StatusRequests

LEMMA LockRowsSafe ==
    ASSUME IInv, NEW u \in Users, LockRows(u)
    PROVE  IInv'
<1> DEFINE p == request[u].plan
           others == Displaced(u)
           r == [request[u] EXCEPT !.at = "rows", !.others = others]
<1>1. /\ HasLocked(u, "product")
      /\ VersionMatches(u, p)
      /\ StatusAllowed(p, request[u].status)
      /\ \A q \in {p} \cup others : Free(q) /\ RoomForVersion(q)
      /\ planLock' = [q \in Plans |-> IF q \in {p} \cup others THEN u ELSE planLock[q]]
      /\ request' = [request EXCEPT ![u] = r]
      /\ UNCHANGED <<plan, revisions, job, productLock, seen>>
  BY DEF LockRows, Displaced, Request
<1>2. /\ request[u] \in StatusRequests
      /\ p \in Plans
      /\ request[u].status \in PlanStatuses
  BY <1>1, StatusRequestTyped DEF IInv
<1>3. others \subseteq Plans
  BY DEF Displaced, OtherSelected
<1> HIDE DEF others
<1>4. /\ r \in StatusRequests
      /\ r.kind = "status" /\ r.plan = p /\ r.status = request[u].status
      /\ r.at = "rows" /\ r.others = others
  BY <1>2, <1>3 DEF StatusRequests
<1> HIDE DEF r
<1>5. request'[u] = r /\ \A v \in Users \ {u} : request'[v] = request[v]
  BY <1>1 DEF IInv, TypeOK
<1>6. request' \in [Users -> StatusRequests \cup JobRequests \cup {NoRequest}]
  BY <1>1, <1>4 DEF IInv, TypeOK
<1>7. planLock' \in [Plans -> Users \cup {NoOne}]
  BY <1>1 DEF IInv, TypeOK
<1>8. OthersTyped'
  BY <1>1, <1>6, <1>7, OthersAreTyped DEF IInv, OthersTyped
<1>9. ASSUME NEW v \in Users \ {u}, NEW q \in Plans, planLock[q] = v
      PROVE  planLock'[q] = v
  <2>1. ~Free(q)
    BY <1>9, NullAssumption DEF Free
  <2>2. QED  BY <1>1, <1>9, <2>1
<1>10. productLock' = u
  BY <1>1 DEF IInv, LocksHeld
<1>11. RowsHeld(u)'
  <2>1. request[u].plan' = p /\ request'[u].status = request[u].status
        /\ request'[u].others = others
    BY <1>4, <1>5
  <2>2. Displaced(u)' = others
    BY <1>1, <2>1 DEF others, Displaced, OtherSelected
  <2>3. \A q \in {p} \cup others : planLock'[q] = u /\ RoomForVersion(q)'
    BY <1>1, <1>2, <1>3 DEF RoomForVersion
  <2>4. Exists(p)' /\ NotArchived(p)'
    BY <1>1, <2>1 DEF VersionMatches, StatusAllowed, Exists, NotArchived
  <2>5. QED  BY <1>10, <2>1, <2>2, <2>3, <2>4 DEF RowsHeld, Exists, NotArchived, RoomForVersion
<1>12. JobsMade(u)
  BY <1>1, <1>4, <1>5 DEF JobsMade, CreatesJob
<1>13. QED  BY <1>1, <1>5, <1>8, <1>9, <1>10, <1>11, <1>12, QuietStep

(* A request that ends holds nothing, and takes no lock from another.       *)
LEMMA Released ==
    ASSUME TypeOK, NEW u \in Users, Release(u)
    PROVE  /\ productLock' \in Users \cup {NoOne}
           /\ planLock' \in [Plans -> Users \cup {NoOne}]
           /\ request' \in [Users -> StatusRequests \cup JobRequests \cup {NoRequest}]
           /\ request'[u] = NoRequest
           /\ \A v \in Users \ {u} :
                /\ request'[v] = request[v]
                /\ productLock = v => productLock' = v
                /\ \A p \in Plans : planLock[p] = v => planLock'[p] = v
BY DEF TypeOK, Release, Request

LEMMA GiveUpSafe ==
    ASSUME IInv, NEW u \in Users, GiveUp(u)
    PROVE  IInv'
<1>1. UNCHANGED <<plan, revisions, job, seen>> /\ Release(u)
  BY DEF GiveUp
<1>2. OthersTyped'
  BY <1>1, Released, OthersAreTyped DEF IInv, OthersTyped
<1>3. request'[u] = NoRequest
  BY <1>1, Released DEF IInv
<1>4. /\ ~HasLocked(u, "product")' /\ ~HasLocked(u, "rows")'
      /\ JobsMade(u)
  BY <1>1, <1>3 DEF HasLocked, JobsMade, CreatesJob, Idle
<1>5. QED  BY <1>1, <1>2, <1>4, Released, QuietStep DEF IInv

LEMMA ReadPlanSafe ==
    ASSUME IInv, NEW u \in Users, NEW p \in Plans, ReadPlan(u, p)
    PROVE  IInv'
<1> DEFINE row == [plan |-> p, version |-> plan[p].version, content |-> plan[p].content]
           r == [kind |-> "job", row |-> row]
<1>1. /\ UNCHANGED <<plan, revisions, job, productLock, planLock, seen>>
      /\ Selected(p)
      /\ request' = [request EXCEPT ![u] = r]
  BY DEF ReadPlan, Request, locks
<1>2. plan[p] \in Rows
  BY DEF IInv, TypeOK
<1>3. row \in JobRows
  BY <1>2 DEF JobRows, Rows
<1>4. JobRowMatches(row)
  <2>1. Exists(p) /\ plan[p].version \in Nat /\ plan[p].version # 0
    BY <1>1, <1>2 DEF Selected, Exists, Rows, Versions, IInv, VersionsStart
  <2>2. /\ Len(revisions[p]) = plan[p].version
        /\ revisions[p][plan[p].version] = RevisionOf(plan[p])
    BY <2>1 DEF IInv, RevisionsComplete
  <2>3. QED  BY <1>1, <2>1, <2>2 DEF JobRowMatches, RevisionOf, Selected
<1> HIDE DEF row
<1>5. r \in JobRequests /\ r.row = row /\ r.kind = "job"
  BY <1>3 DEF JobRequests
<1> HIDE DEF r
<1>6. request'[u] = r /\ \A v \in Users \ {u} : request'[v] = request[v]
  BY <1>1 DEF IInv, TypeOK
<1>7. request' \in [Users -> StatusRequests \cup JobRequests \cup {NoRequest}]
  BY <1>1, <1>5 DEF IInv, TypeOK
<1>8. OthersTyped'
  BY <1>1, <1>7, OthersAreTyped DEF IInv, OthersTyped
<1>9. ~HasLocked(u, "product")' /\ ~HasLocked(u, "rows")'
  BY <1>5, <1>6 DEF HasLocked
<1>10. JobsMade(u)
  BY <1>1, <1>3, <1>4, <1>5, <1>6 DEF JobsMade
<1>11. QED  BY <1>1, <1>6, <1>8, <1>9, <1>10, QuietStep

(* The end of a request for a job: the job inserted, if any, is the one it  *)
(* asked for.                                                               *)
LEMMA JobRequestEnds ==
    ASSUME IInv, NEW u \in Users, CreatesJob(u),
           UNCHANGED <<plan, revisions, productLock, planLock, seen>>,
           request' = [request EXCEPT ![u] = NoRequest],
           NEW j \in Jobs, job' \in {job, [job EXCEPT ![j] = request[u].row]}
    PROVE  IInv'
<1>1. /\ request'[u] = NoRequest
      /\ \A v \in Users \ {u} : request'[v] = request[v]
      /\ request' \in [Users -> StatusRequests \cup JobRequests \cup {NoRequest}]
  BY DEF IInv, TypeOK
<1>2. /\ request[u].row \in JobRows
      /\ JobRowMatches(request[u].row)
  BY DEF IInv, TypeOK, JobsSound, CreatesJob, Idle, JobRequests, StatusRequests
<1>3. /\ job' \in [Jobs -> JobRows \cup {NoJob}]
      /\ \A k \in Jobs : job'[k] # job[k] => job'[k] = request[u].row
  BY <1>2 DEF IInv, TypeOK
<1>4. OthersTyped'
  BY <1>1, <1>3, OthersAreTyped DEF IInv, OthersTyped
<1>5. ~HasLocked(u, "product")' /\ ~HasLocked(u, "rows")' /\ ~CreatesJob(u)'
  BY <1>1 DEF HasLocked, CreatesJob, Idle
<1>6. JobsMade(u)
  BY <1>2, <1>3, <1>5 DEF JobsMade
<1>7. QED  BY <1>1, <1>4, <1>5, <1>6, QuietStep

LEMMA InsertJobSafe ==
    ASSUME IInv, NEW u \in Users, NEW j \in Jobs, InsertJob(u, j) \/ AnswerExisting(u, j)
    PROVE  IInv'
BY JobRequestEnds DEF InsertJob, AnswerExisting, Request, locks

(* There is a next version for a row that has room for it.                  *)
LEMMA NextVersion ==
    ASSUME NEW r \in Rows, r.version < MaxVersion
    PROVE  r.version + 1 \in Versions
BY VersionAssumption DEF Rows, Versions

LEMMA EditSafe ==
    ASSUME IInv, NEW u \in Users, NEW p \in Plans, NEW content \in Contents,
           Edit(u, p, content)
    PROVE  IInv'
<1> DEFINE new == [plan[p] EXCEPT !.content = content, !.version = @ + 1]
<1>1. /\ Idle(u) /\ Free(p) /\ Exists(p) /\ RoomForVersion(p)
      /\ UNCHANGED <<job, productLock, planLock, request, seen>>
  BY DEF Edit, locks, VersionMatches
<1>2. /\ plan' = [q \in Plans |-> IF q = p THEN new ELSE plan[q]]
      /\ revisions' = [q \in Plans |->
            IF q = p THEN Append(revisions[q], RevisionOf(new)) ELSE revisions[q]]
  BY DEF Edit, Revise
<1>3. plan[p] \in Rows
  BY DEF IInv, TypeOK
<1>4. /\ new \in Rows
      /\ new.version = plan[p].version + 1
      /\ new.status = plan[p].status
      /\ new.type = plan[p].type
  <2>1. plan[p].version + 1 \in Versions
    BY <1>1, <1>3, NextVersion DEF RoomForVersion
  <2>2. new \in Rows
    BY <1>3, <2>1 DEF Rows
  <2>3. /\ new.version = plan[p].version + 1
        /\ new.status = plan[p].status
        /\ new.type = plan[p].type
    BY <1>3 DEF Rows
  <2>4. QED  BY <2>2, <2>3
<1> HIDE DEF new
<1>5. plan' \in [Plans -> Rows] /\ plan'[p] = new
  BY <1>2, <1>4 DEF IInv, TypeOK
<1>6. Revised({p}) /\ StatusesStay
  BY <1>1, <1>2, <1>4, <1>5 DEF Revised, StatusesStay, Exists
<1>7. AtMostOneSelected'
  BY <1>6, SelectionStays DEF IInv
<1>8. OthersTyped'
  BY <1>1, OthersAreTyped DEF IInv, OthersTyped
<1>9. ASSUME NEW v \in Users \ {u} PROVE Undisturbed(v)
  <2>1. planLock[p] # v
    BY <1>1, NullAssumption DEF Free
  <2>2. QED  BY <1>1, <1>2, <1>6, <2>1 DEF Undisturbed
<1>10. /\ ~HasLocked(u, "product")' /\ ~HasLocked(u, "rows")'
       /\ JobsMade(u)
  BY <1>1 DEF HasLocked, JobsMade, CreatesJob, Idle
<1>11. QED  BY <1>6, <1>7, <1>8, <1>9, <1>10, SafeStep

LEMMA CommitStatusSafe ==
    ASSUME IInv, NEW u \in Users, CommitStatus(u)
    PROVE  IInv'
<1>1. HasLocked(u, "rows")
  BY DEF CommitStatus
<1>2. PICK p \in Plans : p = request[u].plan
  BY <1>1, StatusRequestTyped DEF IInv
<1> DEFINE others == request[u].others
           ps == {p} \cup others
           status == request[u].status
           new(q) == [plan[q] EXCEPT !.status = IF q = p THEN status ELSE "draft",
                                     !.version = @ + 1]
<1>3. /\ Release(u)
      /\ UNCHANGED <<job, seen>>
      /\ plan' = [q \in Plans |-> IF q \in ps THEN new(q) ELSE plan[q]]
      /\ revisions' = [q \in Plans |->
            IF q \in ps THEN Append(revisions[q], RevisionOf(new(q))) ELSE revisions[q]]
  BY <1>2 DEF CommitStatus, Revise
<1>4. status \in PlanStatuses /\ others \subseteq Plans
  BY <1>1, StatusRequestTyped DEF IInv
<1>5. RowsHeld(u)
  BY <1>1, <1>2 DEF IInv, LocksHeld
<1>6. ASSUME NEW q \in ps
      PROVE  /\ new(q) \in Rows
             /\ new(q).version = plan[q].version + 1
             /\ new(q).status = IF q = p THEN status ELSE "draft"
             /\ new(q).type = plan[q].type
  <2>1. q \in Plans /\ plan[q] \in Rows /\ plan[q].version < MaxVersion
    BY <1>2, <1>4, <1>5 DEF RowsHeld, RoomForVersion, IInv, TypeOK
  <2>2. (IF q = p THEN status ELSE "draft") \in PlanStatuses
    BY <1>2, <1>4 DEF PlanStatuses
  <2>3. plan[q].version + 1 \in Versions
    BY <2>1, NextVersion
  <2>4. new(q) \in Rows
    BY <2>1, <2>2, <2>3 DEF Rows
  <2>5. /\ new(q).version = plan[q].version + 1
        /\ new(q).status = IF q = p THEN status ELSE "draft"
        /\ new(q).type = plan[q].type
    BY <2>1 DEF Rows
  <2>6. QED  BY <2>4, <2>5
<1> HIDE DEF new
<1>7. \A q \in ps : plan'[q] = new(q)
  BY <1>3, <1>2, <1>4
<1>8. plan' \in [Plans -> Rows]
  BY <1>3, <1>6 DEF IInv, TypeOK
<1>9. Revised(ps)
  <2>1. \A q \in ps : plan'[q].version = plan[q].version + 1 /\ plan'[q].status # "absent"
    BY <1>2, <1>4, <1>6, <1>7 DEF PlanStatuses
  <2>2. \A q \in Plans \ ps : plan'[q] = plan[q]
    BY <1>3
  <2>3. revisions' = [q \in Plans |->
            IF q \in ps THEN Append(revisions[q], RevisionOf(plan'[q])) ELSE revisions[q]]
    BY <1>3, <1>7
  <2>4. QED  BY <1>8, <2>1, <2>2, <2>3 DEF Revised
<1>10. AtMostOneSelected'
  <2>1. ASSUME NEW q1 \in Plans, NEW q2 \in Plans, Selected(q1)', Selected(q2)',
               plan'[q1].type = plan'[q2].type, q1 # q2
        PROVE  FALSE
    <3>1. \A q \in Plans : plan'[q].type = plan[q].type
      BY <1>3, <1>6, <1>7
    <3>2. \A q \in Plans \ {p} : Selected(q)' => Selected(q) /\ q \notin others
      BY <1>3, <1>2, <1>4, <1>6, <1>7 DEF Selected
    <3>3. CASE q1 # p /\ q2 # p
      BY <2>1, <3>1, <3>2, <3>3 DEF IInv, AtMostOneSelected
    <3>4. ASSUME NEW q \in Plans \ {p}, Selected(q)', Selected(p)',
                 plan'[q].type = plan'[p].type
          PROVE  FALSE
      <4>1. status = "selected"
        BY <1>2, <1>4, <1>6, <1>7, <3>4 DEF Selected
      <4>2. others = OtherSelected(p)
        BY <1>2, <1>5, <4>1 DEF RowsHeld, Displaced
      <4>3. q \in OtherSelected(p)
        BY <1>2, <1>4, <3>1, <3>2, <3>4 DEF OtherSelected, Selected
      <4>4. QED  BY <3>2, <3>4, <4>2, <4>3
    <3>5. QED  BY <1>2, <1>4, <2>1, <3>3, <3>4
  <2>2. QED  BY <2>1 DEF AtMostOneSelected
<1>11. OthersTyped'
  BY <1>3, Released, OthersAreTyped DEF IInv, OthersTyped
<1>12. ASSUME NEW v \in Users \ {u} PROVE Undisturbed(v)
  <2>1. productLock # v /\ \A q \in ps : planLock[q] # v
    BY <1>2, <1>5 DEF RowsHeld
  <2>2. /\ request'[v] = request[v]
        /\ \A q \in Plans : planLock[q] = v => planLock'[q] = v
    BY <1>3, Released DEF IInv
  <2>3. \A q \in Plans : planLock[q] = v => plan'[q] = plan[q]
    BY <1>3, <2>1
  <2>4. QED  BY <2>1, <2>2, <2>3 DEF Undisturbed
<1>13. request'[u] = NoRequest
  BY <1>3, Released DEF IInv
<1>14. /\ ~HasLocked(u, "product")' /\ ~HasLocked(u, "rows")'
       /\ JobsMade(u)
  BY <1>3, <1>13 DEF HasLocked, JobsMade, CreatesJob, Idle
<1>15. ps \in SUBSET Plans
  BY <1>2, <1>4
<1> HIDE DEF ps
<1>16. QED  BY <1>9, <1>10, <1>11, <1>12, <1>14, <1>15, SafeStep

(***************************************************************************)
(* The theorems.                                                           *)
(***************************************************************************)
LEMMA InitSafe == Init => IInv
<1> SUFFICES ASSUME Init PROVE IInv
  OBVIOUS
<1>1. /\ plan = [p \in Plans |-> AbsentRow]
      /\ revisions = [p \in Plans |-> <<>>]
      /\ \A u \in Users : Idle(u)
      /\ \A j \in Jobs : job[j] = NoJob
  BY DEF Init, Idle
<1>2. 0 \in Versions
  BY VersionAssumption DEF Versions
<1>3. AbsentRow \in Rows
  BY <1>2 DEF AbsentRow, Rows
<1>4. TypeOK
  <2>1. plan \in [Plans -> Rows]
    BY <1>1, <1>3
  <2>2. revisions \in [Plans -> Seq([version: Versions, content: Contents \cup {NoContent},
                                     status: PlanStatuses])]
    BY <1>1
  <2>3. seen \in [Users -> [Plans -> Versions]]
    BY <1>2 DEF Init
  <2>4. QED  BY <2>1, <2>2, <2>3 DEF Init, TypeOK
<1>5. VersionsStart /\ RevisionsComplete
  BY <1>1 DEF VersionsStart, RevisionsComplete, Exists, AbsentRow
<1>6. JobsSound /\ LocksHeld
  BY <1>1 DEF JobsSound, LocksHeld, CreatesJob, HasLocked
<1>7. AtMostOneSelected
  BY <1>1 DEF AtMostOneSelected, Selected, AbsentRow
<1>8. QED  BY <1>4, <1>5, <1>6, <1>7 DEF IInv

LEMMA StepSafe == IInv /\ [Next]_vars => IInv'
<1> SUFFICES ASSUME IInv, [Next]_vars PROVE IInv'
  OBVIOUS
<1>1. CASE UNCHANGED vars
  <2>1. TypeOK' /\ VersionsStart'
    BY <1>1 DEF vars, IInv, TypeOK, VersionsStart, Exists
  <2>2. RevisionsComplete'
    BY <1>1 DEF vars, IInv, RevisionsComplete, RevisionOf, Exists
  <2>3. JobsSound'
    BY <1>1 DEF vars, IInv, JobsSound, JobRowMatches, CreatesJob, Idle
  <2>4. LocksHeld'
    BY <1>1 DEF vars, IInv, LocksHeld, HasLocked, Idle, RowsHeld, Displaced, OtherSelected,
                Exists, NotArchived, RoomForVersion
  <2>5. AtMostOneSelected'
    BY <1>1 DEF vars, IInv, AtMostOneSelected, Selected
  <2>6. QED  BY <2>1, <2>2, <2>3, <2>4, <2>5 DEF IInv
<1>2. CASE Next
  BY <1>2, GenerateSafe, ReadSafe, EditSafe, BeginStatusSafe, LockRowsSafe, GiveUpSafe,
     CommitStatusSafe, ReadPlanSafe, InsertJobSafe DEF Next
<1>3. QED  BY <1>1, <1>2

(* The inductive invariant holds in every state.                            *)
THEOREM Invariance == Spec => []IInv
BY InitSafe, StepSafe, PTL DEF Spec

(* Every row, lock and request has its type.                                *)
THEOREM TypeCorrect == Spec => []TypeOK
<1>1. IInv => TypeOK
  BY DEF IInv
<1>2. QED  BY <1>1, Invariance, PTL

(* However the changes of status of a product's plans interleave,           *)
(* update_creative_plan_status never leaves two plans of a type selected.   *)
THEOREM OneSelected == Spec => []AtMostOneSelected
<1>1. IInv => AtMostOneSelected
  BY DEF IInv
<1>2. QED  BY <1>1, Invariance, PTL

(* Every version of a plan, also the one in which it lost its place, has    *)
(* the revision that _add_revision wrote for it.                            *)
THEOREM HistoryComplete == Spec => []RevisionsComplete
<1>1. IInv => RevisionsComplete
  BY DEF IInv
<1>2. QED  BY <1>1, Invariance, PTL

(* create_generation_job reads the plan without a lock, yet a job carries   *)
(* the content of a version in which its plan was selected.                 *)
THEOREM JobsCorrect == Spec => []JobsMatchRevisions
<1>1. IInv => JobsMatchRevisions
  BY DEF IInv, JobsSound, JobRowMatches, JobsMatchRevisions
<1>2. QED  BY <1>1, Invariance, PTL

(* What a step may do to a plan that exists: nothing, an edit by a user who *)
(* had read the version, or a change of status that keeps the content.      *)
LEMMA PlanMoves ==
    ASSUME IInv, [Next]_vars, NEW p \in Plans, Exists(p), plan'[p] # plan[p]
    PROVE  /\ NotArchived(p)
           /\ \/ plan'[p].content = plan[p].content
              \/ \E u \in Users : seen[u][p] = plan[p].version
<1>1. ASSUME NEW u \in Users, NEW ps \in SUBSET Plans, NEW type \in Types,
             NEW contents \in [ps -> Contents], Generate(u, ps, type, contents)
      PROVE  FALSE
  BY <1>1 DEF Generate, Revise
<1>2. ASSUME NEW u \in Users, NEW q \in Plans, NEW content \in Contents, Edit(u, q, content)
      PROVE  NotArchived(p) /\ seen[u][p] = plan[p].version
  <2>1. q = p
    BY <1>2 DEF Edit, Revise
  <2>2. QED  BY <1>2, <2>1 DEF Edit, VersionMatches
<1>3. ASSUME NEW u \in Users, CommitStatus(u)
      PROVE  NotArchived(p) /\ plan'[p].content = plan[p].content
  <2>1. HasLocked(u, "rows")
    BY <1>3 DEF CommitStatus
  <2>2. RowsHeld(u)
    BY <2>1 DEF IInv, LocksHeld
  <2>3. p \in {request[u].plan} \cup request[u].others
    BY <1>3 DEF CommitStatus, Revise
  <2>4. NotArchived(p)
    BY <2>2, <2>3 DEF RowsHeld, Displaced, OtherSelected, NotArchived
  <2>5. plan[p] \in Rows
    BY DEF IInv, TypeOK
  <2>6. plan'[p] = [plan[p] EXCEPT
            !.status = IF p = request[u].plan THEN request[u].status ELSE "draft",
            !.version = @ + 1]
    BY <1>3, <2>3 DEF CommitStatus, Revise
  <2>7. QED  BY <2>4, <2>5, <2>6 DEF Rows
<1>4. plan' # plan
  OBVIOUS
<1>5. PICK u \in Users :
        \/ \E ps \in SUBSET Plans, type \in Types :
            \E contents \in [ps -> Contents] : Generate(u, ps, type, contents)
        \/ \E q \in Plans, content \in Contents : Edit(u, q, content)
        \/ CommitStatus(u)
  BY <1>4 DEF Next, vars, Read, BeginStatus, LockRows, GiveUp, ReadPlan, InsertJob,
              AnswerExisting
<1>6. QED  BY <1>1, <1>2, <1>3, <1>5

(* No request changes an archived plan, whenever it was archived.           *)
THEOREM ArchivedForGood == Spec => ArchivedStays
<1>1. IInv /\ [Next]_vars =>
        [\A p \in Plans : plan[p].status = "archived" => plan'[p] = plan[p]]_vars
  BY PlanMoves DEF NotArchived, Exists
<1>2. QED  BY <1>1, Invariance, PTL DEF Spec, ArchivedStays

(* update_creative_plan replaces content only for a user who had read it.   *)
THEOREM NoLostEdits == Spec => EditsInformed
<1>1. IInv /\ [Next]_vars =>
        [\A p \in Plans : Exists(p) /\ plan'[p].content # plan[p].content =>
            \E u \in Users : seen[u][p] = plan[p].version]_vars
  BY PlanMoves
<1>2. QED  BY <1>1, Invariance, PTL DEF Spec, EditsInformed
=============================================================================
