-------------------------- MODULE PerformanceReviews --------------------------
(***************************************************************************)
(* The operating records of a product (services/performance.py, and their  *)
(* import in services/imports.py), the reviews generated from them         *)
(* (services/review_reports.py) and the diagnoses that follow a review     *)
(* (services/diagnoses.py).                                                *)
(*                                                                         *)
(* A request reads under the view its first query fixed, which is the one  *)
(* that authenticates its user.  The product is locked only later, so the  *)
(* search for overlapping records, although it is made under the lock,     *)
(* answers for the view: it is part of the step that opens the request.    *)
(* The UPDATE of a row compares the version the user saw with the one that *)
(* is current; a page older than the view can only lose, so that a request *)
(* here expects the version its view shows.                                *)
(*                                                                         *)
(* Records of other products never meet these.  The figures of a record,   *)
(* the ratios derived from them and the references to plans, assets, links *)
(* and experiments are left out.  Texts are one value each.                *)
(*                                                                         *)
(* An operator whose name extends that of the next one is a slip of the    *)
(* code that the properties below must notice; no action uses it.          *)
(***************************************************************************)
EXTENDS Naturals, Sequences, FiniteSets, Functions

CONSTANTS
    Records,        \* records that may be entered
    Reports,        \* review reports that may be generated
    Diagnoses,      \* diagnoses that may be generated
    Requests,       \* requests that may be under way at once
    Texts,          \* contents of a report or a diagnosis
    MaxDay,         \* bound on the days of a period
    MaxVersion,     \* bound on versions
    NoText, NoReport

ASSUME BoundAssumption == MaxDay \in Nat /\ MaxVersion \in Nat \ {0}
ASSUME NullAssumption == NoText \notin Texts /\ NoReport \notin Reports

VARIABLES
    record,         \* performance_records rows of the product
    batch,          \* an import batch of performance_records
    report,         \* review_reports rows
    revisions,      \* review_report_revisions of each report
    diagnosis,      \* product_diagnoses rows
    request,        \* what each request has read
    unseen,         \* records given a period since the request read them
    blind           \* pairs of records, one given its period without seeing the other's

vars == <<record, batch, report, revisions, diagnosis, request, unseen, blind>>

(***************************************************************************)
(* Periods and rows.                                                       *)
(***************************************************************************)

(* A period includes its first and its last day.                            *)
Periods == {p \in [start: 1..MaxDay, end: 1..MaxDay] : p.start <= p.end}

OverlapOpen(p, o) == p.start < o.end /\ p.end > o.start

Overlap(p, o) == p.start <= o.end /\ p.end >= o.start

Disjoint(ps) == \A p, o \in ps : Overlap(p, o) => p = o

Within(p, whole) == p.start >= whole.start /\ p.end <= whole.end

NoPeriod == [start |-> 0, end |-> 0]

RecordRows == [status: {"absent", "active", "voided"}, version_no: 0..MaxVersion,
               period: Periods \cup {NoPeriod}]

AbsentRecord == [status |-> "absent", version_no |-> 0, period |-> NoPeriod]

NewRecord(p) == [status |-> "active", version_no |-> 1, period |-> p]

(* rows: the periods of the valid rows.                                     *)
BatchRows == [status: {"absent", "validated", "completed"}, rows: SUBSET Periods]

(* covers: the frozen snapshot of the records, by their periods.            *)
ReportRows == [version_no: 0..MaxVersion, content: Texts \cup {NoText},
               period: Periods \cup {NoPeriod},
               covers: SUBSET [id: Records, period: Periods]]

AbsentReport == [version_no |-> 0, content |-> NoText, period |-> NoPeriod, covers |-> {}]

(* cited: the text of the source review the provider was given.             *)
DiagnosisRows == [version_no: 0..MaxVersion, content: Texts \cup {NoText},
                  source: Reports \cup {NoReport}, cited: Texts \cup {NoText}]

AbsentDiagnosis == [version_no |-> 0, content |-> NoText, source |-> NoReport, cited |-> NoText]

Idle == [at |-> "idle"]

RequestStates ==
    {Idle}
    \cup [at: {"creating"}, period: Periods]
    \cup [at: {"moving"}, id: Records, expected: 1..MaxVersion, period: Periods]
    \cup [at: {"voiding"}, id: Records, expected: 1..MaxVersion]
    \cup [at: {"importing"}, rows: SUBSET Periods]
    \cup [at: {"reviewing"}, period: Periods, covers: SUBSET [id: Records, period: Periods]]
    \cup [at: {"editing_report"}, id: Reports, expected: 1..MaxVersion]
    \cup [at: {"diagnosing"}, source: Reports \cup {NoReport}, cited: Texts \cup {NoText}]
    \cup [at: {"editing_diagnosis"}, id: Diagnoses, expected: 1..MaxVersion]

Init ==
    /\ record = [i \in Records |-> AbsentRecord]
    /\ batch = [status |-> "absent", rows |-> {}]
    /\ report = [p \in Reports |-> AbsentReport]
    /\ revisions = [p \in Reports |-> <<>>]
    /\ diagnosis = [d \in Diagnoses |-> AbsentDiagnosis]
    /\ request = [q \in Requests |-> Idle]
    /\ unseen = [q \in Requests |-> {}]
    /\ blind = {}

Goto(q, state) ==
    /\ request' = [request EXCEPT ![q] = state]
    /\ unseen' = [unseen EXCEPT ![q] = {}]

(* A request opens: its view is the state of the tables now.                *)
Open(q, state) ==
    /\ request[q].at = "idle"
    /\ Goto(q, state)
    /\ UNCHANGED <<record, batch, report, revisions, diagnosis, blind>>

(***************************************************************************)
(* Records.                                                                *)
(***************************************************************************)

Active == {i \in Records : record[i].status = "active"}

AvailableButEnds(p, i) == \A j \in Active \ {i} : ~OverlapOpen(p, record[j].period)

(* _ensure_period_available: of the records other than i.                   *)
Available(p, i) == \A j \in Active \ {i} : ~Overlap(p, record[j].period)

Absent == {i \in Records : record[i].status = "absent"}

AvailableToNew(p) == \A j \in Active : ~Overlap(p, record[j].period)

ChangesRecords(q) == request[q].at \in {"creating", "moving", "importing"}

(* Request q has given the records in entered their periods.  No guard      *)
(* reads what is noted of it.                                               *)
Enter(q, entered) ==
    /\ request' = [request EXCEPT ![q] = Idle]
    /\ unseen' = [r \in Requests |->
                    IF r # q /\ ChangesRecords(r) THEN unseen[r] \cup entered ELSE {}]
    /\ blind' = blind \cup {{i, j} : i \in entered, j \in unseen[q]}

OpenCreate(q, p) ==
    /\ AvailableToNew(p)
    /\ Open(q, [at |-> "creating", period |-> p])

CreateRecord(q) ==
    /\ request[q].at = "creating"
    /\ \E i \in Absent :
        /\ record' = [record EXCEPT ![i] = NewRecord(request[q].period)]
        /\ Enter(q, {i})
    /\ UNCHANGED <<batch, report, revisions, diagnosis>>

(* The UPDATE changes an active row of the expected version, or none.       *)
Unchanged(q) ==
    /\ record[request[q].id].status = "active"
    /\ record[request[q].id].version_no = request[q].expected
    /\ record[request[q].id].version_no < MaxVersion

OpenUpdate(q, i, p) ==
    /\ record[i].status = "active"
    /\ Available(p, i)
    /\ Open(q, [at |-> "moving", id |-> i, expected |-> record[i].version_no, period |-> p])

Moved(row, p) == [row EXCEPT !.period = p, !.version_no = @ + 1]

UpdateRecord(q) ==
    /\ request[q].at = "moving"
    /\ Unchanged(q)
    /\ record' = [record EXCEPT ![request[q].id] = Moved(@, request[q].period)]
    /\ Enter(q, {request[q].id})
    /\ UNCHANGED <<batch, report, revisions, diagnosis>>

OpenVoid(q, i) ==
    /\ record[i].status = "active"
    /\ Open(q, [at |-> "voiding", id |-> i, expected |-> record[i].version_no])

Voided(row) == [row EXCEPT !.status = "voided", !.version_no = @ + 1]

VoidRecord(q) ==
    /\ request[q].at = "voiding"
    /\ Unchanged(q)
    /\ record' = [record EXCEPT ![request[q].id] = Voided(@)]
    /\ Goto(q, Idle)
    /\ UNCHANGED <<batch, report, revisions, diagnosis, blind>>

(***************************************************************************)
(* The import of records.                                                  *)
(***************************************************************************)

(* The rows of the file that pass the preview: none overlaps an active      *)
(* record or an earlier valid row.  They are checked anew when the batch is *)
(* confirmed, so the age of this view matters to nothing.                   *)
UploadBatch(rows) ==
    /\ batch.status = "absent"
    /\ Disjoint(rows)
    /\ \A p \in rows : AvailableToNew(p)
    /\ batch' = [status |-> "validated", rows |-> rows]
    /\ UNCHANGED <<record, report, revisions, diagnosis, request, unseen, blind>>

(* The rows that are still available fill in records, the others fail.      *)
Importable(rows) == {p \in rows : AvailableToNew(p)}

OpenImport(q) ==
    /\ batch.status = "validated"
    /\ Open(q, [at |-> "importing", rows |-> Importable(batch.rows)])

(* The batch is locked when its status is read.                             *)
ConfirmBatch(q) ==
    /\ request[q].at = "importing"
    /\ batch.status = "validated"
    /\ \E place \in Injection(request[q].rows, Absent) :
        /\ record' = [i \in Records |->
            IF \E p \in request[q].rows : place[p] = i
            THEN NewRecord(CHOOSE p \in request[q].rows : place[p] = i)
            ELSE record[i]]
        /\ Enter(q, {place[p] : p \in request[q].rows})
    /\ batch' = [batch EXCEPT !.status = "completed"]
    /\ UNCHANGED <<report, revisions, diagnosis>>

(***************************************************************************)
(* Reviews.                                                                *)
(***************************************************************************)

CoveredOfAnyStatus(p) ==
    {[id |-> i, period |-> record[i].period] : i \in
        {j \in Records : record[j].status # "absent" /\ Within(record[j].period, p)}}

(* The active records that lie in the period as a whole.                    *)
Covered(p) ==
    {[id |-> i, period |-> record[i].period] : i \in {j \in Active : Within(record[j].period, p)}}

(* The snapshot is taken in one view, and the provider is asked.            *)
OpenReview(q, p) ==
    /\ Covered(p) # {}
    /\ Open(q, [at |-> "reviewing", period |-> p, covers |-> Covered(p)])

GenerateReport(q, k, content) ==
    /\ request[q].at = "reviewing"
    /\ report[k] = AbsentReport
    /\ report' = [report EXCEPT ![k] = [version_no |-> 1, content |-> content,
            period |-> request[q].period, covers |-> request[q].covers]]
    /\ revisions' = [revisions EXCEPT ![k] = <<content>>]
    /\ Goto(q, Idle)
    /\ UNCHANGED <<record, batch, diagnosis, blind>>

OpenReportEdit(q, k) ==
    /\ report[k] # AbsentReport
    /\ Open(q, [at |-> "editing_report", id |-> k, expected |-> report[k].version_no])

ReportAsExpected(q) == report[request[q].id].version_no = request[q].expected

RevisedInPlace(k, content) == [revisions[k] EXCEPT ![Len(revisions[k])] = content]

(* The revision is read from the row after the UPDATE.                      *)
Revised(k, content) == Append(revisions[k], content)

Edited(row, content) == [row EXCEPT !.content = content, !.version_no = @ + 1]

UpdateReport(q, content) ==
    LET k == request[q].id IN
    /\ request[q].at = "editing_report"
    /\ ReportAsExpected(q)
    /\ report[k].version_no < MaxVersion
    /\ report' = [report EXCEPT ![k] = Edited(@, content)]
    /\ revisions' = [revisions EXCEPT ![k] = Revised(k, content)]
    /\ Goto(q, Idle)
    /\ UNCHANGED <<record, batch, diagnosis, blind>>

(***************************************************************************)
(* Diagnoses.                                                              *)
(***************************************************************************)

(* The snapshot holds the review the request names, if any, as the view     *)
(* shows it, and the provider is asked.                                     *)
OpenDiagnosis(q, source) ==
    /\ source # NoReport => report[source] # AbsentReport
    /\ Open(q, [at |-> "diagnosing", source |-> source,
                cited |-> IF source = NoReport THEN NoText ELSE report[source].content])

GenerateDiagnosis(q, d, content) ==
    /\ request[q].at = "diagnosing"
    /\ diagnosis[d] = AbsentDiagnosis
    /\ diagnosis' = [diagnosis EXCEPT ![d] = [version_no |-> 1, content |-> content,
            source |-> request[q].source, cited |-> request[q].cited]]
    /\ Goto(q, Idle)
    /\ UNCHANGED <<record, batch, report, revisions, blind>>

OpenDiagnosisEdit(q, d) ==
    /\ diagnosis[d] # AbsentDiagnosis
    /\ Open(q, [at |-> "editing_diagnosis", id |-> d, expected |-> diagnosis[d].version_no])

UpdateDiagnosis(q, content) ==
    LET d == request[q].id IN
    /\ request[q].at = "editing_diagnosis"
    /\ diagnosis[d].version_no = request[q].expected
    /\ diagnosis[d].version_no < MaxVersion
    /\ diagnosis' = [diagnosis EXCEPT ![d] = Edited(@, content)]
    /\ Goto(q, Idle)
    /\ UNCHANGED <<record, batch, report, revisions, blind>>

(* The provider gives no usable answer and only the usage is logged, or the *)
(* row has another version by now, or the batch as a whole is rolled back.  *)
Refuse(q) ==
    /\ request[q].at # "idle"
    /\ Goto(q, Idle)
    /\ UNCHANGED <<record, batch, report, revisions, diagnosis, blind>>

(***************************************************************************)

Acts(q) ==
    \/ \E p \in Periods : OpenCreate(q, p) \/ OpenReview(q, p)
    \/ \E i \in Records : OpenVoid(q, i) \/ \E p \in Periods : OpenUpdate(q, i, p)
    \/ CreateRecord(q) \/ UpdateRecord(q) \/ VoidRecord(q)
    \/ OpenImport(q) \/ ConfirmBatch(q)
    \/ \E k \in Reports :
        OpenReportEdit(q, k) \/ \E content \in Texts : GenerateReport(q, k, content)
    \/ \E content \in Texts : UpdateReport(q, content) \/ UpdateDiagnosis(q, content)
    \/ \E source \in Reports \cup {NoReport} : OpenDiagnosis(q, source)
    \/ \E d \in Diagnoses :
        OpenDiagnosisEdit(q, d) \/ \E content \in Texts : GenerateDiagnosis(q, d, content)
    \/ Refuse(q)

Next ==
    \/ \E rows \in SUBSET Periods : UploadBatch(rows)
    \/ \E q \in Requests : Acts(q)

Spec == Init /\ [][Next]_vars

(***************************************************************************)
(* Properties.                                                             *)
(***************************************************************************)

TypeOK ==
    /\ record \in [Records -> RecordRows]
    /\ batch \in BatchRows
    /\ report \in [Reports -> ReportRows]
    /\ revisions \in [Reports -> Seq(Texts)]
    /\ diagnosis \in [Diagnoses -> DiagnosisRows]
    /\ request \in [Requests -> RequestStates]
    /\ unseen \in [Requests -> SUBSET Records]
    /\ blind \subseteq SUBSET Records

(* No two active records of the product share a day.  The code lets them:   *)
(* the product is locked, but the search for overlapping records is made in *)
(* the view the request's first query fixed.                                *)
ActivePeriodsDisjoint ==
    \A i, j \in Active : Overlap(record[i].period, record[j].period) => i = j

(* That is the only way: where two active records share a day, one of them  *)
(* was once entered, moved or imported by a request that had been opened    *)
(* before the other was.                                                    *)
SeenPeriodsDisjoint ==
    \A i, j \in Active :
        Overlap(record[i].period, record[j].period) => i = j \/ {i, j} \in blind

(* A report counts nothing from outside its period, and no day twice unless *)
(* such a pair was active when it was made: its snapshot is one view, and   *)
(* stays although records are moved and voided meanwhile and afterwards.    *)
ReportsCountSeenDaysOnce ==
    \A k \in Reports : \A c, e \in report[k].covers :
        /\ Within(c.period, report[k].period)
        /\ Overlap(c.period, e.period) => c = e \/ {c.id, e.id} \in blind

(* Every version of a report has its revision, in order, and the last one   *)
(* is what the report says, however edits of several users meet.            *)
RevisionsComplete ==
    \A k \in Reports :
        /\ Len(revisions[k]) = report[k].version_no
        /\ revisions[k] # <<>> => revisions[k][Len(revisions[k])] = report[k].content

(* What a diagnosis was generated from is found among the revisions of its  *)
(* source, whatever happened to the review while the provider answered.     *)
DiagnosesCiteRevisions ==
    \A d \in Diagnoses : diagnosis[d].source # NoReport =>
        \E n \in DOMAIN revisions[diagnosis[d].source] :
            revisions[diagnosis[d].source][n] = diagnosis[d].cited
=============================================================================
