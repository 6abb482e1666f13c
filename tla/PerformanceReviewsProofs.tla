----------------------- MODULE PerformanceReviewsProofs -----------------------
(***************************************************************************)
(* Proofs about PerformanceReviews, all of which hold of every behaviour:  *)
(* first the history of reports and what diagnoses cite of it, then how    *)
(* active records come to share a day.  What a request found when it       *)
(* searched for overlapping records is still so when it acts on it, apart  *)
(* from the records that got their period meanwhile, its unseen ones.      *)
(***************************************************************************)
EXTENDS PerformanceReviews, TLAPS

(* A row that exists has a version.                                         *)
Numbered ==
    /\ \A i \in Records : record[i].status # "absent" => record[i].version_no >= 1
    /\ \A k \in Reports : report[k] # AbsentReport => report[k].version_no >= 1
    /\ \A d \in Diagnoses : diagnosis[d] # AbsentDiagnosis => diagnosis[d].version_no >= 1

Cited(k, text) == \E n \in DOMAIN revisions[k] : revisions[k][n] = text

(* What a provider is working on is among the revisions already.            *)
RequestsCite ==
    \A q \in Requests :
        request[q].at = "diagnosing" /\ request[q].source # NoReport =>
            Cited(request[q].source, request[q].cited)

History ==
    /\ TypeOK
    /\ Numbered
    /\ RevisionsComplete
    /\ RequestsCite
    /\ DiagnosesCiteRevisions

(***************************************************************************)
(* Types.                                                                  *)
(***************************************************************************)

(* What is kept for each kind of request.                                   *)
LEMMA RequestShape ==
    ASSUME NEW r \in RequestStates
    PROVE  /\ r.at \in {"creating", "moving", "reviewing"} => r.period \in Periods
           /\ r.at \in {"moving", "voiding"} => r.id \in Records
           /\ r.at = "importing" => r.rows \in SUBSET Periods
           /\ r.at = "reviewing" => r.covers \in SUBSET [id: Records, period: Periods]
           /\ r.at = "editing_report" => r.id \in Reports
           /\ r.at = "editing_diagnosis" => r.id \in Diagnoses
           /\ r.at = "diagnosing" =>
                r.source \in Reports \cup {NoReport} /\ r.cited \in Texts \cup {NoText}
<1>1. CASE r = Idle
  BY <1>1 DEF Idle
<1>2. CASE r \in [at: {"creating"}, period: Periods]
  BY <1>2
<1>3. CASE r \in [at: {"moving"}, id: Records, expected: 1..MaxVersion, period: Periods]
  BY <1>3
<1>4. CASE r \in [at: {"voiding"}, id: Records, expected: 1..MaxVersion]
  BY <1>4
<1>5. CASE r \in [at: {"importing"}, rows: SUBSET Periods]
  BY <1>5
<1>6. CASE r \in [at: {"reviewing"}, period: Periods,
                  covers: SUBSET [id: Records, period: Periods]]
  BY <1>6
<1>7. CASE r \in [at: {"editing_report"}, id: Reports, expected: 1..MaxVersion]
  BY <1>7
<1>8. CASE r \in [at: {"diagnosing"}, source: Reports \cup {NoReport},
                  cited: Texts \cup {NoText}]
  BY <1>8
<1>9. CASE r \in [at: {"editing_diagnosis"}, id: Diagnoses, expected: 1..MaxVersion]
  BY <1>9
<1> QED
  BY <1>1, <1>2, <1>3, <1>4, <1>5, <1>6, <1>7, <1>8, <1>9 DEF RequestStates

LEMMA AbsentTypes ==
    /\ AbsentRecord \in RecordRows
    /\ AbsentReport \in ReportRows
    /\ AbsentDiagnosis \in DiagnosisRows
    /\ Idle \in RequestStates /\ Idle.at = "idle"
<1>1. 0 \in 0..MaxVersion
  BY BoundAssumption
<1> QED
  BY <1>1 DEF AbsentRecord, RecordRows, AbsentReport, ReportRows, AbsentDiagnosis,
              DiagnosisRows, Idle, RequestStates

LEMMA NewRecordType == ASSUME NEW p \in Periods PROVE NewRecord(p) \in RecordRows
<1>1. 1 \in 0..MaxVersion
  BY BoundAssumption
<1> QED
  BY <1>1 DEF NewRecord, RecordRows

LEMMA EditedTypes ==
    /\ \A r \in RecordRows : r.version_no < MaxVersion =>
        /\ \A p \in Periods : Moved(r, p) \in RecordRows
        /\ Voided(r) \in RecordRows
    /\ \A r \in ReportRows, content \in Texts :
        r.version_no < MaxVersion => Edited(r, content) \in ReportRows
    /\ \A r \in DiagnosisRows, content \in Texts :
        r.version_no < MaxVersion => Edited(r, content) \in DiagnosisRows
<1>1. \A n \in 0..MaxVersion : n < MaxVersion => n + 1 \in 0..MaxVersion
  BY BoundAssumption
<1>2. ASSUME NEW r \in RecordRows, r.version_no < MaxVersion
      PROVE  (\A p \in Periods : Moved(r, p) \in RecordRows) /\ Voided(r) \in RecordRows
  BY <1>1, <1>2 DEF RecordRows, Moved, Voided
<1>3. ASSUME NEW r \in ReportRows, NEW content \in Texts, r.version_no < MaxVersion
      PROVE  Edited(r, content) \in ReportRows
  BY <1>1, <1>3 DEF ReportRows, Edited
<1>4. ASSUME NEW r \in DiagnosisRows, NEW content \in Texts, r.version_no < MaxVersion
      PROVE  Edited(r, content) \in DiagnosisRows
  BY <1>1, <1>4 DEF DiagnosisRows, Edited
<1> QED
  BY <1>2, <1>3, <1>4

LEMMA InitHistory == Init => History
<1> SUFFICES ASSUME Init PROVE History
  OBVIOUS
<1>1. TypeOK
  BY AbsentTypes DEF Init, TypeOK, BatchRows
<1>2. Numbered
  BY DEF Init, Numbered, AbsentRecord
<1>3. RevisionsComplete
  BY DEF Init, RevisionsComplete, AbsentReport
<1>4. RequestsCite /\ DiagnosesCiteRevisions
  BY DEF Init, RequestsCite, DiagnosesCiteRevisions, AbsentDiagnosis, Idle
<1> QED
  BY <1>1, <1>2, <1>3, <1>4 DEF History

(***************************************************************************)
(* What a step keeps of the history.                                       *)
(***************************************************************************)

(* The tables stay, and a request moves to a state of its type.             *)
LEMMA MoveKeepsHistory ==
    ASSUME History, NEW q \in Requests, NEW state \in RequestStates,
           request' = [request EXCEPT ![q] = state],
           unseen' \in [Requests -> SUBSET Records], blind' \subseteq SUBSET Records,
           state.at = "diagnosing" /\ state.source # NoReport =>
                Cited(state.source, state.cited),
           record' \in [Records -> RecordRows],
           \A i \in Records : record'[i].status # "absent" => record'[i].version_no >= 1,
           batch' \in BatchRows,
           UNCHANGED <<report, revisions, diagnosis>>
    PROVE  History'
<1>1. request' \in [Requests -> RequestStates]
  BY DEF History, TypeOK
<1>2. TypeOK'
  BY <1>1 DEF History, TypeOK
<1>3. Numbered' /\ RevisionsComplete' /\ DiagnosesCiteRevisions'
  BY DEF History, Numbered, RevisionsComplete, DiagnosesCiteRevisions
<1>4. RequestsCite'
  BY <1>1 DEF History, TypeOK, RequestsCite, Cited
<1> QED
  BY <1>2, <1>3, <1>4 DEF History

LEMMA GotoKeepsHistory ==
    ASSUME History, NEW q \in Requests, NEW state \in RequestStates, Goto(q, state),
           state.at = "diagnosing" /\ state.source # NoReport =>
                Cited(state.source, state.cited),
           record' \in [Records -> RecordRows],
           \A i \in Records : record'[i].status # "absent" => record'[i].version_no >= 1,
           batch' \in BatchRows,
           UNCHANGED <<report, revisions, diagnosis, blind>>
    PROVE  History'
<1>1. unseen' \in [Requests -> SUBSET Records] /\ blind' \subseteq SUBSET Records
  BY DEF Goto, History, TypeOK
<1> QED
  BY <1>1, MoveKeepsHistory DEF Goto

LEMMA OpenKeepsHistory ==
    ASSUME History, NEW q \in Requests, NEW state \in RequestStates, Open(q, state),
           state.at = "diagnosing" /\ state.source # NoReport =>
                Cited(state.source, state.cited)
    PROVE  History'
BY GotoKeepsHistory DEF Open, History, TypeOK, Numbered

(* A request ends, and changes records at most.                             *)
LEMMA EndKeepsHistory ==
    ASSUME History, NEW q \in Requests, Goto(q, Idle),
           record' \in [Records -> RecordRows],
           \A i \in Records : record'[i].status # "absent" => record'[i].version_no >= 1,
           batch' \in BatchRows,
           UNCHANGED <<report, revisions, diagnosis, blind>>
    PROVE  History'
BY AbsentTypes, GotoKeepsHistory

(* A request ends that has given records their periods.                     *)
LEMMA EnterKeepsHistory ==
    ASSUME History, NEW q \in Requests, NEW entered \in SUBSET Records, Enter(q, entered),
           record' \in [Records -> RecordRows],
           \A i \in Records : record'[i].status # "absent" => record'[i].version_no >= 1,
           batch' \in BatchRows,
           UNCHANGED <<report, revisions, diagnosis>>
    PROVE  History'
<1>1. unseen' \in [Requests -> SUBSET Records]
  BY DEF Enter, History, TypeOK
<1>2. blind' \subseteq SUBSET Records
  BY DEF Enter, History, TypeOK
<1>3. Idle.at # "diagnosing" /\ Idle \in RequestStates
  BY AbsentTypes
<1> QED
  BY <1>1, <1>2, <1>3, MoveKeepsHistory DEF Enter

LEMMA OpenStates ==
    ASSUME History
    PROVE  /\ \A p \in Periods : [at |-> "creating", period |-> p] \in RequestStates
           /\ \A i \in Records : record[i].status = "active" =>
                /\ [at |-> "voiding", id |-> i, expected |-> record[i].version_no] \in RequestStates
                /\ \A p \in Periods :
                    [at |-> "moving", id |-> i, expected |-> record[i].version_no,
                     period |-> p] \in RequestStates
           /\ \A k \in Reports : report[k] # AbsentReport =>
                [at |-> "editing_report", id |-> k, expected |-> report[k].version_no]
                    \in RequestStates
           /\ \A d \in Diagnoses : diagnosis[d] # AbsentDiagnosis =>
                [at |-> "editing_diagnosis", id |-> d, expected |-> diagnosis[d].version_no]
                    \in RequestStates
<1>1. \A p \in Periods : [at |-> "creating", period |-> p] \in RequestStates
  BY DEF RequestStates
<1>2. ASSUME NEW i \in Records, record[i].status = "active"
      PROVE  record[i].version_no \in 1..MaxVersion
  BY <1>2, BoundAssumption DEF History, TypeOK, Numbered, RecordRows
<1>3. ASSUME NEW k \in Reports, report[k] # AbsentReport
      PROVE  report[k].version_no \in 1..MaxVersion
  BY <1>3, BoundAssumption DEF History, TypeOK, Numbered, ReportRows
<1>4. ASSUME NEW d \in Diagnoses, diagnosis[d] # AbsentDiagnosis
      PROVE  diagnosis[d].version_no \in 1..MaxVersion
  BY <1>4, BoundAssumption DEF History, TypeOK, Numbered, DiagnosisRows
<1> QED
  BY <1>1, <1>2, <1>3, <1>4 DEF RequestStates

(***************************************************************************)
(* Reports and diagnoses.                                                  *)
(***************************************************************************)

(* What is noted of the requests keeps its type when one of them ends.      *)
LEMMA EndKeepsNotes ==
    ASSUME TypeOK, NEW q \in Requests, Goto(q, Idle), UNCHANGED blind
    PROVE  unseen' \in [Requests -> SUBSET Records] /\ blind' \subseteq SUBSET Records
BY DEF Goto, TypeOK

(* Revisions are only added, so that what was cited is still there.         *)
LEMMA CitationsStay ==
    ASSUME History, NEW q \in Requests, Goto(q, Idle), UNCHANGED diagnosis,
           \A k \in Reports : \A text : Cited(k, text) => Cited(k, text)'
    PROVE  RequestsCite' /\ DiagnosesCiteRevisions'
<1>1. TypeOK /\ RequestsCite /\ DiagnosesCiteRevisions
  BY DEF History
<1>2. ASSUME NEW r \in Requests, request'[r].at = "diagnosing", request'[r].source # NoReport
      PROVE  Cited(request[r].source, request[r].cited)'
  <2>1. r # q /\ request'[r] = request[r] /\ request[r] \in RequestStates
    BY <1>1, <1>2, AbsentTypes DEF Goto, TypeOK
  <2>2. request[r].source \in Reports
    BY <1>2, <2>1, RequestShape
  <2>3. Cited(request[r].source, request[r].cited)
    BY <1>1, <1>2, <2>1 DEF RequestsCite
  <2>4. request[r].source \in Reports =>
            (Cited(request[r].source, request[r].cited) =>
                \E n \in DOMAIN revisions'[request[r].source] :
                    revisions'[request[r].source][n] = request[r].cited)
    BY DEF Cited
  <2> QED
    BY <2>1, <2>2, <2>3, <2>4 DEF Cited
<1>3. ASSUME NEW d \in Diagnoses, diagnosis[d].source # NoReport
      PROVE  Cited(diagnosis[d].source, diagnosis[d].cited)'
  <2>1. diagnosis[d].source \in Reports
    BY <1>1, <1>3 DEF TypeOK, DiagnosisRows
  <2>2. Cited(diagnosis[d].source, diagnosis[d].cited)
    BY <1>1, <1>3 DEF DiagnosesCiteRevisions, Cited
  <2> QED
    BY <2>1, <2>2 DEF Cited
<1>4. RequestsCite'
  BY <1>2 DEF RequestsCite, Cited
<1>5. DiagnosesCiteRevisions'
  BY <1>3 DEF DiagnosesCiteRevisions, Cited
<1> QED
  BY <1>4, <1>5

LEMMA GenerateReportKeepsHistory ==
    ASSUME History, NEW q \in Requests, NEW k \in Reports, NEW content \in Texts,
           GenerateReport(q, k, content)
    PROVE  History'
<1> USE DEF GenerateReport
<1>1. TypeOK /\ Numbered /\ RevisionsComplete /\ RequestsCite /\ DiagnosesCiteRevisions
  BY DEF History
<1>2. request[q].period \in Periods /\ request[q].covers \in SUBSET [id: Records, period: Periods]
  BY <1>1, RequestShape DEF TypeOK
<1>3. report' \in [Reports -> ReportRows]
  <2>1. 1 \in 0..MaxVersion
    BY BoundAssumption
  <2> QED
    BY <1>1, <1>2, <2>1 DEF TypeOK, ReportRows
<1>4. revisions' \in [Reports -> Seq(Texts)]
  BY <1>1 DEF TypeOK
<1>5. request' \in [Requests -> RequestStates]
  BY <1>1, AbsentTypes DEF TypeOK, Goto
<1>6. Numbered'
  BY <1>1 DEF Numbered, TypeOK, ReportRows
<1>7. RevisionsComplete'
  BY <1>1 DEF RevisionsComplete, TypeOK
<1>8. Len(revisions[k]) = 0
  BY <1>1 DEF RevisionsComplete, AbsentReport
<1>9. ASSUME NEW j \in Reports, NEW text, Cited(j, text) PROVE Cited(j, text)'
  <2>1. j # k
    BY <1>1, <1>8, <1>9 DEF Cited, TypeOK
  <2> QED
    BY <1>1, <1>9, <2>1 DEF Cited, TypeOK
<1>10. RequestsCite' /\ DiagnosesCiteRevisions'
  BY <1>9, CitationsStay
<1> QED
  BY <1>1, <1>3, <1>4, <1>5, <1>6, <1>7, <1>10, EndKeepsNotes DEF GenerateReport, History, TypeOK

LEMMA UpdateReportKeepsHistory ==
    ASSUME History, NEW q \in Requests, NEW content \in Texts, UpdateReport(q, content)
    PROVE  History'
<1> DEFINE k == request[q].id
<1> USE DEF UpdateReport
<1>1. TypeOK /\ Numbered /\ RevisionsComplete /\ RequestsCite /\ DiagnosesCiteRevisions
  BY DEF History
<1>2. k \in Reports
  BY <1>1, RequestShape DEF TypeOK
<1>3. report' \in [Reports -> ReportRows]
  BY <1>1, <1>2, EditedTypes DEF TypeOK
<1>4. revisions' \in [Reports -> Seq(Texts)]
  BY <1>1, <1>2 DEF TypeOK, Revised
<1>5. request' \in [Requests -> RequestStates]
  BY <1>1, AbsentTypes DEF TypeOK, Goto
<1>6. report'[k].version_no = report[k].version_no + 1 /\ report'[k].content = content
  BY <1>1, <1>2 DEF TypeOK, ReportRows, Edited
<1>7. revisions'[k] = Append(revisions[k], content) /\ revisions[k] \in Seq(Texts)
  BY <1>1, <1>2 DEF TypeOK, Revised
<1>8. Numbered'
  BY <1>1, <1>2, <1>6 DEF Numbered, TypeOK, ReportRows
<1>9. RevisionsComplete'
  <2>1. \A j \in Reports \ {k} : report'[j] = report[j] /\ revisions'[j] = revisions[j]
    BY <1>1, <1>2 DEF TypeOK
  <2> QED
    <3>1. Len(revisions'[k]) = report'[k].version_no
      BY <1>1, <1>2, <1>6, <1>7 DEF RevisionsComplete
    <3>2. revisions'[k][Len(revisions'[k])] = report'[k].content
      BY <1>6, <1>7
    <3> QED
      BY <1>1, <2>1, <3>1, <3>2 DEF RevisionsComplete
<1>10. ASSUME NEW j \in Reports, NEW text, Cited(j, text) PROVE Cited(j, text)'
  <2>1. PICK n \in DOMAIN revisions[j] : revisions[j][n] = text
    BY <1>10 DEF Cited
  <2>2. CASE j = k
    <3>1. n \in 1..Len(revisions[k])
      BY <1>7, <2>1, <2>2
    <3>2. n \in DOMAIN revisions'[k] /\ revisions'[k][n] = text
      BY <1>7, <2>1, <2>2, <3>1
    <3> QED
      BY <2>2, <3>2 DEF Cited
  <2>3. CASE j # k
    BY <1>1, <1>2, <2>1, <2>3 DEF Cited, TypeOK
  <2> QED
    BY <2>2, <2>3
<1>11. RequestsCite' /\ DiagnosesCiteRevisions'
  BY <1>10, CitationsStay
<1> QED
  BY <1>1, <1>3, <1>4, <1>5, <1>8, <1>9, <1>11, EndKeepsNotes DEF UpdateReport, History, TypeOK

(* The provider is given the latest revision.                               *)
LEMMA OpenDiagnosisKeepsHistory ==
    ASSUME History, NEW q \in Requests, NEW source \in Reports \cup {NoReport},
           OpenDiagnosis(q, source)
    PROVE  History'
<1> DEFINE cited == IF source = NoReport THEN NoText ELSE report[source].content
           state == [at |-> "diagnosing", source |-> source, cited |-> cited]
<1>1. TypeOK /\ Numbered /\ RevisionsComplete
  BY DEF History
<1>2. state \in RequestStates
  BY <1>1 DEF RequestStates, TypeOK, ReportRows
<1>3. ASSUME source # NoReport PROVE Cited(source, cited)
  <2>1. revisions[source] \in Seq(Texts) /\ report[source].version_no \in Nat
    BY <1>1, <1>3 DEF TypeOK, ReportRows
  <2>2. report[source] # AbsentReport
    BY <1>3 DEF OpenDiagnosis
  <2>3. Len(revisions[source]) >= 1
    BY <1>1, <1>3, <2>2 DEF Numbered, RevisionsComplete
  <2>4. revisions[source][Len(revisions[source])] = report[source].content
    BY <1>1, <1>3, <2>1, <2>3 DEF RevisionsComplete
  <2>5. Len(revisions[source]) \in DOMAIN revisions[source]
    BY <2>1, <2>3
  <2> QED
    BY <1>3, <2>4, <2>5 DEF Cited
<1> QED
  BY <1>2, <1>3, OpenKeepsHistory DEF OpenDiagnosis

LEMMA GenerateDiagnosisKeepsHistory ==
    ASSUME History, NEW q \in Requests, NEW d \in Diagnoses, NEW content \in Texts,
           GenerateDiagnosis(q, d, content)
    PROVE  History'
<1> USE DEF GenerateDiagnosis
<1>1. TypeOK /\ Numbered /\ RevisionsComplete /\ RequestsCite /\ DiagnosesCiteRevisions
  BY DEF History
<1>2. request[q].source \in Reports \cup {NoReport} /\ request[q].cited \in Texts \cup {NoText}
  BY <1>1, RequestShape DEF TypeOK
<1>3. diagnosis' \in [Diagnoses -> DiagnosisRows]
  <2>1. 1 \in 0..MaxVersion
    BY BoundAssumption
  <2> QED
    BY <1>1, <1>2, <2>1 DEF TypeOK, DiagnosisRows
<1>4. request' \in [Requests -> RequestStates]
  BY <1>1, AbsentTypes DEF TypeOK, Goto
<1>5. Numbered' /\ RevisionsComplete'
  BY <1>1 DEF Numbered, RevisionsComplete, TypeOK, DiagnosisRows
<1>6. RequestsCite'
  BY <1>1, AbsentTypes DEF RequestsCite, Cited, TypeOK, Goto
<1>7. DiagnosesCiteRevisions'
  BY <1>1 DEF RequestsCite, DiagnosesCiteRevisions, Cited, TypeOK
<1> QED
  BY <1>1, <1>3, <1>4, <1>5, <1>6, <1>7, EndKeepsNotes DEF GenerateDiagnosis, History, TypeOK

LEMMA UpdateDiagnosisKeepsHistory ==
    ASSUME History, NEW q \in Requests, NEW content \in Texts, UpdateDiagnosis(q, content)
    PROVE  History'
<1> USE DEF UpdateDiagnosis
<1>1. TypeOK /\ Numbered /\ RevisionsComplete /\ RequestsCite /\ DiagnosesCiteRevisions
  BY DEF History
<1>2. request[q].id \in Diagnoses
  BY <1>1, RequestShape DEF TypeOK
<1>3. diagnosis' \in [Diagnoses -> DiagnosisRows]
  BY <1>1, <1>2, EditedTypes DEF TypeOK
<1>4. request' \in [Requests -> RequestStates]
  BY <1>1, AbsentTypes DEF TypeOK, Goto
<1>5. Numbered' /\ RevisionsComplete'
  BY <1>1, <1>2 DEF Numbered, RevisionsComplete, TypeOK, DiagnosisRows, Edited
<1>6. RequestsCite'
  BY <1>1, AbsentTypes DEF RequestsCite, Cited, TypeOK, Goto
<1>7. DiagnosesCiteRevisions'
  BY <1>1, <1>2 DEF DiagnosesCiteRevisions, TypeOK, DiagnosisRows, Edited
<1> QED
  BY <1>1, <1>3, <1>4, <1>5, <1>6, <1>7, EndKeepsNotes DEF UpdateDiagnosis, History, TypeOK

(* The rows of a batch are entered in different rows of the table.          *)
LEMMA ImportedType ==
    ASSUME History, NEW q \in Requests, ConfirmBatch(q)
    PROVE  /\ record' \in [Records -> RecordRows]
           /\ \A i \in Records : record'[i].status # "absent" => record'[i].version_no >= 1
<1>1. request[q].rows \in SUBSET Periods
  BY RequestShape DEF History, TypeOK, ConfirmBatch
<1>2. PICK place \in Injection(request[q].rows, Absent) :
        record' = [i \in Records |->
            IF \E p \in request[q].rows : place[p] = i
            THEN NewRecord(CHOOSE p \in request[q].rows : place[p] = i)
            ELSE record[i]]
  BY DEF ConfirmBatch
<1>3. ASSUME NEW i \in Records
      PROVE  \/ \E p \in Periods : record'[i] = NewRecord(p)
             \/ record'[i] = record[i]
  <2>1. CASE \E p \in request[q].rows : place[p] = i
    BY <1>1, <1>2, <2>1
  <2>2. CASE ~\E p \in request[q].rows : place[p] = i
    BY <1>2, <2>2
  <2> QED
    BY <2>1, <2>2
<1>4. \A i \in Records : record'[i] \in RecordRows
  BY <1>3, NewRecordType DEF History, TypeOK
<1>5. ASSUME NEW i \in Records, record'[i].status # "absent" PROVE record'[i].version_no >= 1
  <2>1. \A p : NewRecord(p).version_no >= 1
    BY DEF NewRecord
  <2>2. record[i].status # "absent" => record[i].version_no >= 1
    BY DEF History, Numbered
  <2> QED
    BY <1>3, <1>5, <2>1, <2>2
<1> QED
  BY <1>2, <1>4, <1>5

(* A step of a request, one operation each.                                 *)
LEMMA ActsKeepsHistory ==
    ASSUME History, NEW q \in Requests, Acts(q)
    PROVE  History'
<1>1. TypeOK /\ Numbered /\ RevisionsComplete /\ RequestsCite /\ DiagnosesCiteRevisions
  BY DEF History
<1>2. request[q] \in RequestStates
  BY <1>1 DEF TypeOK
<1>3. ASSUME NEW p \in Periods, OpenCreate(q, p) PROVE History'
  BY <1>3, OpenStates, OpenKeepsHistory DEF OpenCreate
<1>4. ASSUME NEW p \in Periods, OpenReview(q, p) PROVE History'
  <2>1. Covered(p) \in SUBSET [id: Records, period: Periods]
    <3> SUFFICES ASSUME NEW i \in Active, Within(record[i].period, p)
                 PROVE  record[i].period \in Periods
      BY DEF Covered, Active
    <3>1. record[i].period \in Periods \cup {NoPeriod} /\ p \in Periods
      BY <1>1 DEF TypeOK, RecordRows, Active
    <3>2. ~Within(NoPeriod, p)
      BY DEF Within, NoPeriod, Periods
    <3> QED
      BY <3>1, <3>2
  <2>2. [at |-> "reviewing", period |-> p, covers |-> Covered(p)] \in RequestStates
    BY <2>1 DEF RequestStates
  <2> QED
    BY <1>4, <2>2, OpenKeepsHistory DEF OpenReview
<1>5. ASSUME NEW i \in Records, OpenVoid(q, i) PROVE History'
  BY <1>5, OpenStates, OpenKeepsHistory DEF OpenVoid
<1>6. ASSUME NEW i \in Records, NEW p \in Periods, OpenUpdate(q, i, p) PROVE History'
  BY <1>6, OpenStates, OpenKeepsHistory DEF OpenUpdate
<1>7. CASE CreateRecord(q)
  <2>1. NewRecord(request[q].period) \in RecordRows
    BY <1>2, <1>7, RequestShape, NewRecordType DEF CreateRecord
  <2>2. record' \in [Records -> RecordRows]
    BY <1>1, <1>7, <2>1 DEF CreateRecord, TypeOK
  <2>3. \A i \in Records : record'[i].status # "absent" => record'[i].version_no >= 1
    BY <1>1, <1>7 DEF CreateRecord, TypeOK, Numbered, NewRecord
  <2>4. PICK i \in Records : Enter(q, {i})
    BY <1>7 DEF CreateRecord, Absent
  <2> QED
    BY <1>1, <1>7, <2>2, <2>3, <2>4, EnterKeepsHistory DEF CreateRecord, TypeOK
<1>8. CASE UpdateRecord(q)
  <2>1. request[q].id \in Records /\ request[q].period \in Periods
    BY <1>2, <1>8, RequestShape DEF UpdateRecord
  <2>2. record' \in [Records -> RecordRows]
    BY <1>1, <1>8, <2>1, EditedTypes DEF UpdateRecord, Unchanged, TypeOK
  <2>3. \A i \in Records : record'[i].status # "absent" => record'[i].version_no >= 1
    BY <1>1, <1>8, <2>1, BoundAssumption
    DEF UpdateRecord, TypeOK, RecordRows, Numbered, Moved
  <2> QED
    BY <1>1, <1>8, <2>1, <2>2, <2>3, EnterKeepsHistory DEF UpdateRecord, TypeOK
<1>9. CASE VoidRecord(q)
  <2>1. request[q].id \in Records
    BY <1>2, <1>9, RequestShape DEF VoidRecord
  <2>2. record' \in [Records -> RecordRows]
    BY <1>1, <1>9, <2>1, EditedTypes DEF VoidRecord, Unchanged, TypeOK
  <2>3. \A i \in Records : record'[i].status # "absent" => record'[i].version_no >= 1
    BY <1>1, <1>9, <2>1, BoundAssumption
    DEF VoidRecord, TypeOK, RecordRows, Numbered, Voided
  <2> QED
    BY <1>1, <1>9, <2>2, <2>3, EndKeepsHistory DEF VoidRecord, TypeOK
<1>10. CASE OpenImport(q)
  <2>1. Importable(batch.rows) \in SUBSET Periods
    BY <1>1 DEF Importable, TypeOK, BatchRows
  <2>2. [at |-> "importing", rows |-> Importable(batch.rows)] \in RequestStates
    BY <2>1 DEF RequestStates
  <2> QED
    BY <1>10, <2>2, OpenKeepsHistory DEF OpenImport
<1>11. CASE ConfirmBatch(q)
  <2>1. batch' \in BatchRows
    BY <1>1, <1>11 DEF ConfirmBatch, TypeOK, BatchRows
  <2>2. PICK place \in Injection(request[q].rows, Absent) :
            Enter(q, {place[p] : p \in request[q].rows})
    BY <1>11 DEF ConfirmBatch
  <2>3. {place[p] : p \in request[q].rows} \in SUBSET Records
    BY <2>2 DEF Injection, Absent
  <2> QED
    BY <1>11, <2>1, <2>2, <2>3, ImportedType, EnterKeepsHistory DEF ConfirmBatch
<1>12. ASSUME NEW k \in Reports, OpenReportEdit(q, k) PROVE History'
  BY <1>12, OpenStates, OpenKeepsHistory DEF OpenReportEdit
<1>13. ASSUME NEW k \in Reports, NEW content \in Texts, GenerateReport(q, k, content)
       PROVE  History'
  BY <1>13, GenerateReportKeepsHistory
<1>14. ASSUME NEW content \in Texts, UpdateReport(q, content) PROVE History'
  BY <1>14, UpdateReportKeepsHistory
<1>15. ASSUME NEW content \in Texts, UpdateDiagnosis(q, content) PROVE History'
  BY <1>15, UpdateDiagnosisKeepsHistory
<1>16. ASSUME NEW source \in Reports \cup {NoReport}, OpenDiagnosis(q, source) PROVE History'
  BY <1>16, OpenDiagnosisKeepsHistory
<1>17. ASSUME NEW d \in Diagnoses, OpenDiagnosisEdit(q, d) PROVE History'
  BY <1>17, OpenStates, OpenKeepsHistory DEF OpenDiagnosisEdit
<1>18. ASSUME NEW d \in Diagnoses, NEW content \in Texts, GenerateDiagnosis(q, d, content)
       PROVE  History'
  BY <1>18, GenerateDiagnosisKeepsHistory
<1>19. CASE Refuse(q)
  BY <1>1, <1>19, EndKeepsHistory DEF Refuse, TypeOK, Numbered
<1> QED
  BY <1>3, <1>4, <1>5, <1>6, <1>7, <1>8, <1>9, <1>10, <1>11, <1>12, <1>13, <1>14, <1>15,
     <1>16, <1>17, <1>18, <1>19 DEF Acts

LEMMA NextHistory == History /\ [Next]_vars => History'
<1> SUFFICES ASSUME History, [Next]_vars PROVE History'
  OBVIOUS
<1>1. ASSUME NEW rows \in SUBSET Periods, UploadBatch(rows) PROVE History'
  <2>1. TypeOK'
    BY <1>1 DEF UploadBatch, History, TypeOK, BatchRows
  <2> QED
    BY <1>1, <2>1
    DEF UploadBatch, History, Numbered, RevisionsComplete, RequestsCite, Cited,
        DiagnosesCiteRevisions
<1>2. ASSUME NEW q \in Requests, Acts(q) PROVE History'
  BY <1>2, ActsKeepsHistory
<1>3. CASE UNCHANGED vars
  BY <1>3
  DEF vars, History, TypeOK, Numbered, RevisionsComplete, RequestsCite, Cited,
      DiagnosesCiteRevisions
<1> QED
  BY <1>1, <1>2, <1>3 DEF Next

LEMMA HistoryInductive == Spec => []History
BY InitHistory, NextHistory, PTL DEF Spec

(***************************************************************************)
(* What a request found holds until it acts on it, but for the records it  *)
(* has not seen.                                                           *)
(***************************************************************************)

(* The days a request is about to claim are free, of records not hidden.    *)
Free(r, hidden) ==
    /\ r.at = "creating" =>
        \A j \in Active \ hidden : ~Overlap(r.period, record[j].period)
    /\ r.at = "moving" =>
        \A j \in Active \ hidden : j # r.id => ~Overlap(r.period, record[j].period)
    /\ r.at = "importing" =>
        /\ Disjoint(r.rows)
        /\ \A p \in r.rows : \A j \in Active \ hidden : ~Overlap(p, record[j].period)

SearchesHold == \A q \in Requests : Free(request[q], unseen[q])

(* A snapshot counts nothing from outside the period, and no day twice but  *)
(* of records that were entered blindly.                                    *)
Sound(covers, p) ==
    \A c, e \in covers :
        Within(c.period, p) /\ (Overlap(c.period, e.period) => c = e \/ {c.id, e.id} \in blind)

SnapshotsSound ==
    \A q \in Requests : request[q].at = "reviewing" => Sound(request[q].covers, request[q].period)

RowsDisjoint == Disjoint(batch.rows)

IInv ==
    /\ History
    /\ SearchesHold
    /\ RowsDisjoint
    /\ SnapshotsSound
    /\ SeenPeriodsDisjoint
    /\ ReportsCountSeenDaysOnce

LEMMA OverlapSymmetric ==
    ASSUME NEW p \in Periods \cup {NoPeriod}, NEW o \in Periods \cup {NoPeriod}
    PROVE  Overlap(p, o) <=> Overlap(o, p)
<1>1. p.start \in Nat /\ p.end \in Nat /\ o.start \in Nat /\ o.end \in Nat
  BY BoundAssumption DEF Periods, NoPeriod
<1> QED
  BY <1>1 DEF Overlap

LEMMA InitInductive == Init => IInv
<1> SUFFICES ASSUME Init PROVE IInv
  OBVIOUS
<1>1. \A q \in Requests : request[q].at = "idle"
  BY DEF Init, Idle
<1>2. Active = {}
  BY DEF Init, Active, AbsentRecord
<1>3. SearchesHold /\ SnapshotsSound
  BY <1>1 DEF SearchesHold, Free, SnapshotsSound
<1>4. RowsDisjoint
  BY DEF Init, RowsDisjoint, Disjoint
<1>5. SeenPeriodsDisjoint
  BY <1>2 DEF SeenPeriodsDisjoint
<1>6. ReportsCountSeenDaysOnce
  BY DEF Init, ReportsCountSeenDaysOnce, AbsentReport
<1> QED
  BY <1>3, <1>4, <1>5, <1>6, InitHistory DEF IInv

(* No record becomes active or moves.                                       *)
NoneAdded ==
    \A i \in Records : record'[i].status = "active" =>
        record[i].status = "active" /\ record'[i].period = record[i].period

LEMMA FreeStays ==
    ASSUME NoneAdded, NEW r, NEW hidden, Free(r, hidden)
    PROVE  Free(r, hidden)'
<1>1. \A i \in Active' : i \in Active /\ record'[i].period = record[i].period
  BY DEF NoneAdded, Active
<1> QED
  BY <1>1 DEF Free, Disjoint

(* A request moves on, and no record is added.                              *)
LEMMA GotoKeepsInv ==
    ASSUME IInv, History', NoneAdded, RowsDisjoint', ReportsCountSeenDaysOnce',
           NEW q \in Requests, NEW state \in RequestStates, Goto(q, state), UNCHANGED blind,
           Free(state, {}),
           state.at = "reviewing" => Sound(state.covers, state.period)
    PROVE  IInv'
<1>1. request \in [Requests -> RequestStates] /\ unseen \in [Requests -> SUBSET Records]
  BY DEF IInv, History, TypeOK
<1>2. /\ request'[q] = state /\ \A r \in Requests \ {q} : request'[r] = request[r]
      /\ unseen'[q] = {} /\ \A r \in Requests \ {q} : unseen'[r] = unseen[r]
  BY <1>1 DEF Goto
<1>3. SearchesHold'
  <2> SUFFICES ASSUME NEW r \in Requests PROVE Free(request[r], unseen[r])'
    BY DEF SearchesHold
  <2>1. PICK x : x = request'[r]
    OBVIOUS
  <2>2. PICK y : y = unseen'[r]
    OBVIOUS
  <2>3. Free(x, y)
    BY <1>2, <2>1, <2>2 DEF IInv, SearchesHold
  <2>4. Free(x, y)'
    BY <2>3, FreeStays
  <2> QED
    BY <2>1, <2>2, <2>4 DEF Free
<1>4. SnapshotsSound'
  BY <1>2 DEF IInv, SnapshotsSound, Sound
<1>5. SeenPeriodsDisjoint'
  BY DEF IInv, SeenPeriodsDisjoint, NoneAdded, Active
<1> QED
  BY <1>3, <1>4, <1>5 DEF IInv

LEMMA OpenKeepsInv ==
    ASSUME IInv, History', NEW q \in Requests, NEW state \in RequestStates, Open(q, state),
           Free(state, {}),
           state.at = "reviewing" => Sound(state.covers, state.period)
    PROVE  IInv'
<1>1. NoneAdded
  BY DEF Open, NoneAdded
<1>2. RowsDisjoint' /\ ReportsCountSeenDaysOnce'
  BY DEF Open, IInv, RowsDisjoint, Disjoint, ReportsCountSeenDaysOnce
<1> QED
  BY <1>1, <1>2, GotoKeepsInv DEF Open

LEMMA EndKeepsInv ==
    ASSUME IInv, History', NEW q \in Requests, Goto(q, Idle), UNCHANGED blind,
           NoneAdded, RowsDisjoint', ReportsCountSeenDaysOnce'
    PROVE  IInv'
<1>1. Free(Idle, {})
  BY DEF Free, Idle
<1> QED
  BY <1>1, AbsentTypes, GotoKeepsInv

(* Who gives records their periods hides them from those who have searched. *)
LEMMA EnterKeepsInv ==
    ASSUME IInv, History', NEW q \in Requests, NEW entered \in SUBSET Records,
           Enter(q, entered), \A i \in Records \ entered : record'[i] = record[i],
           SeenPeriodsDisjoint', RowsDisjoint', UNCHANGED report
    PROVE  IInv'
<1>1. request \in [Requests -> RequestStates]
  BY DEF IInv, History, TypeOK
<1>2. request'[q] = Idle /\ \A r \in Requests \ {q} : request'[r] = request[r]
  BY <1>1 DEF Enter
<1>3. blind \subseteq blind'
  BY DEF Enter
<1>4. SearchesHold'
  <2> SUFFICES ASSUME NEW r \in Requests PROVE Free(request[r], unseen[r])'
    BY DEF SearchesHold
  <2>1. CASE r # q /\ ChangesRecords(r)
    <3>1. request'[r] = request[r] /\ unseen'[r] = unseen[r] \cup entered
      BY <1>2, <2>1 DEF Enter
    <3>2. \A i \in Active' \ unseen'[r] :
            i \in Active \ unseen[r] /\ record'[i].period = record[i].period
      BY <3>1 DEF Active
    <3>3. Free(request[r], unseen[r])
      BY DEF IInv, SearchesHold
    <3> QED
      BY <3>1, <3>2, <3>3 DEF Free, Disjoint
  <2>2. CASE r = q \/ ~ChangesRecords(r)
    <3>1. request'[r].at \notin {"creating", "moving", "importing"}
      BY <1>2, <2>2 DEF ChangesRecords, Idle
    <3> QED
      BY <3>1 DEF Free
  <2> QED
    BY <2>1, <2>2
<1>5. SnapshotsSound'
  <2>1. \A r \in Requests : request'[r].at = "reviewing" => request'[r] = request[r]
    BY <1>2 DEF Idle
  <2> SUFFICES ASSUME NEW r \in Requests, request'[r].at = "reviewing",
                      NEW c \in request'[r].covers, NEW e \in request'[r].covers
               PROVE  /\ Within(c.period, request'[r].period)
                      /\ Overlap(c.period, e.period) => c = e \/ {c.id, e.id} \in blind'
    BY DEF SnapshotsSound, Sound
  <2>2. Sound(request[r].covers, request[r].period) /\ request'[r] = request[r]
    BY <2>1 DEF IInv, SnapshotsSound
  <2> QED
    BY <1>3, <2>2 DEF Sound
<1>6. ReportsCountSeenDaysOnce'
  BY <1>3 DEF IInv, ReportsCountSeenDaysOnce
<1> QED
  BY <1>4, <1>5, <1>6 DEF IInv

LEMMA CreateRecordDisjoint ==
    ASSUME IInv, NEW q \in Requests, CreateRecord(q)
    PROVE  SeenPeriodsDisjoint'
<1> DEFINE p == request[q].period
<1>1. TypeOK /\ SeenPeriodsDisjoint
  BY DEF IInv, History
<1>2. p \in Periods
  BY <1>1, RequestShape DEF CreateRecord, TypeOK
<1>3. \A j \in Active \ unseen[q] : ~Overlap(p, record[j].period)
  BY DEF CreateRecord, IInv, SearchesHold, Free
<1>4. PICK new \in Absent : record' = [record EXCEPT ![new] = NewRecord(p)] /\ Enter(q, {new})
  BY DEF CreateRecord
<1>5. new \in Records /\ new \notin Active /\ record'[new].period = p
  BY <1>1, <1>4 DEF Absent, Active, TypeOK, NewRecord
<1>6. \A j \in Records \ {new} : record'[j] = record[j]
  BY <1>1, <1>4 DEF TypeOK
<1>7. \A j \in Active : record[j].period \in Periods \cup {NoPeriod}
  BY <1>1 DEF TypeOK, RecordRows, Active
<1>8. \A j \in Active :
        \/ ~Overlap(p, record[j].period) /\ ~Overlap(record[j].period, p)
        \/ {new, j} \in blind' /\ {j, new} \in blind'
  <2> SUFFICES ASSUME NEW j \in Active, j \in unseen[q]
               PROVE  {new, j} \in blind' /\ {j, new} \in blind'
    BY <1>2, <1>3, <1>7, OverlapSymmetric
  <2>1. {new, j} \in {{x, y} : x \in {new}, y \in unseen[q]} /\ {j, new} = {new, j}
    OBVIOUS
  <2> QED
    BY <1>4, <2>1 DEF Enter
<1>9. \A j \in Active' : j = new \/ (j \in Active /\ j # new)
  BY <1>5, <1>6 DEF Active
<1>10. blind \subseteq blind'
  BY <1>4 DEF Enter
<1> HIDE DEF p
<1> QED
  BY <1>1, <1>5, <1>6, <1>8, <1>9, <1>10 DEF SeenPeriodsDisjoint, Active

LEMMA UpdateRecordDisjoint ==
    ASSUME IInv, NEW q \in Requests, UpdateRecord(q)
    PROVE  SeenPeriodsDisjoint'
<1> DEFINE p == request[q].period
           new == request[q].id
<1>1. TypeOK /\ SeenPeriodsDisjoint
  BY DEF IInv, History
<1>2. p \in Periods /\ new \in Records
  BY <1>1, RequestShape DEF UpdateRecord, TypeOK
<1>3. \A j \in Active \ unseen[q] : j # new => ~Overlap(p, record[j].period)
  BY DEF UpdateRecord, IInv, SearchesHold, Free
<1>4. record'[new].period = p
  BY <1>1, <1>2 DEF UpdateRecord, Moved, TypeOK, RecordRows
<1>5. \A j \in Records \ {new} : record'[j] = record[j]
  BY <1>1, <1>2 DEF UpdateRecord, TypeOK
<1>6. \A j \in Active : record[j].period \in Periods \cup {NoPeriod}
  BY <1>1 DEF TypeOK, RecordRows, Active
<1>7. \A j \in Active \ {new} :
        \/ ~Overlap(p, record[j].period) /\ ~Overlap(record[j].period, p)
        \/ {new, j} \in blind' /\ {j, new} \in blind'
  <2> SUFFICES ASSUME NEW j \in Active \ {new}, j \in unseen[q]
               PROVE  {new, j} \in blind' /\ {j, new} \in blind'
    BY <1>2, <1>3, <1>6, OverlapSymmetric
  <2>1. {new, j} \in {{x, y} : x \in {new}, y \in unseen[q]} /\ {j, new} = {new, j}
    OBVIOUS
  <2> QED
    BY <2>1 DEF UpdateRecord, Enter
<1>8. \A j \in Active' : j = new \/ (j \in Active /\ j # new)
  BY <1>5 DEF Active
<1>9. blind \subseteq blind'
  BY DEF UpdateRecord, Enter
<1> HIDE DEF p, new
<1> QED
  BY <1>1, <1>2, <1>4, <1>5, <1>7, <1>8, <1>9 DEF SeenPeriodsDisjoint, Active

(* Each row of a batch is in one place.                                     *)
LEMMA ConfirmBatchDisjoint ==
    ASSUME IInv, NEW q \in Requests, ConfirmBatch(q)
    PROVE  SeenPeriodsDisjoint'
<1> DEFINE rows == request[q].rows
<1>1. TypeOK /\ SeenPeriodsDisjoint
  BY DEF IInv, History
<1>2. rows \in SUBSET Periods
  BY <1>1, RequestShape DEF ConfirmBatch, TypeOK
<1>3. /\ Disjoint(rows)
      /\ \A p \in rows : \A j \in Active \ unseen[q] : ~Overlap(p, record[j].period)
  BY DEF ConfirmBatch, IInv, SearchesHold, Free
<1>4. PICK place \in Injection(rows, Absent) :
        /\ record' = [i \in Records |->
            IF \E p \in rows : place[p] = i
            THEN NewRecord(CHOOSE p \in rows : place[p] = i)
            ELSE record[i]]
        /\ Enter(q, {place[p] : p \in rows})
  BY DEF ConfirmBatch
<1>5. place \in [rows -> Absent]
  BY <1>4 DEF Injection
<1>6. \A p \in rows : place[p] \in Records /\ place[p] \notin Active
  BY <1>5 DEF Absent, Active
<1>7. ASSUME NEW i \in Active'
      PROVE  \/ i \in Active /\ record'[i] = record[i]
             \/ \E p \in rows : place[p] = i /\ record'[i].period = p
  <2>1. i \in Records
    BY DEF Active
  <2>2. CASE \E p \in rows : place[p] = i
    <3>1. PICK p : p = CHOOSE x \in rows : place[x] = i
      OBVIOUS
    <3>2. p \in rows /\ place[p] = i
      BY <2>2, <3>1
    <3>3. record'[i] = NewRecord(p)
      BY <1>4, <2>1, <2>2, <3>1
    <3> QED
      BY <3>2, <3>3 DEF NewRecord
  <2>3. CASE ~\E p \in rows : place[p] = i
    BY <1>4, <2>1, <2>3 DEF Active
  <2> QED
    BY <2>2, <2>3
<1>8. \A j \in Active : record[j].period \in Periods \cup {NoPeriod}
  BY <1>1 DEF TypeOK, RecordRows, Active
<1>9. \A p \in rows, j \in Active :
        \/ ~Overlap(p, record[j].period) /\ ~Overlap(record[j].period, p)
        \/ {place[p], j} \in blind' /\ {j, place[p]} \in blind'
  <2> SUFFICES ASSUME NEW p \in rows, NEW j \in Active, j \in unseen[q]
               PROVE  {place[p], j} \in blind' /\ {j, place[p]} \in blind'
    BY <1>2, <1>3, <1>8, OverlapSymmetric
  <2>1. {place[p], j} \in {{x, y} : x \in {place[o] : o \in rows}, y \in unseen[q]}
        /\ {j, place[p]} = {place[p], j}
    OBVIOUS
  <2> QED
    BY <1>4, <2>1 DEF Enter
<1>10. \A p, o \in rows : Overlap(p, o) => p = o
  BY <1>3 DEF Disjoint
<1>11. blind \subseteq blind'
  BY <1>4 DEF Enter
<1> HIDE DEF rows
<1>12. ASSUME NEW i \in Active', NEW j \in Active', Overlap(record'[i].period, record'[j].period)
       PROVE  i = j \/ {i, j} \in blind'
  <2>1. CASE i \in Active /\ record'[i] = record[i] /\ j \in Active /\ record'[j] = record[j]
    BY <1>1, <1>11, <1>12, <2>1 DEF SeenPeriodsDisjoint
  <2>2. ASSUME NEW p \in rows, place[p] = i, record'[i].period = p,
               j \in Active, record'[j] = record[j]
        PROVE  {i, j} \in blind'
    BY <1>9, <1>12, <2>2
  <2>3. ASSUME NEW p \in rows, place[p] = j, record'[j].period = p,
               i \in Active, record'[i] = record[i]
        PROVE  {i, j} \in blind'
    BY <1>9, <1>12, <2>3
  <2>4. ASSUME NEW p \in rows, place[p] = i, record'[i].period = p,
               NEW o \in rows, place[o] = j, record'[j].period = o
        PROVE  i = j
    BY <1>10, <1>12, <2>4
  <2> QED
    BY <1>7, <2>1, <2>2, <2>3, <2>4
<1> QED
  BY <1>12 DEF SeenPeriodsDisjoint

(* What a review finds is sound.                                            *)
LEMMA CoveredSound ==
    ASSUME SeenPeriodsDisjoint, NEW p
    PROVE  Sound(Covered(p), p)
<1> SUFFICES ASSUME NEW c \in Covered(p), NEW e \in Covered(p)
             PROVE  /\ Within(c.period, p)
                    /\ Overlap(c.period, e.period) => c = e \/ {c.id, e.id} \in blind
  BY DEF Sound
<1>1. PICK i \in Active : Within(record[i].period, p) /\ c = [id |-> i, period |-> record[i].period]
  BY DEF Covered
<1>2. PICK j \in Active : e = [id |-> j, period |-> record[j].period]
  BY DEF Covered
<1>3. c.period = record[i].period /\ e.period = record[j].period /\ c.id = i /\ e.id = j
  BY <1>1, <1>2
<1>4. Overlap(c.period, e.period) => i = j \/ {i, j} \in blind
  BY <1>3 DEF SeenPeriodsDisjoint
<1> QED
  BY <1>1, <1>2, <1>3, <1>4

LEMMA ActsKeepsInv ==
    ASSUME IInv, NEW q \in Requests, Acts(q)
    PROVE  IInv'
<1>1. History'
  BY ActsKeepsHistory DEF IInv
<1>2. TypeOK /\ RowsDisjoint /\ ReportsCountSeenDaysOnce /\ request[q] \in RequestStates
  BY DEF IInv, History, TypeOK
<1>3. ASSUME UNCHANGED record PROVE NoneAdded
  BY <1>3 DEF NoneAdded
<1>4. ASSUME UNCHANGED batch PROVE RowsDisjoint'
  BY <1>2, <1>4 DEF RowsDisjoint, Disjoint
<1>5. ASSUME UNCHANGED <<report, blind>> PROVE ReportsCountSeenDaysOnce'
  BY <1>2, <1>5 DEF ReportsCountSeenDaysOnce
<1>7. ASSUME NEW p \in Periods, OpenCreate(q, p) PROVE IInv'
  <2>1. Free([at |-> "creating", period |-> p], {})
    BY <1>7 DEF OpenCreate, Free, AvailableToNew
  <2> QED
    BY <1>1, <1>7, <2>1, OpenStates, OpenKeepsInv DEF OpenCreate, IInv
<1>8. ASSUME NEW p \in Periods, OpenReview(q, p) PROVE IInv'
  <2> DEFINE state == [at |-> "reviewing", period |-> p, covers |-> Covered(p)]
  <2>1. state \in RequestStates
    BY <1>1, <1>2, <1>8 DEF OpenReview, Open, Goto, History, TypeOK
  <2>2. Sound(state.covers, state.period)
    BY CoveredSound DEF IInv
  <2>3. Free(state, {})
    BY DEF Free
  <2> HIDE DEF state
  <2>4. Open(q, state)
    BY <1>8 DEF OpenReview, state
  <2>5. state.at = "reviewing"
    BY DEF state
  <2> QED
    BY <1>1, <2>1, <2>2, <2>3, <2>4, <2>5, OpenKeepsInv
<1>9. ASSUME NEW i \in Records, OpenVoid(q, i) PROVE IInv'
  <2>1. Free([at |-> "voiding", id |-> i, expected |-> record[i].version_no], {})
    BY DEF Free
  <2> QED
    BY <1>1, <1>9, <2>1, OpenStates, OpenKeepsInv DEF OpenVoid, IInv
<1>10. ASSUME NEW i \in Records, NEW p \in Periods, OpenUpdate(q, i, p) PROVE IInv'
  <2>1. Free([at |-> "moving", id |-> i, expected |-> record[i].version_no, period |-> p], {})
    BY <1>10 DEF OpenUpdate, Free, Available
  <2> QED
    BY <1>1, <1>10, <2>1, OpenStates, OpenKeepsInv DEF OpenUpdate, IInv
<1>11. CASE CreateRecord(q)
  <2>1. PICK i \in Absent :
            record' = [record EXCEPT ![i] = NewRecord(request[q].period)] /\ Enter(q, {i})
    BY <1>11 DEF CreateRecord
  <2>2. {i} \in SUBSET Records /\ \A j \in Records \ {i} : record'[j] = record[j]
    BY <1>2, <2>1 DEF Absent, TypeOK
  <2>3. SeenPeriodsDisjoint' /\ RowsDisjoint' /\ UNCHANGED report
    BY <1>4, <1>11, CreateRecordDisjoint DEF CreateRecord
  <2> QED
    BY <1>1, <2>1, <2>2, <2>3, EnterKeepsInv
<1>12. CASE UpdateRecord(q)
  <2> PICK i : i = request[q].id
    OBVIOUS
  <2>1. i \in Records
    BY <1>2, <1>12, RequestShape DEF UpdateRecord
  <2>2. {i} \in SUBSET Records /\ \A j \in Records \ {i} : record'[j] = record[j]
    BY <1>2, <1>12, <2>1 DEF UpdateRecord, TypeOK
  <2>3. SeenPeriodsDisjoint' /\ RowsDisjoint' /\ UNCHANGED report /\ Enter(q, {i})
    BY <1>4, <1>12, UpdateRecordDisjoint DEF UpdateRecord
  <2> QED
    BY <1>1, <2>2, <2>3, EnterKeepsInv
<1>13. CASE VoidRecord(q)
  <2>1. NoneAdded
    BY <1>2, <1>13 DEF VoidRecord, NoneAdded, TypeOK, RecordRows, Voided
  <2> QED
    BY <1>1, <1>4, <1>5, <1>13, <2>1, EndKeepsInv DEF VoidRecord
<1>14. CASE OpenImport(q)
  <2> DEFINE state == [at |-> "importing", rows |-> Importable(batch.rows)]
  <2>1. state \in RequestStates
    BY <1>1, <1>2, <1>14 DEF OpenImport, Open, Goto, History, TypeOK
  <2>2. Free(state, {})
    BY <1>2 DEF Free, Importable, AvailableToNew, RowsDisjoint, Disjoint
  <2>3. state.at = "importing" /\ Open(q, state)
    BY <1>14 DEF OpenImport
  <2> HIDE DEF state
  <2> QED
    BY <1>1, <1>14, <2>1, <2>2, <2>3, OpenKeepsInv DEF OpenImport
<1>15. CASE ConfirmBatch(q)
  <2>1. RowsDisjoint'
    BY <1>2, <1>15 DEF ConfirmBatch, RowsDisjoint, Disjoint, TypeOK, BatchRows
  <2>2. PICK place \in Injection(request[q].rows, Absent) :
            /\ Enter(q, {place[p] : p \in request[q].rows})
            /\ record' = [i \in Records |->
                IF \E p \in request[q].rows : place[p] = i
                THEN NewRecord(CHOOSE p \in request[q].rows : place[p] = i)
                ELSE record[i]]
    BY <1>15 DEF ConfirmBatch
  <2> PICK entered : entered = {place[p] : p \in request[q].rows}
    OBVIOUS
  <2>3. entered \in SUBSET Records /\ Enter(q, entered)
    BY <2>2 DEF Injection, Absent
  <2>4. \A i \in Records \ entered : record'[i] = record[i]
    BY <2>2
  <2>5. SeenPeriodsDisjoint' /\ UNCHANGED report
    BY <1>15, ConfirmBatchDisjoint DEF ConfirmBatch
  <2> QED
    BY <1>1, <2>1, <2>3, <2>4, <2>5, EnterKeepsInv
<1>16. ASSUME NEW k \in Reports, OpenReportEdit(q, k) PROVE IInv'
  <2>1. Free([at |-> "editing_report", id |-> k, expected |-> report[k].version_no], {})
    BY DEF Free
  <2> QED
    BY <1>1, <1>16, <2>1, OpenStates, OpenKeepsInv DEF OpenReportEdit, IInv
<1>17. ASSUME NEW k \in Reports, NEW content \in Texts, GenerateReport(q, k, content)
       PROVE  IInv'
  <2>1. Sound(request[q].covers, request[q].period)
    BY <1>17 DEF GenerateReport, IInv, SnapshotsSound
  <2>2. report'[k].covers = request[q].covers /\ report'[k].period = request[q].period
    BY <1>2, <1>17 DEF GenerateReport, TypeOK
  <2>3. \A j \in Reports \ {k} : report'[j] = report[j]
    BY <1>2, <1>17 DEF GenerateReport, TypeOK
  <2>4. ReportsCountSeenDaysOnce'
    BY <1>2, <1>17, <2>1, <2>2, <2>3 DEF GenerateReport, ReportsCountSeenDaysOnce, Sound
  <2> QED
    BY <1>1, <1>3, <1>4, <1>17, <2>4, EndKeepsInv DEF GenerateReport
<1>18. ASSUME NEW content \in Texts, UpdateReport(q, content) PROVE IInv'
  <2>1. \A j \in Reports :
            report'[j].covers = report[j].covers /\ report'[j].period = report[j].period
    BY <1>2, <1>18 DEF UpdateReport, TypeOK, ReportRows, Edited
  <2>2. ReportsCountSeenDaysOnce'
    BY <1>2, <1>18, <2>1 DEF UpdateReport, ReportsCountSeenDaysOnce
  <2> QED
    BY <1>1, <1>3, <1>4, <1>18, <2>2, EndKeepsInv DEF UpdateReport
<1>19. ASSUME NEW content \in Texts, UpdateDiagnosis(q, content) PROVE IInv'
  BY <1>1, <1>3, <1>4, <1>5, <1>19, EndKeepsInv DEF UpdateDiagnosis
<1>20. ASSUME NEW source \in Reports \cup {NoReport}, OpenDiagnosis(q, source) PROVE IInv'
  <2> DEFINE state == [at |-> "diagnosing", source |-> source,
                       cited |-> IF source = NoReport THEN NoText ELSE report[source].content]
  <2>1. state \in RequestStates
    BY <1>1, <1>2, <1>20 DEF OpenDiagnosis, Open, Goto, History, TypeOK
  <2>2. Free(state, {}) /\ state.at = "diagnosing" /\ Open(q, state)
    BY <1>20 DEF Free, OpenDiagnosis
  <2> HIDE DEF state
  <2> QED
    BY <1>1, <2>1, <2>2, OpenKeepsInv
<1>21. ASSUME NEW d \in Diagnoses, OpenDiagnosisEdit(q, d) PROVE IInv'
  <2>1. Free([at |-> "editing_diagnosis", id |-> d, expected |-> diagnosis[d].version_no], {})
    BY DEF Free
  <2> QED
    BY <1>1, <1>21, <2>1, OpenStates, OpenKeepsInv DEF OpenDiagnosisEdit, IInv
<1>22. ASSUME NEW d \in Diagnoses, NEW content \in Texts, GenerateDiagnosis(q, d, content)
       PROVE  IInv'
  BY <1>1, <1>3, <1>4, <1>5, <1>22, EndKeepsInv DEF GenerateDiagnosis
<1>23. CASE Refuse(q)
  BY <1>1, <1>3, <1>4, <1>5, <1>23, EndKeepsInv DEF Refuse
<1> QED
  BY <1>7, <1>8, <1>9, <1>10, <1>11, <1>12, <1>13, <1>14, <1>15, <1>16, <1>17, <1>18, <1>19,
     <1>20, <1>21, <1>22, <1>23 DEF Acts

LEMMA NextInductive == IInv /\ [Next]_vars => IInv'
<1> SUFFICES ASSUME IInv, [Next]_vars PROVE IInv'
  OBVIOUS
<1>1. History'
  BY NextHistory DEF IInv
<1>2. ASSUME NEW rows \in SUBSET Periods, UploadBatch(rows) PROVE IInv'
  <2>1. RowsDisjoint'
    BY <1>2 DEF UploadBatch, RowsDisjoint, Disjoint
  <2>2. NoneAdded
    BY <1>2 DEF UploadBatch, NoneAdded
  <2>3. SearchesHold'
    <3> SUFFICES ASSUME NEW r \in Requests PROVE Free(request[r], unseen[r])'
      BY DEF SearchesHold
    <3>1. PICK x : x = request[r] /\ x = request'[r]
      BY <1>2 DEF UploadBatch
    <3>2. PICK y : y = unseen[r] /\ y = unseen'[r]
      BY <1>2 DEF UploadBatch
    <3>3. Free(x, y)'
      BY <2>2, <3>1, <3>2, FreeStays DEF IInv, SearchesHold
    <3> QED
      BY <3>1, <3>2, <3>3 DEF Free
  <2>4. SnapshotsSound' /\ SeenPeriodsDisjoint' /\ ReportsCountSeenDaysOnce'
    BY <1>2
    DEF UploadBatch, IInv, SnapshotsSound, Sound,
        SeenPeriodsDisjoint, Active, ReportsCountSeenDaysOnce
  <2> QED
    BY <1>1, <2>1, <2>3, <2>4 DEF IInv
<1>3. ASSUME NEW q \in Requests, Acts(q) PROVE IInv'
  BY <1>3, ActsKeepsInv
<1>4. CASE UNCHANGED vars
  <2>1. SnapshotsSound' /\ SeenPeriodsDisjoint' /\ ReportsCountSeenDaysOnce'
    BY <1>4
    DEF vars, IInv, SnapshotsSound, Sound,
        SeenPeriodsDisjoint, Active, ReportsCountSeenDaysOnce
  <2>2. RowsDisjoint' /\ SearchesHold'
    BY <1>4
    DEF vars, IInv, RowsDisjoint, Disjoint, SearchesHold, Free, Active
  <2> QED
    BY <1>1, <2>1, <2>2 DEF IInv
<1> QED
  BY <1>2, <1>3, <1>4 DEF Next

(***************************************************************************)
(* Theorems, for any number of records, days, reports, diagnoses and       *)
(* requests.                                                               *)
(***************************************************************************)

LEMMA Inductive == Spec => []IInv
<1>1. IInv /\ [Next]_vars => IInv'
  BY NextInductive
<1> QED
  BY <1>1, InitInductive, PTL DEF Spec

(* Every variable keeps its type.                                           *)
THEOREM TypeCorrect == Spec => []TypeOK
<1>1. History => TypeOK
  BY DEF History
<1> QED
  BY <1>1, HistoryInductive, PTL

(* Every version of a report has its revision, however edits overlap.       *)
THEOREM HistoryComplete == Spec => []RevisionsComplete
<1>1. History => RevisionsComplete
  BY DEF History
<1> QED
  BY <1>1, HistoryInductive, PTL

(* A diagnosis cites a text its source review had, even if the review was   *)
(* edited while the provider answered.                                      *)
THEOREM CitationsHold == Spec => []DiagnosesCiteRevisions
<1>1. History => DiagnosesCiteRevisions
  BY DEF History
<1> QED
  BY <1>1, HistoryInductive, PTL

(* Two active records share a day only if one of them was once given its    *)
(* period by a request opened before the other had its own.                 *)
THEOREM PeriodsDisjoint == Spec => []SeenPeriodsDisjoint
<1>1. IInv => SeenPeriodsDisjoint
  BY DEF IInv
<1> QED
  BY <1>1, Inductive, PTL

(* So a report counts no day twice but of such records, although records    *)
(* are voided and moved while the provider answers, and nothing outside its *)
(* period.                                                                  *)
THEOREM DaysCountedOnce == Spec => []ReportsCountSeenDaysOnce
<1>1. IInv => ReportsCountSeenDaysOnce
  BY DEF IInv
<1> QED
  BY <1>1, Inductive, PTL
===============================================================================
