------------------------- MODULE MCPerformanceReviews -------------------------
(* Instances of PerformanceReviews for TLC.                                 *)
EXTENDS PerformanceReviews, TLC

(* No definition tells records, requests or texts apart.                    *)
Symmetric == Permutations(Records) \cup Permutations(Requests) \cup Permutations(Texts)

(* Edits of reports, and diagnoses, read and write nothing of the records:  *)
(* behaviours with several versions of reports or with a diagnosis go       *)
(* without an import, with one record of one day that is not changed.       *)
ReportsUnedited == \A k \in Reports : report[k].version_no < 2

Undiagnosed ==
    /\ \A d \in Diagnoses : diagnosis[d] = AbsentDiagnosis
    /\ \A q \in Requests : request[q].at # "diagnosing"

FewVersions == \A i \in Records : record[i].version_no <= 2

OneRecord ==
    /\ \A i \in Records : record[i].version_no <= 1 /\ record[i].period.end <= 1
    /\ \A i, j \in Records : i = j \/ record[i] = AbsentRecord \/ record[j] = AbsentRecord
    /\ batch.status = "absent"
    /\ \A q \in Requests : request[q].at \notin {"creating", "moving", "voiding"}
                          \/ record = [i \in Records |-> AbsentRecord]

RecordsApart == (ReportsUnedited /\ Undiagnosed /\ FewVersions) \/ OneRecord
=============================================================================
