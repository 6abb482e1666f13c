SPECIFICATION Spec
CONSTANTS
    Records = {i1, i2}
    Reports = {k1}
    Diagnoses = {d1}
    Requests = {q1, q2}
    Texts = {t1, t2}
    MaxDay = 2
    MaxVersion = 3
    NoText = NoText
    NoReport = NoReport
SYMMETRY Symmetric
CONSTRAINT RecordsApart
INVARIANTS
    SeenPeriodsDisjoint
    ReportsCountSeenDaysOnce
    DiagnosesCiteRevisions
