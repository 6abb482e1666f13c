SPECIFICATION Spec
CONSTANTS
    Plans = {p1, p2}
    Types = {t1, t2}
    Contents = {c1, c2}
    Users = {u1, u2}
    Jobs = {j1}
    MaxVersion = 3
    NoOne = NoOne
    NoRequest = NoRequest
    NoJob = NoJob
    NoType = NoType
    NoContent = NoContent
SYMMETRY Symmetric
INVARIANTS
    AtMostOneSelected
    RevisionsComplete
    JobsMatchRevisions
PROPERTIES
    ArchivedStays
