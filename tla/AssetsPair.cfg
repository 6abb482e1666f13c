SPECIFICATION Spec
CONSTANTS
    Jobs = {j1, j2}
    ResultCount = 1
    Contents = {a, b}
    Sessions = {s1, s2}
    MaxLock = 2
    NoContent = NoContent
SYMMETRY Symmetric
CONSTRAINT OneJobOrContent
INVARIANTS
    VersionsConsecutive
    CurrentLockShowsReview
    UncontestedFilesKept
