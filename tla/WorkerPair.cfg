SPECIFICATION OverlapSpec
CONSTANTS
    Workers = {w1, w2}
    Jobs = {j1}
    Users = {u1}
    Tasks = {t1, t2}
    MaxAttempts = 2
    PromptWorkers = FALSE
    NoTask = NoTask
    NoWorker = NoWorker
    NoJob = NoJob
    NoVersion = NoVersion
SYMMETRY Symmetric
INVARIANTS
    ResultMatchesTask
    LockProtectsTask
    CurrentVersionShowsRow
    MeetingsAreOverruns
    StrandedOnlyIfMet
    FilesLostOnlyIfMet
PROPERTIES
    TaskLostOnlyIfMet
    LifecycleSpec
