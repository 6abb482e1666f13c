SPECIFICATION FairSpec
CONSTANTS
    Workers = {w1, w2}
    Jobs = {j1}
    Users = {}
    Tasks = {t1, t2}
    MaxAttempts = 2
    PromptWorkers = TRUE
    NoTask = NoTask
    NoWorker = NoWorker
    NoJob = NoJob
    NoVersion = NoVersion
INVARIANTS
    OneWorkerPerJob
PROPERTIES
    ActiveJobsSettle
