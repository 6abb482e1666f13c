SPECIFICATION Spec
CONSTANTS
    Competitors = {c1}
    Requests = {q1, q2}
    Results = {v1, v2}
    MaxSnapshots = 4
    PromptRuns = TRUE
    NoResult = NoResult
    NoOne = NoOne
    NoCompetitor = NoCompetitor
SYMMETRY Symmetric
INVARIANTS
    OneRunPerMonitor
    ChangesTracked
    FailedAfterThree
