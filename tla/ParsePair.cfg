SPECIFICATION LinkSpec
CONSTANTS
    Competitors = {c1}
    Tasks = {t1}
    Requests = {r1, r2}
    Fields = {"name", "price"}
    Values = {v1}
    MaxAttempts = 2
    NoValue = NoValue
    NoPage = NoPage
    NoCompetitor = NoCompetitor
SYMMETRY Symmetric
CONSTRAINT FewFetches
INVARIANTS
    UncontestedOutcomesMatch
    UncrossedSourcesTold
