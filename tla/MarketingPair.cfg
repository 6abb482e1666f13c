SPECIFICATION Spec
CONSTANTS
    Links = {l1}
    Recommendations = {r1}
    Experiments = {x1}
    Sessions = {s1, s2}
    Visitors = {v1, v2}
    Contents = {t1, t2}
    MaxLinkVersion = 2
    MaxVersion = 4
    MaxClicks = 3
    Unknown = Unknown
    NoContent = NoContent
    NoRecommendation = NoRecommendation
SYMMETRY Symmetric
CONSTRAINT ClicksApart
INVARIANTS
    CountersMatch
    CountedOnce
    DecidedAsSeen
    DraftedFromAgreed
PROPERTIES
    ExperimentRules
