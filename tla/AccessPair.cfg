SPECIFICATION Spec
CONSTANTS
    Users = {u1, u2}
    Tokens = {t1, t2}
    Requests = {q1, q2}
    MaxStates = 2
    NoToken = NoToken
SYMMETRY Symmetric
CONSTRAINT OneTokenOrState
CHECK_DEADLOCK FALSE
INVARIANTS
    RolesRespected
PROPERTIES
    LastAdminGoesUnseen
    StatesReplayedByOverlap
