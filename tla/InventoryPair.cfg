SPECIFICATION Spec
CONSTANTS
    Skus = {s1}
    Users = {u1, u2}
    Batches = {b1}
    Configs = {c1}
    NewConfig = c1
    MaxQty = 1
    MaxMovements = 4
    NoView = NoView
    NoVersion = NoVersion
    NoRow = NoRow
    NoBatch = NoBatch
SYMMETRY Symmetric
INVARIANTS
    LedgerReplays
    ReplayFits
    CurrentVersionShowsQuantities
PROPERTIES
    BatchBookedOnce
    BatchRowsWhole
