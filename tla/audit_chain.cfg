SPECIFICATION Spec
CONSTANTS
    w1 = w1
    w2 = w2
    w3 = w3
    w4 = w4
    Writers = {w1, w2, w3, w4}
    None = None
    MaxTime = 3
SYMMETRY Perms
CHECK_DEADLOCK FALSE
INVARIANTS
    OneBeginning
    OnlyLateRowsAreSkipped
