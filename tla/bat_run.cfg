SPECIFICATION Spec
CONSTANTS
    f1 = f1
    f2 = f2
    u1 = u1
    u2 = u2
    u3 = u3
    Workers = {w1, w2}
    Files = {f1, f2}
    Units = {u1, u2, u3}
    UnitsOf <- TwoAndOne
    MaxRetries = 1
    MaxSplits = 1
    MaxRequests = 2
    MaxTokens = 2
    Threshold = 2
    MaxFaults = 2
    MaxVersion = 1
    Legacy = FALSE
    NoFile = NoFile
INVARIANTS EveryUnitHasResult LossIsBounded CleanIsWritten
PROPERTY PaidOnce
CHECK_DEADLOCK FALSE
SYMMETRY Symmetry
