SPECIFICATION Spec
CONSTANTS
    f1 = f1
    f2 = f2
    u1 = u1
    u2 = u2
    u3 = u3
    Workers = {w1}
    Files = {f1,f2}
    Units = {u1, u2, u3}
    UnitsOf <- TwoAndOne
    MaxRetries = 1
    MaxSplits = 1
    MaxRequests = 2
    MaxTokens = 2
    Threshold = 2
    MaxFaults = 0
    MaxVersion = 2
    Legacy = TRUE
    NoFile = NoFile
INVARIANTS RebuildIsExact
CHECK_DEADLOCK FALSE
