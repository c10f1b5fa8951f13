SPECIFICATION Spec
CONSTANTS
    f1 = f1
    f2 = f2
    u1 = u1
    u2 = u2
    u3 = u3
    Workers = {w1}
    Files = {f1}
    Units = {u1, u2, u3}
    UnitsOf <- Three
    MaxRetries = 1
    MaxSplits = 1
    MaxRequests = 3
    MaxTokens = 3
    Threshold = 2
    MaxFaults = 0
    MaxVersion = 1
    Legacy = FALSE
    NoFile = NoFile
PROPERTIES SplitsOnlyDecrease
CHECK_DEADLOCK FALSE
