SPECIFICATION Spec
CONSTANTS
    Runs = {r1, r2, r3}
    Units = {u1, u2}
    None = None
    OldRuns = {}
    Again = {"resume"}
    MaxVersion = 1
    MaxRequests = 1
    MaxKills = 1
    MaxParallel = 1
INVARIANT EvidenceComplete
SYMMETRY Symmetry
CHECK_DEADLOCK FALSE
