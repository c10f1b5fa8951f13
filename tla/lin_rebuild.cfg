SPECIFICATION Spec
CONSTANTS
    Runs = {r1, r2, r3}
    Units = {u1, u2}
    None = None
    OldRuns = {r1}
    Again = {"retry"}
    MaxVersion = 2
    MaxRequests = 1
    MaxKills = 1
    MaxParallel = 1
INVARIANTS ShipsCurrent EvidenceComplete NothingPaidTwice
SYMMETRY Symmetry
CHECK_DEADLOCK FALSE
