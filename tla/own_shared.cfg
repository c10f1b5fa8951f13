SPECIFICATION Spec
CONSTANTS
    Procs = {p1, p2}
    Tasks = {t1, t2, t3}
    MaxCrashes = 0
    MaxWriteFails = 1
    None = None
INVARIANTS OneRunner DiskBeforeApi
CHECK_DEADLOCK FALSE
