SPECIFICATION Spec
CONSTANTS
    Procs = {p1, p2}
    Tasks = {t1, t2, t3}
    MaxCrashes = 1
    MaxWriteFails = 0
    None = None
INVARIANT OneRunner
CHECK_DEADLOCK FALSE
