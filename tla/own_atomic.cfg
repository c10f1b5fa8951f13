SPECIFICATION Spec
CONSTANTS
    Procs = {p1, p2}
    Tasks = {t1, t2}
    MaxCrashes = 0
    MaxWriteFails = 0
    None = None
PROPERTY ResumedAfterStop
CHECK_DEADLOCK FALSE
