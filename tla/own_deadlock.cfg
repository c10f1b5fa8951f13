SPECIFICATION FairSpec
CONSTANTS
    Procs = {p1}
    Tasks = {t1, t2}
    MaxCrashes = 0
    MaxWriteFails = 1
    None = None
PROPERTY SubmitAnswered
CHECK_DEADLOCK FALSE
