SPECIFICATION FairSpec
CONSTANTS
    Procs = {p1}
    Tasks = {t1, t2, t3}
    MaxCrashes = 1
    MaxWriteFails = 0
    None = None
PROPERTIES SubmitAnswered TaskEnds
CHECK_DEADLOCK FALSE
