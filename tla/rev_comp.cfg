SPECIFICATION Spec
CONSTANTS
    Ids = {i1}
    Fps = {f1}
    Txts = {t1, t2}
    Runs = {r1}
    NoRow = NoRow
    NoRun = NoRun
    NoRevision = NoRevision
    Procs = {p1}
    Kinds = {"commit", "revert"}
    CliWriters = "never"
    FailIn = {"revert"}
    MayCrash = FALSE
    MaxLog = 3
INVARIANT Projection
CHECK_DEADLOCK FALSE
