SPECIFICATION Spec
CONSTANTS
    Ids = {i1}
    Fps = {f1}
    Txts = {t1, t2}
    Runs = {r1}
    NoRow = NoRow
    NoRun = NoRun
    NoRevision = NoRevision
    Procs = {p1}
    Kinds = {"commit", "unify", "revert"}
    CliWriters = "any"
    FailIn = {}
    MayCrash = FALSE
    MaxLog = 1
PROPERTIES RevertIsFresh UnifyKeepsDecisions
CHECK_DEADLOCK FALSE
