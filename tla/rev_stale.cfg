SPECIFICATION Spec
CONSTANTS
    Ids = {i1}
    Fps = {f1}
    Txts = {t1, t2}
    Runs = {r1}
    NoRow = NoRow
    NoRun = NoRun
    NoRevision = NoRevision
    Procs = {p1}
    Kinds = {"commit", "unify", "revert"}
    CliWriters = "any"
    FailIn = {}
    MayCrash = FALSE
    MaxLog = 2
PROPERTIES RevertIsAtomic UnifyIsAtomic
CHECK_DEADLOCK FALSE
