SPECIFICATION Spec
CONSTANTS
    Ids = {i1}
    Fps = {f1}
    Txts = {t1, t2}
    Runs = {r1}
    NoRow = NoRow
    NoRun = NoRun
    NoRevision = NoRevision
    Procs = {p1}
    Kinds = {"commit"}
    CliWriters = "any"
    FailIn = {}
    MayCrash = FALSE
    MaxLog = 2
PROPERTY AfterIsWritten
CHECK_DEADLOCK FALSE
