SPECIFICATION Spec
CONSTANTS
    Ids = {i1, i2}
    Fps = {f1}
    Txts = {t1, t2}
    Runs = {r1}
    NoRow = NoRow
    NoRun = NoRun
    NoRevision = NoRevision
    Procs = {p1}
    Kinds = {"commit", "revert", "skip"}
    CliWriters = "never"
    FailIn = {"commit", "revert"}
    MayCrash = TRUE
    MaxLog = 2
INVARIANTS StoreLeads LedgerLags
PROPERTIES CompensationSparesLogged RevisionHonoured
SYMMETRY Symmetry
CHECK_DEADLOCK FALSE
