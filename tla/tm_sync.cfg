SPECIFICATION Spec
CONSTANTS
    Ids = {i1}
    Fps = {f1, f2}
    Txts = {t1, t2}
    Runs = {r1}
    NoRow = NoRow
    NoRun = NoRun
    Nothing = Nothing
    SingleProcess = TRUE
    Authoritative = FALSE
    LegacyImports = {TRUE}
    SidecarImports = {"human", "locked"}
PROPERTY SyncKeepsProtected
CHECK_DEADLOCK FALSE
