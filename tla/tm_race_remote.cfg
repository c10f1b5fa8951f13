SPECIFICATION Spec
CONSTANTS
    Ids = {i1}
    Fps = {f1, f2}
    Txts = {t1}
    Runs = {r1}
    NoRow = NoRow
    NoRun = NoRun
    Nothing = Nothing
    SingleProcess = FALSE
    Authoritative = FALSE
    LegacyImports = {TRUE}
    SidecarImports = {"locked"}
PROPERTY RemoteKept
CHECK_DEADLOCK FALSE
