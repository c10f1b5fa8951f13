SPECIFICATION Spec
CONSTANTS
    Ids = {i1}
    Fps = {f1, f2}
    Txts = {t1}
    Runs = {r1}
    NoRow = NoRow
    NoRun = NoRun
    Nothing = Nothing
    SingleProcess = TRUE
    Authoritative = FALSE
    LegacyImports = {FALSE}
    SidecarImports = {}
PROPERTY HumanHistoryKept
CHECK_DEADLOCK FALSE
