SPECIFICATION Spec
CONSTANTS
    Ids = {i1, i2}
    Fps = {f1}
    Txts = {t1}
    Runs = {r1}
    NoRow = NoRow
    NoRun = NoRun
    Nothing = Nothing
    SingleProcess = FALSE
    Authoritative = FALSE
    LegacyImports = {TRUE}
    SidecarImports = {}
PROPERTY ReleaseContinuity
CHECK_DEADLOCK FALSE
