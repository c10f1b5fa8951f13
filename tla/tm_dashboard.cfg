SPECIFICATION Spec
CONSTANTS
    Ids = {i1}
    Fps = {f1, f2}
    Txts = {t1, t2}
    Runs = {r1, r2}
    NoRow = NoRow
    NoRun = NoRun
    Nothing = Nothing
    SingleProcess = TRUE
    Authoritative = FALSE
    LegacyImports = {TRUE, FALSE}
    SidecarImports = {"human", "locked", "questionable", "machine"}
INVARIANTS RefusalsReported HistoryExact
PROPERTIES ReleaseContinuity RetiredAsApproved HumanKept FormalKept
CHECK_DEADLOCK FALSE
