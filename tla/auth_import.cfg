SPECIFICATION Spec
CONSTANTS
  Ids = {i1, i2}
  Fps = {f1}
  Txts = {t1, t2}
  Runs = {r1}
  NoRow = NoRow
  NoRun = NoRun
  i1 = i1
  i2 = i2
  f1 = f1
  t1 = t1
  t2 = t2
  Paths = {json}
  Procs = {cli}
  Bad <- FailsImport
  Source <- SourceNow
  Current <- Game
  Old <- OldFile
  Nothing = Nothing
  Remote = {"unreviewed", "suspect", "locked"}
  Overlap = FALSE
  MaxCommands = 6
  MaxFaults = 1
INVARIANTS MarksAreEarned SkippedIsCurrentUnlessKilled
PROPERTIES ProtectionKept AuthorityHolds RoundTrip
CHECK_DEADLOCK FALSE
