SPECIFICATION Spec
CONSTANTS
  Ids = {i1, i2}
  Fps = {f1}
  Txts = {t1}
  Runs = {r1}
  NoRow = NoRow
  NoRun = NoRun
  i1 = i1
  i2 = i2
  f1 = f1
  t1 = t1
  t2 = t2
  Paths = {json}
  Procs = {cli, cli2}
  Bad <- FailsImport
  Source <- SourceNow
  Current <- Game
  Old <- OldFile
  Nothing = Nothing
  Remote = {"locked", "suspect"}
  Overlap = TRUE
  MaxCommands = 7
  MaxFaults = 0
PROPERTY AuthorityHolds
CHECK_DEADLOCK FALSE
