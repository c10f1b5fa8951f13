CONSTANTS
  Runs = {r1, r2}
  Versions = {v1, v2}
  Contents = {c1, c2}
  Keys = {k1}
  Targets = {bucket}
  Local = {}
  Versioned = {}
  Compat = TRUE
  Builders = {b1}
  Publishers = {p1, p2}
  SharedRuns = FALSE
  SharedTargets = TRUE
  Shared = Shared
  None = None
  MaxFaults = 0
SPECIFICATION Spec
INVARIANT ReceiptHolds
SYMMETRY Symmetry
