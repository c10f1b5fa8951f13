CONSTANTS
  Runs = {r1}
  Versions = {v1, v2}
  Contents = {c1, c2}
  Keys = {k1}
  Targets = {bucket}
  Local = {}
  Versioned = {}
  Compat = TRUE
  Builders = {b1, b2}
  Publishers = {p1}
  SharedRuns = TRUE
  SharedTargets = FALSE
  Shared = Shared
  None = None
  MaxFaults = 0
SPECIFICATION Spec
PROPERTY ImplementsRelease
SYMMETRY Symmetry
