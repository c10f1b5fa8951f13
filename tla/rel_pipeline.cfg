CONSTANTS
  Runs = {r1, r2}
  Versions = {v1, v2}
  Contents = {c1, c2}
  Keys = {k1}
  Targets = {disk, bucket}
  Local = {disk}
  Versioned = {disk}
  Compat = TRUE
  Builders = {b1}
  Publishers = {p1}
  SharedRuns = FALSE
  SharedTargets = FALSE
  Shared = Shared
  None = None
  MaxFaults = 1
SPECIFICATION Spec
INVARIANTS PointerComplete ReceiptHolds PublishedWasClean
PROPERTIES ImplementsRelease RetrySucceeds
SYMMETRY Symmetry
