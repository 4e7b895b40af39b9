\* A scan, a command that needs a map and a labelled rebuild on one checkout;
\* one process dies and the power fails once, in either order.
SPECIFICATION Spec
CONSTANTS
  p1 = p1
  p2 = p2
  p3 = p3
  Proc = {p1, p2, p3}
  Kind <- ScanEnsureRebuild
  Screen = {s1}
  MaxEdits = 0
  EditsDuringScan = FALSE
  MaxDeaths = 1
  MaxOutages = 1
  WritesBack = TRUE
INVARIANTS
  NeverRefused
  WholeUnderLock
PROPERTIES
  ReportedIsDurable
  ImplementsSnapshotStore
CHECK_DEADLOCK FALSE
