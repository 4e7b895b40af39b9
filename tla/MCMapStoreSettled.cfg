\* A scan and a labelled rebuild; the source is edited between commands and
\* one process dies.
SPECIFICATION FairSpec
CONSTANTS
  p1 = p1
  p2 = p2
  p3 = p3
  Proc = {p1, p2}
  Kind <- ScanAndRebuild
  Screen = {s1, s2}
  MaxEdits = 1
  EditsDuringScan = FALSE
  MaxDeaths = 1
  MaxOutages = 0
  WritesBack = TRUE
PROPERTIES
  OldScreensStayOut
  IncompleteOnlyIntoCurrent
  EveryCommandEnds
CHECK_DEADLOCK FALSE
