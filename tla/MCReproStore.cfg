\* Three commands in any order and overlap, one of which may be killed.  Each
\* runs once, so the graph has terminal states.
SPECIFICATION Spec
CONSTANTS
  Procs = {p1, p2, p3}
  MaxDeaths = 1
SYMMETRY Symmetry
CHECK_DEADLOCK FALSE
INVARIANTS
  RequiredIsEarned
  KeptIsWhole
PROPERTIES
  StatusIsKept
