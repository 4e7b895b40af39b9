\* Two commands, none killed: one check of a finding that nobody kept is enough.
SPECIFICATION Spec
CONSTANTS
  Procs = {p1, p2}
  MaxDeaths = 0
SYMMETRY Symmetry
CHECK_DEADLOCK FALSE
INVARIANTS
  PendingIsNeverStored
