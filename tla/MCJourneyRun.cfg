\* Two devices, one hand-over; device 1 may leave a process that keeps its pipe.
\* A run comes to its end, so the graph has terminal states.
SPECIFICATION FairSpec
CONSTANTS
  Actors = 2
  MaxDevices = 6
  Owners <- Relay
  Holders = {1}
  Noise = {"shot", "garbled"}
CHECK_DEADLOCK FALSE
INVARIANTS
  GreenIsEarned
  FailureIsHeard
  ManifestAgrees
PROPERTIES
  EndsOnceOver
