\* One device is labelled, the other claims; nothing is lost.
SPECIFICATION Spec
CONSTANTS
  N = 2
  Owners <- TwoActorScript
  Labelled <- FirstDevice
  Droppable <- Reliable
  MaxUnanswered = 0
  MaxCrashes = 0
INVARIANT DistinctRoles
CHECK_DEADLOCK FALSE
