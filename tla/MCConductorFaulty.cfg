\* Any verb may go unanswered, twice.
SPECIFICATION Spec
CONSTANTS
  N = 3
  Owners <- ThreeActorScript
  Labelled <- NoDevice
  Droppable <- AnyVerb
  MaxUnanswered = 2
  MaxCrashes = 0
INVARIANTS
  EachFaultCostsOne
CHECK_DEADLOCK FALSE
