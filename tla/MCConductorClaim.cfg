\* Shared-build runners: every device claims its role; /next answers may fail
\* to arrive and a device may die.
SPECIFICATION FairSpec
CONSTANTS
  N = 3
  Owners <- ThreeActorScript
  Labelled <- NoDevice
  Droppable <- NextOnly
  MaxUnanswered = 1
  MaxCrashes = 1
INVARIANTS
  DistinctRoles
  OneActorAtATime
  BarrierHolds
  PlayedInOrderOnce
  DeadActorIsNamed
PROPERTIES
  FinishesUnlessDeadNeeded
  ImplementsScenario
CHECK_DEADLOCK FALSE
