\* Every kind of plan, executed twice; a process left behind may hold the pipes
\* for any time or for ever.
SPECIFICATION CheckFairSpec
CONSTANTS
  Plans <- AllPlans
  Descendants = TRUE
  Runs = 2
INVARIANTS
  CheckTypeOK
  EvidenceIsWhole
  EvidenceLeavesNothing
  CleanupIsWhole
  RecordAgrees
  ClaimsStartClean
PROPERTIES
  EndsUnlessPipeHeld
  ImplementsBracket
  PromotionIsEarned
CHECK_DEADLOCK FALSE
