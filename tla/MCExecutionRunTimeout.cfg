\* One provider that looks for a marker in its output.
SPECIFICATION Spec
CONSTANTS
  Plans <- TriggerPlan
  Descendants = FALSE
INVARIANT TimeoutIsNoEvidence
CHECK_DEADLOCK FALSE
