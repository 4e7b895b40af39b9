\* Three connections: one with a good token, one with the token of an earlier
\* session, and one whose client may be suspended.  A session comes to its end,
\* so the graph has terminal states.
SPECIFICATION FairSpec
CONSTANTS
  Clients = {c1, c2, c3}
  NoClient = none
  Stale = {c2}
  Suspended = {c3}
CHECK_DEADLOCK FALSE
INVARIANTS
  AnswersAreTrue
  DescriptorIsTrue
PROPERTIES
  DescriptorMovesForward
  EnterEndsTheWait
