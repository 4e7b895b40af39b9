\* Two threads of the app, a queue of two that four operations overflow, and
\* one retry.
CONSTANTS
  Threads = {t1, t2}
  MaxQueue = 2
  Retries = 1
  MaxRecords = 4
SPECIFICATION FairSpec
INVARIANTS
  FlushIsTrue
  NothingIsUncounted
  OldestLeaveFirst
PROPERTIES
  ImplementsOutbox
  EveryOperationSettles
CHECK_DEADLOCK FALSE
