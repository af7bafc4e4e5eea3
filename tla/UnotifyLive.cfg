\* Liveness on Linux 6.11 and the multi-thread runtime; accesses_future awaited before the child.
CONSTANTS
  t1 = t1  t2 = t2
  Root = t1
  Task <- MCTask2
  MaxFilter = 1
  MaxCalls = 2
  Kernel611 = TRUE
  MultiThread = TRUE
  CallerJoins = FALSE
SPECIFICATION FairSpec
PROPERTIES Answered Completes
