\* The end of handling_loop before Linux 6.11, on the multi-thread runtime.
CONSTANTS
  t1 = t1  t2 = t2
  Root = t1
  Task <- MCTask1
  MaxFilter = 1
  MaxCalls = 2
  Kernel611 = FALSE
  MultiThread = TRUE
  CallerJoins = TRUE
SPECIFICATION FairSpec
PROPERTY Completes
