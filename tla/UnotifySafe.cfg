\* Two tasks and two filters; failed execs, repeated installations, bad arguments.
CONSTANTS
  t1 = t1  t2 = t2
  Root = t1
  Task <- MCTask2
  MaxFilter = 2
  MaxCalls = 2
  Kernel611 = TRUE
  MultiThread = FALSE
  CallerJoins = TRUE
SPECIFICATION Spec
INVARIANTS TypeOK OkMeansComplete OkMeansUndisturbed RecordedFirst
