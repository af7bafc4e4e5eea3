\* A spawn beside an ordinary child of another thread.
CONSTANTS
  j1 = j1
  Job = {j1}
  NoJob = NoJob
  MaxFd = 5
  SafeFd = 3
  Kind <- MCKind
  MaxCalls = 1
  MaxSends = 1
  MaxEvents = 2
SPECIFICATION FairSpec
INVARIANTS NoLeak PayloadValid Tidy OkComplete
PROPERTIES TargetTraced HonoursCommand NoStandstill
