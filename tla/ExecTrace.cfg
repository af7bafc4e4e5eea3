\* Chains of two execs over every pair of files, one of which may change meanwhile.
CONSTANTS
  f1 = f1  f2 = f2  fd = fd  empty = empty  name = name
  Empty = empty
  Name = name
  File <- MCFile
  Hidden <- MCHidden
  Candidates <- MCCandidates
  Content <- MCContent
  Systems <- MCSystems
  Links <- MCLinks
  Word <- MCWord
  Trim <- MCTrim
  Argv <- MCArgv
  VarArgv <- MCVarArgv
  StackArgs = 3
  ArgLimit = 4
  Env <- MCEnv
  SendFails = TRUE
  MaxCalls = 2
  MaxChanges = 1
SPECIFICATION Spec
INVARIANTS TypeOK TracingCarriedOn SameProgram ReadsReported SpawnRepeatable
