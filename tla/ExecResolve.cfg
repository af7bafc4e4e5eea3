\* The comment of Exec::resolve, with nothing but dynamic programs and short lists.
CONSTANTS
  f1 = f1  f2 = f2  fd = fd  empty = empty  name = name
  Empty = empty
  Name = name
  File <- MCFile
  Hidden <- MCHidden
  Candidates <- MCCandidates
  Content <- MCContent
  Systems <- MCPrograms
  Links <- MCLinks
  Word <- MCWord
  Trim <- MCTrim
  Argv <- MCArgv
  VarArgv <- MCArgv
  StackArgs = 3
  ArgLimit = 4
  Env <- MCEnv
  SendFails = FALSE
  MaxCalls = 1
  MaxChanges = 0
SPECIFICATION Spec
INVARIANT ResolvesLikeExec
