\* Two processes, a pipe of one message; one of three accesses is too long.
CONSTANTS
  p1 = p1  p2 = p2  a1 = a1  a2 = a2  a3 = a3
  Root = p1
  Spawner = spawner
  None = none
  Proc <- MCProc
  Access <- MCAccess
  Big <- MCBig
  PipeCap = 1
SPECIFICATION FairSpec
INVARIANTS TypeOK RunsPrepared CompleteOnce
PROPERTIES Delivered Exits
