\* The comment of reset_shm_atfork against recycled thread_local ids.
CONSTANTS
  p1 = p1  p2 = p2
  a1 = a1  a2 = a2  a3 = a3  a4 = a4
  none = none
  NoAccess = none
  Root = p1
  Pid <- MCPid2
  MaxSlot = 2
  MaxChunk = 1
  MaxEvents = 2
  Cap = 4
  Access <- MCAccess3
  EncodedSize <- MCSizesEq3
SPECIFICATION Spec
INVARIANT ForkResetsCursor
