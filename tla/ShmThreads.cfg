\* Two processes of two threads whose thread_local ids are recycled, over a fork too.
CONSTANTS
  p1 = p1  p2 = p2
  a1 = a1  a2 = a2  a3 = a3  a4 = a4
  none = none
  NoAccess = none
  Root = p1
  Pid <- MCPid2
  MaxSlot = 2
  MaxChunk = 1
  MaxEvents = 2
  Cap = 5
  Access <- MCAccess3
  EncodedSize <- MCSizes3
SPECIFICATION FairSpec
INVARIANTS SingleWriter IntactRecords NoGarbage
PROPERTIES NeverOverwritten NamesUnique ImplementsLog EofReached
