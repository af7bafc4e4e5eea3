\* Single-threaded processes that fork, exec, die and reuse pids; records of three sizes.
CONSTANTS
  p1 = p1  p2 = p2
  a1 = a1  a2 = a2  a3 = a3  a4 = a4
  none = none
  NoAccess = none
  Root = p1
  Pid <- MCPid2
  MaxSlot = 1
  MaxChunk = 2
  MaxEvents = 2
  Cap = 5
  Access <- MCAccess4
  EncodedSize <- MCSizes4
SPECIFICATION Spec
SYMMETRY Sym
INVARIANTS TypeOK ReportedOnce Complete CausalOrder
