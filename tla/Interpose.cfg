\* Two directories, three paths, one descriptor.
CONSTANTS
  n1 = n1  n2 = n2  p1 = p1  p2 = p2  hidden = hidden
  Node = {n1, n2}
  Place = {p1, p2, hidden}
  Hidden = {hidden}
  Fd = {"3"}
  Calls <- MCCalls
SPECIFICATION Spec
SYMMETRY Sym
INVARIANTS FileReported ModeReported
PROPERTY AbortsOnly
