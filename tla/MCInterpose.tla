------------------------------ MODULE MCInterpose ------------------------------
(* Every function with every kind of path; every mode and every set of flags with *)
(* one path.                                                                      *)
EXTENDS Interpose, TLC
CONSTANTS n1, n2, p1, p2, hidden
MCCalls ==
  {c \in AllCalls :
     \/ c.mode \in {"", "rdonly", "r"} /\ c.flags = {}
     \/ c.path = Path("", "x")}
Sym == Permutations({n1, n2}) \cup Permutations({p1, p2})
================================================================================
