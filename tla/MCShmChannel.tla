----------------------------- MODULE MCShmChannel -----------------------------
(* Instances of ShmChannel for TLC. *)
EXTENDS ShmRefinement, TLC

CONSTANTS p1, p2, a1, a2, a3, a4, none

MCPid2 == {p1, p2}

\* records of 2 and 3 cells, and one that no chunk holds
MCAccess3 == {a1, a2, a3}
MCAccess4 == {a1, a2, a3, a4}
MCSizes3 == (a1 :> 1 @@ a2 :> 1 @@ a3 :> 2)
MCSizes4 == (a1 :> 1 @@ a2 :> 1 @@ a3 :> 2 @@ a4 :> 5)
MCSizesEq3 == (a1 :> 1 @@ a2 :> 1 @@ a3 :> 1)

\* accesses of the same size are alike
Sym == Permutations({a1, a2})

===============================================================================
