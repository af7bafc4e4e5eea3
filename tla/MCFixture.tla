------------------------------ MODULE MCFixture ------------------------------
(* Instances of Fixture for TLC. *)
EXTENDS Fixture, TLC

CONSTANTS w1, w2, w3, t1, t2, t3, i1, i2, i3, i4, i5

MCWriter == {w1, w2, w3}
MCTmp    == {t1, t2, t3}
MCInode  == {i1, i2, i3, i4, i5}

\* processes and random names are interchangeable
MCSymmetry == Permutations(MCWriter) \cup Permutations(MCTmp)

===============================================================================
