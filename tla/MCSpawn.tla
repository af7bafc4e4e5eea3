-------------------------------- MODULE MCSpawn --------------------------------
(* Instances of Spawn for TLC. *)
EXTENDS Spawn

CONSTANTS j1

MCKind == [here |-> "dynamic", there |-> "static", nowhere |-> "missing"]

===============================================================================
