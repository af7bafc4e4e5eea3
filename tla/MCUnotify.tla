------------------------------- MODULE MCUnotify -------------------------------
(* Instances of Unotify for TLC. *)
EXTENDS Unotify

CONSTANTS t1, t2

MCTask1 == {t1}
MCTask2 == {t1, t2}

===============================================================================
