------------------------------- MODULE MCWinPipe -------------------------------
(* Two processes, a pipe of one message; one of three accesses is too long. *)
EXTENDS WinPipe
CONSTANTS p1, p2, a1, a2, a3
MCProc == {p1, p2}
MCAccess == {a1, a2, a3}
MCBig == {a2}
================================================================================
