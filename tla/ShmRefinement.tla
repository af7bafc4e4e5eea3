----------------------------- MODULE ShmRefinement -----------------------------
(***************************************************************************)
(* The channel implements AccessLog.  The orphaned chunks are those that   *)
(* were lost.                                                              *)
(***************************************************************************)
EXTENDS ShmChannel

LogBefore == {b \in done \X done : prev[b[2].acc] = b[1].acc}
LogState  == CASE phase = "recv"           -> "open"
               [] phase \in {"map", "iter"} -> "sealed"
               [] phase = "done"           -> "read"
               [] OTHER                    -> "ended"

Log == INSTANCE AccessLog WITH
  before <- LogBefore,
  state  <- LogState,
  lost   <- orphaned

\* Client::send in all processes and threads, the socket, accesses_future and
\* PathAccessIterable::iter together behave as one log: every step of any of them
\* is a step of AccessLog, or invisible there.
ImplementsLog == Log!Spec

===============================================================================
