------------------------------- MODULE AccessLog -------------------------------
(***************************************************************************)
(* What the shared-memory channel promises its user, without memory,       *)
(* cursors and descriptors: a log to which the traced processes add        *)
(* accesses, and which accesses_future seals and its iterator reads.       *)
(*                                                                         *)
(* ShmChannel implements it: ShmRefinement has the mapping.                *)
(***************************************************************************)
EXTENDS Sequences

CONSTANTS Access, Chunk  \* accesses, and the parts the log is kept in

Record == [acc : Access, chunk : Chunk]

VARIABLES
  done,    \* accesses whose report is complete, each with its chunk
  before,  \* <<d, e>>: d was complete when e began, in e's thread or its past
  state,   \* "open", "sealed" (accesses_future is ready), "read" or "ended"
  sealed,  \* done, when the log was sealed
  out,     \* what the iterator has yielded
  lost     \* chunks whose records can no longer be vouched for

vars == <<done, before, state, sealed, out, lost>>

Yielded == {out[i] : i \in DOMAIN out}
Kept(d) == d.chunk \notin lost

Init ==
  /\ done = {} /\ before = {} /\ sealed = {} /\ out = <<>>
  /\ state = "open" /\ lost = {}

\* A process completes a report, in whatever state the reader is: processes that
\* closed the socket go on.
Complete(d, past) ==
  /\ d \notin done
  /\ done' = done \cup {d}
  /\ before' = before \cup (past \X {d})
  /\ UNCHANGED <<state, sealed, out, lost>>

\* End of file: what is complete now will be read.
Seal ==
  /\ state = "open"
  /\ state' = "sealed" /\ sealed' = done
  /\ UNCHANGED <<done, before, out, lost>>

\* An access is yielded, once, and not before those that precede it.
Yield(d) ==
  /\ state = "sealed"
  /\ Kept(d) => /\ d \in done \ Yielded
                /\ \A e \in done : Kept(e) /\ <<e, d>> \in before => e \in Yielded
  /\ out' = Append(out, d)
  /\ UNCHANGED <<done, before, state, sealed, lost>>

\* The iterator ends when all that was sealed has been yielded.
Finish ==
  /\ state = "sealed" /\ \A d \in sealed : Kept(d) => d \in Yielded
  /\ state' = "read"
  /\ UNCHANGED <<done, before, sealed, out, lost>>

\* The future is dropped or fails, before anything is read, or the iterator panics,
\* which only happens after a loss.
End ==
  /\ state = "open" \/ (state = "sealed" /\ (out = <<>> \/ lost # {}))
  /\ state' = "ended"
  /\ UNCHANGED <<done, before, sealed, out, lost>>

\* A fork duplicates a cursor: what its chunk holds, read or not, is given up.
Lose ==
  /\ lost' \subseteq Chunk /\ lost \subseteq lost'
  /\ UNCHANGED <<done, before, state, sealed, out>>

Next ==
  \/ \E d \in Record : \E past \in SUBSET done : Complete(d, past)
  \/ Seal \/ Finish \/ End \/ Lose
  \/ \E d \in Record : Yield(d)

Spec == Init /\ [][Next]_vars

===============================================================================
