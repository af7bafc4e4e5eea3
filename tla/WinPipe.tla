-------------------------------- MODULE WinPipe --------------------------------
(***************************************************************************)
(* Tracing on Windows: fspy/src/windows and fspy_preload_windows.          *)
(*                                                                         *)
(* The spawner creates the target suspended, adds the preload DLL to its   *)
(* imports, duplicates the writing end of a message pipe into it, copies   *)
(* the payload and resumes it.  In the target, detours of the Nt functions *)
(* collect accesses in a set; detours of CreateProcess prepare children in *)
(* the same way.  The set is written to the pipe when the process          *)
(* detaches from the DLL, that is in ExitProcess, after the other threads  *)
(* were stopped wherever they were.  The spawner reads until all writing   *)
(* ends are closed.                                                        *)
(*                                                                         *)
(* Detours, the pipe and process termination are external.                 *)
(***************************************************************************)
EXTENDS Integers, Sequences, Functions

CONSTANTS Proc,       \* processes, each used once
          Root,       \* the one spawn_impl starts
          Spawner,    \* the process that runs fspy
          Access,     \* encoded accesses
          Big,        \* those longer than MESSAGE_MAX_LEN
          PipeCap,    \* messages the pipe holds
          None        \* no process, no access

ASSUME ConstAssumption ==
    /\ Root \in Proc /\ Spawner \notin Proc
    /\ None \notin Proc \cup Access
    /\ Big \subseteq Access
    /\ PipeCap \in Nat \ {0}

VARIABLES
  st,       \* process -> "none", "suspended" by its creator, "held" (its program asked
            \* for CREATE_SUSPENDED), "run", "exit" (in DLL_PROCESS_DETACH), "gone"
  has,      \* process -> what was put into it: "dll", the preload DLL among its imports;
            \* "handle", a writing end of the pipe; "payload", a copy of the payload
  cp,       \* creator -> the creation it is in: child, step and CREATE_SUSPENDED
  ins,      \* process -> access whose insertion holds the lock of messages
  messages, \* process -> Client.messages
  flush,    \* process -> what finish has still to write
  pipe,     \* messages in the pipe, with their process
  sender,   \* the spawner holds pipe_sender
  phase,    \* accesses_future
  arena,    \* what it has read
  clean     \* history: processes whose DLL_PROCESS_DETACH ended

vars == <<st, has, cp, ins, messages, flush, pipe, sender, phase, arena, clean>>

Creator == Proc \cup {Spawner}
NoCp    == [child |-> None, step |-> 0, susp |-> FALSE]
Kit     == {"dll", "handle", "payload"}

\* spawn_with: DetourUpdateProcessWithDll, DuplicateHandle,
\* DetourCopyPayloadToProcess, ResumeThread.  In the detour of CreateProcess
\* prepare_child_process runs first, inside DetourCreateProcessWithDllEx, which
\* then adds the DLL and resumes.
Steps(c) == IF c = Spawner THEN <<"dll", "handle", "payload", "resume">>
                           ELSE <<"handle", "payload", "dll", "resume">>
StepOf(c) == IF cp[c].step = 0 THEN "none" ELSE Steps(c)[cp[c].step]

\* Mutant: nothing ends a creation.
Advance_no_end(k) == [k EXCEPT !.step = @ + 1]

\* the creation after one more step
Advance(k) == IF k.step = 4 THEN NoCp ELSE [k EXCEPT !.step = @ + 1]

\* spawn_impl: the pipe is connected and accesses_future exists before the
\* child is spawned with CREATE_SUSPENDED.
Init ==
  /\ st       = [p \in Proc |-> IF p = Root THEN "suspended" ELSE "none"]
  /\ has      = [p \in Proc |-> {}]
  /\ cp       = [c \in Creator |-> IF c = Spawner
                   THEN [child |-> Root, step |-> 1, susp |-> FALSE] ELSE NoCp]
  /\ ins      = [p \in Proc |-> None]
  /\ messages = [p \in Proc |-> {}]
  /\ flush    = [p \in Proc |-> {}]
  /\ pipe = <<>> /\ sender = TRUE /\ phase = "read" /\ arena = <<>> /\ clean = {}

-------------------------------------------------------------------------------
(* Processes *)

\* A process is gone: its handles are closed and its messages lost.
Vanish(p) ==
  /\ st'     = [st EXCEPT ![p] = "gone"]
  /\ has'    = [has EXCEPT ![p] = @ \ {"handle"}]
  /\ cp'     = [cp EXCEPT ![p] = NoCp]
  /\ flush'  = [flush EXCEPT ![p] = {}]

\* TerminateProcess, by anyone, or a crash
Terminate(p) ==
  /\ st[p] \notin {"none", "gone"}
  /\ Vanish(p)
  /\ UNCHANGED <<ins, messages, pipe, sender, phase, arena, clean>>

\* A detoured Nt function: handle_open encodes the access and locks a shard of
\* messages.  Another thread may exit the process before it is unlocked.  A call
\* whose path cannot be determined records nothing.
BeginInsert(p, a) ==
  /\ st[p] = "run" /\ ins[p] = None
  /\ a \notin messages[p]
  /\ ins' = [ins EXCEPT ![p] = a]
  /\ UNCHANGED <<st, has, cp, messages, flush, pipe, sender, phase, arena, clean>>

EndInsert(p) ==
  /\ st[p] = "run" /\ ins[p] # None
  /\ messages' = [messages EXCEPT ![p] = @ \cup {ins[p]}]
  /\ ins' = [ins EXCEPT ![p] = None]
  /\ UNCHANGED <<st, has, cp, flush, pipe, sender, phase, arena, clean>>

\* The detour of CreateProcess (A and W are alike): the application name is recorded and the real
\* function creates the child suspended.  A re-entrant call, which finds the token
\* of sender() taken, only creates the child for the outer one.  If the real
\* function fails nothing but the access is left: BeginInsert and EndInsert.
CreateProcess(p, q, a, susp) ==
  /\ st[p] = "run" /\ cp[p] = NoCp /\ ins[p] = None
  /\ st[q] = "none"
  /\ messages' = [messages EXCEPT ![p] = IF a = None THEN @ ELSE @ \cup {a}]
  /\ st' = [st EXCEPT ![q] = "suspended"]
  /\ cp' = [cp EXCEPT ![p] = [child |-> q, step |-> 1, susp |-> susp]]
  /\ UNCHANGED <<has, ins, flush, pipe, sender, phase, arena, clean>>

\* Mutant: prepare_child_process is followed by ResumeThread, as if Detours did
\* not add CREATE_SUSPENDED to the flags.
Resumes_early(c) == StepOf(c) \in {"payload", "resume"} /\ ~cp[c].susp

\* ResumeThread is called when all is in place and the program has not asked for
\* CREATE_SUSPENDED.  Detours does it for children: it adds CREATE_SUSPENDED
\* to the flags that CreateProcessWithPayload sees, which therefore never resumes.
Resumes(c) == StepOf(c) = "resume" /\ ~cp[c].susp

AfterStep(c, s) == IF Resumes(c) THEN "run" ELSE IF StepOf(c) = "resume" THEN "held" ELSE s

Running(c) == IF c = Spawner THEN TRUE ELSE st[c] = "run"

\* One step of a creation succeeds (on a child that was terminated meanwhile,
\* the calls fail).
CreateStep(c) ==
  LET q == cp[c].child
      k == StepOf(c)
  IN /\ k # "none" /\ Running(c) /\ st[q] # "gone"
     /\ has'     = [has EXCEPT ![q] = @ \cup ({k} \cap Kit)]
     /\ st'      = [st EXCEPT ![q] = AfterStep(c, @)]
     /\ cp'      = [cp EXCEPT ![c] = Advance(@)]
     /\ UNCHANGED <<ins, messages, flush, pipe, sender, phase, arena, clean>>

\* A step of a creation fails.  Detours terminates a child it cannot add the DLL
\* to; in all other cases the child stays suspended.  An error of spawn_with
\* ends spawn_impl and drops pipe and future.
CreateFails(c) ==
  LET q == cp[c].child
      kill == c # Spawner /\ StepOf(c) = "dll"
  IN /\ StepOf(c) # "none" /\ Running(c)
     /\ cp'     = [cp EXCEPT ![c] = NoCp]
     /\ st'     = [st EXCEPT ![q] = IF kill THEN "gone" ELSE @]
     /\ has'    = [has EXCEPT ![q] = IF kill THEN @ \ {"handle"} ELSE @]
     /\ \/ /\ c = Spawner
           /\ phase' = "failed" /\ pipe' = <<>> /\ sender' = FALSE
        \/ /\ c # Spawner
           /\ UNCHANGED <<phase, pipe, sender>>
     /\ UNCHANGED <<ins, messages, flush, arena, clean>>

\* A program that asked for CREATE_SUSPENDED resumes its child.
ResumeLater(q) ==
  /\ st[q] = "held"
  /\ st' = [st EXCEPT ![q] = "run"]
  /\ UNCHANGED <<has, cp, ins, messages, flush, pipe, sender, phase, arena, clean>>

-------------------------------------------------------------------------------
(* DLL_PROCESS_DETACH *)

\* Mutant: DLL_PROCESS_DETACH does not call finish.
ExitProcess_unflushed(p) ==
  /\ st[p] = "run"
  /\ st'    = [st EXCEPT ![p] = "exit"]
  /\ cp'    = [cp EXCEPT ![p] = NoCp]
  /\ UNCHANGED <<has, ins, messages, flush, pipe, sender, phase, arena, clean>>

\* ExitProcess stops all other threads, in insert or CreateProcess too, and
\* calls DllMain, whose finish iterates over messages.
ExitProcess(p) ==
  /\ st[p] = "run"
  /\ st'    = [st EXCEPT ![p] = "exit"]
  /\ cp'    = [cp EXCEPT ![p] = NoCp]
  /\ flush' = [flush EXCEPT ![p] = messages[p]]
  /\ UNCHANGED <<has, ins, messages, pipe, sender, phase, arena, clean>>

\* Mutant: a failed WriteFile is tried again for ever.
write_pipe_message_retries(p, a) ==
  /\ st[p] = "exit" /\ a \in flush[p]
  /\ phase = "read" /\ Len(pipe) < PipeCap
  /\ pipe'  = Append(pipe, [from |-> p, acc |-> a])
  /\ flush' = [flush EXCEPT ![p] = @ \ {a}]
  /\ UNCHANGED <<st, has, cp, ins, messages, sender, phase, arena, clean>>

\* WriteFile blocks while the pipe is full; the assertion fails, and aborts the
\* process, when the reader is gone.
write_pipe_message(p, a) ==
  /\ st[p] = "exit" /\ a \in flush[p]
  /\ \/ /\ phase = "read" /\ Len(pipe) < PipeCap
        /\ pipe'  = Append(pipe, [from |-> p, acc |-> a])
        /\ flush' = [flush EXCEPT ![p] = @ \ {a}]
        /\ UNCHANGED <<st, has, cp>>
     \/ /\ phase = "failed"
        /\ Vanish(p)
        /\ UNCHANGED pipe
  /\ UNCHANGED <<ins, messages, sender, phase, arena, clean>>

\* finish returns and the process ends (the detours stay attached, since ck takes
\* NO_ERROR of DetourTransactionBegin for a failure).  It does not return if
\* a stopped thread holds the lock of a shard, where the iteration waits.
EndDetach(p) ==
  /\ st[p] = "exit" /\ flush[p] = {} /\ ins[p] = None
  /\ Vanish(p)
  /\ clean' = clean \cup {p}
  /\ UNCHANGED <<ins, messages, pipe, sender, phase, arena>>

-------------------------------------------------------------------------------
(* The spawner *)

\* Mutant: pipe_sender is not dropped.
DropSender_kept == sender /\ cp[Spawner] = NoCp /\ UNCHANGED vars

\* drop(pipe_sender) after spawn_with
DropSender ==
  /\ sender /\ cp[Spawner] = NoCp
  /\ sender' = FALSE
  /\ UNCHANGED <<st, has, cp, ins, messages, flush, pipe, phase, arena, clean>>

\* One message is read and decoded; reading or decoding fails for one that does
\* not fit the buffer, which ends the future.
Read ==
  /\ phase = "read" /\ pipe # <<>>
  /\ \/ /\ Head(pipe).acc \notin Big
        /\ arena' = Append(arena, Head(pipe))
        /\ pipe'  = Tail(pipe)
        /\ UNCHANGED phase
     \/ /\ Head(pipe).acc \in Big
        /\ phase' = "failed" /\ pipe' = <<>>
        /\ UNCHANGED arena
  /\ UNCHANGED <<st, has, cp, ins, messages, flush, sender, clean>>

\* n = 0: no message and no writing end is left
ReadEof ==
  /\ phase = "read" /\ pipe = <<>>
  /\ ~sender /\ \A p \in Proc : "handle" \notin has[p]
  /\ phase' = "done"
  /\ UNCHANGED <<st, has, cp, ins, messages, flush, pipe, sender, arena, clean>>

\* The caller drops the future.
Cancel ==
  /\ phase = "read" /\ cp[Spawner] = NoCp
  /\ phase' = "failed" /\ pipe' = <<>>
  /\ UNCHANGED <<st, has, cp, ins, messages, flush, sender, arena, clean>>

Terminated ==
  /\ \A p \in Proc : st[p] \in {"none", "gone"}
  /\ phase # "read" /\ ~sender /\ cp[Spawner] = NoCp
  /\ UNCHANGED vars

Target(p) ==
  \/ Terminate(p) \/ EndInsert(p) \/ ResumeLater(p) \/ ExitProcess(p)
  \/ \E a \in Access : BeginInsert(p, a)
  \/ \E q \in Proc, a \in Access \cup {None}, susp \in BOOLEAN : CreateProcess(p, q, a, susp)

DetachStep(p) == EndDetach(p) \/ \E a \in Access : write_pipe_message(p, a)

Next ==
  \/ \E p \in Proc : Target(p) \/ DetachStep(p)
  \/ \E c \in Creator : CreateStep(c) \/ CreateFails(c)
  \/ DropSender \/ Read \/ ReadEof \/ Cancel
  \/ Terminated

Spec == Init /\ [][Next]_vars

\* The caller awaits accesses_future; spawn_impl goes on; a process in ExitProcess
\* is scheduled, and its turn at a full pipe comes (strong fairness: the system
\* completes writes in the order in which they were made).  The rest of the target
\* owes nothing.
FairSpec ==
  /\ Spec
  /\ WF_vars(CreateStep(Spawner) \/ CreateFails(Spawner))
  /\ WF_vars(DropSender) /\ WF_vars(Read) /\ WF_vars(ReadEof)
  /\ \A p \in Proc : SF_vars(DetachStep(p))

-------------------------------------------------------------------------------
(* Properties *)

\* Every variable has its type (spawn_impl, Client and the pipe).
TypeOK ==
  /\ st \in [Proc -> {"none", "suspended", "held", "run", "exit", "gone"}]
  /\ has \in [Proc -> SUBSET Kit]
  /\ cp \in [Creator -> [child : Proc \cup {None}, step : 0..4, susp : BOOLEAN]]
  /\ ins \in [Proc -> Access \cup {None}]
  /\ messages \in [Proc -> SUBSET Access] /\ flush \in [Proc -> SUBSET Access]
  /\ pipe \in Seq([from : Proc, acc : Access]) /\ Len(pipe) <= PipeCap
  /\ sender \in BOOLEAN /\ phase \in {"read", "done", "failed"}
  /\ arena \in Seq([from : Proc, acc : Access]) /\ clean \subseteq Proc

\* A process runs only when the DLL, the payload and the pipe are in place:
\* dll_main dereferences the payload without a check, and code that runs before
\* is not seen.  Whoever creates it, in whatever order the steps fail.
RunsPrepared ==
  \A p \in Proc : st[p] \in {"run", "exit"} => has[p] = Kit

\* At end of file all accesses of the processes that ended by ExitProcess have
\* been read, each of them once.
CompleteOnce ==
  /\ phase = "done" =>
       \A p \in clean : \A a \in messages[p] : [from |-> p, acc |-> a] \in Range(arena)
  /\ IsInjective(arena)

\* Once all processes have ended, accesses_future ends: no copy of the writing
\* end is left behind.
Delivered == (\A p \in Proc : st[p] \in {"none", "gone"}) ~> phase # "read"

\* ExitProcess ends while accesses_future is polled or was dropped, unless it
\* stopped a thread inside DashSet::insert.
Exits == \A p \in Proc : (st[p] = "exit" /\ ins[p] = None) ~> st[p] = "gone"

===============================================================================
