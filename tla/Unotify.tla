-------------------------------- MODULE Unotify --------------------------------
(***************************************************************************)
(* Tracing of static programs: the crate seccomp_unotify.                  *)
(*                                                                         *)
(* A task about to run a program that the preload library cannot follow    *)
(* installs a seccomp filter (install_target) and sends the listener fd to *)
(* the supervisor over an inherited socket.  From then on its openat and   *)
(* getdents64 calls, and those of its descendants, stop in the kernel until *)
(* the supervisor lets them continue.  supervise() collects listeners      *)
(* until end of file and runs one tokio task for each, which records the   *)
(* access and continues the call, until the last filtered task is gone.    *)
(*                                                                         *)
(* The kernel's listener (a queue of notifications, a request counter, an  *)
(* edge-triggered poll) and tokio's AsyncFd (cached readiness, cleared only *)
(* if no event came since it was read) are external; they are modelled as  *)
(* far as listener.rs depends on them.  The ioctl that receives a          *)
(* notification blocks while there is none.                                *)
(***************************************************************************)
EXTENDS Integers, Sequences, FiniteSets

CONSTANTS Task,        \* tasks (threads) of the traced tree
          Root,        \* the one that spawn_impl starts
          MaxFilter,   \* bound on the filters ever installed
          MaxCalls,    \* bound on the notified system calls
          Kernel611,   \* Linux 6.11: a task that exits leaves its filter without being
                       \* reaped, and the receiving ioctl returns once no task is left
          MultiThread, \* tokio runs its I/O driver beside the tasks
          CallerJoins  \* the caller polls Child::wait together with accesses_future

ASSUME ConstAssumption ==
    /\ Root \in Task
    /\ MaxFilter \in Nat \ {0} /\ MaxCalls \in Nat
    /\ Kernel611 \in BOOLEAN /\ MultiThread \in BOOLEAN /\ CallerJoins \in BOOLEAN

VARIABLES
  st,      \* task -> "none", "run", "exec" or "spawn" (inside install_target for
           \*         execve or posix_spawn), "trapped", "zombie", "gone"
  image,   \* task -> "ours" (the preload library can install a filter) or "static"
  filt,    \* task -> its filter, 0: none
  holds,   \* task -> it holds SeccompPayload.ipc_fd
  nfilt,   \* filters installed so far
  owner,   \* filter -> who holds the listener fd
  sock,    \* listener fds in flight
  sender,  \* the spawner still holds notify_fd_sender
  phase,   \* handling_loop
  ncall,   \* notified calls so far
  call,    \* number -> the call
  tok,     \* filter -> the kernel's count of requests
  edge,    \* filter -> the listener is on epoll's ready list
  ready,   \* filter -> readiness AsyncFd has cached
  fresh,   \* filter -> an event came after the task read the readiness
  pc,      \* filter -> where the tokio task of the listener is
  cur,     \* filter -> number of the notification in notif_buf
  res,     \* filter -> handle_result
  arena    \* filter -> calls in handler.arena

taskVars == <<st, image, filt, holds>>
kernVars == <<nfilt, owner, call, tok>>
aioVars  == <<edge, ready, fresh>>
loopVars == <<pc, cur, res, arena>>
vars == <<taskVars, kernVars, sock, sender, phase, ncall, aioVars, loopVars>>

Filter == 1..MaxFilter
Call   == 1..MaxCalls

NoCall == [task |-> Root, filt |-> 0, bad |-> FALSE, state |-> "none"]

Init ==
  /\ st     = [t \in Task |-> IF t = Root THEN "run" ELSE "none"]
  /\ image  = [t \in Task |-> "ours"]
  /\ filt   = [t \in Task |-> 0]
  /\ holds  = [t \in Task |-> t = Root]
  /\ nfilt  = 0
  /\ owner  = [f \in Filter |-> "none"]
  /\ sock   = <<>> /\ sender = TRUE /\ phase = "recv" /\ ncall = 0
  /\ call   = [n \in Call |-> NoCall]
  /\ tok    = [f \in Filter |-> 0]
  /\ edge   = [f \in Filter |-> FALSE]
  /\ ready  = [f \in Filter |-> {}]
  /\ fresh  = [f \in Filter |-> FALSE]
  /\ pc     = [f \in Filter |-> "none"]
  /\ cur    = [f \in Filter |-> 0]
  /\ res    = [f \in Filter |-> "ok"]
  /\ arena  = [f \in Filter |-> <<>>]

Live == {"run", "exec", "spawn", "trapped"}

\* tasks the kernel counts as users of filter f
Users(f) == {t \in Task : filt[t] = f /\ st[t] \in Live \cup (IF Kernel611 THEN {} ELSE {"zombie"})}

Open(f)    == owner[f] \in {"installer", "socket", "task"}
Pending(n) == call[n].state \in {"init", "sent"}

\* the notifications of a listener that were not received yet
Queue(f) == {n \in Call : call[n].filt = f /\ call[n].state = "init"}

\* seccomp_notify_release: the last reference to the listeners in F is gone;
\* calls that wait there fail with ENOSYS and their tasks run on.
Closed(F)  == [f \in Filter |-> IF f \in F THEN "closed" ELSE owner[f]]
Refused(F) == [n \in Call |-> IF Pending(n) /\ call[n].filt \in F
                              THEN [call[n] EXCEPT !.state = "enosys"] ELSE call[n]]
Released(F) == [t \in Task |-> IF st[t] = "trapped" /\ filt[t] \in F THEN "run" ELSE st[t]]
Detach(F) ==
  /\ owner' = Closed(F)
  /\ call'  = Refused(F)
  /\ st'    = Released(F)
  /\ tok'   = [f \in Filter |-> IF f \in F THEN 0 ELSE tok[f]]

\* what poll reports of a listener
Mask(f) == (IF Queue(f) # {} THEN {"in"} ELSE {}) \cup (IF Users(f) = {} THEN {"hup"} ELSE {})

-------------------------------------------------------------------------------
(* The traced tasks *)

\* install_unotify_filter, by task t for itself or for the task u that it starts;
\* EBUSY while a filter already in place has an open listener
Install(t, u, how) ==
  /\ st[t] = "run" /\ image[t] = "ours"
  /\ filt[t] # 0 => ~Open(filt[t])
  /\ nfilt < MaxFilter
  /\ nfilt' = nfilt + 1
  /\ filt'  = [filt EXCEPT ![u] = nfilt + 1]
  /\ owner' = [owner EXCEPT ![nfilt + 1] = "installer"]
  /\ st'    = [st EXCEPT ![u] = how]
  /\ UNCHANGED <<image, call, tok, sock, sender, phase, ncall, aioVars, loopVars>>

\* handle_exec, or pre_exec in the forked child of spawn_impl
InstallForExec(t) == Install(t, t, "exec") /\ UNCHANGED holds

\* handle_posix_spawn: a helper thread installs the filter and spawns the
\* program; thread and child are one task here, as both use the filter
InstallForSpawn(t, u) ==
  /\ st[u] = "none"
  /\ Install(t, u, "spawn")
  /\ holds' = [holds EXCEPT ![u] = holds[t]]

\* execve or posix_spawn failed: a caller of execve goes on with the filter in
\* place, the helper thread ends
Failed(t) ==
  /\ st'    = [st EXCEPT ![t] = IF @ = "exec" THEN "run" ELSE "gone"]
  /\ holds' = [holds EXCEPT ![t] = @ /\ st[t] = "exec"]

\* ipc_fd.send_fd, the drop of notify_fd and the execve or posix_spawn after
\* it; an error of send_fd is returned, with the filter installed and the
\* listener closed
SendFd(t) ==
  /\ st[t] \in {"exec", "spawn"}
  /\ \/ /\ holds[t] /\ phase = "recv"
        /\ sock'  = Append(sock, filt[t])
        /\ owner' = [owner EXCEPT ![filt[t]] = "socket"]
        /\ \/ /\ image' = [image EXCEPT ![t] = "static"]
              /\ st'    = [st EXCEPT ![t] = "run"]
              /\ UNCHANGED holds
           \/ Failed(t) /\ UNCHANGED image
     \/ /\ ~holds[t] \/ phase # "recv"
        /\ owner' = [owner EXCEPT ![filt[t]] = "closed"]
        /\ Failed(t)
        /\ UNCHANGED <<image, sock>>
  /\ UNCHANGED <<filt, nfilt, call, tok, sender, phase, ncall, aioVars, loopVars>>

\* fork or clone
Fork(t, u) ==
  /\ st[t] = "run" /\ st[u] = "none"
  /\ st'    = [st EXCEPT ![u] = "run"]
  /\ image' = [image EXCEPT ![u] = image[t]]
  /\ filt'  = [filt EXCEPT ![u] = filt[t]]
  /\ holds' = [holds EXCEPT ![u] = holds[t]]
  /\ UNCHANGED <<kernVars, sock, sender, phase, ncall, aioVars, loopVars>>

\* the target closes descriptors it does not know
CloseSock(t) ==
  /\ st[t] = "run" /\ holds[t]
  /\ holds' = [holds EXCEPT ![t] = FALSE]
  /\ UNCHANGED <<st, image, filt, kernVars, sock, sender, phase, ncall, aioVars, loopVars>>

\* openat or getdents64; bad: its path is unreadable, unterminated or too long,
\* or its fd is not open, so that handle_notify will fail
Syscall(t, bad) ==
  LET f == filt[t]
      n == ncall + 1
      c(s) == [task |-> t, filt |-> f, bad |-> bad, state |-> s]
  IN
  /\ st[t] = "run" /\ f # 0 /\ ncall < MaxCalls
  /\ ncall' = n
  /\ \/ /\ Open(f)
        /\ call' = [call EXCEPT ![n] = c("init")]
        /\ tok'  = [tok EXCEPT ![f] = @ + 1]
        /\ edge' = [edge EXCEPT ![f] = owner[f] = "task"]
        /\ st'   = [st EXCEPT ![t] = "trapped"]
     \/ /\ ~Open(f)
        /\ call' = [call EXCEPT ![n] = c("enosys")]
        /\ UNCHANGED <<tok, edge, st>>
  /\ UNCHANGED <<image, filt, holds, nfilt, owner, sock, sender, phase, ready, fresh, loopVars>>

\* the call of a trapped task is given up
Cancelled(t) ==
  [n \in Call |-> IF Pending(n) /\ call[n].task = t
                  THEN [call[n] EXCEPT !.state = "cancelled"] ELSE call[n]]

\* a signal handler interrupts the system call
Interrupt(t) ==
  /\ st[t] = "trapped"
  /\ st'   = [st EXCEPT ![t] = "run"]
  /\ call' = Cancelled(t)
  /\ UNCHANGED <<image, filt, holds, nfilt, owner, tok, sock, sender, phase, ncall, aioVars, loopVars>>

\* __seccomp_filter_orphan: the last user of f wakes the poller
Orphaned(f, t) == f # 0 /\ owner[f] = "task" /\ Users(f) = {t}
WakeHup(t) ==
  edge' = [f \in Filter |-> edge[f] \/ (f = filt[t] /\ Orphaned(f, t))]

\* exit, or death by a signal, wherever the task is
Exit(t) ==
  /\ st[t] \in Live
  /\ st'    = [st EXCEPT ![t] = "zombie"]
  /\ holds' = [holds EXCEPT ![t] = FALSE]
  /\ call'  = Cancelled(t)
  /\ owner' = IF st[t] \in {"exec", "spawn"} THEN [owner EXCEPT ![filt[t]] = "closed"] ELSE owner
  /\ IF Kernel611 THEN WakeHup(t) ELSE UNCHANGED edge
  /\ UNCHANGED <<image, filt, nfilt, tok, sock, sender, phase, ncall, ready, fresh, loopVars>>

\* wait(): the parent, or init, reaps a task; the caller of spawn reaps Root
Reap(t) ==
  /\ st[t] = "zombie"
  /\ t = Root => CallerJoins \/ phase \in {"done", "failed"}
  /\ st' = [st EXCEPT ![t] = "gone"]
  /\ IF Kernel611 THEN UNCHANGED edge ELSE WakeHup(t)
  /\ UNCHANGED <<image, filt, holds, kernVars, sock, sender, phase, ncall, ready, fresh, loopVars>>

-------------------------------------------------------------------------------
(* supervise: handling_loop *)

\* spawn_impl drops the command, and PreExec with it
DropSender ==
  /\ sender
  /\ sender' = FALSE
  /\ UNCHANGED <<taskVars, kernVars, sock, phase, ncall, aioVars, loopVars>>

\* recv_fd, NotifyListener::try_from and join_set.spawn; registering the fd
\* with epoll reports what is already there
RecvFd ==
  LET f == Head(sock) IN
  /\ phase = "recv" /\ sock # <<>>
  /\ sock'  = Tail(sock)
  /\ owner' = [owner EXCEPT ![f] = "task"]
  /\ pc'    = [pc EXCEPT ![f] = "await"]
  /\ edge'  = [edge EXCEPT ![f] = Mask(f) # {}]
  /\ UNCHANGED <<taskVars, nfilt, call, tok, sender, phase, ncall, ready, fresh, cur, res, arena>>

\* UnexpectedEof: nobody holds the sending end
RecvEof ==
  /\ phase = "recv" /\ sock = <<>>
  /\ ~sender /\ \A t \in Task : ~holds[t]
  /\ phase' = "join"
  /\ UNCHANGED <<taskVars, kernVars, sock, sender, ncall, aioVars, loopVars>>

\* recv_fd or AsyncFd::new fails, or the caller drops the future: the receiver
\* is closed with what is in flight, and the tasks will be aborted
LoopFails ==
  /\ phase \in {"recv", "join"}
  /\ phase' = "failed"
  /\ sock'  = <<>>
  /\ Detach({sock[i] : i \in DOMAIN sock})
  /\ UNCHANGED <<image, filt, holds, nfilt, sender, ncall, aioVars, loopVars>>

\* join_next: the first error ends the loop, the others are aborted
JoinError ==
  /\ phase = "join"
  /\ \E f \in Filter : pc[f] = "err"
  /\ phase' = "failed"
  /\ UNCHANGED <<taskVars, kernVars, sock, sender, ncall, aioVars, loopVars>>

JoinAll ==
  /\ phase = "join"
  /\ \A f \in Filter : pc[f] \in {"none", "ok"}
  /\ phase' = "done"
  /\ UNCHANGED <<taskVars, kernVars, sock, sender, ncall, aioVars, loopVars>>

-------------------------------------------------------------------------------
(* The tokio task of one listener *)

\* The I/O driver turns an epoll event into cached readiness.  On the
\* current-thread runtime it runs only while every task waits.
Driver(f) ==
  /\ edge[f] /\ owner[f] = "task"
  /\ MultiThread \/ \A g \in Filter : pc[g] \in {"none", "ok", "err", "await"}
  /\ edge'  = [edge EXCEPT ![f] = FALSE]
  /\ ready' = [ready EXCEPT ![f] = @ \cup Mask(f)]
  /\ fresh' = [fresh EXCEPT ![f] = pc[f] = "clear"]
  /\ UNCHANGED <<taskVars, kernVars, sock, sender, phase, ncall, loopVars>>

\* the listener is dropped when the task ends, and its buffers with it
EndTask(f, how) ==
  /\ pc'    = [pc EXCEPT ![f] = how]
  /\ cur'   = [cur EXCEPT ![f] = 0]
  /\ res'   = [res EXCEPT ![f] = "ok"]
  /\ edge'  = [edge EXCEPT ![f] = FALSE]
  /\ ready' = [ready EXCEPT ![f] = {}]
  /\ fresh' = [fresh EXCEPT ![f] = FALSE]
  /\ Detach({f})

\* Mutant: is_read_closed and is_write_closed are not looked at.
Readable_ignores_close(f) ==
  /\ pc[f] = "await" /\ ready[f] # {}
  /\ fresh' = [fresh EXCEPT ![f] = FALSE]
  /\ pc'    = [pc EXCEPT ![f] = "clear"]
  /\ UNCHANGED <<taskVars, kernVars, sock, sender, phase, ncall, edge, ready, cur, res, arena>>

\* readable().await returns; a closed listener ends the task with Ok(None)
Readable(f) ==
  /\ pc[f] = "await" /\ ready[f] # {}
  /\ \/ /\ "hup" \in ready[f]
        /\ EndTask(f, "ok")
     \/ /\ "hup" \notin ready[f]
        /\ fresh' = [fresh EXCEPT ![f] = FALSE]
        /\ pc'    = [pc EXCEPT ![f] = "clear"]
        /\ UNCHANGED <<owner, call, st, tok, edge, ready, cur, res>>
  /\ UNCHANGED <<image, filt, holds, nfilt, sock, sender, phase, ncall, arena>>

\* ready_guard.clear_ready(): has no effect if an event came in between
ClearReady(f) ==
  /\ pc[f] = "clear"
  /\ ready' = [ready EXCEPT ![f] = IF fresh[f] THEN @ ELSE @ \ {"in"}]
  /\ fresh' = [fresh EXCEPT ![f] = FALSE]
  /\ pc'    = [pc EXCEPT ![f] = "recv"]
  /\ UNCHANGED <<taskVars, kernVars, sock, sender, phase, ncall, edge, cur, res, arena>>

\* Mutant: the listener is registered for reading only, so that receiving a
\* notification does not wake it for the next one.
NotifRecv_read_interest(f) ==
  /\ pc[f] = "recv" /\ tok[f] > 0
  /\ tok' = [tok EXCEPT ![f] = @ - 1]
  /\ \E n \in Queue(f) :
       /\ \A m \in Queue(f) : n <= m
       /\ cur'  = [cur EXCEPT ![f] = n]
       /\ call' = [call EXCEPT ![n].state = "sent"]
  /\ pc' = [pc EXCEPT ![f] = "handle"]
  /\ UNCHANGED <<taskVars, nfilt, owner, sock, sender, phase, ncall, aioVars, res, arena>>

\* Mutant: ENOENT is taken for a notification, with notif_buf zeroed.
NotifRecv_enoent_ok(f) ==
  /\ pc[f] = "recv" /\ tok[f] > 0
  /\ tok'  = [tok EXCEPT ![f] = @ - 1]
  /\ \/ \E n \in Queue(f) :
          /\ \A m \in Queue(f) : n <= m
          /\ cur'  = [cur EXCEPT ![f] = n]
          /\ call' = [call EXCEPT ![n].state = "sent"]
     \/ Queue(f) = {} /\ UNCHANGED <<cur, call>>
  /\ edge' = [edge EXCEPT ![f] = TRUE]
  /\ pc'   = [pc EXCEPT ![f] = "handle"]
  /\ UNCHANGED <<taskVars, nfilt, owner, sock, sender, phase, ncall, ready, fresh, res, arena>>

\* notif_recv: the oldest notification, which also wakes the poller (it may be answered
\* now), or ENOENT; not enabled while the ioctl blocks
NotifRecv(f) ==
  /\ pc[f] = "recv"
  /\ tok[f] > 0 \/ (Kernel611 /\ Users(f) = {})
  /\ tok' = [tok EXCEPT ![f] = IF @ > 0 THEN @ - 1 ELSE 0]
  /\ \/ \E n \in Queue(f) :
          /\ \A m \in Queue(f) : n <= m
          /\ cur'  = [cur EXCEPT ![f] = n]
          /\ call' = [call EXCEPT ![n].state = "sent"]
          /\ edge' = [edge EXCEPT ![f] = TRUE]
          /\ pc'   = [pc EXCEPT ![f] = "handle"]
     \/ /\ Queue(f) = {}
        /\ pc' = [pc EXCEPT ![f] = "await"]
        /\ UNCHANGED <<cur, call, edge>>
  /\ UNCHANGED <<taskVars, nfilt, owner, sock, sender, phase, ncall, ready, fresh, res, arena>>

\* Mutant: a path that cannot be read is passed over.
HandleNotify_swallows(f) ==
  /\ pc[f] = "handle"
  /\ arena' = IF call[cur[f]].bad THEN arena ELSE [arena EXCEPT ![f] = Append(@, cur[f])]
  /\ res'   = [res EXCEPT ![f] = "ok"]
  /\ pc'    = [pc EXCEPT ![f] = "continue"]
  /\ UNCHANGED <<taskVars, kernVars, sock, sender, phase, ncall, aioVars, cur>>

\* process_vm_readv of the path, or readlink of the fd in /proc: fails for what
\* the kernel would reject, for a path of 32768 bytes and for a task that is gone
ArgsReadable(n) == ~call[n].bad /\ st[call[n].task] \in Live

\* openat and getdents64 of SyscallHandler record the access
HandleNotify(f) ==
  LET n == cur[f] IN
  /\ pc[f] = "handle"
  /\ \/ /\ ArgsReadable(n)
        /\ arena' = [arena EXCEPT ![f] = Append(@, n)]
        /\ res'   = [res EXCEPT ![f] = "ok"]
     \/ /\ ~ArgsReadable(n)
        /\ res'   = [res EXCEPT ![f] = "err"]
        /\ UNCHANGED arena
  /\ pc' = [pc EXCEPT ![f] = "continue"]
  /\ UNCHANGED <<taskVars, kernVars, sock, sender, phase, ncall, aioVars, cur>>

\* send_continue; ENOENT, the call being gone, is no error
SendContinue(f) ==
  LET n == cur[f] IN
  /\ pc[f] = "continue"
  /\ \/ /\ call[n].state = "sent"
        /\ call' = [call EXCEPT ![n].state = "continued"]
        /\ st'   = [st EXCEPT ![call[n].task] = "run"]
     \/ /\ call[n].state # "sent"
        /\ UNCHANGED <<call, st>>
  /\ pc' = [pc EXCEPT ![f] = "result"]
  /\ UNCHANGED <<image, filt, holds, nfilt, owner, tok, sock, sender, phase, ncall, aioVars, cur, res, arena>>

\* Mutant: the result of the handler is discarded.
HandleResult_discarded(f) ==
  /\ pc[f] = "result"
  /\ pc'  = [pc EXCEPT ![f] = "await"]
  /\ cur' = [cur EXCEPT ![f] = 0]
  /\ UNCHANGED <<taskVars, kernVars, sock, sender, phase, ncall, aioVars, res, arena>>
\* Mutant: an error leaves the loop, and the task returns Ok(handler).
HandleResult_breaks(f) ==
  /\ pc[f] = "result"
  /\ EndTask(f, "ok")
  /\ UNCHANGED <<image, filt, holds, nfilt, sock, sender, phase, ncall, arena>>

\* handle_result?
HandleResult(f) ==
  /\ pc[f] = "result"
  /\ \/ /\ res[f] = "ok"
        /\ pc'  = [pc EXCEPT ![f] = "await"]
        /\ cur' = [cur EXCEPT ![f] = 0]
        /\ UNCHANGED <<owner, call, st, tok, aioVars, res>>
     \/ /\ res[f] = "err"
        /\ EndTask(f, "err")
  /\ UNCHANGED <<image, filt, holds, nfilt, sock, sender, phase, ncall, arena>>

\* the JoinSet was dropped: the task is cancelled where it waits
AbortTask(f) ==
  /\ phase = "failed" /\ pc[f] = "await"
  /\ EndTask(f, "err")
  /\ UNCHANGED <<image, filt, holds, nfilt, sock, sender, phase, ncall, arena>>

-------------------------------------------------------------------------------
Traced(t) ==
  \/ InstallForExec(t) \/ SendFd(t)
  \/ \E u \in Task : Fork(t, u) \/ InstallForSpawn(t, u)
  \/ CloseSock(t)
  \/ \E bad \in BOOLEAN : Syscall(t, bad)
  \/ Interrupt(t) \/ Exit(t)

Loop == RecvFd \/ RecvEof \/ JoinError \/ JoinAll

Listener(f) ==
  \/ Readable(f) \/ ClearReady(f) \/ NotifRecv(f) \/ HandleNotify(f)
  \/ SendContinue(f) \/ HandleResult(f)

Terminated ==
  /\ \A t \in Task : st[t] \in {"none", "gone"}
  /\ phase \in {"done", "failed"} /\ ~sender
  /\ UNCHANGED vars

Next ==
  \/ \E t \in Task : Traced(t) \/ Reap(t)
  \/ DropSender \/ LoopFails \/ Loop
  \/ \E f \in Filter : Driver(f) \/ Listener(f) \/ AbortTask(f)
  \/ Terminated

Spec == Init /\ [][Next]_vars

\* The caller awaits accesses_future on a running tokio runtime; spawn_impl
\* drops the sender; zombies are reaped.  The target owes nothing.
Fairness ==
  /\ WF_vars(DropSender) /\ WF_vars(Loop)
  /\ \A t \in Task : WF_vars(Reap(t))
  /\ \A f \in Filter : WF_vars(Driver(f)) /\ WF_vars(Listener(f)) /\ WF_vars(AbortTask(f))
FairSpec == Spec /\ Fairness

-------------------------------------------------------------------------------
(* Properties *)

CallType == [task : Task, filt : 0..MaxFilter, bad : BOOLEAN,
             state : {"none", "init", "sent", "continued", "cancelled", "enosys"}]

\* Every variable has its type (tasks, listeners and handling_loop of supervise);
\* a tokio task handles a notification exactly while notif_buf holds one.
TypeOK ==
  /\ st \in [Task -> Live \cup {"none", "zombie", "gone"}]
  /\ image \in [Task -> {"ours", "static"}]
  /\ filt \in [Task -> 0..MaxFilter]
  /\ holds \in [Task -> BOOLEAN]
  /\ nfilt \in 0..MaxFilter
  /\ owner \in [Filter -> {"none", "installer", "socket", "task", "closed"}]
  /\ sock \in Seq(Filter)
  /\ sender \in BOOLEAN
  /\ phase \in {"recv", "join", "done", "failed"}
  /\ ncall \in 0..MaxCalls
  /\ call \in [Call -> CallType]
  /\ tok \in [Filter -> Nat]
  /\ edge \in [Filter -> BOOLEAN]
  /\ ready \in [Filter -> SUBSET {"in", "hup"}]
  /\ fresh \in [Filter -> BOOLEAN]
  /\ pc \in [Filter -> {"none", "await", "clear", "recv", "handle", "continue", "result", "ok", "err"}]
  /\ cur \in [Filter -> 0..MaxCalls]
  /\ \A f \in Filter : cur[f] # 0 <=> pc[f] \in {"handle", "continue", "result"}
  /\ res \in [Filter -> {"ok", "err"}]
  /\ arena \in [Filter -> Seq(Call)]

Recorded(n) == \E f \in Filter : \E i \in DOMAIN arena[f] : arena[f][i] = n

\* If handling_loop returns Ok, every notified call that the kernel executed was
\* recorded: a handler that could not read its arguments is never passed over.
OkMeansComplete ==
  phase = "done" => \A n \in Call : call[n].state = "continued" => Recorded(n)

\* If handling_loop returns Ok, no call of the target was refused by a listener
\* that the supervisor had taken over: dropped listeners go with an error.
OkMeansUndisturbed ==
  phase = "done" => \A n \in Call :
    call[n].state = "enosys" => pc[call[n].filt] = "none"

\* A call is continued only after its access was recorded or its task has
\* failed, whatever is interrupted, killed or received in between.
RecordedFirst ==
  \A n \in Call : call[n].state = "continued" =>
    Recorded(n) \/ pc[call[n].filt] = "err" \/ res[call[n].filt] = "err"

\* A task that was stopped for the supervisor is not left waiting: while
\* handling_loop is polled each notification is answered or given up.
Answered == \A n \in Call : Pending(n) ~> ~Pending(n)

\* Once every traced task has exited, handling_loop ends.
Completes == (\A t \in Task : st[t] \notin Live) ~> phase \in {"done", "failed"}

===============================================================================
