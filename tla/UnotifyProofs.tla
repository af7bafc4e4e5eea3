----------------------------- MODULE UnotifyProofs -----------------------------
(* Proofs about Unotify: for any number of tasks, filters and system calls, on any *)
(* kernel and runtime.                                                             *)
EXTENDS Unotify, SequenceTheorems, TLAPS

-------------------------------------------------------------------------------
(* The inductive invariant *)

\* A tokio task that has not ended.
Active == {"await", "clear", "recv", "handle", "continue", "result"}

\* Filters that do not exist yet have no listener and nobody uses them.
FilterInv ==
  /\ \A f \in Filter : f > nfilt <=> owner[f] = "none"
  /\ \A t \in Task : filt[t] <= nfilt

\* A task inside install_target alone holds the listener of its own new filter.
InstallInv ==
  \A t \in Task : st[t] \in {"exec", "spawn"} =>
    /\ filt[t] # 0 /\ owner[filt[t]] = "installer"
    /\ \A u \in Task : st[u] \in {"exec", "spawn"} /\ filt[u] = filt[t] => u = t

\* A listener in flight is in flight once.
SockInv ==
  \A i \in 1..Len(sock) :
    /\ owner[sock[i]] = "socket"
    /\ \A j \in 1..Len(sock) : sock[i] = sock[j] => i = j

\* A listener has a tokio task from its receipt to its end, and then stays closed;
\* an error is kept only until it is returned, and so is a cached readiness.
ListenerInv ==
  \A f \in Filter :
    /\ owner[f] = "task" <=> pc[f] \in Active
    /\ pc[f] \in {"ok", "err"} => owner[f] = "closed"
    /\ res[f] = "err" => pc[f] \in {"continue", "result"}
    /\ ready[f] # {} => pc[f] \in Active

\* A pending call stops its task, which has no other, at the filter of the task.
PendingInv ==
  \A n \in Call : Pending(n) =>
    /\ st[call[n].task] = "trapped" /\ filt[call[n].task] = call[n].filt
    /\ \A m \in Call : Pending(m) /\ call[m].task = call[n].task => m = n

\* Calls are numbered as they come; the one in notif_buf came to this listener, and
\* once handle_notify is over it is recorded or the task will fail.
CallInv ==
  /\ \A n \in Call : IF n > ncall THEN call[n].state = "none" ELSE call[n].filt \in Filter
  /\ \A f \in Filter : cur[f] # 0 =>
       cur[f] <= ncall /\ call[cur[f]].filt = f /\ call[cur[f]].state # "init"
  /\ \A f \in Filter : pc[f] \in {"continue", "result"} => res[f] = "err" \/ Recorded(cur[f])

\* A listener that reported the end of its users, or ended with it, has none.
HupInv == \A f \in Filter : "hup" \in ready[f] \/ pc[f] = "ok" => Users(f) = {}

\* Only a closed listener refuses calls, and only by an error of its task, before it
\* was received, or with the end of handling_loop.
RefusedInv ==
  \A n \in Call : call[n].state = "enosys" =>
    /\ owner[call[n].filt] = "closed"
    /\ pc[call[n].filt] \in {"none", "err"} \/ phase = "failed"

\* handling_loop returns Ok when all tasks did, and starts no other.
DoneInv == phase = "done" => \A f \in Filter : pc[f] \in {"none", "ok"}

-------------------------------------------------------------------------------
(* Types *)

States == {"none", "init", "sent", "continued", "cancelled", "enosys"}

\* The part of TypeOK about flags, and the rest.
FlagType ==
  /\ holds \in [Task -> BOOLEAN] /\ sender \in BOOLEAN
  /\ edge \in [Filter -> BOOLEAN] /\ fresh \in [Filter -> BOOLEAN]

TaskType ==
  /\ st \in [Task -> Live \cup {"none", "zombie", "gone"}]
  /\ image \in [Task -> {"ours", "static"}]
  /\ filt \in [Task -> 0..MaxFilter]

KernelType ==
  /\ nfilt \in 0..MaxFilter
  /\ owner \in [Filter -> {"none", "installer", "socket", "task", "closed"}]
  /\ sock \in Seq(Filter)
  /\ phase \in {"recv", "join", "done", "failed"}
  /\ ncall \in 0..MaxCalls
  /\ call \in [Call -> CallType]
  /\ tok \in [Filter -> Nat]

LoopType ==
  /\ ready \in [Filter -> SUBSET {"in", "hup"}]
  /\ pc \in [Filter -> {"none", "await", "clear", "recv", "handle", "continue", "result", "ok", "err"}]
  /\ cur \in [Filter -> 0..MaxCalls]
  /\ \A f \in Filter : cur[f] # 0 <=> pc[f] \in {"handle", "continue", "result"}
  /\ res \in [Filter -> {"ok", "err"}]
  /\ arena \in [Filter -> Seq(Call)]

LEMMA TypeParts == TypeOK <=> FlagType /\ TaskType /\ KernelType /\ LoopType
BY DEF TypeOK, FlagType, TaskType, KernelType, LoopType

LEMMA CallFields ==
  ASSUME NEW c \in CallType, NEW s \in States
  PROVE  /\ c.task \in Task /\ c.filt \in 0..MaxFilter /\ c.state \in States
         /\ [c EXCEPT !.state = s] \in CallType
         /\ [c EXCEPT !.state = s].state = s
         /\ [c EXCEPT !.state = s].task = c.task
         /\ [c EXCEPT !.state = s].filt = c.filt
BY DEF CallType, States

\* The calls in S change their state to s, and nothing else changes.
Marks(S, s) ==
  \A n \in Call : /\ call'[n].task = call[n].task /\ call'[n].filt = call[n].filt
                  /\ call'[n].state = IF n \in S THEN s ELSE call[n].state

LEMMA MarkSet ==
  ASSUME call \in [Call -> CallType], NEW S, NEW s \in States,
         call' = [n \in Call |-> IF n \in S THEN [call[n] EXCEPT !.state = s] ELSE call[n]]
  PROVE  call' \in [Call -> CallType] /\ Marks(S, s)
<1>1. ASSUME NEW n \in Call
      PROVE  /\ call'[n] \in CallType
             /\ call'[n].task = call[n].task /\ call'[n].filt = call[n].filt
             /\ call'[n].state = IF n \in S THEN s ELSE call[n].state
  <2>1. call[n] \in CallType
    OBVIOUS
  <2>2. CASE n \in S
    <3>1. call'[n] = [call[n] EXCEPT !.state = s]
      BY <2>2
    <3> QED
      BY <2>1, <2>2, <3>1, CallFields
  <2>3. CASE n \notin S
    BY <2>1, <2>3
  <2> QED
    BY <2>2, <2>3
<1> QED
  BY <1>1 DEF Marks

LEMMA MarkOne ==
  ASSUME call \in [Call -> CallType], NEW m \in Call, NEW s \in States,
         call' = [call EXCEPT ![m].state = s]
  PROVE  call' \in [Call -> CallType] /\ Marks({m}, s)
<1>1. call' = [n \in Call |-> IF n \in {m} THEN [call[n] EXCEPT !.state = s] ELSE call[n]]
  OBVIOUS
<1> QED
  BY <1>1, MarkSet DEF States

LEMMA MarkCancelled ==
  ASSUME TypeOK, NEW t, call' = Cancelled(t)
  PROVE  call' \in [Call -> CallType] /\ Marks({n \in Call : Pending(n) /\ call[n].task = t}, "cancelled")
<1> DEFINE S == {n \in Call : Pending(n) /\ call[n].task = t}
<1>1. call' = [n \in Call |-> IF n \in S THEN [call[n] EXCEPT !.state = "cancelled"] ELSE call[n]]
  BY DEF Cancelled
<1> HIDE DEF S
<1>2. "cancelled" \in States /\ call \in [Call -> CallType]
  BY DEF States, TypeOK
<1>3. call' \in [Call -> CallType] /\ Marks(S, "cancelled")
  BY <1>1, <1>2, MarkSet
<1> QED
  BY <1>3 DEF S

\* What a closed set of listeners does to calls and tasks.
LEMMA DetachFacts ==
  ASSUME TypeOK, NEW F \in SUBSET Filter, Detach(F)
  PROVE  /\ call' \in [Call -> CallType]
         /\ Marks({n \in Call : Pending(n) /\ call[n].filt \in F}, "enosys")
         /\ st' \in [Task -> Live \cup {"none", "zombie", "gone"}]
         /\ \A t \in Task : st'[t] = IF st[t] = "trapped" /\ filt[t] \in F THEN "run" ELSE st[t]
         /\ owner' \in [Filter -> {"none", "installer", "socket", "task", "closed"}]
         /\ \A f \in Filter : owner'[f] = IF f \in F THEN "closed" ELSE owner[f]
         /\ tok' \in [Filter -> Nat]
<1> DEFINE S == {n \in Call : Pending(n) /\ call[n].filt \in F}
<1>1. call' = [n \in Call |-> IF n \in S THEN [call[n] EXCEPT !.state = "enosys"] ELSE call[n]]
  BY DEF Refused, Detach
<1> HIDE DEF S
<1>2. "enosys" \in States /\ call \in [Call -> CallType]
  BY DEF States, TypeOK
<1>3. call' \in [Call -> CallType] /\ Marks(S, "enosys")
  BY <1>1, <1>2, MarkSet
<1>4. /\ st' \in [Task -> Live \cup {"none", "zombie", "gone"}]
      /\ \A t \in Task : st'[t] = IF st[t] = "trapped" /\ filt[t] \in F THEN "run" ELSE st[t]
  BY DEF Detach, Released, TypeOK, Live
<1>5. /\ owner' \in [Filter -> {"none", "installer", "socket", "task", "closed"}]
      /\ \A f \in Filter : owner'[f] = IF f \in F THEN "closed" ELSE owner[f]
      /\ tok' \in [Filter -> Nat]
  BY DEF Detach, Closed, TypeOK
<1> QED
  BY <1>3, <1>4, <1>5 DEF S

LEMMA InitType == Init => TypeOK
<1> SUFFICES ASSUME Init PROVE TypeOK
  OBVIOUS
<1>1. FlagType
  <2>1. holds \in [Task -> BOOLEAN]
    BY Zenon DEF Init
  <2>2. sender \in BOOLEAN /\ edge \in [Filter -> BOOLEAN] /\ fresh \in [Filter -> BOOLEAN]
    BY Zenon DEF Init
  <2> QED
    BY <2>1, <2>2 DEF FlagType
<1>2. TaskType
  BY ConstAssumption DEF Init, TaskType, Live
<1>3. NoCall \in CallType
  BY ConstAssumption DEF NoCall, CallType
<1>4. KernelType
  BY <1>3, ConstAssumption, EmptySeq DEF Init, KernelType
<1>5. LoopType
  BY ConstAssumption, EmptySeq DEF Init, LoopType
<1> QED
  BY <1>1, <1>2, <1>4, <1>5, TypeParts

\* A flag that is set or cleared is a flag.
LEMMA FlagExcept ==
  ASSUME NEW S, NEW f \in [S -> BOOLEAN], NEW x, NEW b \in BOOLEAN
  PROVE  [f EXCEPT ![x] = b] \in [S -> BOOLEAN]
OBVIOUS

LEMMA NextFlags ==
  ASSUME FlagType, [Next]_vars
  PROVE  FlagType'
<1>u. CASE UNCHANGED <<holds, sender, edge, fresh>>
  BY <1>u DEF FlagType
<1>1. ASSUME NEW t \in Task, Traced(t) \/ Reap(t)
      PROVE  FlagType'
  <2>w. WakeHup(t) => edge' \in [Filter -> BOOLEAN]
    BY Zenon DEF WakeHup
  <2>1. CASE InstallForExec(t)
    BY <2>1, <1>u DEF InstallForExec, Install, aioVars
  <2>2. CASE SendFd(t)
    <3>1. holds' \in [Task -> BOOLEAN]
      <4>1. (holds[t] /\ st[t] = "exec") \in BOOLEAN
        BY Zenon
      <4>2. [holds EXCEPT ![t] = (holds[t] /\ st[t] = "exec")] \in [Task -> BOOLEAN]
        BY <4>1, FlagExcept, Zenon DEF FlagType
      <4>3. UNCHANGED holds \/ Failed(t)
        BY <2>2, Zenon DEF SendFd
      <4> QED
        BY <4>2, <4>3, Zenon DEF Failed, FlagType
    <3> QED
      BY <3>1, <2>2, Zenon DEF SendFd, FlagType, aioVars
  <2>3. ASSUME NEW u \in Task, Fork(t, u) \/ InstallForSpawn(t, u)
        PROVE  FlagType'
    <3>1. holds' = [holds EXCEPT ![u] = holds[t]] /\ UNCHANGED <<sender, edge, fresh>>
      BY <2>3, Zenon DEF Fork, InstallForSpawn, Install, aioVars
    <3>2. holds[t] \in BOOLEAN
      BY Zenon DEF FlagType
    <3> QED
      BY <3>1, <3>2, FlagExcept, Zenon DEF FlagType
  <2>4. CASE CloseSock(t)
    <3>1. holds' = [holds EXCEPT ![t] = FALSE] /\ UNCHANGED <<sender, edge, fresh>>
      BY <2>4, Zenon DEF CloseSock, aioVars
    <3> QED
      BY <3>1, FlagExcept, Zenon DEF FlagType
  <2>5. ASSUME NEW bad \in BOOLEAN, Syscall(t, bad)
        PROVE  FlagType'
    <3>1. UNCHANGED <<holds, sender, fresh>>
      BY <2>5, Zenon DEF Syscall
    <3>2. (owner[filt[t]] = "task") \in BOOLEAN
      BY Zenon
    <3>3. [edge EXCEPT ![filt[t]] = (owner[filt[t]] = "task")] \in [Filter -> BOOLEAN]
      BY <3>2, FlagExcept, Zenon DEF FlagType
    <3>4. \/ edge' = [edge EXCEPT ![filt[t]] = (owner[filt[t]] = "task")]
          \/ UNCHANGED edge
      BY <2>5, Zenon DEF Syscall
    <3> QED
      BY <3>1, <3>3, <3>4, Zenon DEF FlagType
  <2>6. CASE Interrupt(t)
    BY <2>6, <1>u DEF Interrupt, aioVars
  <2>7. CASE Exit(t)
    <3>1. /\ holds' = [holds EXCEPT ![t] = FALSE] /\ UNCHANGED <<sender, fresh>>
          /\ WakeHup(t) \/ UNCHANGED edge
      BY <2>7, Zenon DEF Exit
    <3> QED
      BY <3>1, <2>w, FlagExcept, Zenon DEF FlagType
  <2>8. CASE Reap(t)
    <3>1. UNCHANGED <<holds, sender, fresh>> /\ (WakeHup(t) \/ UNCHANGED edge)
      BY <2>8, Zenon DEF Reap
    <3> QED
      BY <3>1, <2>w, Zenon DEF FlagType
  <2> QED
    BY <1>1, <2>1, <2>2, <2>3, <2>4, <2>5, <2>6, <2>7, <2>8, Zenon DEF Traced
<1>2. CASE DropSender
  BY <1>2, Zenon DEF DropSender, FlagType, taskVars, aioVars
<1>3. CASE RecvFd
  <2>1. UNCHANGED <<holds, sender, fresh>>
    BY <1>3, Zenon DEF RecvFd, taskVars
  <2>2. (Mask(Head(sock)) # {}) \in BOOLEAN
    BY Zenon
  <2>3. edge' = [edge EXCEPT ![Head(sock)] = (Mask(Head(sock)) # {})]
    BY <1>3, Zenon DEF RecvFd
  <2> QED
    BY <2>1, <2>2, <2>3, FlagExcept, Zenon DEF FlagType
<1>4. CASE RecvEof \/ JoinError \/ JoinAll \/ LoopFails
  BY <1>4, <1>u DEF RecvEof, JoinError, JoinAll, LoopFails, taskVars, aioVars
<1>5. ASSUME NEW f \in Filter, Driver(f) \/ Listener(f) \/ AbortTask(f)
      PROVE  FlagType'
  <2>e. ASSUME NEW how, EndTask(f, how), UNCHANGED <<holds, sender>>
        PROVE  FlagType'
    <3>1. edge' = [edge EXCEPT ![f] = FALSE] /\ fresh' = [fresh EXCEPT ![f] = FALSE]
      BY <2>e, Zenon DEF EndTask
    <3> QED
      BY <3>1, <2>e, FlagExcept, Zenon DEF FlagType
  <2>1. CASE Driver(f)
    <3>1. /\ UNCHANGED <<holds, sender>>
          /\ edge' = [edge EXCEPT ![f] = FALSE] /\ fresh' = [fresh EXCEPT ![f] = (pc[f] = "clear")]
      BY <2>1, Zenon DEF Driver, taskVars
    <3>2. (pc[f] = "clear") \in BOOLEAN
      BY Zenon
    <3> QED
      BY <3>1, <3>2, FlagExcept, Zenon DEF FlagType
  <2>2. CASE Readable(f)
    <3>1. CASE EndTask(f, "ok")
      BY <3>1, <2>2, <2>e, Zenon DEF Readable
    <3>2. CASE ~EndTask(f, "ok")
      <4>1. UNCHANGED <<holds, sender, edge>> /\ fresh' = [fresh EXCEPT ![f] = FALSE]
        BY <3>2, <2>2, Zenon DEF Readable
      <4> QED
        BY <4>1, FlagExcept, Zenon DEF FlagType
    <3> QED
      BY <3>1, <3>2
  <2>3. CASE ClearReady(f)
    <3>1. UNCHANGED <<holds, sender, edge>> /\ fresh' = [fresh EXCEPT ![f] = FALSE]
      BY <2>3, Zenon DEF ClearReady, taskVars
    <3> QED
      BY <3>1, FlagExcept, Zenon DEF FlagType
  <2>4. CASE NotifRecv(f)
    <3>1. UNCHANGED <<holds, sender, fresh>> /\ (edge' = [edge EXCEPT ![f] = TRUE] \/ UNCHANGED edge)
      BY <2>4, Zenon DEF NotifRecv, taskVars
    <3> QED
      BY <3>1, FlagExcept, Zenon DEF FlagType
  <2>5. CASE HandleNotify(f)
    BY <2>5, <1>u DEF HandleNotify, taskVars, aioVars
  <2>6. CASE SendContinue(f)
    BY <2>6, <1>u DEF SendContinue, aioVars
  <2>7. CASE HandleResult(f)
    <3>1. EndTask(f, "err") \/ UNCHANGED <<edge, fresh>>
      BY <2>7, Zenon DEF HandleResult, aioVars
    <3>2. UNCHANGED <<holds, sender>>
      BY <2>7, Zenon DEF HandleResult
    <3> QED
      BY <3>1, <3>2, <2>e, <1>u
  <2>8. CASE AbortTask(f)
    BY <2>8, <2>e, Zenon DEF AbortTask
  <2> QED
    BY <1>5, <2>1, <2>2, <2>3, <2>4, <2>5, <2>6, <2>7, <2>8, Zenon DEF Listener
<1>6. CASE Terminated \/ UNCHANGED vars
  BY <1>6, <1>u DEF Terminated, vars, taskVars, aioVars
<1> QED
  BY <1>1, <1>2, <1>3, <1>4, <1>5, <1>6, Zenon DEF Next, Loop

\* EndTask closes the listener and leaves its task where it ended.
LEMMA EndTaskFacts ==
  ASSUME TypeOK, NEW f \in Filter, NEW how \in {"ok", "err"}, EndTask(f, how)
  PROVE  /\ Detach({f})
         /\ \A g \in Filter : pc'[g] = IF g = f THEN how ELSE pc[g]
         /\ \A g \in Filter : res'[g] = IF g = f THEN "ok" ELSE res[g]
         /\ \A g \in Filter : ready'[g] = IF g = f THEN {} ELSE ready[g]
         /\ \A g \in Filter : cur'[g] = IF g = f THEN 0 ELSE cur[g]
         /\ UNCHANGED arena => LoopType'
<1>1. /\ \A g \in Filter : pc'[g] = IF g = f THEN how ELSE pc[g]
      /\ \A g \in Filter : cur'[g] = IF g = f THEN 0 ELSE cur[g]
  BY DEF EndTask, TypeOK
<1>2. /\ \A g \in Filter : res'[g] = IF g = f THEN "ok" ELSE res[g]
      /\ \A g \in Filter : ready'[g] = IF g = f THEN {} ELSE ready[g]
  BY DEF EndTask, TypeOK
<1>3. ASSUME UNCHANGED arena PROVE LoopType'
  <2>1. \A g \in Filter : cur'[g] # 0 <=> pc'[g] \in {"handle", "continue", "result"}
    BY <1>1 DEF TypeOK
  <2> QED
    BY <1>3, <2>1, ConstAssumption DEF EndTask, TypeOK, LoopType
<1> QED
  BY <1>1, <1>2, <1>3 DEF EndTask

LEMMA NextType ==
  ASSUME TypeOK, InstallInv, SockInv, ListenerInv, [Next]_vars
  PROVE  TypeOK'
<1>f. FlagType'
  BY NextFlags, TypeParts
<1>p. FlagType /\ TaskType /\ KernelType /\ LoopType
  BY TypeParts
<1>t. ASSUME UNCHANGED <<st, image, filt>> PROVE TaskType'
  BY <1>t, <1>p DEF TaskType
<1>k. ASSUME UNCHANGED <<nfilt, owner, sock, phase, ncall, call, tok>> PROVE KernelType'
  BY <1>k, <1>p DEF KernelType
<1>l. ASSUME UNCHANGED <<ready, pc, cur, res, arena>> PROVE LoopType'
  BY <1>l, <1>p DEF LoopType
<1> SUFFICES TaskType' /\ KernelType' /\ LoopType'
  BY <1>f, TypeParts, Zenon DEF TypeOK, FlagType, TaskType, KernelType, LoopType
<1>0. 0 \in 0..MaxCalls /\ Filter \subseteq 0..MaxFilter /\ Call \subseteq 0..MaxCalls
  BY ConstAssumption DEF Filter, Call
<1>1. ASSUME NEW t \in Task, NEW u \in Task, NEW how \in {"exec", "spawn"}, Install(t, u, how)
      PROVE  TaskType' /\ KernelType' /\ LoopType'
  <2>1. nfilt + 1 \in Filter /\ nfilt + 1 \in 0..MaxFilter
    BY <1>1, ConstAssumption DEF Install, Filter, TypeOK
  <2>2. TaskType'
    BY <1>1, <2>1, <1>p DEF Install, TaskType, Live
  <2>3. KernelType'
    BY <1>1, <2>1, <1>p DEF Install, KernelType
  <2> QED
    BY <1>1, <1>l, <2>2, <2>3 DEF Install, aioVars, loopVars
<1>2. ASSUME NEW t \in Task, SendFd(t)
      PROVE  TaskType' /\ KernelType' /\ LoopType'
  <2>1. TaskType'
    <3>1. UNCHANGED filt /\ (image' = image \/ image' = [image EXCEPT ![t] = "static"])
      BY <1>2 DEF SendFd
    <3>2. \/ st' = [st EXCEPT ![t] = "run"]
          \/ st' = [st EXCEPT ![t] = "gone"]
      BY <1>2 DEF SendFd, Failed
    <3> QED
      BY <3>1, <3>2, <1>p DEF TaskType, Live
  <2>2. filt[t] \in 0..MaxFilter /\ filt[t] \in Filter \cup {0}
    BY DEF TypeOK, Filter
  <2>3. KernelType'
    <3>1. owner' \in [Filter -> {"none", "installer", "socket", "task", "closed"}]
      BY <1>2, <1>p DEF SendFd, KernelType
    <3>2. CASE sock' = Append(sock, filt[t])
      <4>1. filt[t] \in Filter
        BY <2>2, <1>2 DEF SendFd, InstallInv
      <4> QED
        BY <4>1, <3>1, <3>2, <1>2, <1>p, AppendProperties DEF SendFd, KernelType
    <3>3. CASE UNCHANGED sock
      BY <3>1, <3>3, <1>2, <1>p DEF SendFd, KernelType
    <3> QED
      BY <1>2, <3>2, <3>3 DEF SendFd
  <2> QED
    BY <1>2, <1>l, <2>1, <2>3 DEF SendFd, aioVars, loopVars
<1>3. ASSUME NEW t \in Task, NEW u \in Task, Fork(t, u)
      PROVE  TaskType' /\ KernelType' /\ LoopType'
  <2>1. TaskType'
    BY <1>3, <1>p DEF Fork, TaskType, Live
  <2> QED
    BY <1>3, <2>1, <1>k, <1>l DEF Fork, kernVars, aioVars, loopVars
<1>4. ASSUME NEW t \in Task, CloseSock(t)
      PROVE  TaskType' /\ KernelType' /\ LoopType'
  BY <1>4, <1>t, <1>k, <1>l DEF CloseSock, kernVars, aioVars, loopVars
<1>5. ASSUME NEW t \in Task, NEW bad \in BOOLEAN, Syscall(t, bad)
      PROVE  TaskType' /\ KernelType' /\ LoopType'
  <2>1. ncall + 1 \in 0..MaxCalls /\ ncall' = ncall + 1 /\ filt[t] \in 0..MaxFilter
    BY <1>5, ConstAssumption DEF Syscall, TypeOK
  <2>2. ASSUME NEW s \in States
        PROVE  [task |-> t, filt |-> filt[t], bad |-> bad, state |-> s] \in CallType
    BY <2>1 DEF CallType, States
  <2>3. call' \in [Call -> CallType]
    <3>1. "init" \in States /\ "enosys" \in States
      BY DEF States
    <3>2. \E s \in States : call' = [call EXCEPT ![ncall + 1] =
                              [task |-> t, filt |-> filt[t], bad |-> bad, state |-> s]]
      BY <3>1, <1>5 DEF Syscall
    <3> QED
      BY <3>2, <2>2, <1>p DEF KernelType
  <2>4. tok' \in [Filter -> Nat]
    BY <1>5, <1>p DEF Syscall, KernelType
  <2>5. KernelType'
    BY <1>5, <2>1, <2>3, <2>4, <1>p DEF Syscall, KernelType
  <2>6. TaskType'
    BY <1>5, <1>p DEF Syscall, TaskType, Live
  <2> QED
    BY <1>5, <2>5, <2>6, <1>l DEF Syscall, loopVars
<1>6. ASSUME NEW t \in Task, Interrupt(t)
      PROVE  TaskType' /\ KernelType' /\ LoopType'
  <2>1. call' \in [Call -> CallType]
    BY <1>6, MarkCancelled DEF Interrupt
  <2>2. TaskType'
    BY <1>6, <1>p DEF Interrupt, TaskType, Live
  <2> QED
    BY <1>6, <2>1, <2>2, <1>p, <1>l DEF Interrupt, KernelType, aioVars, loopVars
<1>7. ASSUME NEW t \in Task, Exit(t)
      PROVE  TaskType' /\ KernelType' /\ LoopType'
  <2>1. call' \in [Call -> CallType]
    BY <1>7, MarkCancelled DEF Exit
  <2>2. TaskType'
    BY <1>7, <1>p DEF Exit, TaskType
  <2>3. owner' \in [Filter -> {"none", "installer", "socket", "task", "closed"}]
    BY <1>7, <1>p DEF Exit, KernelType
  <2> QED
    BY <1>7, <2>1, <2>2, <2>3, <1>p, <1>l DEF Exit, KernelType, loopVars
<1>8. ASSUME NEW t \in Task, Reap(t)
      PROVE  TaskType' /\ KernelType' /\ LoopType'
  <2>1. TaskType'
    BY <1>8, <1>p DEF Reap, TaskType
  <2> QED
    BY <1>8, <2>1, <1>k, <1>l DEF Reap, kernVars, loopVars
<1>9. CASE DropSender
  BY <1>9, <1>t, <1>k, <1>l DEF DropSender, taskVars, kernVars, aioVars, loopVars
<1>10. CASE RecvFd
  <2>1. Head(sock) \in Filter /\ Tail(sock) \in Seq(Filter)
    BY <1>10, HeadTailProperties, <1>p DEF RecvFd, KernelType
  <2>2. KernelType'
    BY <1>10, <2>1, <1>p DEF RecvFd, KernelType
  <2>3. LoopType'
    <3>1. 1 \in 1..Len(sock) /\ Head(sock) = sock[1]
      BY <1>10, <1>p, EmptySeq DEF RecvFd, KernelType
    <3>2. owner[Head(sock)] = "socket"
      BY <3>1 DEF SockInv
    <3>3. pc[Head(sock)] \notin Active
      BY <3>2, <2>1 DEF ListenerInv
    <3>4. \A f \in Filter : cur'[f] # 0 <=> pc'[f] \in {"handle", "continue", "result"}
      BY <1>10, <3>3, <2>1, <1>p DEF RecvFd, LoopType, Active
    <3> QED
      BY <1>10, <2>1, <3>4, <1>p DEF RecvFd, LoopType
  <2> QED
    BY <1>10, <2>2, <2>3, <1>t DEF RecvFd, taskVars
<1>11. CASE RecvEof \/ JoinError \/ JoinAll
  <2>1. phase' \in {"recv", "join", "done", "failed"}
    BY <1>11 DEF RecvEof, JoinError, JoinAll
  <2> QED
    BY <1>11, <2>1, <1>p, <1>t, <1>l
       DEF RecvEof, JoinError, JoinAll, KernelType, taskVars, kernVars, aioVars, loopVars
<1>12. CASE LoopFails
  <2> DEFINE F == {sock[i] : i \in DOMAIN sock}
  <2>1. F \in SUBSET Filter
    BY <1>p, LenProperties, ElementOfSeq DEF KernelType
  <2>2. Detach(F)
    BY <1>12 DEF LoopFails
  <2> HIDE DEF F
  <2>3. /\ call' \in [Call -> CallType]
        /\ st' \in [Task -> Live \cup {"none", "zombie", "gone"}]
        /\ owner' \in [Filter -> {"none", "installer", "socket", "task", "closed"}]
        /\ tok' \in [Filter -> Nat]
    BY <2>1, <2>2, DetachFacts
  <2>4. KernelType'
    BY <1>12, <2>3, <1>p, EmptySeq DEF LoopFails, KernelType
  <2>5. TaskType'
    BY <1>12, <2>3, <1>p DEF LoopFails, TaskType
  <2> QED
    BY <1>12, <2>4, <2>5, <1>l DEF LoopFails, aioVars, loopVars
<1>13. ASSUME NEW f \in Filter, NEW how \in {"ok", "err"}, EndTask(f, how),
              UNCHANGED <<image, filt, holds, nfilt, sock, sender, phase, ncall, arena>>
       PROVE  TaskType' /\ KernelType' /\ LoopType'
  <2>1. Detach({f}) /\ LoopType'
    BY <1>13, EndTaskFacts
  <2>2. /\ call' \in [Call -> CallType]
        /\ st' \in [Task -> Live \cup {"none", "zombie", "gone"}]
        /\ owner' \in [Filter -> {"none", "installer", "socket", "task", "closed"}]
        /\ tok' \in [Filter -> Nat]
    BY <2>1, DetachFacts
  <2> QED
    BY <1>13, <2>1, <2>2, <1>p DEF TaskType, KernelType
<1>14. ASSUME NEW f \in Filter, Driver(f)
       PROVE  TaskType' /\ KernelType' /\ LoopType'
  <2>1. Mask(f) \subseteq {"in", "hup"}
    BY DEF Mask
  <2>2. LoopType'
    BY <1>14, <2>1, <1>p DEF Driver, LoopType, loopVars
  <2> QED
    BY <1>14, <2>2, <1>t, <1>k DEF Driver, taskVars, kernVars
<1>15. ASSUME NEW f \in Filter, Readable(f)
       PROVE  TaskType' /\ KernelType' /\ LoopType'
  <2>1. CASE EndTask(f, "ok")
    BY <1>15, <2>1, <1>13 DEF Readable
  <2>2. CASE ~EndTask(f, "ok")
    <3>1. /\ pc[f] = "await" /\ pc' = [pc EXCEPT ![f] = "clear"]
          /\ UNCHANGED <<owner, call, st, tok, edge, ready, cur, res>>
          /\ UNCHANGED <<image, filt, holds, nfilt, sock, sender, phase, ncall, arena>>
      BY <1>15, <2>2 DEF Readable
    <3>2. LoopType'
      BY <3>1, <1>p DEF LoopType
    <3> QED
      BY <3>1, <3>2, <1>t, <1>k
  <2> QED
    BY <2>1, <2>2
<1>16. ASSUME NEW f \in Filter, ClearReady(f)
       PROVE  TaskType' /\ KernelType' /\ LoopType'
  <2>1. ready' \in [Filter -> SUBSET {"in", "hup"}]
    BY <1>16, <1>p DEF ClearReady, LoopType
  <2>2. LoopType'
    BY <1>16, <2>1, <1>p DEF ClearReady, LoopType
  <2> QED
    BY <1>16, <2>2, <1>t, <1>k DEF ClearReady, taskVars, kernVars
<1>17. ASSUME NEW f \in Filter, NotifRecv(f)
       PROVE  TaskType' /\ KernelType' /\ LoopType'
  <2>0. /\ pc[f] = "recv" /\ tok' = [tok EXCEPT ![f] = IF @ > 0 THEN @ - 1 ELSE 0]
        /\ UNCHANGED <<taskVars, nfilt, owner, sock, sender, phase, ncall, ready, fresh, res, arena>>
    BY <1>17 DEF NotifRecv
  <2>1. tok' \in [Filter -> Nat]
    BY <2>0, <1>p DEF KernelType
  <2>2. ASSUME NEW n \in Queue(f), cur' = [cur EXCEPT ![f] = n],
               call' = [call EXCEPT ![n].state = "sent"], pc' = [pc EXCEPT ![f] = "handle"]
        PROVE  TaskType' /\ KernelType' /\ LoopType'
    <3>1. n \in Call /\ n # 0
      BY DEF Queue, Call
    <3>2. "sent" \in States
      BY DEF States
    <3>3. call' \in [Call -> CallType]
      BY <2>2, <3>1, <3>2, <1>p, MarkOne DEF KernelType
    <3>4. \A g \in Filter : cur'[g] # 0 <=> pc'[g] \in {"handle", "continue", "result"}
      BY <2>2, <3>1, <1>p DEF LoopType
    <3>5. LoopType'
      BY <2>0, <2>2, <3>1, <3>4, <1>0, <1>p DEF LoopType
    <3> QED
      BY <2>0, <2>1, <3>3, <3>5, <1>p, <1>t DEF KernelType, taskVars
  <2>3. CASE pc' = [pc EXCEPT ![f] = "await"] /\ UNCHANGED <<cur, call, edge>>
    <3>1. LoopType'
      BY <2>0, <2>3, <1>p DEF LoopType
    <3> QED
      BY <2>0, <2>1, <2>3, <3>1, <1>p, <1>t DEF KernelType, taskVars
  <2> QED
    BY <1>17, <2>2, <2>3 DEF NotifRecv
<1>18. ASSUME NEW f \in Filter, HandleNotify(f)
       PROVE  TaskType' /\ KernelType' /\ LoopType'
  <2>1. cur[f] \in Call
    BY <1>18 DEF HandleNotify, TypeOK, Call
  <2>2. arena' \in [Filter -> Seq(Call)]
    <3>1. Append(arena[f], cur[f]) \in Seq(Call)
      BY <2>1, <1>p, AppendProperties DEF LoopType
    <3> QED
      BY <1>18, <3>1, <1>p DEF HandleNotify, LoopType
  <2>3. res' \in [Filter -> {"ok", "err"}]
    BY <1>18, <1>p DEF HandleNotify, LoopType
  <2>4. UNCHANGED <<ready, cur>> /\ pc[f] = "handle" /\ pc' = [pc EXCEPT ![f] = "continue"]
    BY <1>18 DEF HandleNotify, aioVars
  <2>5. LoopType'
    BY <2>2, <2>3, <2>4, <1>p DEF LoopType
  <2> QED
    BY <1>18, <2>5, <1>t, <1>k DEF HandleNotify, taskVars, kernVars
<1>19. ASSUME NEW f \in Filter, SendContinue(f)
       PROVE  TaskType' /\ KernelType' /\ LoopType'
  <2>1. cur[f] \in Call /\ "continued" \in States
    BY <1>19 DEF SendContinue, TypeOK, Call, States
  <2>2. call' \in [Call -> CallType]
    BY <1>19, <2>1, <1>p, MarkOne DEF SendContinue, KernelType
  <2>3. TaskType'
    BY <1>19, <1>p DEF SendContinue, TaskType, Live
  <2>4. LoopType'
    BY <1>19, <1>p DEF SendContinue, LoopType, aioVars
  <2> QED
    BY <1>19, <2>2, <2>3, <2>4, <1>p DEF SendContinue, KernelType
<1>20. ASSUME NEW f \in Filter, HandleResult(f)
       PROVE  TaskType' /\ KernelType' /\ LoopType'
  <2>1. CASE EndTask(f, "err")
    BY <1>20, <2>1, <1>13 DEF HandleResult
  <2>2. CASE ~EndTask(f, "err")
    <3>1. /\ pc[f] = "result" /\ pc' = [pc EXCEPT ![f] = "await"] /\ cur' = [cur EXCEPT ![f] = 0]
          /\ UNCHANGED <<owner, call, st, tok, ready, res>>
          /\ UNCHANGED <<image, filt, holds, nfilt, sock, sender, phase, ncall, arena>>
      BY <1>20, <2>2 DEF HandleResult, aioVars
    <3>2. \A g \in Filter : cur'[g] # 0 <=> pc'[g] \in {"handle", "continue", "result"}
      BY <3>1, <1>p DEF LoopType
    <3>3. LoopType'
      BY <3>1, <3>2, <1>0, <1>p DEF LoopType
    <3> QED
      BY <3>1, <3>3, <1>t, <1>k
  <2> QED
    BY <2>1, <2>2
<1>21. ASSUME NEW f \in Filter, AbortTask(f)
       PROVE  TaskType' /\ KernelType' /\ LoopType'
  BY <1>21, <1>13 DEF AbortTask
<1>22. CASE Terminated \/ UNCHANGED vars
  BY <1>22, <1>t, <1>k, <1>l DEF Terminated, vars, taskVars, kernVars, aioVars, loopVars
<1>23. ASSUME NEW t \in Task, Traced(t) \/ Reap(t)
       PROVE  TaskType' /\ KernelType' /\ LoopType'
  BY <1>23, <1>1, <1>2, <1>3, <1>4, <1>5, <1>6, <1>7, <1>8
     DEF Traced, InstallForExec, InstallForSpawn
<1>24. ASSUME NEW f \in Filter, Driver(f) \/ Listener(f) \/ AbortTask(f)
       PROVE  TaskType' /\ KernelType' /\ LoopType'
  BY <1>24, <1>14, <1>15, <1>16, <1>17, <1>18, <1>19, <1>20, <1>21 DEF Listener
<1> QED
  BY <1>9, <1>10, <1>11, <1>12, <1>22, <1>23, <1>24 DEF Next, Loop

-------------------------------------------------------------------------------
(* Filters and their listeners *)

Structure == FilterInv /\ InstallInv /\ SockInv /\ ListenerInv

LEMMA InitStructure == Init => Structure
<1> SUFFICES ASSUME Init PROVE Structure
  OBVIOUS
<1>1. FilterInv
  BY DEF Init, FilterInv, Filter
<1>2. SockInv
  BY DEF Init, SockInv
<1> QED
  BY <1>1, <1>2 DEF Init, Structure, InstallInv, ListenerInv, Active

\* Steps that move no listener: tasks enter install_target only by Install, and a
\* tokio task stays active.
LEMMA StructureKept ==
  ASSUME TypeOK, Structure, UNCHANGED <<nfilt, filt, owner, sock>>,
         \A t \in Task : st'[t] \in {"exec", "spawn"} => st'[t] = st[t],
         \A f \in Filter :
           /\ pc'[f] \in Active <=> pc[f] \in Active
           /\ pc'[f] \in {"ok", "err"} => pc'[f] = pc[f]
           /\ res'[f] = "err" => pc'[f] \in {"continue", "result"}
           /\ ready'[f] # {} => ready[f] # {} \/ pc'[f] \in Active
  PROVE  Structure'
<1>1. FilterInv' /\ SockInv'
  BY DEF Structure, FilterInv, SockInv
<1>2. InstallInv'
  BY DEF Structure, InstallInv
<1>3. ListenerInv'
  BY DEF Structure, ListenerInv
<1> QED
  BY <1>1, <1>2, <1>3 DEF Structure

LEMMA InstallStructure ==
  ASSUME TypeOK, Structure, NEW t \in Task, NEW u \in Task, NEW how \in {"exec", "spawn"},
         Install(t, u, how), u = t \/ st[u] = "none"
  PROVE  Structure'
<1> DEFINE n == nfilt + 1
<1>1. n \in Filter /\ nfilt \in Nat /\ nfilt' = n
  BY ConstAssumption DEF Install, Filter, TypeOK
<1>2. /\ \A v \in Task : filt'[v] = IF v = u THEN n ELSE filt[v]
      /\ \A v \in Task : st'[v] = IF v = u THEN how ELSE st[v]
      /\ \A f \in Filter : owner'[f] = IF f = n THEN "installer" ELSE owner[f]
      /\ UNCHANGED <<sock, pc, res, ready>>
  BY DEF Install, TypeOK, aioVars, loopVars
<1>3. owner[n] = "none" /\ pc[n] \notin Active \cup {"ok", "err"}
  BY <1>1 DEF Structure, FilterInv, ListenerInv
<1> HIDE DEF n
<1>4. FilterInv'
  <2>1. \A f \in Filter : f > n <=> owner'[f] = "none"
    BY <1>1, <1>2 DEF Structure, FilterInv, n, Filter
  <2>2. \A v \in Task : filt'[v] <= n
    <3>1. \A v \in Task : filt[v] \in Int /\ filt[v] <= nfilt
      BY ConstAssumption DEF Structure, FilterInv, TypeOK
    <3>2. \A v \in Task : filt[v] <= n
      BY <3>1, <1>1 DEF n
    <3>3. n <= n
      BY <1>1 DEF n
    <3> QED
      BY <3>2, <3>3, <1>2
  <2> QED
    BY <1>1, <2>1, <2>2 DEF FilterInv
<1>5. InstallInv'
  <2>1. \A v \in Task : filt[v] # n
    BY <1>1 DEF Structure, FilterInv, n, TypeOK
  <2>2. n # 0
    BY <1>1 DEF Filter
  <2>3. \A v \in Task : st[v] \in {"exec", "spawn"} => filt[v] \in Filter
    BY DEF Structure, InstallInv, TypeOK, Filter
  <2> QED
    BY <1>1, <1>2, <2>1, <2>2, <2>3 DEF Structure, InstallInv
<1>6. SockInv'
  <2>1. \A i \in 1..Len(sock) : sock[i] \in Filter /\ sock[i] # n
    BY <1>3, ElementOfSeq DEF Structure, SockInv, TypeOK
  <2> QED
    BY <1>2, <2>1 DEF Structure, SockInv
<1>7. ListenerInv'
  BY <1>2, <1>3 DEF Structure, ListenerInv
<1> QED
  BY <1>4, <1>5, <1>6, <1>7 DEF Structure

LEMMA SendFdStructure ==
  ASSUME TypeOK, Structure, NEW t \in Task, SendFd(t)
  PROVE  Structure'
<1> DEFINE f == filt[t]
<1>1. /\ f \in Filter /\ owner[f] = "installer"
      /\ \A u \in Task : st[u] \in {"exec", "spawn"} /\ filt[u] = f => u = t
  BY DEF SendFd, Structure, InstallInv, TypeOK, Filter
<1>2. UNCHANGED <<nfilt, filt, pc, res, ready>>
  BY DEF SendFd, aioVars, loopVars
<1>3. \A u \in Task : st'[u] = (IF u = t THEN st'[t] ELSE st[u]) /\ st'[t] \notin {"exec", "spawn"}
  BY DEF SendFd, Failed, TypeOK
<1>4. PICK o \in {"socket", "closed"} :
        /\ \A g \in Filter : owner'[g] = IF g = f THEN o ELSE owner[g]
        /\ (o = "socket" /\ sock' = Append(sock, f)) \/ sock' = sock
  BY DEF SendFd, TypeOK
<1> HIDE DEF f
<1>5. FilterInv'
  BY <1>1, <1>2, <1>4 DEF Structure, FilterInv
<1>6. InstallInv'
  <2> SUFFICES ASSUME NEW u \in Task, st'[u] \in {"exec", "spawn"}
               PROVE  /\ filt'[u] # 0 /\ owner'[filt'[u]] = "installer"
                      /\ \A v \in Task :
                           st'[v] \in {"exec", "spawn"} /\ filt'[v] = filt'[u] => v = u
    BY DEF InstallInv
  <2>1. u # t /\ st[u] \in {"exec", "spawn"}
    BY <1>3
  <2>2. filt[u] # f /\ filt[u] \in Filter /\ owner[filt[u]] = "installer"
    BY <2>1, <1>1 DEF Structure, InstallInv, TypeOK, Filter
  <2>3. \A v \in Task : st'[v] \in {"exec", "spawn"} => st[v] \in {"exec", "spawn"}
    BY <1>3
  <2> QED
    BY <2>1, <2>2, <2>3, <1>2, <1>4 DEF Structure, InstallInv
<1>7. SockInv'
  <2>1. \A i \in 1..Len(sock) : sock[i] \in Filter /\ sock[i] # f /\ owner[sock[i]] = "socket"
    BY <1>1, ElementOfSeq DEF Structure, SockInv, TypeOK
  <2>2. CASE sock' = sock
    BY <2>1, <2>2, <1>4 DEF Structure, SockInv
  <2>3. CASE o = "socket" /\ sock' = Append(sock, f)
    <3>1. /\ sock \in Seq(Filter) /\ Len(sock) \in Nat
          /\ Len(sock') = Len(sock) + 1 /\ sock'[Len(sock) + 1] = f
          /\ \A i \in 1..Len(sock) : sock'[i] = sock[i]
      BY <2>3, <1>1, AppendProperties, LenProperties DEF TypeOK
    <3>2. \A i \in 1..Len(sock') : i \in 1..Len(sock) \/ i = Len(sock) + 1
      BY <3>1
    <3>3. \A i \in 1..Len(sock') : owner'[sock'[i]] = "socket"
      BY <3>1, <3>2, <2>1, <2>3, <1>1, <1>4
    <3>4. \A i, j \in 1..Len(sock') : sock'[i] = sock'[j] => i = j
      BY <3>1, <3>2, <2>1 DEF Structure, SockInv
    <3> QED
      BY <3>3, <3>4 DEF SockInv
  <2> QED
    BY <1>4, <2>2, <2>3
<1>8. ListenerInv'
  BY <1>1, <1>2, <1>4 DEF Structure, ListenerInv
<1> QED
  BY <1>5, <1>6, <1>7, <1>8 DEF Structure

LEMMA RecvFdStructure ==
  ASSUME TypeOK, Structure, RecvFd
  PROVE  Structure' /\ Head(sock) \in Filter /\ pc[Head(sock)] = "none"
<1> DEFINE f == Head(sock)
<1>1. /\ sock \in Seq(Filter) /\ sock # <<>> /\ f \in Filter
      /\ Len(sock) \in Nat \ {0} /\ Tail(sock) \in Seq(Filter) /\ Len(Tail(sock)) = Len(sock) - 1
      /\ \A i \in 1..Len(Tail(sock)) : Tail(sock)[i] = sock[i + 1]
  BY HeadTailProperties, EmptySeq DEF RecvFd, TypeOK
<1>2. f = sock[1] /\ 1 \in 1..Len(sock)
  BY <1>1
<1>3. /\ \A g \in Filter : owner'[g] = IF g = f THEN "task" ELSE owner[g]
      /\ \A g \in Filter : pc'[g] = IF g = f THEN "await" ELSE pc[g]
      /\ sock' = Tail(sock) /\ UNCHANGED <<st, filt, nfilt, res, ready>>
  BY DEF RecvFd, TypeOK, taskVars
<1> HIDE DEF f
<1>4. owner[f] = "socket"
  BY <1>2 DEF Structure, SockInv
<1>5. pc[f] = "none"
  BY <1>1, <1>4 DEF Structure, ListenerInv, TypeOK, Active
<1>6. FilterInv'
  BY <1>1, <1>3, <1>4 DEF Structure, FilterInv
<1>7. InstallInv'
  <2>1. \A t \in Task : st[t] \in {"exec", "spawn"} => filt[t] \in Filter /\ filt[t] # f
    BY <1>4 DEF Structure, InstallInv, TypeOK, Filter
  <2> QED
    BY <1>3, <2>1 DEF Structure, InstallInv
<1>8. SockInv'
  <2>1. \A i \in 1..Len(sock') : i + 1 \in 1..Len(sock) /\ i + 1 # 1 /\ sock'[i] = sock[i + 1]
    BY <1>1, <1>3
  <2>2. \A i \in 1..Len(sock) : sock[i] \in Filter /\ (i # 1 => sock[i] # f)
    BY <1>1, <1>2, ElementOfSeq DEF Structure, SockInv
  <2>3. \A i \in 1..Len(sock') : owner'[sock'[i]] = "socket"
    BY <2>1, <2>2, <1>3 DEF Structure, SockInv
  <2>4. ASSUME NEW i \in 1..Len(sock'), NEW j \in 1..Len(sock'), sock'[i] = sock'[j]
        PROVE  i = j
    <3>1. i + 1 = j + 1
      BY <2>1, <2>4 DEF Structure, SockInv
    <3> QED
      BY <3>1
  <2> QED
    BY <2>3, <2>4 DEF SockInv
<1>9. ListenerInv'
  BY <1>3, <1>5 DEF Structure, ListenerInv, Active
<1> QED
  BY <1>1, <1>5, <1>6, <1>7, <1>8, <1>9 DEF Structure, f

\* Listeners in flight are dropped with the socket.
LEMMA LoopFailsStructure ==
  ASSUME TypeOK, Structure, LoopFails
  PROVE  Structure'
<1> DEFINE F == {sock[i] : i \in DOMAIN sock}
<1>1. F \in SUBSET Filter /\ DOMAIN sock = 1..Len(sock)
  BY LenProperties, ElementOfSeq DEF TypeOK
<1>2. \A f \in F : owner[f] = "socket"
  BY <1>1 DEF Structure, SockInv
<1>3. Detach(F) /\ sock' = <<>> /\ UNCHANGED <<nfilt, filt, pc, res, ready>>
  BY DEF LoopFails, aioVars, loopVars
<1> HIDE DEF F
<1>4. /\ \A t \in Task : st'[t] = IF st[t] = "trapped" /\ filt[t] \in F THEN "run" ELSE st[t]
      /\ \A f \in Filter : owner'[f] = IF f \in F THEN "closed" ELSE owner[f]
  BY <1>1, <1>3, DetachFacts
<1>5. FilterInv'
  BY <1>2, <1>3, <1>4 DEF Structure, FilterInv
<1>6. InstallInv'
  <2>1. \A t \in Task : st'[t] \in {"exec", "spawn"} => st[t] \in {"exec", "spawn"}
    BY <1>4
  <2>2. \A t \in Task : st[t] \in {"exec", "spawn"} => filt[t] \in Filter /\ filt[t] \notin F
    BY <1>2 DEF Structure, InstallInv, TypeOK, Filter
  <2> QED
    BY <1>3, <1>4, <2>1, <2>2 DEF Structure, InstallInv
<1>7. SockInv'
  BY <1>3 DEF SockInv
<1>8. ListenerInv'
  BY <1>2, <1>3, <1>4 DEF Structure, ListenerInv
<1> QED
  BY <1>5, <1>6, <1>7, <1>8 DEF Structure

LEMMA EndTaskStructure ==
  ASSUME TypeOK, Structure, NEW f \in Filter, NEW how \in {"ok", "err"}, EndTask(f, how),
         pc[f] \in Active, UNCHANGED <<filt, nfilt, sock>>
  PROVE  Structure'
<1>1. /\ Detach({f})
      /\ \A g \in Filter : pc'[g] = IF g = f THEN how ELSE pc[g]
      /\ \A g \in Filter : res'[g] = IF g = f THEN "ok" ELSE res[g]
      /\ \A g \in Filter : ready'[g] = IF g = f THEN {} ELSE ready[g]
  BY EndTaskFacts
<1>2. /\ \A t \in Task : st'[t] = IF st[t] = "trapped" /\ filt[t] \in {f} THEN "run" ELSE st[t]
      /\ \A g \in Filter : owner'[g] = IF g \in {f} THEN "closed" ELSE owner[g]
  <2>1. {f} \in SUBSET Filter
    OBVIOUS
  <2> QED
    BY <1>1, <2>1, DetachFacts
<1>3. owner[f] = "task"
  BY DEF Structure, ListenerInv
<1>4. FilterInv'
  BY <1>2, <1>3 DEF Structure, FilterInv
<1>5. InstallInv'
  <2>1. \A t \in Task : st'[t] \in {"exec", "spawn"} => st[t] \in {"exec", "spawn"}
    BY <1>2
  <2>2. \A t \in Task : st[t] \in {"exec", "spawn"} => filt[t] \in Filter /\ filt[t] # f
    BY <1>3 DEF Structure, InstallInv, TypeOK, Filter
  <2> QED
    BY <1>2, <2>1, <2>2 DEF Structure, InstallInv
<1>6. SockInv'
  <2>1. \A i \in 1..Len(sock) : sock[i] \in Filter /\ sock[i] # f
    BY <1>3, ElementOfSeq DEF Structure, SockInv, TypeOK
  <2> QED
    BY <1>2, <2>1 DEF Structure, SockInv
<1>7. ListenerInv'
  BY <1>1, <1>2 DEF Structure, ListenerInv, Active
<1> QED
  BY <1>4, <1>5, <1>6, <1>7 DEF Structure

LEMMA NextStructure ==
  ASSUME TypeOK, Structure, [Next]_vars
  PROVE  Structure'
<1>1. ASSUME NEW t \in Task, Traced(t) \/ Reap(t)
      PROVE  Structure'
  <2>q. ASSUME UNCHANGED <<nfilt, filt, owner, sock, pc, res, ready>>,
               \A u \in Task : st'[u] \in {"exec", "spawn"} => st'[u] = st[u]
        PROVE  Structure'
    BY <2>q, StructureKept DEF Structure, ListenerInv
  <2>1. CASE InstallForExec(t)
    BY <2>1, InstallStructure DEF InstallForExec
  <2>2. CASE SendFd(t)
    BY <2>2, SendFdStructure
  <2>3. ASSUME NEW u \in Task, InstallForSpawn(t, u)
        PROVE  Structure'
    BY <2>3, InstallStructure DEF InstallForSpawn
  <2>4. ASSUME NEW u \in Task, Fork(t, u)
        PROVE  Structure'
    <3>1. /\ \A v \in Task : filt'[v] = IF v = u THEN filt[t] ELSE filt[v]
          /\ \A v \in Task : st'[v] = IF v = u THEN "run" ELSE st[v]
          /\ UNCHANGED <<nfilt, owner, sock, pc, res, ready>>
      BY <2>4 DEF Fork, TypeOK, kernVars, aioVars, loopVars
    <3>2. FilterInv' /\ SockInv' /\ ListenerInv'
      BY <3>1 DEF Structure, FilterInv, SockInv, ListenerInv
    <3>3. InstallInv'
      BY <3>1 DEF Structure, InstallInv
    <3> QED
      BY <3>2, <3>3 DEF Structure
  <2>5. CASE CloseSock(t)
    BY <2>5, <2>q DEF CloseSock, kernVars, aioVars, loopVars
  <2>6. ASSUME NEW bad \in BOOLEAN, Syscall(t, bad)
        PROVE  Structure'
    <3>1. UNCHANGED <<nfilt, filt, owner, sock, pc, res, ready>>
      BY <2>6 DEF Syscall, loopVars
    <3>2. \A u \in Task : st'[u] = st[u] \/ st'[u] = "trapped"
      BY <2>6 DEF Syscall, TypeOK
    <3> QED
      BY <3>1, <3>2, <2>q
  <2>7. CASE Interrupt(t)
    <3>1. \A u \in Task : st'[u] = st[u] \/ st'[u] = "run"
      BY <2>7 DEF Interrupt, TypeOK
    <3> QED
      BY <3>1, <2>7, <2>q DEF Interrupt, aioVars, loopVars
  <2>8. CASE Exit(t)
    <3>1. /\ \A u \in Task : st'[u] = IF u = t THEN "zombie" ELSE st[u]
          /\ UNCHANGED <<filt, nfilt, sock, pc, res, ready>>
      BY <2>8 DEF Exit, TypeOK, loopVars
    <3>2. CASE st[t] \notin {"exec", "spawn"}
      BY <3>1, <3>2, <2>8, <2>q DEF Exit
    <3>3. CASE st[t] \in {"exec", "spawn"}
      <4> DEFINE f == filt[t]
      <4>1. /\ f \in Filter /\ owner[f] = "installer"
            /\ \A u \in Task : st[u] \in {"exec", "spawn"} /\ filt[u] = f => u = t
        BY <3>3 DEF Structure, InstallInv, TypeOK, Filter
      <4>2. \A g \in Filter : owner'[g] = IF g = f THEN "closed" ELSE owner[g]
        BY <2>8, <3>3 DEF Exit, TypeOK
      <4> HIDE DEF f
      <4>3. FilterInv'
        BY <3>1, <4>1, <4>2 DEF Structure, FilterInv
      <4>4. InstallInv'
        <5>1. \A u \in Task : st'[u] \in {"exec", "spawn"} =>
                u # t /\ st[u] \in {"exec", "spawn"} /\ filt[u] \in Filter /\ filt[u] # f
          BY <3>1, <4>1 DEF Structure, InstallInv, TypeOK, Filter
        <5> QED
          BY <5>1, <3>1, <4>2 DEF Structure, InstallInv
      <4>5. SockInv'
        <5>1. \A i \in 1..Len(sock) : sock[i] \in Filter /\ sock[i] # f
          BY <4>1, ElementOfSeq DEF Structure, SockInv, TypeOK
        <5> QED
          BY <5>1, <3>1, <4>2 DEF Structure, SockInv
      <4>6. ListenerInv'
        BY <3>1, <4>1, <4>2 DEF Structure, ListenerInv
      <4> QED
        BY <4>3, <4>4, <4>5, <4>6 DEF Structure
    <3> QED
      BY <3>2, <3>3
  <2>9. CASE Reap(t)
    <3>1. \A u \in Task : st'[u] = st[u] \/ st'[u] = "gone"
      BY <2>9 DEF Reap, TypeOK
    <3> QED
      BY <3>1, <2>9, <2>q DEF Reap, kernVars, loopVars
  <2> QED
    BY <1>1, <2>1, <2>2, <2>3, <2>4, <2>5, <2>6, <2>7, <2>8, <2>9 DEF Traced
<1>2. CASE UNCHANGED <<nfilt, filt, owner, sock, pc, res, ready, st>>
  BY <1>2 DEF Structure, FilterInv, InstallInv, SockInv, ListenerInv
<1>3. CASE DropSender \/ RecvEof \/ JoinError \/ JoinAll \/ Terminated \/ UNCHANGED vars
  BY <1>3, <1>2 DEF DropSender, RecvEof, JoinError, JoinAll, Terminated, vars, taskVars,
     kernVars, aioVars, loopVars
<1>4. CASE RecvFd
  BY <1>4, RecvFdStructure
<1>5. CASE LoopFails
  BY <1>5, LoopFailsStructure
<1>6. ASSUME NEW f \in Filter, Driver(f) \/ Listener(f) \/ AbortTask(f)
      PROVE  Structure'
  <2>q. ASSUME UNCHANGED <<nfilt, filt, owner, sock, st>>, pc[f] \in Active, pc'[f] \in Active,
               \A g \in Filter \ {f} : pc'[g] = pc[g] /\ res'[g] = res[g] /\ ready'[g] = ready[g],
               res'[f] = "err" => pc'[f] \in {"continue", "result"}
        PROVE  Structure'
    BY <2>q, StructureKept DEF Structure, ListenerInv, Active
  <2>r. res[f] = "err" => pc[f] \in {"continue", "result"}
    BY DEF Structure, ListenerInv
  <2>e. ASSUME NEW how \in {"ok", "err"}, EndTask(f, how), pc[f] \in Active,
               UNCHANGED <<filt, nfilt, sock>>
        PROVE  Structure'
    BY <2>e, EndTaskStructure
  <2>1. CASE Driver(f)
    <3>1. pc[f] \in Active
      BY <2>1 DEF Driver, Structure, ListenerInv
    <3>2. \A g \in Filter \ {f} : ready'[g] = ready[g]
      BY <2>1 DEF Driver, TypeOK
    <3> QED
      BY <3>1, <3>2, <2>1, <2>q, <2>r DEF Driver, taskVars, kernVars, loopVars
  <2>2. CASE Readable(f)
    <3>1. CASE EndTask(f, "ok")
      BY <3>1, <2>2, <2>e DEF Readable, Active
    <3>2. CASE ~EndTask(f, "ok")
      <4>1. /\ pc[f] = "await" /\ UNCHANGED <<nfilt, filt, owner, sock, st, res, ready>>
            /\ \A g \in Filter : pc'[g] = IF g = f THEN "clear" ELSE pc[g]
        BY <2>2, <3>2 DEF Readable, TypeOK
      <4> QED
        BY <4>1, <2>q, <2>r DEF Active
    <3> QED
      BY <3>1, <3>2
  <2>3. CASE ClearReady(f)
    <3>1. /\ pc[f] = "clear" /\ UNCHANGED <<nfilt, filt, owner, sock, st, res>>
          /\ \A g \in Filter : pc'[g] = IF g = f THEN "recv" ELSE pc[g]
          /\ \A g \in Filter \ {f} : ready'[g] = ready[g]
      BY <2>3 DEF ClearReady, TypeOK, taskVars, kernVars
    <3> QED
      BY <3>1, <2>q, <2>r DEF Active
  <2>4. CASE NotifRecv(f)
    <3>1. pc[f] = "recv" /\ UNCHANGED <<nfilt, filt, owner, sock, st, res, ready>>
      BY <2>4 DEF NotifRecv, taskVars
    <3>2. \E s \in {"handle", "await"} : \A g \in Filter : pc'[g] = IF g = f THEN s ELSE pc[g]
      BY <2>4 DEF NotifRecv, TypeOK
    <3> QED
      BY <3>1, <3>2, <2>q, <2>r DEF Active
  <2>5. CASE HandleNotify(f)
    <3>1. /\ pc[f] = "handle" /\ UNCHANGED <<nfilt, filt, owner, sock, st, ready>>
          /\ \A g \in Filter : pc'[g] = IF g = f THEN "continue" ELSE pc[g]
      BY <2>5 DEF HandleNotify, TypeOK, taskVars, kernVars, aioVars
    <3>2. \A g \in Filter \ {f} : res'[g] = res[g]
      BY <2>5 DEF HandleNotify, TypeOK
    <3> QED
      BY <3>1, <3>2, <2>q DEF Active
  <2>6. CASE SendContinue(f)
    <3>1. /\ pc[f] = "continue" /\ UNCHANGED <<nfilt, filt, owner, sock, res, ready>>
          /\ \A g \in Filter : pc'[g] = IF g = f THEN "result" ELSE pc[g]
      BY <2>6 DEF SendContinue, TypeOK, aioVars
    <3>2. \A t \in Task : st'[t] = st[t] \/ st'[t] = "run"
      BY <2>6 DEF SendContinue, TypeOK
    <3> QED
      BY <3>1, <3>2, StructureKept DEF Active, Structure, ListenerInv
  <2>7. CASE HandleResult(f)
    <3>1. CASE EndTask(f, "err")
      BY <3>1, <2>7, <2>e DEF HandleResult, Active
    <3>2. CASE ~EndTask(f, "err")
      <4>1. /\ pc[f] = "result" /\ UNCHANGED <<nfilt, filt, owner, sock, st, res, ready>>
            /\ \A g \in Filter : pc'[g] = IF g = f THEN "await" ELSE pc[g]
            /\ res[f] = "ok"
        BY <2>7, <3>2 DEF HandleResult, TypeOK, aioVars
      <4> QED
        BY <4>1, <2>q DEF Active
    <3> QED
      BY <3>1, <3>2
  <2>8. CASE AbortTask(f)
    BY <2>8, <2>e DEF AbortTask, Active
  <2> QED
    BY <1>6, <2>1, <2>2, <2>3, <2>4, <2>5, <2>6, <2>7, <2>8 DEF Listener
<1> QED
  BY <1>1, <1>3, <1>4, <1>5, <1>6 DEF Next, Loop

-------------------------------------------------------------------------------
(* Calls, from their notification to their answer *)

Flow == PendingInv /\ CallInv /\ HupInv /\ RefusedInv /\ DoneInv /\ RecordedFirst

LEMMA InitFlow == Init => Flow
<1> SUFFICES ASSUME Init PROVE Flow
  OBVIOUS
<1>1. \A n \in Call : call[n].state = "none" /\ n > ncall
  BY DEF Init, NoCall, Call
<1>2. \A f \in Filter : cur[f] = 0 /\ pc[f] = "none" /\ ready[f] = {}
  BY DEF Init
<1>3. CallInv
  BY <1>1, <1>2 DEF CallInv
<1> QED
  BY <1>1, <1>2, <1>3 DEF Init, Flow, PendingInv, HupInv, RefusedInv, DoneInv, RecordedFirst, Pending

\* The calls there are, and the filters they belong to.
LEMMA CallTypes ==
  ASSUME TypeOK, CallInv, NEW n \in Call
  PROVE  /\ call[n].task \in Task /\ call[n].filt \in 0..MaxFilter
         /\ call[n].state # "none" => n <= ncall /\ call[n].filt \in Filter
<1>1. call[n] \in CallType
  BY DEF TypeOK
<1>2. n \in Int /\ ncall \in Int
  BY ConstAssumption DEF TypeOK, Call
<1> QED
  BY <1>1, <1>2 DEF CallType, CallInv

\* A filter that lost its last user gets no other: only a user makes another one.
LEMMA UsersKept ==
  ASSUME NEW f,
         \A t \in Task : filt'[t] = f /\ st'[t] \in Live \cup {"zombie"} =>
           \/ filt[t] = f /\ (st[t] \in Live \/ st'[t] = st[t])
           \/ \E u \in Task : filt[u] = f /\ st[u] \in Live,
         Users(f) = {}
  PROVE  Users(f)' = {}
<1>1. \A t \in Task : filt[t] = f => st[t] \notin Live
  BY DEF Users
<1>2. ASSUME NEW t \in Task, filt'[t] = f, st'[t] \in Live \cup (IF Kernel611 THEN {} ELSE {"zombie"})
      PROVE  FALSE
  <2>1. st'[t] \in Live \cup {"zombie"}
    BY <1>2
  <2>2. filt[t] = f /\ st'[t] = st[t]
    BY <2>1, <1>1, <1>2
  <2> QED
    BY <2>2, <1>2 DEF Users
<1> QED
  BY <1>2 DEF Users

\* A step of the traced tasks: no listener is answered or moves on, a closed one stays
\* closed, calls can only be given up, and pending ones keep their task stopped.
LEMMA TaskStep ==
  ASSUME TypeOK, Structure, Flow, NEW S, Marks(S, "cancelled"),
         UNCHANGED <<ncall, pc, cur, res, arena, ready, phase>>,
         \A f \in Filter : owner[f] = "closed" => owner'[f] = "closed",
         \A n \in Call : Pending(n) /\ n \notin S =>
           st'[call[n].task] = "trapped" /\ filt'[call[n].task] = filt[call[n].task],
         \A n \in S \cap Call : Pending(n),
         \A f \in Filter : pc[f] \in Active \cup {"ok"} =>
           \A t \in Task : filt'[t] = f /\ st'[t] \in Live \cup {"zombie"} =>
             \/ filt[t] = f /\ (st[t] \in Live \/ st'[t] = st[t])
             \/ \E u \in Task : filt[u] = f /\ st[u] \in Live
  PROVE  Flow'
<1>1. \A n \in Call : call'[n].task = call[n].task /\ call'[n].filt = call[n].filt
  BY DEF Marks
<1>2. \A n \in Call : \/ n \notin S /\ call'[n].state = call[n].state
                      \/ n \in S /\ Pending(n) /\ call'[n].state = "cancelled"
  BY DEF Marks
<1>3. PendingInv'
  <2>1. \A n \in Call : Pending(n)' => n \notin S /\ Pending(n)
    BY <1>2 DEF Pending
  <2> QED
    BY <1>1, <2>1 DEF Flow, PendingInv
<1>4. CallInv'
  <2>1. \A n \in Call : Recorded(n)' <=> Recorded(n)
    BY DEF Recorded
  <2>2. \A f \in Filter : cur[f] # 0 => cur[f] \in Call
    BY DEF TypeOK, Call
  <2>3. \A f \in Filter : pc[f] \in {"continue", "result"} => cur[f] \in Call
    BY <2>2 DEF TypeOK
  <2> QED
    BY <1>1, <1>2, <2>1, <2>2, <2>3 DEF Flow, CallInv, Pending
<1>5. HupInv'
  <2> SUFFICES ASSUME NEW f \in Filter, "hup" \in ready[f] \/ pc[f] = "ok"
               PROVE  Users(f)' = {}
    BY DEF HupInv
  <2>1. pc[f] \in Active \cup {"ok"} /\ Users(f) = {}
    BY DEF Structure, ListenerInv, Flow, HupInv
  <2> QED
    BY <2>1, UsersKept
<1>6. RefusedInv'
  <2> SUFFICES ASSUME NEW n \in Call, call'[n].state = "enosys"
               PROVE  /\ owner'[call[n].filt] = "closed"
                      /\ pc[call[n].filt] \in {"none", "err"} \/ phase = "failed"
    BY <1>1 DEF RefusedInv
  <2>1. call[n].state = "enosys" /\ call[n].filt \in Filter
    BY <1>2, CallTypes DEF Flow
  <2> QED
    BY <2>1 DEF Flow, RefusedInv
<1>7. DoneInv'
  BY DEF Flow, DoneInv
<1>8. RecordedFirst'
  <2>1. \A n \in Call : Recorded(n)' <=> Recorded(n)
    BY DEF Recorded
  <2> QED
    BY <1>1, <1>2, <2>1 DEF Flow, RecordedFirst
<1> QED
  BY <1>3, <1>4, <1>5, <1>6, <1>7, <1>8 DEF Flow

\* Nothing is marked.
LEMMA NoMark == UNCHANGED call => Marks({}, "cancelled")
BY DEF Marks

\* A step of the tokio task of f that neither answers a call nor ends the task.
LEMMA ListenerStep ==
  ASSUME TypeOK, Structure, Flow, NEW f \in Filter,
         UNCHANGED <<st, filt, owner, phase, ncall, call>>,
         pc[f] \in Active, pc'[f] \in Active,
         \A g \in Filter \ {f} : /\ pc'[g] = pc[g] /\ cur'[g] = cur[g] /\ res'[g] = res[g]
                                 /\ ready'[g] = ready[g],
         \A n \in Call : Recorded(n) => Recorded(n)',
         cur'[f] \in {cur[f], 0},
         res[f] = "err" => res'[f] = "err",
         pc'[f] \in {"continue", "result"} => cur'[f] = cur[f] /\ (res'[f] = "err" \/ Recorded(cur[f])'),
         "hup" \in ready'[f] => "hup" \in ready[f] \/ Users(f) = {}
  PROVE  Flow'
<1>1. PendingInv'
  BY DEF Flow, PendingInv, Pending
<1>2. CallInv'
  <2>1. \A n \in Call : IF n > ncall THEN call[n].state = "none" ELSE call[n].filt \in Filter
    BY DEF Flow, CallInv
  <2>2. \A g \in Filter : cur'[g] # 0 => cur'[g] = cur[g]
    OBVIOUS
  <2>3. \A g \in Filter : pc[g] \in {"continue", "result"} => cur[g] \in Call
    BY DEF TypeOK, Call
  <2>4. ASSUME NEW g \in Filter, pc'[g] \in {"continue", "result"}
        PROVE  res'[g] = "err" \/ Recorded(cur[g])'
    <3>1. CASE g = f
      BY <3>1, <2>4
    <3>2. CASE g # f
      <4>1. pc[g] \in {"continue", "result"} /\ cur[g] \in Call /\ cur'[g] = cur[g] /\ res'[g] = res[g]
        BY <2>3, <2>4, <3>2
      <4>2. res[g] = "err" \/ Recorded(cur[g])
        BY <4>1 DEF Flow, CallInv
      <4>3. PICK n \in Call : n = cur[g]
        BY <4>1
      <4>4. res[g] = "err" \/ Recorded(n)'
        BY <4>2, <4>3
      <4> QED
        BY <4>1, <4>3, <4>4 DEF Recorded
    <3> QED
      BY <3>1, <3>2
  <2>5. \A g \in Filter : cur'[g] # 0 =>
          cur'[g] <= ncall /\ call[cur'[g]].filt = g /\ call[cur'[g]].state # "init"
    BY <2>2 DEF Flow, CallInv
  <2> QED
    BY <2>1, <2>4, <2>5 DEF CallInv
<1>3. HupInv'
  <2>1. \A g : Users(g)' = Users(g)
    BY DEF Users
  <2> QED
    BY <2>1 DEF Flow, HupInv, Active
<1>4. RefusedInv'
  <2>1. \A n \in Call : call[n].state = "enosys" => call[n].filt \in Filter /\ call[n].filt # f
    <3>1. owner[f] = "task"
      BY DEF Structure, ListenerInv
    <3> QED
      BY <3>1, CallTypes DEF Flow, RefusedInv
  <2> QED
    BY <2>1 DEF Flow, RefusedInv
<1>5. DoneInv'
  BY DEF Flow, DoneInv, Active
<1>6. RecordedFirst'
  <2> SUFFICES ASSUME NEW n \in Call, call[n].state = "continued"
               PROVE  Recorded(n)' \/ pc'[call[n].filt] = "err" \/ res'[call[n].filt] = "err"
    BY DEF RecordedFirst
  <2>1. call[n].filt \in Filter
    BY CallTypes DEF Flow
  <2>2. Recorded(n) \/ pc[call[n].filt] = "err" \/ res[call[n].filt] = "err"
    BY DEF Flow, RecordedFirst
  <2> QED
    BY <2>1, <2>2 DEF Active
<1> QED
  BY <1>1, <1>2, <1>3, <1>4, <1>5, <1>6 DEF Flow

\* A released task has no pending call left.
LEMMA DetachPending ==
  ASSUME TypeOK, Flow, NEW F \in SUBSET Filter, Detach(F), UNCHANGED filt
  PROVE  /\ PendingInv'
         /\ \A n \in Call : call'[n].task = call[n].task /\ call'[n].filt = call[n].filt
         /\ \A n \in Call :
              \/ call'[n].state = call[n].state
              \/ Pending(n) /\ call[n].filt \in F /\ call'[n].state = "enosys"
         /\ \A f : Users(f) = {} => Users(f)' = {}
<1>1. /\ Marks({n \in Call : Pending(n) /\ call[n].filt \in F}, "enosys")
      /\ \A t \in Task : st'[t] = IF st[t] = "trapped" /\ filt[t] \in F THEN "run" ELSE st[t]
  BY DetachFacts
<1>2. /\ \A n \in Call : call'[n].task = call[n].task /\ call'[n].filt = call[n].filt
      /\ \A n \in Call :
           \/ call'[n].state = call[n].state /\ ~(Pending(n) /\ call[n].filt \in F)
           \/ Pending(n) /\ call[n].filt \in F /\ call'[n].state = "enosys"
  BY <1>1 DEF Marks
<1>3. PendingInv'
  <2>1. \A n \in Call : Pending(n)' => Pending(n) /\ call[n].filt \notin F
    BY <1>2 DEF Pending
  <2>2. \A n \in Call : call[n].task \in Task
    BY CallTypes DEF Flow
  <2>3. \A n \in Call : Pending(n)' =>
          st'[call[n].task] = "trapped" /\ filt[call[n].task] = call[n].filt
    BY <1>1, <2>1, <2>2 DEF Flow, PendingInv
  <2> QED
    BY <1>2, <2>1, <2>3 DEF Flow, PendingInv
<1>4. ASSUME NEW f, Users(f) = {}
      PROVE  Users(f)' = {}
  BY <1>1, <1>4, UsersKept DEF Live
<1> QED
  BY <1>2, <1>3, <1>4

\* The task of f ends: its pending calls are refused, but there are none if it ends
\* because the last user is gone.
LEMMA EndTaskFlow ==
  ASSUME TypeOK, Structure, Flow, NEW f \in Filter, NEW how \in {"ok", "err"}, EndTask(f, how),
         pc[f] \in Active, UNCHANGED <<filt, phase, ncall, arena>>,
         how = "ok" => res[f] = "ok" /\ Users(f) = {}
  PROVE  Flow'
<1>0. {f} \in SUBSET Filter
  OBVIOUS
<1>1. /\ Detach({f})
      /\ \A g \in Filter : pc'[g] = IF g = f THEN how ELSE pc[g]
      /\ \A g \in Filter : res'[g] = IF g = f THEN "ok" ELSE res[g]
      /\ \A g \in Filter : ready'[g] = IF g = f THEN {} ELSE ready[g]
      /\ \A g \in Filter : cur'[g] = IF g = f THEN 0 ELSE cur[g]
  BY EndTaskFacts
<1>2. \A g \in Filter : owner'[g] = IF g \in {f} THEN "closed" ELSE owner[g]
  BY <1>0, <1>1, DetachFacts
<1>3. /\ PendingInv'
      /\ \A n \in Call : call'[n].task = call[n].task /\ call'[n].filt = call[n].filt
      /\ \A n \in Call :
           \/ call'[n].state = call[n].state
           \/ Pending(n) /\ call[n].filt \in {f} /\ call'[n].state = "enosys"
      /\ \A g : Users(g) = {} => Users(g)' = {}
  BY <1>0, <1>1, DetachPending
<1>4. owner[f] = "task" /\ how \notin Active
  BY DEF Structure, ListenerInv, Active
<1>5. CallInv'
  <2>1. \A n \in Call : IF n > ncall THEN call'[n].state = "none" ELSE call'[n].filt \in Filter
    BY <1>3 DEF Flow, CallInv, Pending
  <2>2. \A g \in Filter : cur[g] # 0 => cur[g] \in Call
    BY DEF TypeOK, Call
  <2>3. \A g \in Filter : cur'[g] # 0 =>
          cur'[g] <= ncall /\ call'[cur'[g]].filt = g /\ call'[cur'[g]].state # "init"
    BY <1>1, <1>3, <2>2 DEF Flow, CallInv
  <2>4. ASSUME NEW g \in Filter, pc'[g] \in {"continue", "result"}
        PROVE  res'[g] = "err" \/ Recorded(cur[g])'
    <3>1. g # f /\ pc[g] = pc'[g] /\ cur'[g] = cur[g] /\ res'[g] = res[g]
      BY <1>1, <1>4, <2>4
    <3>2. res[g] = "err" \/ Recorded(cur[g])
      BY <3>1, <2>4 DEF Flow, CallInv
    <3> QED
      BY <3>1, <3>2 DEF Recorded
  <2> QED
    BY <2>1, <2>3, <2>4 DEF CallInv
<1>6. HupInv'
  BY <1>1, <1>3 DEF Flow, HupInv
<1>7. RefusedInv'
  <2> SUFFICES ASSUME NEW n \in Call, call'[n].state = "enosys"
               PROVE  /\ owner'[call[n].filt] = "closed"
                      /\ pc'[call[n].filt] \in {"none", "err"} \/ phase' = "failed"
    BY <1>3 DEF RefusedInv
  <2>1. CASE call[n].state = "enosys"
    <3>1. call[n].filt \in Filter /\ owner[call[n].filt] = "closed" /\ call[n].filt # f
      BY <2>1, <1>4, CallTypes DEF Flow, RefusedInv
    <3> QED
      BY <2>1, <3>1, <1>1, <1>2 DEF Flow, RefusedInv
  <2>2. CASE Pending(n) /\ call[n].filt = f
    <3>1. call[n].task \in Users(f)
      BY <2>2, CallTypes DEF Flow, PendingInv, Users, Live
    <3>2. how = "err"
      BY <3>1
    <3> QED
      BY <2>2, <3>2, <1>1, <1>2
  <2> QED
    BY <1>3, <2>1, <2>2
<1>8. DoneInv'
  BY DEF Flow, DoneInv, Active
<1>9. RecordedFirst'
  <2> SUFFICES ASSUME NEW n \in Call, call'[n].state = "continued"
               PROVE  Recorded(n)' \/ pc'[call[n].filt] = "err" \/ res'[call[n].filt] = "err"
    BY <1>3 DEF RecordedFirst
  <2>1. call[n].state = "continued" /\ call[n].filt \in Filter
    BY <1>3, CallTypes DEF Flow
  <2>2. Recorded(n) \/ pc[call[n].filt] = "err" \/ res[call[n].filt] = "err"
    BY <2>1 DEF Flow, RecordedFirst
  <2>3. Recorded(n)' <=> Recorded(n)
    BY DEF Recorded
  <2> QED
    BY <1>1, <2>1, <2>2, <2>3 DEF Active
<1> QED
  BY <1>3, <1>5, <1>6, <1>7, <1>8, <1>9 DEF Flow

LEMMA LoopFailsFlow ==
  ASSUME TypeOK, Structure, Flow, LoopFails
  PROVE  Flow'
<1> DEFINE F == {sock[i] : i \in DOMAIN sock}
<1>1. F \in SUBSET Filter
  BY LenProperties, ElementOfSeq DEF TypeOK
<1>2. Detach(F) /\ phase' = "failed" /\ UNCHANGED <<filt, ncall, pc, cur, res, arena, ready>>
  BY DEF LoopFails, aioVars, loopVars
<1> HIDE DEF F
<1>3. \A f \in Filter : owner'[f] = IF f \in F THEN "closed" ELSE owner[f]
  BY <1>1, <1>2, DetachFacts
<1>4. /\ PendingInv'
      /\ \A n \in Call : call'[n].task = call[n].task /\ call'[n].filt = call[n].filt
      /\ \A n \in Call :
           \/ call'[n].state = call[n].state
           \/ Pending(n) /\ call[n].filt \in F /\ call'[n].state = "enosys"
      /\ \A g : Users(g) = {} => Users(g)' = {}
  BY <1>1, <1>2, DetachPending
<1>5. \A n \in Call : Recorded(n)' <=> Recorded(n)
  BY <1>2 DEF Recorded
<1>6. CallInv'
  <2>1. \A f \in Filter : cur[f] # 0 => cur[f] \in Call
    BY DEF TypeOK, Call
  <2>2. \A f \in Filter : pc[f] \in {"continue", "result"} => res[f] = "err" \/ Recorded(cur[f])'
    BY <1>2 DEF Flow, CallInv, Recorded
  <2> QED
    BY <1>2, <1>4, <2>1, <2>2 DEF Flow, CallInv, Pending
<1>7. HupInv'
  BY <1>2, <1>4 DEF Flow, HupInv
<1>8. RefusedInv'
  <2> SUFFICES ASSUME NEW n \in Call, call'[n].state = "enosys"
               PROVE  owner'[call[n].filt] = "closed"
    BY <1>2, <1>4 DEF RefusedInv
  <2>1. call[n].filt \in Filter
    BY <1>4, CallTypes DEF Flow, Pending
  <2> QED
    BY <2>1, <1>3, <1>4 DEF Flow, RefusedInv
<1>9. DoneInv' /\ RecordedFirst'
  BY <1>2, <1>4, <1>5 DEF Flow, DoneInv, RecordedFirst
<1> QED
  BY <1>4, <1>6, <1>7, <1>8, <1>9 DEF Flow

LEMMA RecvFdFlow ==
  ASSUME TypeOK, Structure, Flow, RecvFd
  PROVE  Flow'
<1> DEFINE f == Head(sock)
<1>1. f \in Filter /\ pc[f] = "none"
  BY RecvFdStructure
<1>2. owner[f] = "socket"
  <2>1. 1 \in 1..Len(sock) /\ f = sock[1]
    BY EmptySeq DEF RecvFd, TypeOK
  <2> QED
    BY <2>1 DEF Structure, SockInv
<1>3. /\ \A g \in Filter : owner'[g] = IF g = f THEN "task" ELSE owner[g]
      /\ \A g \in Filter : pc'[g] = IF g = f THEN "await" ELSE pc[g]
      /\ phase = "recv" /\ UNCHANGED <<st, filt, phase, ncall, call, cur, res, ready, arena>>
  BY DEF RecvFd, TypeOK, taskVars
<1> HIDE DEF f
<1>4. PendingInv'
  BY <1>3 DEF Flow, PendingInv, Pending
<1>5. CallInv'
  BY <1>3 DEF Flow, CallInv, Recorded
<1>6. HupInv'
  BY <1>3 DEF Flow, HupInv, Users
<1>7. RefusedInv'
  <2>1. \A n \in Call : call[n].state = "enosys" => call[n].filt \in Filter /\ call[n].filt # f
    BY <1>2, CallTypes DEF Flow, RefusedInv
  <2> QED
    BY <1>3, <2>1 DEF Flow, RefusedInv
<1>8. DoneInv'
  BY <1>3 DEF DoneInv
<1>9. RecordedFirst'
  <2>1. \A n \in Call : call[n].state = "continued" => call[n].filt \in Filter
    BY CallTypes DEF Flow
  <2> QED
    BY <1>1, <1>3, <2>1 DEF Flow, RecordedFirst, Recorded
<1> QED
  BY <1>4, <1>5, <1>6, <1>7, <1>8, <1>9 DEF Flow

\* A new call stops its task, or is refused because the listener is closed.
LEMMA SyscallFlow ==
  ASSUME TypeOK, Structure, Flow, NEW t \in Task, NEW bad \in BOOLEAN, Syscall(t, bad)
  PROVE  Flow'
<1> DEFINE f == filt[t]
<1>n. PICK n \in Call : n = ncall + 1
  BY ConstAssumption DEF Syscall, TypeOK, Call
<1>1. /\ st[t] = "run" /\ f \in Filter /\ n \in Call /\ ncall \in Nat /\ ncall' = n
      /\ UNCHANGED <<filt, owner, phase, ready, pc, cur, res, arena>>
  BY <1>n, ConstAssumption DEF Syscall, TypeOK, Filter, Call, loopVars
<1>2. \A m \in Call \ {n} : call'[m] = call[m]
  BY <1>n DEF Syscall, TypeOK
<1>3. \/ /\ call'[n] = [task |-> t, filt |-> f, bad |-> bad, state |-> "init"]
         /\ \A u \in Task : st'[u] = IF u = t THEN "trapped" ELSE st[u]
      \/ /\ call'[n] = [task |-> t, filt |-> f, bad |-> bad, state |-> "enosys"]
         /\ ~Open(f) /\ UNCHANGED st
  BY <1>n, <1>1 DEF Syscall, TypeOK
<1>4. /\ call'[n].task = t /\ call'[n].filt = f
      /\ \/ call'[n].state = "init" /\ \A u \in Task : st'[u] = IF u = t THEN "trapped" ELSE st[u]
         \/ call'[n].state = "enosys" /\ ~Open(f) /\ UNCHANGED st
  BY <1>3
<1>5. \A m \in Call : m > n \/ m = n \/ m <= ncall
  BY <1>n, <1>1 DEF Call
<1>6. \A m \in Call : m > n => m > ncall /\ m # n
  BY <1>n, <1>1 DEF Call
<1>7. ~(n <= ncall)
  BY <1>n, <1>1 DEF Call
<1> HIDE DEF f
<1>8. PendingInv'
  <2>1. \A m \in Call : Pending(m) => call[m].task \in Task /\ call[m].task # t
    BY <1>1, CallTypes DEF Flow, PendingInv
  <2>2. \A m \in Call : Pending(m)' => m = n \/ (m # n /\ Pending(m) /\ call'[m] = call[m])
    BY <1>2 DEF Pending
  <2>3. Pending(n)' => st'[t] = "trapped"
    BY <1>4 DEF Pending
  <2>4. filt'[t] = f
    BY <1>1 DEF f
  <2>5. ASSUME NEW m \in Call, Pending(m)'
        PROVE  /\ st'[call'[m].task] = "trapped" /\ filt'[call'[m].task] = call'[m].filt
               /\ \A k \in Call : Pending(k)' /\ call'[k].task = call'[m].task => k = m
    <3>1. CASE m = n
      BY <3>1, <2>1, <2>2, <2>3, <2>4, <2>5, <1>4
    <3>2. CASE m # n
      <4>1. Pending(m) /\ call'[m] = call[m] /\ call[m].task \in Task /\ call[m].task # t
        BY <3>2, <2>1, <2>2, <2>5
      <4>2. st'[call[m].task] = st[call[m].task]
        BY <4>1, <1>4
      <4> QED
        BY <4>1, <4>2, <2>2, <1>1, <1>4 DEF Flow, PendingInv
    <3> QED
      BY <3>1, <3>2
  <2> QED
    BY <2>5 DEF PendingInv
<1>9. CallInv'
  <2>1. ASSUME NEW m \in Call
        PROVE  IF m > n THEN call'[m].state = "none" ELSE call'[m].filt \in Filter
    <3>1. CASE m = n
      <4>1. ~(n > n)
        BY <1>1 DEF Call
      <4> QED
        BY <3>1, <4>1, <1>1, <1>4
    <3>2. CASE m # n
      <4>1. call'[m] = call[m]
        BY <3>2, <1>2
      <4>2. m > n => m > ncall
        BY <1>6
      <4>3. ~(m > n) => ~(m > ncall)
        BY <3>2, <1>1, <1>5 DEF Call
      <4> QED
        BY <4>1, <4>2, <4>3 DEF Flow, CallInv
    <3> QED
      BY <3>1, <3>2
  <2>2. ASSUME NEW g \in Filter, cur[g] # 0
        PROVE  cur[g] <= n /\ call'[cur[g]].filt = g /\ call'[cur[g]].state # "init"
    <3>1. /\ cur[g] \in Call /\ cur[g] <= ncall
          /\ call[cur[g]].filt = g /\ call[cur[g]].state # "init"
      BY <2>2 DEF Flow, CallInv, TypeOK, Call
    <3>2. cur[g] # n /\ cur[g] <= n
      BY <3>1, <1>n, <1>1, <1>7 DEF Call
    <3> QED
      BY <3>1, <3>2, <1>2
  <2>3. \A g \in Filter : pc[g] \in {"continue", "result"} => res[g] = "err" \/ Recorded(cur[g])'
    BY <1>1 DEF Flow, CallInv, Recorded
  <2> QED
    BY <1>1, <2>1, <2>2, <2>3 DEF CallInv
<1>10. HupInv'
  <2>1. ASSUME NEW g, Users(g) = {} PROVE Users(g)' = {}
    <3>1. \A u \in Task : filt'[u] = filt[u] /\ (st[u] \in Live \/ st'[u] = st[u])
      BY <1>1, <1>4 DEF Live
    <3> QED
      BY <2>1, <3>1, UsersKept
  <2> QED
    BY <1>1, <2>1 DEF Flow, HupInv
<1>11. RefusedInv'
  <2> SUFFICES ASSUME NEW m \in Call, call'[m].state = "enosys"
               PROVE  /\ owner[call'[m].filt] = "closed"
                      /\ pc[call'[m].filt] \in {"none", "err"} \/ phase = "failed"
    BY <1>1 DEF RefusedInv
  <2>1. CASE m # n
    BY <2>1, <1>2 DEF Flow, RefusedInv
  <2>2. CASE m = n
    <3>1. call'[m].filt = f /\ ~Open(f)
      BY <2>2, <1>4
    <3>2. owner[f] = "closed"
      <4>1. f <= nfilt /\ nfilt \in Int /\ f \in Int
        BY <1>1 DEF Structure, FilterInv, f, TypeOK, Filter
      <4>2. owner[f] # "none"
        BY <4>1, <1>1 DEF Structure, FilterInv
      <4> QED
        BY <3>1, <4>2, <1>1 DEF Open, TypeOK
    <3>3. pc[f] \in {"none", "ok", "err"}
      BY <3>2, <1>1 DEF Structure, ListenerInv, Active, TypeOK
    <3>4. t \in Users(f)
      BY <1>1 DEF Users, Live, f
    <3>5. pc[f] # "ok"
      BY <3>4, <1>1 DEF Flow, HupInv
    <3> QED
      BY <3>1, <3>2, <3>3, <3>5
  <2> QED
    BY <2>1, <2>2
<1>12. DoneInv'
  BY <1>1 DEF Flow, DoneInv
<1>13. RecordedFirst'
  <2>1. \A m \in Call : call'[m].state = "continued" => m # n /\ call'[m] = call[m]
    BY <1>2, <1>4
  <2> QED
    BY <1>1, <2>1 DEF Flow, RecordedFirst, Recorded
<1> QED
  BY <1>8, <1>9, <1>10, <1>11, <1>12, <1>13 DEF Flow

\* A received notification stays pending and comes into notif_buf.
LEMMA ReceiveFlow ==
  ASSUME TypeOK, Structure, Flow, NEW f \in Filter, pc[f] = "recv", NEW n \in Queue(f),
         cur' = [cur EXCEPT ![f] = n], call' = [call EXCEPT ![n].state = "sent"],
         pc' = [pc EXCEPT ![f] = "handle"],
         UNCHANGED <<st, filt, owner, phase, ncall, ready, res, arena>>
  PROVE  Flow'
<1>1. n \in Call /\ call[n].filt = f /\ call[n].state = "init" /\ "sent" \in States
  BY DEF Queue, States
<1>2. n <= ncall
  BY <1>1, CallTypes DEF Flow
<1>3. Marks({n}, "sent")
  BY <1>1, MarkOne DEF TypeOK
<1>4. /\ \A m \in Call : call'[m].task = call[m].task /\ call'[m].filt = call[m].filt
      /\ \A m \in Call : m # n => call'[m].state = call[m].state
      /\ call'[n].state = "sent"
  BY <1>1, <1>3 DEF Marks
<1>5. \A g \in Filter : /\ cur'[g] = IF g = f THEN n ELSE cur[g]
                        /\ pc'[g] = IF g = f THEN "handle" ELSE pc[g]
  BY DEF TypeOK
<1>6. PendingInv'
  <2>1. \A m \in Call : Pending(m)' <=> Pending(m)
    BY <1>1, <1>4 DEF Pending
  <2> QED
    BY <1>4, <2>1 DEF Flow, PendingInv
<1>7. CallInv'
  <2>1. \A m \in Call : IF m > ncall THEN call'[m].state = "none" ELSE call'[m].filt \in Filter
    <3>1. ~(n > ncall)
      BY <1>1, <1>2, ConstAssumption DEF TypeOK, Call
    <3> QED
      BY <1>4, <3>1 DEF Flow, CallInv
  <2>2. ASSUME NEW g \in Filter, cur'[g] # 0
        PROVE  cur'[g] <= ncall /\ call'[cur'[g]].filt = g /\ call'[cur'[g]].state # "init"
    <3>1. CASE g = f
      BY <3>1, <1>1, <1>2, <1>4, <1>5
    <3>2. CASE g # f
      <4>1. cur'[g] = cur[g] /\ cur[g] \in Call
        BY <3>2, <2>2, <1>5 DEF TypeOK, Call
      <4>2. cur[g] <= ncall /\ call[cur[g]].filt = g /\ call[cur[g]].state # "init"
        BY <4>1, <2>2 DEF Flow, CallInv
      <4> QED
        BY <4>1, <4>2, <1>4
    <3> QED
      BY <3>1, <3>2
  <2>3. ASSUME NEW g \in Filter, pc'[g] \in {"continue", "result"}
        PROVE  res'[g] = "err" \/ Recorded(cur[g])'
    <3>1. g # f /\ pc[g] = pc'[g] /\ cur'[g] = cur[g]
      BY <1>5, <2>3
    <3>2. res[g] = "err" \/ Recorded(cur[g])
      BY <3>1, <2>3 DEF Flow, CallInv
    <3> QED
      BY <3>1, <3>2 DEF Recorded
  <2> QED
    BY <2>1, <2>2, <2>3 DEF CallInv
<1>8. HupInv'
  BY <1>5 DEF Flow, HupInv, Users
<1>9. RefusedInv'
  <2>1. \A m \in Call : call'[m].state = "enosys" =>
          call[m].state = "enosys" /\ call[m].filt \in Filter /\ call[m].filt # f
    <3>1. owner[f] = "task"
      BY DEF Structure, ListenerInv, Active
    <3> QED
      BY <1>4, <3>1, CallTypes DEF Flow, RefusedInv
  <2> QED
    BY <1>4, <1>5, <2>1 DEF Flow, RefusedInv
<1>10. DoneInv'
  BY <1>5 DEF Flow, DoneInv
<1>11. RecordedFirst'
  <2>1. \A m \in Call : call'[m].state = "continued" =>
          call[m].state = "continued" /\ call[m].filt \in Filter
    BY <1>4, CallTypes DEF Flow
  <2> QED
    BY <1>4, <1>5, <2>1 DEF Flow, RecordedFirst, Recorded
<1> QED
  BY <1>6, <1>7, <1>8, <1>9, <1>10, <1>11 DEF Flow

\* A continued call was recorded, or its task is about to fail; it was the only one
\* that stopped its task.
LEMMA SendContinueFlow ==
  ASSUME TypeOK, Structure, Flow, NEW f \in Filter, SendContinue(f)
  PROVE  Flow'
<1>0. PICK n \in Call : n = cur[f]
  BY DEF SendContinue, TypeOK, Call
<1>1. /\ pc[f] = "continue" /\ call[n].filt = f /\ call[n].state # "init"
      /\ res[f] = "err" \/ Recorded(n)
      /\ UNCHANGED <<filt, owner, phase, ncall, ready, cur, res, arena>>
      /\ \A g \in Filter : pc'[g] = IF g = f THEN "result" ELSE pc[g]
  BY <1>0 DEF SendContinue, Flow, CallInv, TypeOK, Call, aioVars
<1>2. CASE UNCHANGED <<call, st>>
  <2>1. \A m \in Call : Recorded(m) => Recorded(m)'
    BY <1>1 DEF Recorded
  <2>2. res'[f] = "err" \/ Recorded(cur[f])'
    BY <1>0, <1>1 DEF Recorded
  <2> QED
    BY <1>1, <1>2, <2>1, <2>2, ListenerStep DEF Active
<1>3. CASE /\ call[n].state = "sent" /\ call' = [call EXCEPT ![n].state = "continued"]
           /\ st' = [st EXCEPT ![call[n].task] = "run"]
  <2>1. "continued" \in States /\ call[n].task \in Task /\ Pending(n)
    BY <1>3, CallTypes DEF States, Flow, Pending
  <2>2. Marks({n}, "continued")
    BY <1>3, <2>1, MarkOne DEF TypeOK
  <2>3. /\ \A m \in Call : call'[m].task = call[m].task /\ call'[m].filt = call[m].filt
        /\ \A m \in Call : m # n => call'[m].state = call[m].state
        /\ call'[n].state = "continued"
    BY <2>2 DEF Marks
  <2>4. \A t \in Task : st'[t] = IF t = call[n].task THEN "run" ELSE st[t]
    BY <1>3 DEF TypeOK
  <2>5. st[call[n].task] = "trapped"
    BY <2>1 DEF Flow, PendingInv
  <2>6. PendingInv'
    <3>1. \A m \in Call : Pending(m)' =>
            Pending(m) /\ m # n /\ call[m].task \in Task /\ call[m].task # call[n].task
      BY <2>1, <2>3, CallTypes DEF Pending, Flow, PendingInv
    <3> QED
      BY <1>1, <2>3, <2>4, <3>1 DEF Flow, PendingInv
  <2>7. CallInv'
    <3>1. \A m \in Call : IF m > ncall THEN call'[m].state = "none" ELSE call'[m].filt \in Filter
      <4>1. ~(n > ncall)
        <5>1. call[n].state # "none"
          BY <1>3
        <5> QED
          BY <5>1 DEF Flow, CallInv
      <4> QED
        BY <2>3, <4>1 DEF Flow, CallInv
    <3>2. \A g \in Filter : cur[g] # 0 => cur[g] \in Call
      BY DEF TypeOK, Call
    <3>3. \A g \in Filter : cur[g] # 0 =>
            cur[g] <= ncall /\ call'[cur[g]].filt = g /\ call'[cur[g]].state # "init"
      BY <2>3, <3>2 DEF Flow, CallInv
    <3>4. \A g \in Filter : pc'[g] \in {"continue", "result"} => res[g] = "err" \/ Recorded(cur[g])
      BY <1>0, <1>1 DEF Flow, CallInv
    <3>5. \A g \in Filter : Recorded(cur[g])' <=> Recorded(cur[g])
      BY <1>1 DEF Recorded
    <3> QED
      BY <1>1, <3>1, <3>3, <3>4, <3>5 DEF CallInv
  <2>8. HupInv'
    <3>1. ASSUME NEW g, Users(g) = {} PROVE Users(g)' = {}
      <4>1. \A u \in Task : filt'[u] = filt[u] /\ (st[u] \in Live \/ st'[u] = st[u])
        BY <1>1, <2>4, <2>5 DEF Live
      <4> QED
        BY <3>1, <4>1, UsersKept
    <3> QED
      BY <1>1, <3>1 DEF Flow, HupInv
  <2>9. RefusedInv'
    <3>1. \A m \in Call : call'[m].state = "enosys" =>
            call[m].state = "enosys" /\ call[m].filt \in Filter /\ call[m].filt # f
      <4>1. owner[f] = "task"
        BY <1>1 DEF Structure, ListenerInv, Active
      <4> QED
        BY <2>3, <4>1, CallTypes DEF Flow, RefusedInv
    <3> QED
      BY <1>1, <2>3, <3>1 DEF Flow, RefusedInv
  <2>10. DoneInv'
    BY <1>1 DEF Flow, DoneInv
  <2>11. RecordedFirst'
    <3> SUFFICES ASSUME NEW m \in Call, call'[m].state = "continued"
                 PROVE  Recorded(m)' \/ pc'[call[m].filt] = "err" \/ res'[call[m].filt] = "err"
      BY <2>3 DEF RecordedFirst
    <3>1. Recorded(m)' <=> Recorded(m)
      BY <1>1 DEF Recorded
    <3>2. CASE m = n
      BY <3>1, <3>2, <1>1
    <3>3. CASE m # n
      <4>1. call[m].state = "continued" /\ call[m].filt \in Filter
        BY <3>3, <2>3, CallTypes DEF Flow
      <4> QED
        BY <4>1, <3>1, <1>1 DEF Flow, RecordedFirst
    <3> QED
      BY <3>2, <3>3
  <2> QED
    BY <2>6, <2>7, <2>8, <2>9, <2>10, <2>11 DEF Flow
<1> QED
  BY <1>0, <1>2, <1>3 DEF SendContinue

LEMMA TracedFlow ==
  ASSUME TypeOK, Structure, Flow, NEW t \in Task, Traced(t) \/ Reap(t)
  PROVE  Flow'
<1>p. \A n \in Call : Pending(n) => call[n].task \in Task /\ st[call[n].task] = "trapped"
  BY CallTypes DEF Flow, PendingInv
<1>q. ASSUME UNCHANGED <<filt, owner, call, ncall, pc, cur, res, arena, ready, phase>>,
             \A u \in Task : \/ st'[u] = st[u] \/ st[u] \in Live \ {"trapped"}
                             \/ st'[u] \notin Live \cup {"zombie"} /\ st[u] # "trapped"
      PROVE  Flow'
  <2>1. Marks({}, "cancelled")
    BY <1>q, NoMark
  <2>2. \A n \in Call : Pending(n) =>
          st'[call[n].task] = "trapped" /\ filt'[call[n].task] = filt[call[n].task]
    BY <1>q, <1>p DEF Live
  <2>3. \A f \in Filter, u \in Task : filt'[u] = f /\ st'[u] \in Live \cup {"zombie"} =>
          filt[u] = f /\ (st[u] \in Live \/ st'[u] = st[u])
    BY <1>q
  <2> QED
    BY <1>q, <2>1, <2>2, <2>3, TaskStep
<1>i. ASSUME NEW u \in Task, NEW how \in {"exec", "spawn"}, Install(t, u, how),
             u = t \/ st[u] = "none"
      PROVE  Flow'
  <2>1. nfilt + 1 \in Filter /\ nfilt \in Nat
    BY <1>i, ConstAssumption DEF Install, Filter, TypeOK
  <2>2. /\ \A v \in Task : filt'[v] = IF v = u THEN nfilt + 1 ELSE filt[v]
        /\ \A v \in Task : st'[v] = IF v = u THEN how ELSE st[v]
        /\ \A f \in Filter : owner'[f] = IF f = nfilt + 1 THEN "installer" ELSE owner[f]
        /\ UNCHANGED <<call, ncall, pc, cur, res, arena, ready, phase>>
        /\ st[u] # "trapped"
    BY <1>i DEF Install, TypeOK, aioVars, loopVars
  <2>3. owner[nfilt + 1] = "none" /\ pc[nfilt + 1] \notin Active \cup {"ok"}
    BY <2>1 DEF Structure, FilterInv, ListenerInv
  <2>4. Marks({}, "cancelled")
    BY <2>2, NoMark
  <2>5. \A n \in Call : Pending(n) =>
          st'[call[n].task] = "trapped" /\ filt'[call[n].task] = filt[call[n].task]
    BY <2>2, <1>p
  <2>6. \A f \in Filter : pc[f] \in Active \cup {"ok"} =>
          \A v \in Task : filt'[v] = f /\ st'[v] \in Live \cup {"zombie"} =>
            filt[v] = f /\ (st[v] \in Live \/ st'[v] = st[v])
    BY <2>2, <2>3
  <2>7. \A f \in Filter : owner[f] = "closed" => owner'[f] = "closed"
    BY <2>2, <2>3
  <2> QED
    BY <2>2, <2>4, <2>5, <2>6, <2>7, TaskStep
<1>1. CASE InstallForExec(t)
  BY <1>1, <1>i DEF InstallForExec
<1>2. CASE SendFd(t)
  <2>1. /\ filt[t] \in Filter /\ owner[filt[t]] = "installer"
        /\ UNCHANGED <<filt, call, ncall, pc, cur, res, arena, ready, phase>>
    BY <1>2 DEF SendFd, Structure, InstallInv, TypeOK, Filter, aioVars, loopVars
  <2>2. \A u \in Task : st'[u] = st[u] \/ (u = t /\ st[u] \in {"exec", "spawn"})
    BY <1>2 DEF SendFd, Failed, TypeOK
  <2>3. \A f \in Filter : owner'[f] = owner[f] \/ f = filt[t]
    BY <1>2 DEF SendFd, TypeOK
  <2>4. Marks({}, "cancelled")
    BY <2>1, NoMark
  <2>5. \A n \in Call : Pending(n) =>
          st'[call[n].task] = "trapped" /\ filt'[call[n].task] = filt[call[n].task]
    BY <2>1, <2>2, <1>p
  <2>6. \A f \in Filter, u \in Task : filt'[u] = f /\ st'[u] \in Live \cup {"zombie"} =>
          filt[u] = f /\ (st[u] \in Live \/ st'[u] = st[u])
    BY <2>1, <2>2 DEF Live
  <2>7. \A f \in Filter : owner[f] = "closed" => owner'[f] = "closed"
    BY <2>1, <2>3
  <2> QED
    BY <2>1, <2>4, <2>5, <2>6, <2>7, TaskStep
<1>3. ASSUME NEW u \in Task, InstallForSpawn(t, u)
      PROVE  Flow'
  BY <1>3, <1>i DEF InstallForSpawn
<1>4. ASSUME NEW u \in Task, Fork(t, u)
      PROVE  Flow'
  <2>1. /\ st[t] = "run" /\ st[u] = "none"
        /\ \A v \in Task : filt'[v] = IF v = u THEN filt[t] ELSE filt[v]
        /\ \A v \in Task : st'[v] = IF v = u THEN "run" ELSE st[v]
        /\ UNCHANGED <<owner, call, ncall, pc, cur, res, arena, ready, phase>>
    BY <1>4 DEF Fork, TypeOK, kernVars, aioVars, loopVars
  <2>2. Marks({}, "cancelled")
    BY <2>1, NoMark
  <2>3. \A n \in Call : Pending(n) =>
          st'[call[n].task] = "trapped" /\ filt'[call[n].task] = filt[call[n].task]
    BY <2>1, <1>p
  <2>4. \A f \in Filter, v \in Task : filt'[v] = f /\ st'[v] \in Live \cup {"zombie"} =>
          \/ filt[v] = f /\ st'[v] = st[v]
          \/ filt[t] = f /\ st[t] \in Live
    BY <2>1 DEF Live
  <2> QED
    BY <2>1, <2>2, <2>3, <2>4, TaskStep
<1>5. CASE CloseSock(t)
  BY <1>5, <1>q DEF CloseSock, kernVars, aioVars, loopVars
<1>6. ASSUME NEW bad \in BOOLEAN, Syscall(t, bad)
      PROVE  Flow'
  BY <1>6, SyscallFlow
<1>c. ASSUME call' = Cancelled(t), st[t] \in Live, NEW s, s \in {"run", "zombie"},
             \A u \in Task : st'[u] = (IF u = t THEN s ELSE st[u]),
             \A f \in Filter : owner[f] = "closed" => owner'[f] = "closed",
             UNCHANGED <<filt, ncall, pc, cur, res, arena, ready, phase>>
      PROVE  Flow'
  <2> DEFINE S == {n \in Call : Pending(n) /\ call[n].task = t}
  <2>1. Marks(S, "cancelled")
    BY <1>c, MarkCancelled
  <2>2. \A n \in Call : Pending(n) /\ n \notin S =>
          st'[call[n].task] = "trapped" /\ filt'[call[n].task] = filt[call[n].task]
    BY <1>c, <1>p
  <2>3. \A n \in S \cap Call : Pending(n)
    OBVIOUS
  <2>4. \A f \in Filter, u \in Task : filt'[u] = f /\ st'[u] \in Live \cup {"zombie"} =>
          filt[u] = f /\ (st[u] \in Live \/ st'[u] = st[u])
    BY <1>c
  <2> HIDE DEF S
  <2> QED
    BY <1>c, <2>1, <2>2, <2>3, <2>4, TaskStep
<1>7. CASE Interrupt(t)
  <2>1. \A u \in Task : st'[u] = IF u = t THEN "run" ELSE st[u]
    BY <1>7 DEF Interrupt, TypeOK
  <2> QED
    BY <1>7, <2>1, <1>c DEF Interrupt, aioVars, loopVars, Live
<1>8. CASE Exit(t)
  <2>1. \A u \in Task : st'[u] = IF u = t THEN "zombie" ELSE st[u]
    BY <1>8 DEF Exit, TypeOK
  <2>2. \A f \in Filter : owner'[f] = owner[f] \/ owner'[f] = "closed"
    BY <1>8 DEF Exit, TypeOK
  <2> QED
    BY <1>8, <2>1, <2>2, <1>c DEF Exit, loopVars
<1>9. CASE Reap(t)
  <2>1. \A u \in Task : st'[u] = IF u = t THEN "gone" ELSE st[u]
    BY <1>9 DEF Reap, TypeOK
  <2> QED
    BY <1>9, <2>1, <1>q DEF Reap, kernVars, loopVars, Live
<1> QED
  BY <1>1, <1>2, <1>3, <1>4, <1>5, <1>6, <1>7, <1>8, <1>9 DEF Traced

LEMMA ListenerFlow ==
  ASSUME TypeOK, Structure, Flow, NEW f \in Filter, Driver(f) \/ Listener(f) \/ AbortTask(f)
  PROVE  Flow'
<1>a. UNCHANGED arena => \A n \in Call : Recorded(n) => Recorded(n)'
  BY DEF Recorded
<1>r. res[f] = "err" => pc[f] \in {"continue", "result"}
  BY DEF Structure, ListenerInv
<1>1. CASE Driver(f)
  <2>1. /\ pc[f] \in Active /\ \A g \in Filter \ {f} : ready'[g] = ready[g]
        /\ ready'[f] = ready[f] \cup Mask(f)
        /\ UNCHANGED <<st, filt, owner, phase, ncall, call, pc, cur, res, arena>>
    BY <1>1 DEF Driver, Structure, ListenerInv, TypeOK, taskVars, kernVars, loopVars
  <2>2. "hup" \in Mask(f) => Users(f) = {}
    BY DEF Mask
  <2>3. pc[f] \in {"continue", "result"} => res'[f] = "err" \/ Recorded(cur[f])'
    BY <2>1 DEF Flow, CallInv, Recorded
  <2> QED
    BY <2>1, <2>2, <2>3, <1>a, ListenerStep
<1>2. CASE Readable(f)
  <2>1. CASE "hup" \in ready[f]
    <3>1. /\ EndTask(f, "ok") /\ pc[f] = "await" /\ UNCHANGED <<filt, phase, ncall, arena>>
      BY <2>1, <1>2 DEF Readable
    <3>2. Users(f) = {} /\ res[f] = "ok" /\ pc[f] \in Active
      BY <2>1, <3>1, <1>r DEF Flow, HupInv, TypeOK, Active
    <3> QED
      BY <3>1, <3>2, EndTaskFlow
  <2>2. CASE "hup" \notin ready[f]
    <3>1. /\ pc[f] = "await" /\ \A g \in Filter : pc'[g] = IF g = f THEN "clear" ELSE pc[g]
          /\ UNCHANGED <<st, filt, owner, phase, ncall, call, cur, res, ready, arena>>
      BY <2>2, <1>2 DEF Readable, TypeOK
    <3> QED
      BY <3>1, <1>a, ListenerStep DEF Active
  <2> QED
    BY <2>1, <2>2
<1>3. CASE ClearReady(f)
  <2>1. /\ pc[f] = "clear" /\ \A g \in Filter : pc'[g] = IF g = f THEN "recv" ELSE pc[g]
        /\ \A g \in Filter \ {f} : ready'[g] = ready[g]
        /\ ready'[f] \subseteq ready[f]
        /\ UNCHANGED <<st, filt, owner, phase, ncall, call, cur, res, arena>>
    BY <1>3 DEF ClearReady, TypeOK, taskVars, kernVars
  <2> QED
    BY <2>1, <1>a, ListenerStep DEF Active
<1>4. CASE NotifRecv(f)
  <2>1. pc[f] = "recv" /\ UNCHANGED <<st, filt, owner, phase, ncall, ready, res, arena>>
    BY <1>4 DEF NotifRecv, taskVars
  <2>2. ASSUME NEW n \in Queue(f), cur' = [cur EXCEPT ![f] = n],
               call' = [call EXCEPT ![n].state = "sent"], pc' = [pc EXCEPT ![f] = "handle"]
        PROVE  Flow'
    BY <2>1, <2>2, ReceiveFlow
  <2>3. CASE pc' = [pc EXCEPT ![f] = "await"] /\ UNCHANGED <<cur, call, edge>>
    <3>1. \A g \in Filter : pc'[g] = IF g = f THEN "await" ELSE pc[g]
      BY <2>3 DEF TypeOK
    <3> QED
      BY <2>1, <2>3, <3>1, <1>a, ListenerStep DEF Active
  <2> QED
    BY <1>4, <2>2, <2>3 DEF NotifRecv
<1>5. CASE HandleNotify(f)
  <2>1. /\ pc[f] = "handle" /\ \A g \in Filter : pc'[g] = IF g = f THEN "continue" ELSE pc[g]
        /\ UNCHANGED <<st, filt, owner, phase, ncall, call, cur, ready>>
    BY <1>5 DEF HandleNotify, TypeOK, taskVars, kernVars, aioVars
  <2>2. cur[f] \in Call /\ arena[f] \in Seq(Call) /\ res[f] # "err"
    BY <2>1, <1>r DEF TypeOK, Call
  <2>3. CASE arena' = [arena EXCEPT ![f] = Append(@, cur[f])] /\ res' = [res EXCEPT ![f] = "ok"]
    <3>1. \A g \in Filter : arena'[g] = IF g = f THEN Append(arena[f], cur[f]) ELSE arena[g]
      BY <2>3 DEF TypeOK
    <3>2. /\ Append(arena[f], cur[f]) \in Seq(Call) /\ Len(arena[f]) \in Nat
          /\ Len(Append(arena[f], cur[f])) = Len(arena[f]) + 1
          /\ \A i \in 1..Len(arena[f]) : Append(arena[f], cur[f])[i] = arena[f][i]
          /\ Append(arena[f], cur[f])[Len(arena[f]) + 1] = cur[f]
      BY <2>2, AppendProperties, LenProperties
    <3>3. /\ DOMAIN Append(arena[f], cur[f]) = 1..(Len(arena[f]) + 1)
          /\ DOMAIN arena[f] = 1..Len(arena[f])
      BY <2>2, <3>2, LenProperties
    <3>4. ASSUME NEW n \in Call, Recorded(n)
          PROVE  Recorded(n)'
      <4>1. PICK g \in Filter : \E i \in DOMAIN arena[g] : arena[g][i] = n
        BY <3>4 DEF Recorded
      <4>2. PICK i \in DOMAIN arena[g] : arena[g][i] = n
        BY <4>1
      <4>3. i \in DOMAIN arena'[g] /\ arena'[g][i] = n
        <5>1. CASE g # f
          BY <4>2, <3>1, <5>1
        <5>2. CASE g = f
          <6>1. i \in 1..Len(arena[f]) /\ i \in 1..(Len(arena[f]) + 1)
            BY <4>2, <3>2, <3>3, <5>2
          <6>2. arena'[f] = Append(arena[f], cur[f]) /\ Append(arena[f], cur[f])[i] = n
            BY <4>2, <3>1, <3>2, <5>2, <6>1
          <6> QED
            BY <3>3, <5>2, <6>1, <6>2
        <5> QED
          BY <5>1, <5>2
      <4> QED
        BY <4>3 DEF Recorded
    <3>5. Recorded(cur[f])'
      <4>1. Len(arena[f]) + 1 \in DOMAIN arena'[f] /\ arena'[f][Len(arena[f]) + 1] = cur'[f]
        <5>1. arena'[f] = Append(arena[f], cur[f]) /\ cur'[f] = cur[f]
          BY <2>1, <3>1
        <5>2. Len(arena[f]) + 1 \in 1..(Len(arena[f]) + 1)
          BY <3>2
        <5> QED
          BY <3>2, <3>3, <5>1, <5>2
      <4> QED
        BY <4>1 DEF Recorded
    <3>6. \A g \in Filter \ {f} : res'[g] = res[g]
      BY <2>3 DEF TypeOK
    <3> QED
      BY <2>1, <2>2, <3>4, <3>5, <3>6, ListenerStep DEF Active
  <2>4. CASE UNCHANGED arena /\ res' = [res EXCEPT ![f] = "err"]
    <3>1. \A g \in Filter : res'[g] = IF g = f THEN "err" ELSE res[g]
      BY <2>4 DEF TypeOK
    <3> QED
      BY <2>1, <2>4, <3>1, <1>a, ListenerStep DEF Active
  <2> QED
    BY <1>5, <2>3, <2>4 DEF HandleNotify
<1>6. CASE SendContinue(f)
  BY <1>6, SendContinueFlow
<1>7. CASE HandleResult(f)
  <2>0. pc[f] = "result" /\ pc[f] \in Active /\ UNCHANGED <<filt, phase, ncall, arena>>
    BY <1>7 DEF HandleResult, Active
  <2>1. CASE EndTask(f, "err")
    BY <2>0, <2>1, EndTaskFlow
  <2>2. CASE ~EndTask(f, "err")
    <3>1. /\ \A g \in Filter : pc'[g] = IF g = f THEN "await" ELSE pc[g]
          /\ \A g \in Filter : cur'[g] = IF g = f THEN 0 ELSE cur[g]
          /\ UNCHANGED <<st, owner, call, res, ready>>
      BY <1>7, <2>2 DEF HandleResult, TypeOK, aioVars
    <3> QED
      BY <2>0, <3>1, <1>a, ListenerStep DEF Active
  <2> QED
    BY <2>1, <2>2
<1>8. CASE AbortTask(f)
  BY <1>8, EndTaskFlow DEF AbortTask, Active
<1> QED
  BY <1>1, <1>2, <1>3, <1>4, <1>5, <1>6, <1>7, <1>8 DEF Listener

LEMMA NextFlow ==
  ASSUME TypeOK, Structure, Flow, [Next]_vars
  PROVE  Flow'
<1>1. ASSUME UNCHANGED <<st, filt, owner, call, ncall, pc, cur, res, arena, ready>>,
             phase = "failed" => phase' = "failed", phase' = "done" => DoneInv'
      PROVE  Flow'
  BY <1>1 DEF Flow, PendingInv, CallInv, HupInv, RefusedInv, DoneInv, RecordedFirst, Pending,
              Recorded, Users
<1>2. CASE DropSender \/ RecvEof \/ JoinError \/ JoinAll \/ Terminated \/ UNCHANGED vars
  <2>1. /\ UNCHANGED <<st, filt, owner, call, ncall, pc, cur, res, arena, ready>>
        /\ phase = "failed" => phase' = "failed"
    BY <1>2 DEF DropSender, RecvEof, JoinError, JoinAll, Terminated, vars, taskVars, kernVars,
                aioVars, loopVars
  <2>2. phase' = "done" => DoneInv'
    BY <1>2 DEF DropSender, RecvEof, JoinError, JoinAll, Terminated, vars, loopVars, DoneInv, Flow
  <2> QED
    BY <2>1, <2>2, <1>1
<1> QED
  BY <1>2, TracedFlow, ListenerFlow, RecvFdFlow, LoopFailsFlow DEF Next, Loop

-------------------------------------------------------------------------------
(* Theorems *)

UnotifyInv == TypeOK /\ Structure /\ Flow

LEMMA Invariance == Spec => []UnotifyInv
<1>1. Init => UnotifyInv
  BY InitType, InitStructure, InitFlow DEF UnotifyInv
<1>2. UnotifyInv /\ [Next]_vars => UnotifyInv'
  BY NextType, NextStructure, NextFlow DEF UnotifyInv, Structure
<1> QED
  BY <1>1, <1>2, PTL DEF Spec

\* Every variable has its type, and a tokio task handles a notification exactly
\* while notif_buf holds one.
THEOREM TypeCorrect == Spec => []TypeOK
<1>1. UnotifyInv => TypeOK
  BY DEF UnotifyInv
<1> QED
  BY <1>1, Invariance, PTL

\* No call of the target is continued before its access was recorded, unless the
\* task of its listener has failed or is about to.
THEOREM ContinuedRecorded == Spec => []RecordedFirst
<1>1. UnotifyInv => RecordedFirst
  BY DEF UnotifyInv, Flow
<1> QED
  BY <1>1, Invariance, PTL

\* When handling_loop returns Ok, the accesses of all calls that were let through
\* are in the arenas.
THEOREM OkComplete == Spec => []OkMeansComplete
<1>1. UnotifyInv => OkMeansComplete
  <2> SUFFICES ASSUME UnotifyInv, phase = "done", NEW n \in Call, call[n].state = "continued"
               PROVE  Recorded(n)
    BY DEF OkMeansComplete
  <2>1. call[n].filt \in Filter
    BY CallTypes DEF UnotifyInv, Flow
  <2>2. pc[call[n].filt] \in {"none", "ok"}
    BY <2>1 DEF UnotifyInv, Flow, DoneInv
  <2>3. res[call[n].filt] # "err"
    BY <2>1, <2>2 DEF UnotifyInv, Structure, ListenerInv
  <2> QED
    BY <2>2, <2>3 DEF UnotifyInv, Flow, RecordedFirst
<1> QED
  BY <1>1, Invariance, PTL

\* When handling_loop returns Ok, no listener that it received has refused a call.
THEOREM OkUndisturbed == Spec => []OkMeansUndisturbed
<1>1. UnotifyInv => OkMeansUndisturbed
  <2> SUFFICES ASSUME UnotifyInv, phase = "done", NEW n \in Call, call[n].state = "enosys"
               PROVE  pc[call[n].filt] = "none"
    BY DEF OkMeansUndisturbed
  <2>1. call[n].filt \in Filter
    BY CallTypes DEF UnotifyInv, Flow
  <2>2. pc[call[n].filt] \in {"none", "ok"} /\ pc[call[n].filt] \in {"none", "err"}
    BY <2>1 DEF UnotifyInv, Flow, DoneInv, RefusedInv
  <2> QED
    BY <2>2
<1> QED
  BY <1>1, Invariance, PTL

===============================================================================
