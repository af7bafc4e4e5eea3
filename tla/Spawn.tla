-------------------------------- MODULE Spawn --------------------------------
(***************************************************************************)
(* Command::spawn on Linux and what its caller does with the TrackedChild: *)
(* the composition of the two channels.                                    *)
(*                                                                         *)
(* A Command is built and consumed by spawn_impl, which makes the two      *)
(* socket pairs, moves the shm sender and the preload memfd above          *)
(* descriptor 16, forks, and drops its sending ends.  accesses_future      *)
(* joins the shm receiver and the supervisor's handling_loop; both make    *)
(* progress only while it is polled.  Several spawns run at once in one    *)
(* process, so every fork copies the descriptors of all of them.           *)
(*                                                                         *)
(* Descriptors are numbered from the first one after stdio.  A chunk or a  *)
(* listener in flight is a count here: ShmChannel and Unotify model what   *)
(* travels over them.                                                      *)
(***************************************************************************)
EXTENDS Integers, Sequences, FiniteSets

CONSTANTS Job,        \* calls of Command::spawn
          NoJob,      \* not a job: owner of the preload memfd
          MaxFd,      \* highest descriptor number
          SafeFd,     \* SAFE_FD_NUM
          Kind,       \* directory -> kind of the program file in it
          MaxCalls,   \* bound on the builder calls of all commands
          MaxSends,   \* bound on the sends and stopped calls of a process
          MaxEvents   \* bound on what targets, callers and other threads disturb

Dir     == {"here", "there", "nowhere"}   \* the spawner's directory, and others
EnvName == {"LD_PRELOAD", "FSPY_PAYLOAD", "PATH"}

ASSUME ConstAssumption ==
  /\ NoJob \notin Job
  /\ MaxFd \in Nat /\ SafeFd \in 0..MaxFd
  /\ Kind \in [Dir -> {"dynamic", "static", "missing"}]
  /\ MaxCalls \in Nat /\ MaxSends \in Nat /\ MaxEvents \in Nat

VARIABLES
  fdt,     \* descriptor table of the spawner
  pc,      \* job (NoJob: SpyInner::init) -> where its code is
  moved,   \* job -> state of duplicate_until_safe: the descriptor, those held back
  sec,     \* job -> seccomp_payload.ipc_fd
  cmd,     \* job -> the Command
  asked,   \* history: job -> the Command as spawn was called on it
  calls,   \* builder calls so far, in all commands
  st,      \* process -> "none", "forked", "run", "stopped", "exited" or "failed"
  tab,     \* process -> its descriptor table
  how,     \* process -> what traces it: "preload", "filter" or "none"
  sends,   \* process -> sends and stopped calls so far
  shmq,    \* job -> chunks in flight
  secq,    \* job -> listeners in flight
  half,    \* job -> the two halves of try_join
  fut,     \* job -> accesses_future
  first,   \* jobs whose caller waits for the child before accesses_future
  bad,     \* jobs in which a handler has failed and dropped its listener
  sent, got,          \* history: chunks sent and received, per job
  closed,             \* history: processes that closed all descriptors
  refused, aborted,   \* history: processes that got ENOSYS, that unwrap() ended
  events

spawnVars == <<fdt, pc, moved, sec, cmd, asked, calls>>
procVars  == <<st, tab, how, sends, closed, refused, aborted>>
futVars   == <<shmq, secq, half, fut, first, bad, sent, got>>
vars == <<spawnVars, procVars, futVars, events>>

Fd   == 0..MaxFd
\* the target of a job and a descendant of it, and a child that another thread
\* of the spawner starts without fspy
Foreign == <<NoJob, 1>>
Proc == (Job \X {1, 2}) \cup {Foreign}
JobOf(p) == p[1]
Tree(j)  == {p \in Proc : JobOf(p) = j}
Target(j) == <<j, 1>>

Free == [kind |-> "free", job |-> NoJob, cloexec |-> FALSE]
\* Rust opens descriptors with CLOEXEC; the cleared flag is the target's view
Open(k, j) == [kind |-> k, job |-> j, cloexec |-> TRUE]

Empty(t)  == {f \in Fd : t[f] = Free}
Lowest(t) == CHOOSE f \in Empty(t) : \A g \in Empty(t) : f <= g
Place(t, e) == [t EXCEPT ![Lowest(t)] = e]
Close(t, S) == [f \in Fd |-> IF f \in S THEN Free ELSE t[f]]
Holding(t, K, j) == {f \in Fd : t[f].kind \in K /\ t[f].job = j}
Tx == {"shmTx", "secTx"}
Rx == {"shmRx", "secRx"}

\* Spy::new_command: no directory, argument or variable is set.  A program is a
\* relative name or the absolute path of the file in a directory.
new_command(program) ==
               [program |-> program, arg0 |-> "unset", args |-> <<>>, cwd |-> "unset",
                envs |-> [n \in EnvName |-> "unset"], plan |-> "none"]
Consumed == new_command("rel")

NotMoved == [fd |-> 0, held |-> {}]
Running  == [shm |-> "run", sec |-> "run"]

Init ==
  /\ fdt = [f \in Fd |-> Free]
  /\ pc = [o \in Job \cup {NoJob} |-> IF o = NoJob THEN "memfd" ELSE "build"]
  /\ moved = [o \in Job \cup {NoJob} |-> NotMoved]
  /\ sec = [j \in Job |-> 0]
  /\ cmd \in [Job -> {new_command(f) : f \in Dir \cup {"rel"}}]
  /\ asked = [j \in Job |-> Consumed]
  /\ calls = 0
  /\ st = [p \in Proc |-> "none"]
  /\ tab = [p \in Proc |-> [f \in Fd |-> Free]]
  /\ how = [p \in Proc |-> "none"]
  /\ sends = [p \in Proc |-> 0]
  /\ shmq = [j \in Job |-> 0] /\ secq = [j \in Job |-> 0]
  /\ half = [j \in Job |-> Running]
  /\ fut = [j \in Job |-> "none"]
  /\ first = {} /\ bad = {}
  /\ sent = [j \in Job |-> 0] /\ got = [j \in Job |-> 0]
  /\ closed = {} /\ refused = {} /\ aborted = {}
  /\ events = 0

Event == events < MaxEvents /\ events' = events + 1

-------------------------------------------------------------------------------
(* SpyInner::init and the descriptors of spawn_impl *)

\* Spy::global: memfd_create, the library is written, the memfd is to be moved
SpyInit ==
  /\ pc[NoJob] = "memfd"
  /\ Empty(fdt) # {}
  /\ fdt' = Place(fdt, Open("memfd", NoJob))
  /\ moved' = [moved EXCEPT ![NoJob] = [fd |-> Lowest(fdt), held |-> {}]]
  /\ pc' = [pc EXCEPT ![NoJob] = "move"]
  /\ UNCHANGED <<sec, cmd, asked, calls, procVars, futVars, events>>

\* UnixStream::pair for the shm fds; the sender is made blocking
Pair(j) ==
  /\ pc[j] = "build"
  /\ pc[NoJob] = "ready"
  /\ Cardinality(Empty(fdt)) >= 2
  /\ LET t == Place(fdt, Open("shmTx", j))
     IN /\ fdt' = Place(t, Open("shmRx", j))
        /\ moved' = [moved EXCEPT ![j] = [fd |-> Lowest(fdt), held |-> {}]]
  /\ pc' = [pc EXCEPT ![j] = "move"]
  /\ asked' = [asked EXCEPT ![j] = cmd[j]]
  /\ UNCHANGED <<sec, cmd, calls, procVars, futVars, events>>

\* Mutant: the descriptors are left where they are.
IsSafe_always(f) == TRUE
\* Mutant: try_clone does not set CLOEXEC.
Cloned_inheritable(e) == [e EXCEPT !.cloexec = FALSE]

IsSafe(f) == f >= SafeFd
\* OwnedFd::try_clone duplicates with CLOEXEC
Cloned(e) == e

\* duplicate_until_safe, one round of its loop or its return; other threads
\* open and close descriptors between the rounds
Move(o) ==
  /\ pc[o] = "move"
  /\ \/ /\ ~IsSafe(moved[o].fd)
        /\ Empty(fdt) # {}
        /\ fdt' = Place(fdt, Cloned(fdt[moved[o].fd]))
        /\ moved' = [moved EXCEPT ![o] = [fd |-> Lowest(fdt), held |-> @.held \cup {@.fd}]]
        /\ UNCHANGED pc
     \/ /\ IsSafe(moved[o].fd)
        /\ fdt' = Close(fdt, moved[o].held)
        /\ moved' = [moved EXCEPT ![o].held = {}]
        /\ pc' = [pc EXCEPT ![o] = IF o = NoJob THEN "ready" ELSE "supervise"]
  /\ UNCHANGED <<sec, cmd, asked, calls, procVars, futVars, events>>

\* `?` on writing the library or on a clone: the cell stays empty, what was open is
\* closed, and the next Spy::global starts over
SpyFails ==
  /\ pc[NoJob] = "move" /\ ~IsSafe(moved[NoJob].fd)
  /\ Event
  /\ fdt' = Close(fdt, {moved[NoJob].fd} \cup moved[NoJob].held)
  /\ moved' = [moved EXCEPT ![NoJob] = NotMoved]
  /\ pc' = [pc EXCEPT ![NoJob] = "memfd"]
  /\ UNCHANGED <<sec, cmd, asked, calls, procVars, futVars>>

\* supervise(): the second pair, whose sender stays where it is
Supervise(j) ==
  /\ pc[j] = "supervise"
  /\ Cardinality(Empty(fdt)) >= 2
  /\ LET t == Place(fdt, Open("secRx", j))
     IN /\ fdt' = Place(t, Open("secTx", j))
        /\ sec' = [sec EXCEPT ![j] = Lowest(t)]
  /\ pc' = [pc EXCEPT ![j] = "resolve"]
  /\ UNCHANGED <<moved, cmd, asked, calls, procVars, futVars, events>>

\* `?` on any step before spawn() returns: what the call owns is dropped
Fail(j) ==
  /\ pc' = [pc EXCEPT ![j] = "failed"]
  /\ fdt' = Close(fdt, Holding(fdt, Tx \cup Rx, j))
  /\ cmd' = [cmd EXCEPT ![j] = Consumed]
  /\ asked' = [asked EXCEPT ![j] = Consumed]
  /\ UNCHANGED <<moved, sec, calls>>

\* no descriptor is left, or the process cannot be made
OsFails(j) ==
  /\ pc[NoJob] = "ready"
  /\ \/ pc[j] \in {"build", "supervise"} /\ Cardinality(Empty(fdt)) < 2 /\ UNCHANGED events
     \/ pc[j] = "move" /\ ~IsSafe(moved[j].fd) /\ Empty(fdt) = {} /\ UNCHANGED events
     \/ pc[j] = "fork" /\ Event
  /\ Fail(j)
  /\ UNCHANGED <<procVars, futVars>>

\* another thread of the spawner opens a file, or closes it
OtherThread ==
  /\ \/ Empty(fdt) # {} /\ fdt' = Place(fdt, Open("other", NoJob))
     \/ \E f \in Holding(fdt, {"other"}, NoJob) : fdt' = Close(fdt, {f})
  /\ Event
  /\ UNCHANGED <<pc, moved, sec, cmd, asked, calls, procVars, futVars>>

-------------------------------------------------------------------------------
(* The Command and its exec *)

DirOf(c) == IF c.cwd = "unset" THEN "here" ELSE c.cwd
\* where a program is found by a process in directory d
Lookup(program, d) == IF program = "rel" THEN d ELSE program

\* the builder methods; resolve_program may fail, then nothing changes
Build(j) ==
  /\ pc[j] = "build"
  /\ calls < MaxCalls
  /\ calls' = calls + 1
  /\ LET c == cmd[j] IN
     \/ cmd' = [cmd EXCEPT ![j].args = Append(c.args, "arg")]
     \/ cmd' = [cmd EXCEPT ![j].arg0 = "name"]
     \/ \E d \in Dir \ {"here"} : cmd' = [cmd EXCEPT ![j].cwd = d]
     \/ \E n \in EnvName : cmd' = [cmd EXCEPT ![j].envs[n] = "user"]
     \/ \E n \in EnvName : c.envs[n] # "unset" /\ cmd' = [cmd EXCEPT ![j].envs[n] = "unset"]
     \/ /\ Kind[Lookup(c.program, DirOf(c))] # "missing"
        /\ cmd' = [cmd EXCEPT ![j].program = Lookup(c.program, DirOf(c))]
  /\ UNCHANGED <<fdt, pc, moved, sec, asked, procVars, futVars, events>>

\* Mutant: the name to run under is forgotten.
get_exec_program(c) ==
  [program |-> c.program, args |-> <<c.program>> \o c.args, envs |-> c.envs]

get_exec(c) ==
  [program |-> c.program,
   args |-> <<IF c.arg0 = "unset" THEN c.program ELSE c.arg0>> \o c.args,
   envs |-> c.envs]

set_exec(c, e) ==
  [c EXCEPT !.program = e.program, !.arg0 = Head(e.args), !.args = Tail(e.args), !.envs = e.envs]

\* handle_exec for a program that is no script: what it adds to or takes from
\* the environment, and the failure when LD_PRELOAD is already the user's
TracedEnv(kind, envs) ==
  [n \in EnvName |-> IF n = "PATH" THEN envs[n]
                     ELSE IF kind = "dynamic" THEN "ours" ELSE "unset"]
EnvClash(kind, envs) == kind = "dynamic" /\ \E n \in EnvName \ {"PATH"} : envs[n] = "user"

\* the program is looked up and inspected in the spawner's directory
Resolve(j) ==
  LET c == cmd[j]
      e == get_exec(c)
      kind == Kind[Lookup(e.program, "here")]
  IN /\ pc[j] = "resolve"
     /\ \/ /\ kind = "missing" \/ EnvClash(kind, e.envs)
           /\ Fail(j)
        \/ /\ kind # "missing" /\ ~EnvClash(kind, e.envs)
           /\ cmd' = [cmd EXCEPT ![j] = [set_exec(c, [e EXCEPT !.envs = TracedEnv(kind, @)])
                                          EXCEPT !.plan = kind]]
           /\ pc' = [pc EXCEPT ![j] = "fork"]
           /\ UNCHANGED <<fdt, moved, sec, asked, calls>>
     /\ UNCHANGED <<procVars, futVars, events>>

\* the fork inside spawn(): the child holds a copy of every descriptor
Fork(j) ==
  /\ pc[j] = "fork"
  /\ pc' = [pc EXCEPT ![j] = "wait"]
  /\ st' = [st EXCEPT ![Target(j)] = "forked"]
  /\ tab' = [tab EXCEPT ![Target(j)] = fdt]
  /\ UNCHANGED <<fdt, moved, sec, cmd, asked, calls, how, sends, closed, refused, aborted, futVars, events>>

\* Mutant: the pre_exec closure forgets the library.
Inherited_no_memfd(j) == {moved[j].fd, sec[j]}

\* the descriptors whose CLOEXEC the pre_exec closure clears
Inherited(j) == {moved[NoJob].fd, moved[j].fd, sec[j]}

AfterExec(t, S) == [f \in Fd |-> IF f \in S THEN [t[f] EXCEPT !.cloexec = FALSE]
                                 ELSE IF t[f].cloexec THEN Free ELSE t[f]]

\* an ordinary child of another thread: for a while it holds a copy of all
ForeignFork ==
  /\ st[Foreign] = "none"
  /\ st' = [st EXCEPT ![Foreign] = "forked"]
  /\ tab' = [tab EXCEPT ![Foreign] = fdt]
  /\ Event
  /\ UNCHANGED <<spawnVars, how, sends, closed, refused, aborted, futVars>>
ForeignExec ==
  /\ st[Foreign] = "forked"
  /\ st' = [st EXCEPT ![Foreign] = "run"]
  /\ tab' = [tab EXCEPT ![Foreign] = AfterExec(@, {})]
  /\ UNCHANGED <<spawnVars, how, sends, closed, refused, aborted, futVars, events>>

\* the library is found through /proc/self/fd and LD_PRELOAD
Preloaded(t) == t[moved[NoJob].fd].kind = "memfd"

\* The child changes directory, runs the closure, installs the filter if the
\* program was found to be static, and executes what it finds there.
ChildExec(j) ==
  LET p == Target(j)
      c == cmd[j]
      kind == Kind[Lookup(c.program, DirOf(c))]
      t == AfterExec(tab[p], Inherited(j))
  IN /\ st[p] = "forked"
     /\ secq' = [secq EXCEPT ![j] = IF c.plan = "static" THEN @ + 1 ELSE @]
     /\ \/ /\ kind # "missing"
           /\ st' = [st EXCEPT ![p] = "run"]
           /\ tab' = [tab EXCEPT ![p] = t]
           /\ how' = [how EXCEPT ![p] =
                        IF c.plan = "static" THEN "filter"
                        ELSE IF kind = "dynamic" /\ Preloaded(t) THEN "preload" ELSE "none"]
           /\ UNCHANGED events
        \/ /\ kind = "missing" \/ events < MaxEvents
           /\ events' = IF kind = "missing" THEN events ELSE events + 1
           /\ st' = [st EXCEPT ![p] = "failed"]
           /\ tab' = [tab EXCEPT ![p] = [f \in Fd |-> Free]]
           /\ UNCHANGED how
     /\ UNCHANGED <<spawnVars, sends, closed, refused, aborted,
                    shmq, half, fut, first, bad, sent, got>>

\* spawn() has read the child's status from its own pipe
SpawnReturns(j) ==
  /\ pc[j] = "wait"
  /\ st[Target(j)] # "forked"
  /\ \/ /\ st[Target(j)] = "failed"
        /\ Fail(j)
     \/ /\ st[Target(j)] # "failed"
        /\ pc' = [pc EXCEPT ![j] = "drop"]
        /\ UNCHANGED <<fdt, moved, sec, cmd, asked, calls>>
  /\ UNCHANGED <<procVars, futVars, events>>

\* Mutant: only the shm sender is dropped.
Dropped_shm(j) == {moved[j].fd}
\* Mutant: only the notify sender is dropped.
Dropped_sec(j) == {sec[j]}

\* what the pre_exec closure owned
Dropped(j) == {moved[j].fd, sec[j]}

\* drop(tokio_command), and the TrackedChild is returned
DropCommand(j) ==
  /\ pc[j] = "drop"
  /\ fdt' = Close(fdt, Dropped(j))
  /\ pc' = [pc EXCEPT ![j] = "spawned"]
  /\ fut' = [fut EXCEPT ![j] = "unpolled"]
  /\ cmd' = [cmd EXCEPT ![j] = Consumed]
  /\ asked' = [asked EXCEPT ![j] = Consumed]
  /\ UNCHANGED <<moved, sec, calls, procVars, shmq, secq, half, first, bad, sent, got, events>>

-------------------------------------------------------------------------------
(* The traced processes *)

ShmOpen(j) == Holding(fdt, {"shmRx"}, j) # {}
SecOpen(j) == Holding(fdt, {"secRx"}, j) # {}

\* the descriptor the payload names is the sending end
Names(p, f, k) == tab[p][f].kind = k /\ tab[p][f].job = JobOf(p)

Ends(p) ==
  /\ st' = [st EXCEPT ![p] = "exited"]
  /\ tab' = [tab EXCEPT ![p] = [f \in Fd |-> Free]]

\* exit, or death by a signal
Exit(p) ==
  /\ st[p] \in {"run", "stopped"}
  /\ Ends(p)
  /\ UNCHANGED <<spawnVars, how, sends, closed, refused, aborted, futVars, events>>

\* a program assigns the low numbers by dup2, as libuv does for its children
ReassignLow(p) ==
  /\ st[p] = "run"
  /\ tab' = [tab EXCEPT ![p] = [f \in Fd |-> IF f < SafeFd THEN [Open("other", NoJob) EXCEPT !.cloexec = FALSE]
                                             ELSE @[f]]]
  /\ Event
  /\ UNCHANGED <<spawnVars, st, how, sends, closed, refused, aborted, futVars>>

\* a program closes every descriptor it does not know
CloseAll(p) ==
  /\ st[p] = "run"
  /\ tab' = [tab EXCEPT ![p] = [f \in Fd |-> Free]]
  /\ closed' = closed \cup {p}
  /\ Event
  /\ UNCHANGED <<spawnVars, st, how, sends, refused, aborted, futVars>>

\* The target forks a descendant and executes a program of the given kind in
\* it: handle_exec passes the environment on, or installs the filter and sends
\* its listener; a failure of either ends in the child.
ForkExec(p, kind) ==
  LET j == JobOf(p)
      q == <<j, 2>>
      ok == how[p] = "preload" /\ kind = "static" =>
              Names(p, sec[j], "secTx") /\ SecOpen(j)
  IN /\ st[p] = "run" /\ p = Target(j) /\ st[q] = "none"
     /\ \/ /\ ok
           /\ st' = [st EXCEPT ![q] = "run"]
           /\ tab' = [tab EXCEPT ![q] = tab[p]]
           /\ how' = [how EXCEPT ![q] = IF how[p] # "preload" THEN how[p]
                                        ELSE IF kind = "static" THEN "filter"
                                        ELSE IF Preloaded(tab[p]) THEN "preload" ELSE "none"]
           /\ secq' = [secq EXCEPT ![j] = IF how[p] = "preload" /\ kind = "static" THEN @ + 1 ELSE @]
        \/ /\ ~ok
           /\ st' = [st EXCEPT ![q] = "exited"]
           /\ UNCHANGED <<tab, how, secq>>
     /\ closed' = IF p \in closed THEN closed \cup {q} ELSE closed
     /\ UNCHANGED <<spawnVars, sends, refused, aborted, shmq, half, fut, first, bad, sent, got, events>>

\* new_shm sends the fd of a chunk; handle_open unwraps the result
SendShm(p) ==
  LET j == JobOf(p)
  IN /\ st[p] = "run" /\ how[p] = "preload"
     /\ sends[p] < MaxSends
     /\ sends' = [sends EXCEPT ![p] = @ + 1]
     /\ \/ /\ Names(p, moved[j].fd, "shmTx") /\ ShmOpen(j)
           /\ shmq' = [shmq EXCEPT ![j] = @ + 1]
           /\ sent' = [sent EXCEPT ![j] = @ + 1]
           /\ UNCHANGED <<st, tab, aborted>>
        \/ /\ ~Names(p, moved[j].fd, "shmTx") \/ ~ShmOpen(j)
           /\ Ends(p)
           /\ aborted' = aborted \cup {p}
           /\ UNCHANGED <<shmq, sent>>
     /\ UNCHANGED <<spawnVars, how, closed, refused, secq, half, fut, first, bad, got, events>>

\* a filtered call: stopped while a listener exists, refused with ENOSYS if not
Syscall(p) ==
  LET j == JobOf(p)
      heard == fut[j] \in {"none", "unpolled", "polled"} /\ j \notin bad
  IN /\ st[p] = "run" /\ how[p] = "filter"
     /\ sends[p] < MaxSends
     /\ sends' = [sends EXCEPT ![p] = @ + 1]
     /\ \/ heard /\ st' = [st EXCEPT ![p] = "stopped"] /\ UNCHANGED refused
        \/ ~heard /\ refused' = refused \cup {p} /\ UNCHANGED st
     /\ UNCHANGED <<spawnVars, tab, how, closed, aborted, futVars, events>>

-------------------------------------------------------------------------------
(* accesses_future and its caller *)

\* the caller awaits accesses_future, alone or joined with the child
Poll(j) ==
  /\ fut[j] = "unpolled"
  /\ j \in first => st[Target(j)] = "exited"
  /\ fut' = [fut EXCEPT ![j] = "polled"]
  /\ UNCHANGED <<spawnVars, procVars, shmq, secq, half, first, bad, sent, got, events>>

\* the caller awaits the child first
WaitFirst(j) ==
  /\ fut[j] = "unpolled" /\ j \notin first
  /\ first' = first \cup {j}
  /\ Event
  /\ UNCHANGED <<spawnVars, procVars, shmq, secq, half, fut, bad, sent, got>>

StoppedIn(j) == {p \in Tree(j) : st[p] = "stopped"}

\* the receivers and the listeners are closed, stopped calls return ENOSYS
GiveUp(j, result) ==
  /\ fut' = [fut EXCEPT ![j] = result]
  /\ fdt' = Close(fdt, Holding(fdt, Rx, j))
  /\ shmq' = [shmq EXCEPT ![j] = 0]
  /\ secq' = [secq EXCEPT ![j] = 0]
  /\ st' = [p \in Proc |-> IF p \in StoppedIn(j) THEN "run" ELSE st[p]]
  /\ refused' = refused \cup StoppedIn(j)
  /\ UNCHANGED <<pc, moved, sec, cmd, asked, calls, tab, how, sends, closed, aborted,
                 half, first, bad, sent, got>>

\* the caller drops the future
DropFuture(j) ==
  /\ fut[j] \in {"unpolled", "polled"}
  /\ GiveUp(j, "dropped")
  /\ Event

Polled(j, h) == fut[j] = "polled" /\ half[j][h] = "run"

\* recv_fd inside shm_future
RecvShm(j) ==
  /\ Polled(j, "shm") /\ shmq[j] > 0
  /\ shmq' = [shmq EXCEPT ![j] = @ - 1]
  /\ got' = [got EXCEPT ![j] = @ + 1]
  /\ UNCHANGED <<spawnVars, procVars, secq, half, fut, first, bad, sent, events>>

\* nobody holds a sending end of kind k any more
Eof(j, k) ==
  /\ Holding(fdt, {k}, j) = {}
  /\ \A p \in Proc : Holding(tab[p], {k}, j) = {}

ShmDone(j) == shmq[j] = 0 /\ Eof(j, "shmTx")

\* shm_future ends: end of file, or a message without a descriptor
ShmEnds(j) ==
  /\ Polled(j, "shm")
  /\ fdt' = Close(fdt, Holding(fdt, {"shmRx"}, j))
  /\ \/ /\ ShmDone(j)
        /\ half' = [half EXCEPT ![j].shm = "ok"]
        /\ UNCHANGED events
     \/ /\ half' = [half EXCEPT ![j].shm = "err"]
        /\ Event
  /\ UNCHANGED <<pc, moved, sec, cmd, asked, calls, procVars, shmq, secq, fut, first, bad, sent, got>>

RecvListener(j) ==
  /\ Polled(j, "sec") /\ secq[j] > 0
  /\ secq' = [secq EXCEPT ![j] = @ - 1]
  /\ UNCHANGED <<spawnVars, procVars, shmq, half, fut, first, bad, sent, got, events>>

\* a listener task answers; a handler that fails still continues the call and
\* then drops its listener
Answer(p) ==
  LET j == JobOf(p)
  IN /\ Polled(j, "sec") /\ secq[j] = 0
     /\ st[p] = "stopped"
     /\ \/ /\ st' = [st EXCEPT ![p] = "run"]
           /\ UNCHANGED <<refused, bad, events>>
        \/ /\ st' = [q \in Proc |-> IF q \in StoppedIn(j) THEN "run" ELSE st[q]]
           /\ refused' = refused \cup (StoppedIn(j) \ {p})
           /\ bad' = bad \cup {j}
           /\ Event
     /\ UNCHANGED <<spawnVars, tab, how, sends, closed, aborted,
                    shmq, secq, half, fut, first, sent, got>>

\* handling_loop ends after the last sender and the last filtered process
LoopEnds(j) ==
  /\ Polled(j, "sec")
  /\ secq[j] = 0 /\ Eof(j, "secTx")
  /\ \A p \in Tree(j) : how[p] = "filter" => st[p] = "exited"
  /\ half' = [half EXCEPT ![j].sec = IF j \in bad THEN "err" ELSE "ok"]
  /\ fdt' = Close(fdt, Holding(fdt, {"secRx"}, j))
  /\ UNCHANGED <<pc, moved, sec, cmd, asked, calls, procVars, shmq, secq, fut, first, bad, sent, got, events>>

\* Mutant: join instead of try_join, with the error lost.
JoinResult_any(j) ==
  IF half[j].shm # "run" /\ half[j].sec # "run" THEN "ok" ELSE "polled"

\* try_join: the first error, or both results
JoinResult(j) ==
  IF half[j].shm = "err" \/ half[j].sec = "err" THEN "err"
  ELSE IF half[j].shm = "ok" /\ half[j].sec = "ok" THEN "ok" ELSE "polled"

Join(j) ==
  /\ fut[j] = "polled"
  /\ JoinResult(j) # "polled"
  /\ GiveUp(j, JoinResult(j))
  /\ UNCHANGED events

-------------------------------------------------------------------------------
Spawning(j) ==
  \/ Pair(j) \/ Move(j) \/ Supervise(j) \/ Resolve(j) \/ Fork(j) \/ ChildExec(j)
  \/ SpawnReturns(j) \/ DropCommand(j)

Future(j) ==
  \/ RecvShm(j) \/ ShmEnds(j) \/ RecvListener(j) \/ LoopEnds(j) \/ Join(j)
  \/ \E p \in Tree(j) : Answer(p)

Activity(p) ==
  \/ ReassignLow(p) \/ CloseAll(p) \/ SendShm(p) \/ Syscall(p)
  \/ \E kind \in {"dynamic", "static"} : ForkExec(p, kind)

Over(j) == pc[j] = "failed" \/ fut[j] \in {"ok", "err", "dropped"}

\* every spawn has returned and no process runs
Quiet ==
  /\ \A j \in Job : pc[j] \in {"spawned", "failed"}
  /\ \A p \in Proc : st[p] \notin {"run", "forked"}
  /\ UNCHANGED vars

Next ==
  \/ SpyInit \/ SpyFails \/ Move(NoJob) \/ OtherThread \/ ForeignFork \/ ForeignExec
  \/ \E j \in Job : Build(j) \/ Spawning(j) \/ OsFails(j)
  \/ \E j \in Job : Poll(j) \/ WaitFirst(j) \/ DropFuture(j) \/ Future(j)
  \/ \E p \in Proc : Exit(p)
  \/ \E p \in Job \X {1, 2} : Activity(p)
  \/ Quiet

Spec == Init /\ [][Next]_vars

\* the runtime polls what is awaited, and a forked child executes
FairSpec ==
  /\ Spec
  /\ \A j \in Job : WF_vars(Future(j)) /\ WF_vars(Spawning(j))
  /\ WF_vars(ForeignExec)

-------------------------------------------------------------------------------
(* Properties *)

Entry == [kind : {"free", "memfd", "shmTx", "shmRx", "secTx", "secRx", "other"},
          job : Job \cup {NoJob}, cloexec : BOOLEAN]
CommandType ==
  [program : Dir \cup {"rel"}, arg0 : Dir \cup {"unset", "name", "rel"}, args : Seq({"arg"}),
   cwd : Dir \cup {"unset"}, envs : [EnvName -> {"unset", "user", "ours"}],
   plan : {"none", "dynamic", "static"}]

\* Every variable has its type (the state of spawn_impl and of TrackedChild).
TypeOK ==
  /\ fdt \in [Fd -> Entry]
  /\ pc \in [Job \cup {NoJob} -> {"memfd", "build", "move", "ready", "supervise", "resolve",
                                  "fork", "wait", "drop", "spawned", "failed"}]
  /\ moved \in [Job \cup {NoJob} -> [fd : Fd, held : SUBSET Fd]]
  /\ sec \in [Job -> Fd]
  /\ cmd \in [Job -> CommandType] /\ asked \in [Job -> CommandType]
  /\ calls \in 0..MaxCalls
  /\ st \in [Proc -> {"none", "forked", "run", "stopped", "exited", "failed"}]
  /\ tab \in [Proc -> [Fd -> Entry]]
  /\ how \in [Proc -> {"none", "preload", "filter"}]
  /\ sends \in [Proc -> 0..MaxSends]
  /\ shmq \in [Job -> Nat] /\ secq \in [Job -> Nat]
  /\ half \in [Job -> [shm : {"run", "ok", "err"}, sec : {"run", "ok", "err"}]]
  /\ fut \in [Job -> {"none", "unpolled", "polled", "ok", "err", "dropped"}]
  /\ first \subseteq Job /\ bad \subseteq Job
  /\ sent \in [Job -> Nat] /\ got \in [Job -> Nat]
  /\ closed \subseteq Proc /\ refused \subseteq Proc /\ aborted \subseteq Proc
  /\ events \in 0..MaxEvents

Executed(p) == st[p] \in {"run", "stopped"}

\* A running process holds the ends of its own job only, and no receiving end,
\* although every fork copies the descriptors of all spawns in progress:
\* otherwise one target would keep another's channels open.
NoLeak ==
  \A p \in Proc : Executed(p) =>
    \A f \in Fd : tab[p][f].kind \notin Rx /\ (tab[p][f].kind \in Tx => tab[p][f].job = JobOf(p))

\* The numbers in the payload name the shm sender and the library in every
\* process of the tree, also after a program has reassigned the numbers below
\* SAFE_FD_NUM (duplicate_until_safe), unless it closed everything.
PayloadValid ==
  \A p \in Job \X {1, 2} : Executed(p) /\ p \notin closed =>
    Names(p, moved[JobOf(p)].fd, "shmTx") /\ Preloaded(tab[p])

\* When a spawn has failed or its future has ended, the spawner holds none of
\* its descriptors, whichever step failed and however far the moving had come.
Tidy == \A j \in Job : Over(j) => Holding(fdt, Tx \cup Rx, j) = {}

\* An Ok result of accesses_future has every chunk that was sent; every traced
\* process is gone or has closed its descriptors, no call was refused, and the
\* library has aborted none but those that closed the socket.
OkComplete ==
  \A j \in Job : fut[j] = "ok" =>
    /\ got[j] = sent[j]
    /\ \A p \in Tree(j) : ~Executed(p) \/ p \in closed
    /\ \A p \in Tree(j) : p \notin refused
    /\ \A p \in Tree(j) : p \in aborted => p \in closed

Starts(j) == st[Target(j)] = "forked" /\ st'[Target(j)] = "run"

\* The target of a spawn is traced from its start: what the spawner inspected
\* in its own directory is what the child executes in the command's, unless a
\* relative program was combined with current_dir.
TargetTraced ==
  [][\A j \in Job : Starts(j) =>
       how'[Target(j)] # "none" \/ (asked[j].program = "rel" /\ asked[j].cwd # "unset")]_vars

\* The child runs with the arguments, the directory and the variables that the
\* builder methods set, after get_exec, handle_exec and set_exec; only the two
\* variables of the library differ.
AsAsked(j) ==
  /\ cmd[j].arg0 = IF asked[j].arg0 = "unset" THEN asked[j].program ELSE asked[j].arg0
  /\ cmd[j].args = asked[j].args
  /\ cmd[j].cwd = asked[j].cwd
  /\ cmd[j].envs["PATH"] = asked[j].envs["PATH"]
HonoursCommand ==
  [][\A j \in Job : Starts(j) => AsAsked(j)]_vars

\* While accesses_future is awaited the tree never stands still for ever: no
\* process stays stopped at a listener nobody serves, and the future ends when
\* no process runs, whatever else the spawner has spawned meanwhile.
NoStandstill ==
  \A j \in Job : []<>~(fut[j] = "polled" /\ \A p \in Tree(j) : st[p] # "run")

===============================================================================
