------------------------------ MODULE SpawnProofs ------------------------------
(* Proofs about Spawn: for any number of spawns, descriptors, builder calls, *)
(* sends and disturbances, and any program files.                            *)
EXTENDS Spawn, FiniteSetTheorems, WellFoundedInduction, SequenceTheorems, TLAPS

-------------------------------------------------------------------------------
(* The inductive invariant *)

Working == {"resolve", "fork", "wait", "drop"}
Moving  == Working \cup {"move", "supervise"}
Owner   == Job \cup {NoJob}
\* A future that has not ended.
Pending == {"none", "unpolled", "polled"}

Holds(k, j) == Holding(fdt, {k}, j)

\* What the spawner opens, an exec closes.
Inheritable(t) == {f \in Fd : t[f].kind # "free" /\ t[f].cloexec # TRUE}

\* The descriptors of duplicate_until_safe: the one it has reached, with the ones it
\* holds back until the number is safe.
MovedInv(o, k) ==
  /\ Holds(k, o) = {moved[o].fd} \cup moved[o].held
  /\ moved[o].fd \notin moved[o].held
  /\ pc[o] # "move" => moved[o].held = {} /\ IsSafe(moved[o].fd)

LibraryInv ==
  /\ pc[NoJob] \in {"memfd", "move", "ready"}
  /\ pc[NoJob] = "memfd" => Holds("memfd", NoJob) = {}
  /\ pc[NoJob] # "memfd" => MovedInv(NoJob, "memfd")

\* The sending ends of a spawn, at each of its steps.
SenderInv(j) ==
  /\ pc[j] \notin {"memfd", "ready"}
  /\ pc[j] \notin {"build", "failed"} => pc[NoJob] = "ready"
  /\ pc[j] \in Moving => MovedInv(j, "shmTx")
  /\ pc[j] \notin Moving => Holds("shmTx", j) = {}
  /\ pc[j] = "spawned" => IsSafe(moved[j].fd)
  /\ pc[j] \in Working => Holds("secTx", j) = {sec[j]}
  /\ pc[j] \notin Working => Holds("secTx", j) = {}

\* The receiving ends live as long as the half of the future that reads them.
ReceiverInv(j) ==
  /\ fut[j] # "none" <=> pc[j] = "spawned"
  /\ fut[j] \in {"none", "unpolled"} => half[j] = Running
  /\ Holds("shmRx", j) # {} <=>
       pc[j] \notin {"build", "failed"} /\ fut[j] \in Pending /\ half[j].shm = "run"
  /\ Holds("secRx", j) # {} => pc[j] \notin {"build", "failed"} /\ fut[j] \in Pending

SpawnerInv ==
  /\ LibraryInv /\ Inheritable(fdt) = {}
  /\ \A j \in Job : SenderInv(j) /\ ReceiverInv(j)

\* get_exec and set_exec lose nothing, and the plan is for the program of the spawner's
\* directory.
CommandInv(j) ==
  /\ pc[j] \in {"move", "supervise", "resolve"} => cmd[j] = asked[j]
  /\ pc[j] \in {"fork", "wait"} =>
       /\ AsAsked(j) /\ cmd[j].program = asked[j].program
       /\ cmd[j].plan = Kind[Lookup(cmd[j].program, "here")] /\ cmd[j].plan # "missing"

\* Which processes of a tree there are, at each step of the spawn.
LifeInv(j) ==
  /\ st[Target(j)] = "none" => pc[j] \notin {"wait", "drop", "spawned"}
  /\ st[Target(j)] = "forked" => pc[j] = "wait"
  /\ st[Target(j)] = "failed" => pc[j] \in {"wait", "failed"}
  /\ st[Target(j)] \in {"run", "stopped", "exited"} => pc[j] \in {"wait", "drop", "spawned"}
  /\ st[Target(j)] \in {"none", "forked", "failed"} => st[<<j, 2>>] = "none"
  /\ st[<<j, 2>>] \notin {"forked", "failed"}

\* The payload's numbers name the library and the shm sender in table t.
Numbers(t, j) ==
  moved[NoJob].fd \in Holding(t, {"memfd"}, NoJob) /\ moved[j].fd \in Holding(t, {"shmTx"}, j)

\* A forked child has the table of its parent; one that runs has kept its own ends.
ProcInv(p) ==
  /\ st[p] = "forked" => Inheritable(tab[p]) = {}
  /\ st[p] = "forked" /\ p # Foreign =>
       Numbers(tab[p], JobOf(p)) /\ sec[JobOf(p)] \in Holding(tab[p], {"secTx"}, JobOf(p))
  /\ Executed(p) =>
       \A f \in Fd : tab[p][f].kind \notin Rx /\ (tab[p][f].kind \in Tx => tab[p][f].job = JobOf(p))
  /\ Executed(p) /\ p # Foreign /\ p \notin closed => Numbers(tab[p], JobOf(p))

ProcessInv == (\A j \in Job : CommandInv(j) /\ LifeInv(j)) /\ \A p \in Proc : ProcInv(p)

\* shm_future: what was sent is received or in flight; its end of file means that no
\* sender is left; the library aborts no process that has kept its descriptors.
ShmInv(j) ==
  /\ half[j].shm = "run" /\ fut[j] \in Pending => got[j] + shmq[j] = sent[j]
  /\ half[j].shm = "ok" => got[j] = sent[j] /\ shmq[j] = 0 /\ Eof(j, "shmTx")
  /\ half[j].shm # "err" /\ fut[j] \in Pending \cup {"ok"} =>
       \A p \in Tree(j) : p \in aborted => p \in closed

\* handling_loop: its end means that no sender and no filtered process is left; until a
\* handler fails or the future ends no call is refused.
LoopInv(j) ==
  /\ half[j].sec = "ok" =>
       j \notin bad /\ Eof(j, "secTx") /\ \A p \in Tree(j) : how[p] = "filter" => st[p] = "exited"
  /\ j \notin bad /\ fut[j] \in Pending \cup {"ok"} => \A p \in Tree(j) : p \notin refused
  /\ \A p \in Tree(j) : st[p] = "stopped" => how[p] = "filter"
  /\ fut[j] = "ok" => half[j].shm = "ok" /\ half[j].sec = "ok"

FutureInv == \A j \in Job : ShmInv(j) /\ LoopInv(j)

SpawnInv == TypeOK /\ SpawnerInv /\ ProcessInv /\ FutureInv

-------------------------------------------------------------------------------
(* Descriptor tables *)

Tables == [Fd -> Entry]
Kinds  == {"memfd", "shmTx", "shmRx", "secTx", "secRx", "other"}

LEMMA FreeEntry == Free \in Entry /\ Free.kind = "free"
  BY DEF Free, Entry

LEMMA FreeTable == [f \in Fd |-> Free] \in Tables
  BY FreeEntry DEF Tables

LEMMA OpenEntry ==
  ASSUME NEW k \in Kinds, NEW j \in Job \cup {NoJob}
  PROVE  /\ Open(k, j) \in Entry
         /\ Open(k, j).kind = k /\ Open(k, j).job = j /\ Open(k, j).cloexec = TRUE
  BY DEF Open, Entry, Kinds

\* open() takes the least free number.
LEMMA LowestFree ==
  ASSUME NEW t, Empty(t) # {}
  PROVE  Lowest(t) \in Empty(t) /\ Lowest(t) \in Fd /\ t[Lowest(t)] = Free
<1> DEFINE R == OpToRel(<, Nat)
<1>1. Empty(t) \subseteq Nat
  BY ConstAssumption DEF Empty, Fd
<1>2. PICK x \in Empty(t) : \A y \in Empty(t) : ~(<<y, x>> \in R)
  <2> HIDE DEF R
  <2>1. IsWellFoundedOn(R, Nat)
    BY NatLessThanWellFounded DEF R
  <2> QED
    BY <1>1, <2>1, WFMin
<1>3. \A y \in Empty(t) : x <= y
  <2> TAKE y \in Empty(t)
  <2>1. x \in Nat /\ y \in Nat /\ ~(y < x)
    BY <1>1, <1>2 DEF OpToRel
  <2> QED
    BY <2>1
<1>4. Lowest(t) \in Empty(t)
  BY <1>2, <1>3 DEF Lowest
<1> QED
  BY <1>4 DEF Empty

LEMMA PlaceEntry ==
  ASSUME NEW t \in Tables, NEW e \in Entry, Empty(t) # {}
  PROVE  /\ Place(t, e) \in Tables
         /\ \A f \in Fd : Place(t, e)[f] = IF f = Lowest(t) THEN e ELSE t[f]
  BY LowestFree DEF Place, Tables

\* A pair of descriptors fits when two numbers are free.
LEMMA PlaceAgain ==
  ASSUME NEW t \in Tables, NEW e \in Entry, e.kind # "free", Cardinality(Empty(t)) >= 2
  PROVE  Empty(t) # {} /\ Empty(Place(t, e)) # {}
<1>1. Empty(t) # {}
  BY FS_EmptySet
<1>2. ASSUME Empty(Place(t, e)) = {} PROVE FALSE
  <2>1. Empty(t) = {Lowest(t)}
    <3>1. \A f \in Empty(t) : f = Lowest(t)
      <4> TAKE f \in Empty(t)
      <4>1. f \in Fd /\ t[f] = Free /\ f \notin Empty(Place(t, e))
        BY <1>2 DEF Empty
      <4>2. Place(t, e)[f] # Free
        BY <4>1 DEF Empty
      <4> QED
        BY <1>1, <4>1, <4>2, PlaceEntry
    <3> QED
      BY <1>1, <3>1, LowestFree
  <2>2. Cardinality(Empty(t)) = 1
    BY <2>1, FS_Singleton
  <2> QED
    BY <2>2
<1> QED
  BY <1>1, <1>2

\* What the spawner holds after open(), by kind and job.
LEMMA PlaceHolding ==
  ASSUME NEW t \in Tables, NEW e \in Entry, Empty(t) # {},
         NEW k \in Kinds, NEW j
  PROVE  Holding(Place(t, e), {k}, j) =
           Holding(t, {k}, j) \cup {f \in {Lowest(t)} : e.kind = k /\ e.job = j}
<1>1. t[Lowest(t)].kind # k /\ Lowest(t) \in Fd
  BY LowestFree, FreeEntry DEF Kinds
<1>2. \A f \in Fd : f \in Holding(Place(t, e), {k}, j) <=>
        IF f = Lowest(t) THEN e.kind = k /\ e.job = j ELSE f \in Holding(t, {k}, j)
  BY PlaceEntry DEF Holding
<1>3. Holding(Place(t, e), {k}, j) \subseteq Fd /\ Holding(t, {k}, j) \subseteq Fd
      /\ Lowest(t) \notin Holding(t, {k}, j)
  BY <1>1 DEF Holding
<1> QED
  BY <1>1, <1>2, <1>3

LEMMA CloseTable ==
  ASSUME NEW t \in Tables, NEW S
  PROVE  /\ Close(t, S) \in Tables
         /\ \A f \in Fd : Close(t, S)[f] = IF f \in S THEN Free ELSE t[f]
  BY FreeEntry DEF Close, Tables

LEMMA CloseHolding ==
  ASSUME NEW t \in Tables, NEW S, NEW k \in Kinds, NEW j
  PROVE  Holding(Close(t, S), {k}, j) = Holding(t, {k}, j) \ S
<1>1. \A f \in Fd : f \in Holding(Close(t, S), {k}, j) <=> f \in Holding(t, {k}, j) /\ f \notin S
  BY CloseTable, FreeEntry DEF Holding, Kinds
<1>2. Holding(Close(t, S), {k}, j) \subseteq Fd /\ Holding(t, {k}, j) \subseteq Fd
  BY DEF Holding
<1> QED
  BY <1>1, <1>2

LEMMA AfterExecTable ==
  ASSUME NEW t \in Tables, NEW S
  PROVE  /\ AfterExec(t, S) \in Tables
         /\ \A f \in Fd : AfterExec(t, S)[f].kind = IF f \in S \/ t[f].cloexec # TRUE THEN t[f].kind ELSE "free"
         /\ \A f \in Fd : AfterExec(t, S)[f].job = IF f \in S \/ t[f].cloexec # TRUE THEN t[f].job ELSE NoJob
<1> DEFINE A(f) == AfterExec(t, S)[f]
<1>1. ASSUME NEW f \in Fd
      PROVE  /\ A(f) \in Entry
             /\ A(f).kind = IF f \in S \/ t[f].cloexec # TRUE THEN t[f].kind ELSE "free"
             /\ A(f).job = IF f \in S \/ t[f].cloexec # TRUE THEN t[f].job ELSE NoJob
  <2>1. t[f] \in Entry /\ t[f].cloexec \in BOOLEAN
    BY DEF Tables, Entry
  <2>2. CASE f \in S
    <3>1. A(f) = [t[f] EXCEPT !.cloexec = FALSE]
      BY <2>2 DEF AfterExec
    <3> QED
      BY <2>1, <2>2, <3>1 DEF Entry
  <2>3. CASE f \notin S /\ t[f].cloexec
    <3>1. A(f) = Free
      BY <2>3 DEF AfterExec
    <3>2. t[f].cloexec = TRUE
      BY <2>1, <2>3, Zenon
    <3> QED
      BY <2>3, <3>1, <3>2, FreeEntry DEF Free
  <2>4. CASE f \notin S /\ ~t[f].cloexec
    <3>1. A(f) = t[f]
      BY <2>4 DEF AfterExec
    <3>2. t[f].cloexec # TRUE
      BY <2>1, <2>4, Zenon
    <3> QED
      BY <2>1, <2>4, <3>1, <3>2
  <2> QED
    BY <2>2, <2>3, <2>4
<1>2. AfterExec(t, S) = [f \in Fd |-> A(f)]
  BY DEF AfterExec
<1> QED
  BY <1>1, <1>2 DEF Tables

-------------------------------------------------------------------------------
(* Types *)

Labels == {"memfd", "build", "move", "ready", "supervise", "resolve",
           "fork", "wait", "drop", "spawned", "failed"}
States == {"none", "forked", "run", "stopped", "exited", "failed"}

SpawnerType ==
  /\ fdt \in Tables
  /\ pc \in [Owner -> Labels]
  /\ moved \in [Owner -> [fd : Fd, held : SUBSET Fd]]
  /\ sec \in [Job -> Fd]
CmdType ==
  /\ cmd \in [Job -> CommandType] /\ asked \in [Job -> CommandType]
  /\ calls \in 0..MaxCalls
ProcType ==
  /\ st \in [Proc -> States]
  /\ tab \in [Proc -> Tables]
  /\ how \in [Proc -> {"none", "preload", "filter"}]
  /\ sends \in [Proc -> 0..MaxSends]
  /\ closed \subseteq Proc /\ refused \subseteq Proc /\ aborted \subseteq Proc
FutType ==
  /\ shmq \in [Job -> Nat] /\ secq \in [Job -> Nat]
  /\ half \in [Job -> [shm : {"run", "ok", "err"}, sec : {"run", "ok", "err"}]]
  /\ fut \in [Job -> {"none", "unpolled", "polled", "ok", "err", "dropped"}]
  /\ first \subseteq Job /\ bad \subseteq Job
  /\ sent \in [Job -> Nat] /\ got \in [Job -> Nat]
EventType == events \in 0..MaxEvents

LEMMA Types == TypeOK <=> SpawnerType /\ CmdType /\ ProcType /\ FutType /\ EventType
  BY DEF TypeOK, SpawnerType, CmdType, ProcType, FutType, EventType, Labels, States, Tables, Owner

LEMMA NewCommand == \A program \in Dir \cup {"rel"} : new_command(program) \in CommandType
<1> TAKE program \in Dir \cup {"rel"}
<1>1. <<>> \in Seq({"arg"})
  BY EmptySeq
<1> QED
  BY <1>1 DEF new_command, CommandType

LEMMA ConsumedType == Consumed \in CommandType
  BY NewCommand DEF Consumed

LEMMA InitType == Init => TypeOK
<1> SUFFICES ASSUME Init PROVE TypeOK
  OBVIOUS
<1>1. SpawnerType
  <2>1. 0 \in Fd /\ {} \in SUBSET Fd
    BY ConstAssumption DEF Fd
  <2>2. NotMoved \in [fd : Fd, held : SUBSET Fd]
    BY <2>1 DEF NotMoved
  <2> QED
    BY <2>1, <2>2, FreeTable DEF Init, SpawnerType, Owner, Labels
<1>2. CmdType
  <2>1. cmd \in [Job -> CommandType]
    BY NewCommand DEF Init
  <2> QED
    BY <2>1, ConsumedType, ConstAssumption DEF Init, CmdType
<1>3. ProcType
  BY FreeTable, ConstAssumption DEF Init, ProcType, States
<1>4. FutType
  BY DEF Init, FutType, Running
<1>5. EventType
  BY ConstAssumption DEF Init, EventType
<1> QED
  BY <1>1, <1>2, <1>3, <1>4, <1>5, Types

LEMMA Jobs ==
  /\ \A j \in Job : j \in Owner /\ j # NoJob /\ Target(j) \in Proc /\ <<j, 2>> \in Proc
  /\ NoJob \in Owner /\ Foreign \in Proc
  /\ \A p \in Proc : JobOf(p) \in Owner
  /\ \A p \in Job \X {1, 2} : p \in Proc /\ JobOf(p) \in Job
  /\ \A j \in Job, p \in Proc : JobOf(p) = j <=> p \in {Target(j), <<j, 2>>}
  /\ \A j \in Job : Target(j) # <<j, 2>> /\ Target(j) # Foreign /\ <<j, 2>> # Foreign
  /\ JobOf(Foreign) = NoJob
<1>1. NoJob \notin Job
  BY ConstAssumption
<1> QED
  BY <1>1 DEF Proc, Target, Owner, Foreign, JobOf

LEMMA EventStep == EventType /\ Event => EventType'
  BY ConstAssumption DEF Event, EventType

\* The command that spawn_impl makes of c.
Planned(c, envs, plan) == [set_exec(c, [get_exec(c) EXCEPT !.envs = envs]) EXCEPT !.plan = plan]

\* set_exec(get_exec) keeps the type of a command, and its arguments.
LEMMA ExecCommand ==
  ASSUME NEW c \in CommandType, NEW envs \in [EnvName -> {"unset", "user", "ours"}],
         NEW plan \in {"dynamic", "static"},
         NEW d, d = Planned(c, envs, plan)
  PROVE  /\ d \in CommandType
         /\ d.program = c.program /\ d.cwd = c.cwd /\ d.args = c.args
         /\ d.envs = envs /\ d.plan = plan
         /\ d.arg0 = IF c.arg0 = "unset" THEN c.program ELSE c.arg0
<1> DEFINE a == IF c.arg0 = "unset" THEN c.program ELSE c.arg0
           X == Dir \cup {"unset", "name", "rel", "arg"}
           s == <<a>> \o c.args
<1>1. a \in Dir \cup {"unset", "name", "rel"} /\ c.args \in Seq({"arg"})
  BY DEF CommandType
<1>2. a \in X /\ c.args \in Seq(X)
  <2>1. Seq({"arg"}) \subseteq Seq(X)
    BY SMT
  <2> QED
    BY <1>1, <2>1
<1>3. Head(s) = a /\ Tail(s) = c.args
  <2> HIDE DEF a, X
  <2>1. <<a>> \in Seq(X) /\ Len(<<a>>) = 1 /\ <<a>>[1] = a
    BY <1>2
  <2>2. /\ s \in Seq(X) /\ Len(s) = 1 + Len(c.args) /\ Len(c.args) \in Nat
        /\ \A i \in 1..Len(s) : s[i] = IF i <= 1 THEN <<a>>[i] ELSE c.args[i - 1]
    BY <1>2, <2>1, ConcatProperties, LenProperties
  <2>3. s # <<>>
    BY <2>2, LenProperties, EmptySeq
  <2>4. Head(s) = a
    BY <2>1, <2>2, <2>3, HeadTailProperties
  <2>5. Tail(s) = c.args
    <3>1. Tail(s) \in Seq(X) /\ Len(Tail(s)) = Len(c.args)
      BY <2>2, <2>3, HeadTailProperties
    <3>2. \A i \in 1..Len(Tail(s)) : Tail(s)[i] = s[i + 1]
      BY <2>2, <2>3, HeadTailProperties
    <3>3. \A i \in 1..Len(Tail(s)) : Tail(s)[i] = c.args[i]
      BY <2>2, <3>1, <3>2
    <3> QED
      BY <1>2, <3>1, <3>3, SeqEqual
  <2> QED
    BY <2>4, <2>5
<1>4. get_exec(c) = [program |-> c.program, args |-> s, envs |-> c.envs]
  BY DEF get_exec
<1> HIDE DEF s, a
<1> DEFINE e == [get_exec(c) EXCEPT !.envs = envs]
<1>5. e = [program |-> c.program, args |-> s, envs |-> envs]
  BY <1>4
<1> HIDE DEF e
<1>6. set_exec(c, e) = [c EXCEPT !.program = c.program, !.arg0 = a, !.args = c.args, !.envs = envs]
  BY <1>3, <1>5 DEF set_exec
<1>7. d = [program |-> c.program, arg0 |-> a, args |-> c.args, cwd |-> c.cwd, envs |-> envs, plan |-> plan]
  <2>1. c = [program |-> c.program, arg0 |-> c.arg0, args |-> c.args, cwd |-> c.cwd,
             envs |-> c.envs, plan |-> c.plan]
    BY DEF CommandType
  <2>2. set_exec(c, e) = [program |-> c.program, arg0 |-> a, args |-> c.args, cwd |-> c.cwd,
                          envs |-> envs, plan |-> c.plan]
    BY <1>6, <2>1
  <2>3. d = [set_exec(c, e) EXCEPT !.plan = plan]
    BY DEF e, Planned
  <2> QED
    BY ONLY <2>2, <2>3
<1>8. c.program \in Dir \cup {"rel"} /\ c.cwd \in Dir \cup {"unset"}
  BY DEF CommandType
<1> QED
  BY <1>1, <1>7, <1>8 DEF CommandType, a

\* Actions by what they leave alone.
SpawnerFrame == UNCHANGED <<fdt, pc, moved, sec>>
CmdFrame     == UNCHANGED <<cmd, asked, calls>>

LEMMA PairTables ==
  ASSUME SpawnerType, NEW j \in Job, NEW k \in Kinds, NEW l \in Kinds, Cardinality(Empty(fdt)) >= 2
  PROVE  LET t == Place(fdt, Open(k, j))
         IN /\ Empty(fdt) # {} /\ Empty(t) # {} /\ t \in Tables /\ Place(t, Open(l, j)) \in Tables
            /\ Lowest(fdt) \in Fd /\ Lowest(t) \in Fd /\ Open(l, j) \in Entry /\ Open(k, j) \in Entry
            /\ Lowest(t) # Lowest(fdt)
<1> DEFINE t == Place(fdt, Open(k, j))
<1>1. Open(k, j) \in Entry /\ Open(l, j) \in Entry /\ Open(k, j).kind # "free"
  BY OpenEntry DEF Kinds
<1>2. Empty(fdt) # {} /\ Empty(t) # {} /\ t \in Tables
  BY <1>1, PlaceAgain, PlaceEntry DEF SpawnerType
<1>3. t[Lowest(fdt)] # Free /\ t[Lowest(t)] = Free /\ Lowest(fdt) \in Fd /\ Lowest(t) \in Fd
  BY <1>1, <1>2, PlaceEntry, LowestFree, FreeEntry DEF SpawnerType
<1> QED
  BY <1>1, <1>2, <1>3, PlaceEntry

LEMMA NextSpawnerType ==
  ASSUME SpawnerType, [Next]_vars
  PROVE  SpawnerType'
<1> USE DEF SpawnerType
<1>1. CASE SpawnerFrame
  BY <1>1 DEF SpawnerFrame
<1>2. CASE SpyInit
  <2>1. Open("memfd", NoJob) \in Entry /\ Empty(fdt) # {}
    BY <1>2, OpenEntry DEF SpyInit, Kinds
  <2>2. fdt' \in Tables /\ Lowest(fdt) \in Fd
    BY <1>2, <2>1, PlaceEntry, LowestFree DEF SpyInit
  <2> QED
    BY <1>2, <2>2, Jobs DEF SpyInit, Labels
<1>14. CASE SpyFails
  <2>1. fdt' \in Tables
    BY <1>14, CloseTable DEF SpyFails
  <2>2. NotMoved \in [fd : Fd, held : SUBSET Fd]
    <3>1. 0 \in Fd
      BY ConstAssumption DEF Fd
    <3> QED
      BY <3>1 DEF NotMoved
  <2> QED
    BY <1>14, <2>1, <2>2, Jobs DEF SpyFails, Labels
<1>3. ASSUME NEW j \in Job, Pair(j) PROVE SpawnerType'
  <2>1. fdt' \in Tables /\ Lowest(fdt) \in Fd
    BY <1>3, PairTables DEF Pair, Kinds
  <2> QED
    BY <1>3, <2>1, Jobs DEF Pair, Labels
<1>4. ASSUME NEW o \in Owner, Move(o) PROVE SpawnerType'
  <2>1. moved[o].fd \in Fd /\ moved[o].held \in SUBSET Fd
    OBVIOUS
  <2>2. CASE ~IsSafe(moved[o].fd)
    <3>1. Cloned(fdt[moved[o].fd]) \in Entry /\ Empty(fdt) # {}
      BY <1>4, <2>1, <2>2 DEF Move, Cloned, Tables
    <3>2. fdt' \in Tables /\ Lowest(fdt) \in Fd
      BY <1>4, <2>2, <3>1, PlaceEntry, LowestFree DEF Move
    <3>3. moved' = [moved EXCEPT ![o] = [fd |-> Lowest(fdt), held |-> @.held \cup {@.fd}]]
          /\ UNCHANGED <<pc, sec>>
      BY <1>4, <2>2 DEF Move
    <3>4. [fd |-> Lowest(fdt), held |-> moved[o].held \cup {moved[o].fd}] \in [fd : Fd, held : SUBSET Fd]
      BY <2>1, <3>2
    <3> QED
      BY <3>2, <3>3, <3>4
  <2>3. CASE IsSafe(moved[o].fd)
    <3>1. fdt' \in Tables
      BY <1>4, <2>3, CloseTable DEF Move
    <3>2. moved' = [moved EXCEPT ![o].held = {}] /\ UNCHANGED sec
      BY <1>4, <2>3 DEF Move
    <3>3. moved' \in [Owner -> [fd : Fd, held : SUBSET Fd]]
      BY <2>1, <3>2
    <3>4. pc' = [pc EXCEPT ![o] = IF o = NoJob THEN "ready" ELSE "supervise"]
      BY <1>4, <2>3 DEF Move
    <3> QED
      BY <3>1, <3>2, <3>3, <3>4 DEF Labels
  <2> QED
    BY <2>2, <2>3
<1>5. ASSUME NEW j \in Job, Supervise(j) PROVE SpawnerType'
  <2>1. fdt' \in Tables /\ Lowest(Place(fdt, Open("secRx", j))) \in Fd
    BY <1>5, PairTables DEF Supervise, Kinds
  <2> QED
    BY <1>5, <2>1, Jobs DEF Supervise, Labels
<1>6. ASSUME NEW j \in Job, Fail(j) PROVE SpawnerType'
  <2>1. fdt' \in Tables
    BY <1>6, CloseTable DEF Fail
  <2> QED
    BY <1>6, <2>1, Jobs DEF Fail, Labels
<1>7. ASSUME fdt' \in Tables, UNCHANGED <<moved, sec>>,
             NEW j \in Job, NEW l \in Labels, pc' = pc \/ pc' = [pc EXCEPT ![j] = l]
      PROVE  SpawnerType'
  BY <1>7, Jobs
<1>8. CASE OtherThread
  <2>1. Open("other", NoJob) \in Entry
    BY OpenEntry DEF Kinds
  <2>2. fdt' \in Tables
    <3>1. CASE Empty(fdt) # {} /\ fdt' = Place(fdt, Open("other", NoJob))
      BY <2>1, <3>1, PlaceEntry
    <3>2. CASE \E f \in Holding(fdt, {"other"}, NoJob) : fdt' = Close(fdt, {f})
      BY <3>2, CloseTable
    <3> QED
      BY <1>8, <3>1, <3>2 DEF OtherThread
  <2> QED
    BY <1>8, <2>2 DEF OtherThread
<1>9. ASSUME NEW j \in Job, Resolve(j) \/ Fork(j) \/ SpawnReturns(j) \/ DropCommand(j) \/ OsFails(j)
      PROVE  SpawnerType'
  <2>1. CASE Fail(j)
    BY <1>6, <2>1
  <2>2. CASE UNCHANGED <<fdt, moved, sec>> /\ (pc' = [pc EXCEPT ![j] = "fork"]
                  \/ pc' = [pc EXCEPT ![j] = "wait"] \/ pc' = [pc EXCEPT ![j] = "drop"])
    BY <1>7, <2>2 DEF Labels
  <2>3. CASE DropCommand(j)
    BY <1>7, <2>3, CloseTable DEF DropCommand, Labels
  <2>4. CASE Resolve(j)
    BY <2>1, <2>2, <2>4 DEF Resolve
  <2>5. CASE Fork(j)
    BY <2>2, <2>5 DEF Fork
  <2>6. CASE SpawnReturns(j)
    BY <2>1, <2>2, <2>6 DEF SpawnReturns
  <2>7. CASE OsFails(j)
    BY <2>1, <2>7 DEF OsFails
  <2> QED
    BY <1>9, <2>3, <2>4, <2>5, <2>6, <2>7
<1>10. ASSUME NEW j \in Job, DropFuture(j) \/ ShmEnds(j) \/ LoopEnds(j) \/ Join(j) PROVE SpawnerType'
  <2>1. fdt' \in Tables /\ UNCHANGED <<pc, moved, sec>>
    BY <1>10, CloseTable DEF DropFuture, ShmEnds, LoopEnds, Join, GiveUp
  <2> QED
    BY <2>1
<1>11. ASSUME NEW j \in Job, ChildExec(j) \/ Build(j) \/ Poll(j) \/ WaitFirst(j) \/ RecvShm(j)
              \/ RecvListener(j) \/ \E p \in Tree(j) : Answer(p)
       PROVE  SpawnerFrame
  BY <1>11 DEF ChildExec, Build, Poll, WaitFirst, RecvShm, RecvListener, Answer, SpawnerFrame, spawnVars
<1>12. ASSUME NEW p, Exit(p) \/ Activity(p) PROVE SpawnerFrame
  BY <1>12 DEF Exit, Activity, ReassignLow, CloseAll, SendShm, Syscall, ForkExec, SpawnerFrame, spawnVars
<1>13. CASE ForeignFork \/ ForeignExec \/ Quiet \/ UNCHANGED vars
  BY <1>1, <1>13 DEF ForeignFork, ForeignExec, Quiet, SpawnerFrame, spawnVars, vars
<1> QED
  BY <1>1, <1>2, <1>3, <1>4, <1>5, <1>8, <1>9, <1>10, <1>11, <1>12, <1>13, <1>14, Jobs
     DEF Next, Spawning, Future

LEMMA NextCmdType ==
  ASSUME CmdType, [Next]_vars
  PROVE  CmdType'
<1> USE DEF CmdType
<1>1. CASE CmdFrame
  BY <1>1 DEF CmdFrame
<1>2. ASSUME NEW j \in Job, Pair(j) PROVE CmdType'
  BY <1>2 DEF Pair
<1>3. ASSUME NEW j \in Job, Fail(j) \/ DropCommand(j) PROVE CmdType'
  BY <1>3, ConsumedType DEF Fail, DropCommand
<1>4. ASSUME NEW j \in Job, Build(j) PROVE CmdType'
  <2> DEFINE c == cmd[j]
  <2>1. calls' \in 0..MaxCalls /\ UNCHANGED asked /\ c \in CommandType
    BY <1>4, ConstAssumption DEF Build
  <2>2. ASSUME NEW d \in CommandType, cmd' = [cmd EXCEPT ![j] = d] PROVE CmdType'
    BY <2>1, <2>2
  <2>a. /\ c.program \in Dir \cup {"rel"} /\ c.arg0 \in Dir \cup {"unset", "name", "rel"}
        /\ c.args \in Seq({"arg"}) /\ c.cwd \in Dir \cup {"unset"}
        /\ c.envs \in [EnvName -> {"unset", "user", "ours"}] /\ c.plan \in {"none", "dynamic", "static"}
        /\ c = [program |-> c.program, arg0 |-> c.arg0, args |-> c.args, cwd |-> c.cwd,
                envs |-> c.envs, plan |-> c.plan]
    BY <2>1 DEF CommandType
  <2> HIDE DEF c
  <2>3. CASE cmd' = [cmd EXCEPT ![j].args = Append(c.args, "arg")]
    <3>1. Append(c.args, "arg") \in Seq({"arg"})
      BY <2>a, AppendProperties
    <3>2. [c EXCEPT !.args = Append(c.args, "arg")] \in CommandType
      BY <2>1, <2>a, <3>1 DEF CommandType
    <3> QED
      BY <2>2, <2>3, <3>2 DEF c
  <2>4. CASE cmd' = [cmd EXCEPT ![j].arg0 = "name"]
    <3>1. [c EXCEPT !.arg0 = "name"] \in CommandType
      BY <2>1 DEF CommandType
    <3> QED
      BY <2>2, <2>4, <3>1 DEF c
  <2>5. ASSUME NEW d \in Dir, cmd' = [cmd EXCEPT ![j].cwd = d] PROVE CmdType'
    <3>1. [c EXCEPT !.cwd = d] \in CommandType
      BY <2>1 DEF CommandType
    <3> QED
      BY <2>2, <2>5, <3>1 DEF c
  <2>6. ASSUME NEW n \in EnvName, NEW v \in {"unset", "user"}, cmd' = [cmd EXCEPT ![j].envs[n] = v]
        PROVE  CmdType'
    <3>1. [c.envs EXCEPT ![n] = v] \in [EnvName -> {"unset", "user", "ours"}]
      BY <2>a
    <3>2. [c EXCEPT !.envs = [c.envs EXCEPT ![n] = v]] \in CommandType
      BY <2>1, <2>a, <3>1 DEF CommandType
    <3>3. cmd' = [cmd EXCEPT ![j] = [c EXCEPT !.envs = [c.envs EXCEPT ![n] = v]]]
      BY <2>6 DEF c
    <3> QED
      BY <2>2, <3>2, <3>3
  <2>7. CASE cmd' = [cmd EXCEPT ![j].program = Lookup(c.program, DirOf(c))]
    <3>1. Lookup(c.program, DirOf(c)) \in Dir
      BY <2>a DEF Lookup, DirOf, Dir
    <3>2. [c EXCEPT !.program = Lookup(c.program, DirOf(c))] \in CommandType
      BY <2>1, <3>1 DEF CommandType
    <3> QED
      BY <2>2, <2>7, <3>2 DEF c
  <2> QED
    BY <1>4, <2>3, <2>4, <2>5, <2>6, <2>7 DEF Build, c
<1>5. ASSUME NEW j \in Job, Resolve(j) PROVE CmdType'
  <2> DEFINE c == cmd[j]
             kind == Kind[Lookup(get_exec(c).program, "here")]
             envs == TracedEnv(kind, get_exec(c).envs)
             d == Planned(c, envs, kind)
  <2>1. CASE Fail(j)
    BY <1>3, <2>1
  <2>2. CASE kind # "missing" /\ cmd' = [cmd EXCEPT ![j] = d] /\ UNCHANGED <<asked, calls>>
    <3>1. c \in CommandType
      OBVIOUS
    <3>2. get_exec(c).program = c.program /\ get_exec(c).envs = c.envs
      BY DEF get_exec
    <3>3. Lookup(c.program, "here") \in Dir /\ c.envs \in [EnvName -> {"unset", "user", "ours"}]
      BY <3>1 DEF CommandType, Lookup, Dir
    <3>4. kind \in {"dynamic", "static"}
      BY <2>2, <3>2, <3>3, ConstAssumption
    <3>5. envs \in [EnvName -> {"unset", "user", "ours"}]
      BY <3>2, <3>3 DEF TracedEnv
    <3> HIDE DEF c, kind, envs
    <3>6. d = Planned(c, envs, kind)
      OBVIOUS
    <3> HIDE DEF d
    <3>7. d \in CommandType
      BY <3>1, <3>4, <3>5, <3>6, ExecCommand
    <3> QED
      BY <2>2, <3>7
  <2> QED
    BY <1>5, <2>1, <2>2 DEF Resolve, Planned
<1>6. ASSUME NEW j \in Job, SpawnReturns(j) \/ OsFails(j) PROVE CmdType'
  BY <1>1, <1>3, <1>6 DEF SpawnReturns, OsFails, CmdFrame
<1>7. CASE SpyInit \/ SpyFails \/ OtherThread \/ ForeignFork \/ ForeignExec \/ Quiet \/ UNCHANGED vars
  BY <1>1, <1>7 DEF SpyInit, SpyFails, OtherThread, ForeignFork, ForeignExec, Quiet, CmdFrame, spawnVars, vars
<1>8. ASSUME NEW o, Move(o) PROVE CmdFrame
  BY <1>8 DEF Move, CmdFrame
<1>9. ASSUME NEW j \in Job, Supervise(j) \/ Fork(j) \/ ChildExec(j) PROVE CmdFrame
  BY <1>9 DEF Supervise, Fork, ChildExec, CmdFrame, spawnVars
<1>10. ASSUME NEW j \in Job, Poll(j) \/ WaitFirst(j) \/ DropFuture(j) \/ Future(j) PROVE CmdFrame
  BY <1>10 DEF Poll, WaitFirst, DropFuture, Future, RecvShm, ShmEnds, RecvListener, LoopEnds, Join,
               GiveUp, Answer, CmdFrame, spawnVars
<1>11. ASSUME NEW p, Exit(p) \/ Activity(p) PROVE CmdFrame
  BY <1>11 DEF Exit, Activity, ReassignLow, CloseAll, SendShm, Syscall, ForkExec, CmdFrame, spawnVars
<1> QED
  BY <1>1, <1>2, <1>3, <1>4, <1>5, <1>6, <1>7, <1>8, <1>9, <1>10, <1>11 DEF Next, Spawning

LEMMA NextProcType ==
  ASSUME SpawnerType, ProcType, FutType, [Next]_vars
  PROVE  ProcType'
<1> USE DEF ProcType
<1>1. CASE UNCHANGED procVars
  BY <1>1 DEF procVars
<1>2. ASSUME NEW p \in Proc, NEW s \in States, NEW t \in Tables, NEW h \in {"none", "preload", "filter"},
             st' = st \/ st' = [st EXCEPT ![p] = s], tab' = tab \/ tab' = [tab EXCEPT ![p] = t],
             how' = how \/ how' = [how EXCEPT ![p] = h],
             UNCHANGED <<sends, closed, refused, aborted>>
      PROVE  ProcType'
  BY <1>2
<1>3. CASE ForeignFork
  BY <1>2, <1>3, Jobs DEF ForeignFork, States, SpawnerType
<1>4. CASE ForeignExec
  <2>1. tab[Foreign] \in Tables
    BY Jobs
  <2>2. AfterExec(tab[Foreign], {}) \in Tables
    BY <2>1, AfterExecTable
  <2> QED
    BY <1>2, <1>4, <2>2, Jobs DEF ForeignExec, States
<1>5. ASSUME NEW j \in Job, Fork(j) PROVE ProcType'
  BY <1>2, <1>5, Jobs DEF Fork, States, SpawnerType
<1>6. ASSUME NEW j \in Job, ChildExec(j) PROVE ProcType'
  <2>1. tab[Target(j)] \in Tables /\ Target(j) \in Proc
    BY Jobs
  <2>2. AfterExec(tab[Target(j)], Inherited(j)) \in Tables
    BY <2>1, AfterExecTable
  <2>3. UNCHANGED <<sends, closed, refused, aborted>>
    BY <1>6 DEF ChildExec
  <2>4. CASE UNCHANGED how /\ st' = [st EXCEPT ![Target(j)] = "failed"]
             /\ tab' = [tab EXCEPT ![Target(j)] = [f \in Fd |-> Free]]
    BY <1>2, <2>1, <2>3, <2>4, FreeTable DEF States
  <2>5. CASE /\ st' = [st EXCEPT ![Target(j)] = "run"]
             /\ tab' = [tab EXCEPT ![Target(j)] = AfterExec(tab[Target(j)], Inherited(j))]
             /\ \E h \in {"none", "preload", "filter"} : how' = [how EXCEPT ![Target(j)] = h]
    BY <1>2, <2>1, <2>2, <2>3, <2>5 DEF States
  <2> QED
    BY <1>6, <2>4, <2>5 DEF ChildExec
<1>7. ASSUME NEW p \in Proc, Exit(p) PROVE ProcType'
  BY <1>2, <1>7, FreeTable DEF Exit, Ends, States
<1>8. ASSUME NEW p \in Job \X {1, 2}, ReassignLow(p) PROVE ProcType'
  <2>1. p \in Proc /\ tab[p] \in Tables
    BY Jobs
  <2> DEFINE e == [Open("other", NoJob) EXCEPT !.cloexec = FALSE]
             t == [f \in Fd |-> IF f < SafeFd THEN e ELSE tab[p][f]]
  <2>2. e \in Entry
    BY DEF Open, Entry
  <2> HIDE DEF e
  <2>3. t \in Tables
    BY <2>1, <2>2 DEF Tables
  <2>4. tab' = [tab EXCEPT ![p] = t] /\ UNCHANGED <<st, how, sends, closed, refused, aborted>>
    BY <1>8 DEF ReassignLow, e
  <2> HIDE DEF t
  <2> QED
    BY <2>1, <2>3, <2>4
<1>9. ASSUME NEW p \in Job \X {1, 2}, CloseAll(p) PROVE ProcType'
  BY <1>9, Jobs, FreeTable DEF CloseAll
<1>10. ASSUME NEW p \in Job \X {1, 2}, SendShm(p) PROVE ProcType'
  <2>1. p \in Proc /\ sends' \in [Proc -> 0..MaxSends] /\ UNCHANGED <<how, closed, refused>>
    BY <1>10, Jobs, ConstAssumption DEF SendShm
  <2>2. CASE UNCHANGED <<st, tab, aborted>>
    BY <2>1, <2>2
  <2>3. CASE Ends(p) /\ aborted' = aborted \cup {p}
    BY <2>1, <2>3, FreeTable DEF Ends, States
  <2> QED
    BY <1>10, <2>2, <2>3 DEF SendShm
<1>11. ASSUME NEW p \in Job \X {1, 2}, Syscall(p) PROVE ProcType'
  <2>1. p \in Proc /\ sends' \in [Proc -> 0..MaxSends] /\ UNCHANGED <<tab, how, closed, aborted>>
    BY <1>11, Jobs, ConstAssumption DEF Syscall
  <2>2. \/ st' = [st EXCEPT ![p] = "stopped"] /\ UNCHANGED refused
        \/ refused' = refused \cup {p} /\ UNCHANGED st
    BY <1>11 DEF Syscall
  <2> QED
    BY <2>1, <2>2 DEF States
<1>12. ASSUME NEW p \in Job \X {1, 2}, NEW kind, ForkExec(p, kind) PROVE ProcType'
  <2> DEFINE q == <<JobOf(p), 2>>
  <2>1. q \in Proc /\ p \in Proc /\ tab[p] \in Tables
    BY Jobs
  <2>2. closed' \subseteq Proc /\ UNCHANGED <<sends, refused, aborted>>
    BY <1>12, <2>1 DEF ForkExec
  <2> HIDE DEF q
  <2>3. CASE /\ st' = [st EXCEPT ![q] = "run"] /\ tab' = [tab EXCEPT ![q] = tab[p]]
             /\ \E h \in {"none", "preload", "filter"} : how' = [how EXCEPT ![q] = h]
    BY <2>1, <2>2, <2>3 DEF States
  <2>4. CASE st' = [st EXCEPT ![q] = "exited"] /\ UNCHANGED <<tab, how>>
    BY <2>1, <2>2, <2>4 DEF States
  <2>5. how[p] \in {"none", "preload", "filter"}
    BY <2>1
  <2> QED
    BY <1>12, <2>3, <2>4, <2>5 DEF ForkExec, q
<1>13. ASSUME NEW j \in Job, DropFuture(j) \/ Join(j) PROVE ProcType'
  BY <1>13 DEF DropFuture, Join, GiveUp, StoppedIn, Tree, States
<1>14. ASSUME NEW j \in Job, NEW p \in Tree(j), Answer(p) PROVE ProcType'
  <2>1. p \in Proc /\ UNCHANGED <<tab, how, sends, closed, aborted>> /\ JobOf(p) = j
    BY <1>14 DEF Answer, Tree
  <2>2. StoppedIn(j) \subseteq Proc
    BY DEF StoppedIn, Tree
  <2>3. \/ st' = [st EXCEPT ![p] = "run"] /\ UNCHANGED refused
        \/ /\ st' = [q \in Proc |-> IF q \in StoppedIn(j) THEN "run" ELSE st[q]]
           /\ refused' = refused \cup (StoppedIn(j) \ {p})
    BY <1>14, <2>1 DEF Answer
  <2> QED
    BY <2>1, <2>2, <2>3 DEF States
<1>15. CASE SpyInit \/ SpyFails \/ Move(NoJob) \/ OtherThread \/ Quiet \/ UNCHANGED vars
  BY <1>1, <1>15 DEF SpyInit, SpyFails, Move, OtherThread, Quiet, vars
<1>16. ASSUME NEW j \in Job, Build(j) \/ Pair(j) \/ Move(j) \/ Supervise(j) \/ Resolve(j)
              \/ SpawnReturns(j) \/ DropCommand(j) \/ OsFails(j)
       PROVE  UNCHANGED procVars
  BY <1>16 DEF Build, Pair, Move, Supervise, Resolve, SpawnReturns, DropCommand, OsFails
<1>17. ASSUME NEW j \in Job, Poll(j) \/ WaitFirst(j) \/ RecvShm(j) \/ ShmEnds(j)
              \/ RecvListener(j) \/ LoopEnds(j)
       PROVE  UNCHANGED procVars
  BY <1>17 DEF Poll, WaitFirst, RecvShm, ShmEnds, RecvListener, LoopEnds
<1> HIDE DEF ProcType
<1> QED
  BY <1>1, <1>3, <1>4, <1>5, <1>6, <1>7, <1>8, <1>9, <1>10, <1>11, <1>12, <1>13, <1>14, <1>15,
     <1>16, <1>17 DEF Next, Spawning, Future, Activity

LEMMA NextFutType ==
  ASSUME FutType, [Next]_vars
  PROVE  FutType'
<1> USE DEF FutType
<1>1. CASE UNCHANGED futVars
  BY <1>1 DEF futVars
<1>2. ASSUME NEW j \in Job, ChildExec(j) PROVE FutType'
  <2>1. secq' \in [Job -> Nat]
    BY <1>2 DEF ChildExec
  <2> QED
    BY <1>2, <2>1 DEF ChildExec
<1>3. ASSUME NEW j \in Job, DropCommand(j) \/ Poll(j) PROVE FutType'
  BY <1>3 DEF DropCommand, Poll
<1>4. ASSUME NEW j \in Job, WaitFirst(j) \/ RecvShm(j) \/ RecvListener(j) PROVE FutType'
  <2>1. shmq[j] \in Nat /\ secq[j] \in Nat /\ got[j] \in Nat
    OBVIOUS
  <2>2. CASE WaitFirst(j)
    BY <2>2 DEF WaitFirst
  <2>3. CASE RecvShm(j)
    <3>1. shmq[j] - 1 \in Nat /\ got[j] + 1 \in Nat
      BY <2>1, <2>3 DEF RecvShm
    <3> QED
      BY <2>3, <3>1 DEF RecvShm
  <2>4. CASE RecvListener(j)
    <3>1. secq[j] - 1 \in Nat
      BY <2>1, <2>4 DEF RecvListener
    <3> QED
      BY <2>4, <3>1 DEF RecvListener
  <2> QED
    BY <1>4, <2>2, <2>3, <2>4
<1>5. ASSUME NEW j \in Job, DropFuture(j) \/ Join(j) PROVE FutType'
  <2>1. PICK r \in {"ok", "err", "dropped"} : GiveUp(j, r)
    BY <1>5 DEF DropFuture, Join, JoinResult
  <2> QED
    BY <2>1 DEF GiveUp
<1>6. ASSUME NEW j \in Job, ShmEnds(j) \/ LoopEnds(j) PROVE FutType'
  <2>1. UNCHANGED <<shmq, secq, fut, first, bad, sent, got>>
    BY <1>6 DEF ShmEnds, LoopEnds
  <2>2. PICK r \in {"ok", "err"} :
          half' = [half EXCEPT ![j].shm = r] \/ half' = [half EXCEPT ![j].sec = r]
    BY <1>6 DEF ShmEnds, LoopEnds
  <2>3. /\ [half[j] EXCEPT !.shm = r] \in [shm : {"run", "ok", "err"}, sec : {"run", "ok", "err"}]
        /\ [half[j] EXCEPT !.sec = r] \in [shm : {"run", "ok", "err"}, sec : {"run", "ok", "err"}]
    OBVIOUS
  <2>4. half' \in [Job -> [shm : {"run", "ok", "err"}, sec : {"run", "ok", "err"}]]
    BY <2>2, <2>3
  <2> QED
    BY <2>1, <2>4
<1>7. ASSUME NEW j \in Job, NEW p \in Tree(j), Answer(p) PROVE FutType'
  BY <1>7 DEF Answer, Tree
<1>8. ASSUME NEW p \in Job \X {1, 2}, SendShm(p) PROVE FutType'
  <2>1. JobOf(p) \in Job
    BY Jobs
  <2> QED
    BY <1>8, <2>1 DEF SendShm
<1>9. ASSUME NEW p \in Job \X {1, 2}, NEW kind, ForkExec(p, kind) PROVE FutType'
  <2>1. JobOf(p) \in Job
    BY Jobs
  <2>2. secq' \in [Job -> Nat]
    BY <1>9, <2>1 DEF ForkExec
  <2> QED
    BY <1>9, <2>2 DEF ForkExec
<1>10. CASE SpyInit \/ SpyFails \/ Move(NoJob) \/ OtherThread \/ ForeignFork \/ ForeignExec \/ Quiet \/ UNCHANGED vars
  BY <1>1, <1>10 DEF SpyInit, SpyFails, Move, OtherThread, ForeignFork, ForeignExec, Quiet, vars
<1>11. ASSUME NEW j \in Job, Build(j) \/ Pair(j) \/ Move(j) \/ Supervise(j) \/ Resolve(j) \/ Fork(j)
              \/ SpawnReturns(j) \/ OsFails(j)
       PROVE  UNCHANGED futVars
  BY <1>11 DEF Build, Pair, Move, Supervise, Resolve, Fork, SpawnReturns, OsFails
<1>12. ASSUME NEW p, Exit(p) \/ ReassignLow(p) \/ CloseAll(p) \/ Syscall(p) PROVE UNCHANGED futVars
  BY <1>12 DEF Exit, ReassignLow, CloseAll, Syscall
<1> HIDE DEF FutType
<1> QED
  BY <1>1, <1>2, <1>3, <1>4, <1>5, <1>6, <1>7, <1>8, <1>9, <1>10, <1>11, <1>12
     DEF Next, Spawning, Future, Activity

LEMMA NextEventType ==
  ASSUME EventType, [Next]_vars
  PROVE  EventType'
<1>1. ASSUME events' = events \/ Event PROVE EventType'
  BY <1>1, EventStep DEF EventType
<1>2. ASSUME NEW j \in Job, ChildExec(j) PROVE EventType'
  <2>1. CASE events' = events
    BY <1>1, <2>1
  <2>2. CASE events < MaxEvents /\ events' = events + 1
    BY <1>1, <2>2 DEF Event
  <2> QED
    BY <1>2, <2>1, <2>2 DEF ChildExec
<1>3. CASE SpyInit \/ SpyFails \/ Move(NoJob) \/ OtherThread \/ ForeignFork \/ ForeignExec \/ Quiet \/ UNCHANGED vars
  BY <1>1, <1>3 DEF SpyInit, SpyFails, Move, OtherThread, ForeignFork, ForeignExec, Quiet, vars
<1>4. ASSUME NEW j \in Job, Build(j) \/ Pair(j) \/ Move(j) \/ Supervise(j) \/ Resolve(j) \/ Fork(j)
              \/ SpawnReturns(j) \/ OsFails(j) \/ DropCommand(j)
      PROVE  events' = events \/ Event
  BY <1>4 DEF Build, Pair, Move, Supervise, Resolve, Fork, SpawnReturns, OsFails, DropCommand
<1>5. ASSUME NEW j \in Job, Poll(j) \/ WaitFirst(j) \/ DropFuture(j) \/ Future(j)
      PROVE  events' = events \/ Event
  BY <1>5 DEF Poll, WaitFirst, DropFuture, Future, RecvShm, ShmEnds, RecvListener, LoopEnds, Join, Answer
<1>6. ASSUME NEW p, Exit(p) \/ Activity(p) PROVE events' = events \/ Event
  BY <1>6 DEF Exit, Activity, ReassignLow, CloseAll, SendShm, Syscall, ForkExec
<1> QED
  BY <1>1, <1>2, <1>3, <1>4, <1>5, <1>6 DEF Next, Spawning

LEMMA NextType == TypeOK /\ [Next]_vars => TypeOK'
<1> SUFFICES ASSUME TypeOK, [Next]_vars PROVE TypeOK'
  OBVIOUS
<1>1. SpawnerType' /\ CmdType' /\ ProcType' /\ FutType' /\ EventType'
  BY Types, NextSpawnerType, NextCmdType, NextProcType, NextFutType, NextEventType
<1> QED
  BY <1>1 DEF TypeOK, SpawnerType, CmdType, ProcType, FutType, EventType, Labels, States, Tables, Owner

-------------------------------------------------------------------------------
(* The descriptors of the spawner *)

LEMMA InitSpawner == Init => SpawnerInv
<1> SUFFICES ASSUME Init PROVE SpawnerInv
  OBVIOUS
<1>1. \A f \in Fd : fdt[f].kind = "free"
  BY FreeEntry DEF Init
<1>2. \A k \in Kinds, j \in Owner : Holds(k, j) = {}
  BY <1>1 DEF Holds, Holding, Kinds
<1>3. Inheritable(fdt) = {}
  BY <1>1 DEF Inheritable
<1>4. pc[NoJob] = "memfd" /\ \A j \in Job : pc[j] = "build" /\ fut[j] = "none" /\ half[j] = Running
  BY Jobs DEF Init, Owner
<1>5. LibraryInv
  BY <1>2, <1>4, Jobs DEF LibraryInv, Kinds
<1>6. ASSUME NEW j \in Job PROVE SenderInv(j) /\ ReceiverInv(j)
  <2>1. Holds("shmTx", j) = {} /\ Holds("secTx", j) = {} /\ Holds("shmRx", j) = {} /\ Holds("secRx", j) = {}
    BY <1>2, Jobs DEF Kinds
  <2> QED
    BY <1>4, <2>1 DEF SenderInv, ReceiverInv, Moving, Working
<1> QED
  BY <1>3, <1>5, <1>6 DEF SpawnerInv

LEMMA PlaceClosed ==
  ASSUME NEW t \in Tables, NEW e \in Entry, Empty(t) # {}, Inheritable(t) = {}, e.cloexec = TRUE
  PROVE  Inheritable(Place(t, e)) = {}
<1>1. \A f \in Fd : Place(t, e)[f] = IF f = Lowest(t) THEN e ELSE t[f]
  BY PlaceEntry
<1>2. \A f \in Fd : t[f].kind = "free" \/ t[f].cloexec = TRUE
  BY DEF Inheritable
<1>3. \A f \in Fd : Place(t, e)[f].kind = "free" \/ Place(t, e)[f].cloexec = TRUE
  BY <1>1, <1>2
<1> QED
  BY <1>3 DEF Inheritable

LEMMA CloseClosed ==
  ASSUME NEW t \in Tables, NEW S, Inheritable(t) = {}
  PROVE  Inheritable(Close(t, S)) = {}
<1>1. \A f \in Fd : Close(t, S)[f] = IF f \in S THEN Free ELSE t[f]
  BY CloseTable
<1>2. \A f \in Fd : t[f].kind = "free" \/ t[f].cloexec = TRUE
  BY DEF Inheritable
<1>3. \A f \in Fd : Close(t, S)[f].kind = "free" \/ Close(t, S)[f].cloexec = TRUE
  BY <1>1, <1>2, FreeEntry
<1> QED
  BY <1>3 DEF Inheritable

\* A step of job j that leaves the descriptors of the others alone.
LEMMA OthersKept ==
  ASSUME SpawnerInv, NEW j \in Job,
         \A i \in Job \ {j} :
           /\ pc'[i] = pc[i] /\ moved'[i] = moved[i] /\ sec'[i] = sec[i]
           /\ fut'[i] = fut[i] /\ half'[i] = half[i]
           /\ \A k \in Kinds : Holding(fdt', {k}, i) = Holds(k, i),
         pc'[NoJob] = pc[NoJob], moved'[NoJob] = moved[NoJob],
         Holding(fdt', {"memfd"}, NoJob) = Holds("memfd", NoJob),
         Inheritable(fdt') = {},
         SenderInv(j)', ReceiverInv(j)'
  PROVE  SpawnerInv'
<1>1. LibraryInv'
  BY DEF SpawnerInv, LibraryInv, MovedInv, Holds
<1>2. ASSUME NEW i \in Job \ {j} PROVE SenderInv(i)' /\ ReceiverInv(i)'
  <2>1. /\ Holding(fdt', {"shmTx"}, i) = Holds("shmTx", i) /\ Holding(fdt', {"secTx"}, i) = Holds("secTx", i)
        /\ Holding(fdt', {"shmRx"}, i) = Holds("shmRx", i) /\ Holding(fdt', {"secRx"}, i) = Holds("secRx", i)
    BY DEF Kinds
  <2>2. SenderInv(i) /\ ReceiverInv(i)
    BY DEF SpawnerInv
  <2>3. SenderInv(i)'
    BY <2>1, <2>2 DEF SenderInv, MovedInv, Holds
  <2>4. ReceiverInv(i)'
    BY <2>1, <2>2 DEF ReceiverInv, Holds
  <2> QED
    BY <2>3, <2>4
<1> QED
  BY <1>1, <1>2 DEF SpawnerInv

\* A step that opens and closes nothing of a job or the library, and is none of theirs.
LEMMA SpawnerKept ==
  ASSUME SpawnerInv, UNCHANGED <<pc, moved, sec, fut, half>>, Inheritable(fdt') = {},
         \A k \in Kinds \ {"other"}, i \in Owner : Holding(fdt', {k}, i) = Holds(k, i)
  PROVE  SpawnerInv'
<1>1. LibraryInv'
  <2>1. Holding(fdt', {"memfd"}, NoJob) = Holds("memfd", NoJob)
    BY Jobs DEF Kinds
  <2> QED
    BY <2>1 DEF SpawnerInv, LibraryInv, MovedInv, Holds
<1>2. ASSUME NEW i \in Job PROVE SenderInv(i)' /\ ReceiverInv(i)'
  <2>1. /\ Holding(fdt', {"shmTx"}, i) = Holds("shmTx", i) /\ Holding(fdt', {"secTx"}, i) = Holds("secTx", i)
        /\ Holding(fdt', {"shmRx"}, i) = Holds("shmRx", i) /\ Holding(fdt', {"secRx"}, i) = Holds("secRx", i)
    BY Jobs DEF Kinds
  <2>2. SenderInv(i) /\ ReceiverInv(i)
    BY DEF SpawnerInv
  <2>3. SenderInv(i)'
    BY <2>1, <2>2 DEF SenderInv, MovedInv, Holds
  <2>4. ReceiverInv(i)'
    BY <2>1, <2>2 DEF ReceiverInv, Holds
  <2> QED
    BY <2>3, <2>4
<1> QED
  BY <1>1, <1>2 DEF SpawnerInv

LEMMA SpawnerSame ==
  ASSUME SpawnerInv, UNCHANGED <<fdt, pc, moved, sec, fut, half>>
  PROVE  SpawnerInv'
  BY DEF SpawnerInv, LibraryInv, MovedInv, SenderInv, ReceiverInv, Holds

\* What is held by another job is disjoint from what job j holds.
LEMMA HoldingDisjoint ==
  ASSUME NEW j, NEW i, i # j, NEW k, NEW K
  PROVE  Holding(fdt, {k}, i) \cap Holding(fdt, K, j) = {}
  BY DEF Holding

LEMMA PairHolding ==
  ASSUME TypeOK, NEW j \in Job, NEW k1 \in Kinds, NEW k2 \in Kinds, k1 # k2,
         Inheritable(fdt) = {}, Cardinality(Empty(fdt)) >= 2,
         fdt' = Place(Place(fdt, Open(k1, j)), Open(k2, j))
  PROVE  /\ Inheritable(fdt') = {}
         /\ Holding(fdt', {k1}, j) = Holds(k1, j) \cup {Lowest(fdt)}
         /\ Holding(fdt', {k2}, j) = Holds(k2, j) \cup {Lowest(Place(fdt, Open(k1, j)))}
         /\ \A k \in Kinds, i \in Owner :
              (k # k1 /\ k # k2) \/ i # j => Holding(fdt', {k}, i) = Holds(k, i)
<1> DEFINE e == Open(k1, j)
           t == Place(fdt, e)
           r == Open(k2, j)
<1>1. SpawnerType /\ fdt \in Tables
  BY Types DEF SpawnerType
<1>2. /\ Empty(fdt) # {} /\ Empty(t) # {} /\ t \in Tables
      /\ Lowest(fdt) \in Fd /\ Lowest(t) \in Fd /\ e \in Entry /\ r \in Entry
  BY <1>1, PairTables
<1>3. /\ e.kind = k1 /\ e.job = j /\ e.cloexec = TRUE
      /\ r.kind = k2 /\ r.job = j /\ r.cloexec = TRUE
  BY DEF Open
<1>4. t = Place(fdt, e) /\ fdt' = Place(t, r)
  OBVIOUS
<1> HIDE DEF e, r, t
<1>5. ASSUME NEW k \in Kinds, NEW i \in Owner
      PROVE  Holding(fdt', {k}, i) =
               IF k = k1 /\ i = j THEN Holds(k, i) \cup {Lowest(fdt)}
               ELSE IF k = k2 /\ i = j THEN Holds(k, i) \cup {Lowest(t)} ELSE Holds(k, i)
  <2>1. Holding(t, {k}, i) = Holding(fdt, {k}, i) \cup {f \in {Lowest(fdt)} : e.kind = k /\ e.job = i}
    <3>1. t = Place(fdt, e) /\ fdt \in Tables /\ e \in Entry /\ Empty(fdt) # {}
      BY <1>1, <1>2, <1>4
    <3> QED
      BY <3>1, PlaceHolding
  <2>2. Holding(fdt', {k}, i) = Holding(t, {k}, i) \cup {f \in {Lowest(t)} : r.kind = k /\ r.job = i}
    <3>1. fdt' = Place(t, r) /\ t \in Tables /\ r \in Entry /\ Empty(t) # {}
      BY <1>2, <1>4
    <3> QED
      BY <3>1, PlaceHolding
  <2> QED
    BY <1>3, <2>1, <2>2 DEF Holds
<1>6. Inheritable(fdt') = {}
  <2>1. Inheritable(t) = {}
    BY <1>1, <1>2, <1>3, <1>4, PlaceClosed
  <2> QED
    BY <1>2, <1>3, <1>4, <2>1, PlaceClosed
<1>7. Lowest(t) = Lowest(Place(fdt, Open(k1, j))) /\ j \in Owner
  BY Jobs DEF t, e
<1> QED
  BY <1>5, <1>6, <1>7

LEMMA PairSpawner ==
  ASSUME TypeOK, SpawnerInv, NEW j \in Job, Pair(j)
  PROVE  SpawnerInv'
<1>1. /\ SpawnerType /\ j \in Owner /\ j # NoJob
      /\ pc[j] = "build" /\ pc[NoJob] = "ready" /\ Cardinality(Empty(fdt)) >= 2
  BY Types, Jobs DEF Pair
<1>2. UNCHANGED <<sec, fut, half>> /\ fdt' = Place(Place(fdt, Open("shmTx", j)), Open("shmRx", j))
  BY DEF Pair, futVars
<1>3. /\ \A o \in Owner : moved'[o] = IF o = j THEN [fd |-> Lowest(fdt), held |-> {}] ELSE moved[o]
      /\ \A o \in Owner : pc'[o] = IF o = j THEN "move" ELSE pc[o]
  BY <1>1 DEF Pair, SpawnerType
<1> DEFINE x == Lowest(Place(fdt, Open("shmTx", j)))
<1>4. /\ Inheritable(fdt') = {}
      /\ Holding(fdt', {"shmTx"}, j) = Holds("shmTx", j) \cup {Lowest(fdt)}
      /\ Holding(fdt', {"shmRx"}, j) = Holds("shmRx", j) \cup {x}
      /\ \A k \in Kinds, i \in Owner :
           (k # "shmTx" /\ k # "shmRx") \/ i # j => Holding(fdt', {k}, i) = Holds(k, i)
  <2>1. /\ Inheritable(fdt) = {} /\ "shmTx" \in Kinds /\ "shmRx" \in Kinds
        /\ Cardinality(Empty(fdt)) >= 2
    BY <1>1 DEF SpawnerInv, Kinds
  <2>2. fdt' = Place(Place(fdt, Open("shmTx", j)), Open("shmRx", j)) /\ "shmTx" # "shmRx"
    BY <1>2
  <2>3. /\ Inheritable(fdt') = {}
        /\ Holding(fdt', {"shmTx"}, j) = Holds("shmTx", j) \cup {Lowest(fdt)}
        /\ Holding(fdt', {"shmRx"}, j) = Holds("shmRx", j) \cup {x}
    BY <2>1, <2>2, PairHolding
  <2>4. ASSUME NEW k \in Kinds, NEW i \in Owner, (k # "shmTx" /\ k # "shmRx") \/ i # j
        PROVE  Holding(fdt', {k}, i) = Holds(k, i)
    BY <2>1, <2>2, <2>4, PairHolding
  <2> QED
    BY <2>3, <2>4
<1> HIDE DEF x
<1>5. /\ Holding(fdt', {"shmTx"}, j) = {Lowest(fdt)} /\ Holding(fdt', {"secTx"}, j) = {}
      /\ Holding(fdt', {"shmRx"}, j) # {} /\ Holding(fdt', {"secRx"}, j) = {}
  <2>1. Holds("shmTx", j) = {} /\ Holds("secTx", j) = {} /\ Holds("shmRx", j) = {} /\ Holds("secRx", j) = {}
    BY <1>1 DEF SpawnerInv, SenderInv, ReceiverInv, Moving, Working
  <2> QED
    BY <1>1, <1>4, <2>1 DEF Kinds
<1>6. SenderInv(j)'
  BY <1>1, <1>3, <1>5, Jobs DEF SenderInv, MovedInv, Moving, Working, Holds
<1>7. ReceiverInv(j)'
  BY <1>1, <1>2, <1>3, <1>5 DEF ReceiverInv, SpawnerInv, Holds, Running, Pending
<1> QED
  BY <1>1, <1>2, <1>3, <1>4, <1>6, <1>7, OthersKept, Jobs DEF Kinds

LEMMA SuperviseSpawner ==
  ASSUME TypeOK, SpawnerInv, NEW j \in Job, Supervise(j)
  PROVE  SpawnerInv'
<1>1. /\ SpawnerType /\ j \in Owner /\ j # NoJob
      /\ pc[j] = "supervise" /\ Cardinality(Empty(fdt)) >= 2
  BY Types, Jobs DEF Supervise
<1> DEFINE x == Lowest(Place(fdt, Open("secRx", j)))
<1>2. UNCHANGED <<moved, fut, half>> /\ fdt' = Place(Place(fdt, Open("secRx", j)), Open("secTx", j))
  BY DEF Supervise, futVars
<1>3. /\ \A i \in Job : sec'[i] = IF i = j THEN x ELSE sec[i]
      /\ \A o \in Owner : pc'[o] = IF o = j THEN "resolve" ELSE pc[o]
  BY <1>1 DEF Supervise, SpawnerType
<1>4. /\ Inheritable(fdt') = {}
      /\ Holding(fdt', {"secRx"}, j) = Holds("secRx", j) \cup {Lowest(fdt)}
      /\ Holding(fdt', {"secTx"}, j) = Holds("secTx", j) \cup {x}
      /\ \A k \in Kinds, i \in Owner :
           (k # "secRx" /\ k # "secTx") \/ i # j => Holding(fdt', {k}, i) = Holds(k, i)
  <2>1. /\ Inheritable(fdt) = {} /\ "secRx" \in Kinds /\ "secTx" \in Kinds
        /\ Cardinality(Empty(fdt)) >= 2
    BY <1>1 DEF SpawnerInv, Kinds
  <2>2. fdt' = Place(Place(fdt, Open("secRx", j)), Open("secTx", j)) /\ "secRx" # "secTx"
    BY <1>2
  <2>3. /\ Inheritable(fdt') = {}
        /\ Holding(fdt', {"secRx"}, j) = Holds("secRx", j) \cup {Lowest(fdt)}
        /\ Holding(fdt', {"secTx"}, j) = Holds("secTx", j) \cup {x}
    BY <2>1, <2>2, PairHolding
  <2>4. ASSUME NEW k \in Kinds, NEW i \in Owner, (k # "secRx" /\ k # "secTx") \/ i # j
        PROVE  Holding(fdt', {k}, i) = Holds(k, i)
    BY <2>1, <2>2, <2>4, PairHolding
  <2> QED
    BY <2>3, <2>4
<1> HIDE DEF x
<1>5. /\ Holding(fdt', {"shmTx"}, j) = Holds("shmTx", j) /\ Holding(fdt', {"secTx"}, j) = {x}
      /\ Holding(fdt', {"shmRx"}, j) = Holds("shmRx", j)
  <2>1. Holds("secTx", j) = {}
    BY <1>1 DEF SpawnerInv, SenderInv, Working
  <2> QED
    BY <1>1, <1>4, <2>1 DEF Kinds
<1>6. SenderInv(j)'
  BY <1>1, <1>2, <1>3, <1>5, Jobs DEF SpawnerInv, SenderInv, MovedInv, Moving, Working, Holds
<1>7. ReceiverInv(j)'
  BY <1>1, <1>2, <1>3, <1>5 DEF SpawnerInv, ReceiverInv, Holds, Running, Pending
<1> QED
  BY <1>1, <1>2, <1>3, <1>4, <1>6, <1>7, OthersKept, Jobs DEF Kinds

\* One round of duplicate_until_safe: the copy is one more descriptor of its owner.
LEMMA MoveHolding ==
  ASSUME TypeOK, SpawnerInv, NEW o \in Owner, NEW k \in Kinds, MovedInv(o, k), Move(o)
  PROVE  /\ MovedInv(o, k)' /\ Inheritable(fdt') = {}
         /\ \A l \in Kinds, i \in Owner : l # k \/ i # o => Holding(fdt', {l}, i) = Holds(l, i)
<1>1. /\ SpawnerType /\ fdt \in Tables /\ pc[o] = "move" /\ moved[o].fd \in Fd
      /\ moved[o] \in [fd : Fd, held : SUBSET Fd]
  BY Types DEF Move, SpawnerType
<1>2. /\ Holds(k, o) = {moved[o].fd} \cup moved[o].held /\ moved[o].fd \notin moved[o].held
      /\ fdt[moved[o].fd].kind = k /\ fdt[moved[o].fd].job = o
  BY DEF MovedInv, Holds, Holding
<1>3. CASE ~IsSafe(moved[o].fd)
  <2> DEFINE e == fdt[moved[o].fd]
  <2>1. /\ fdt' = Place(fdt, e) /\ Empty(fdt) # {} /\ UNCHANGED pc
        /\ moved' = [moved EXCEPT ![o] = [fd |-> Lowest(fdt), held |-> @.held \cup {@.fd}]]
    BY <1>3 DEF Move, Cloned
  <2>2. e \in Entry /\ e.cloexec = TRUE /\ e.kind = k /\ e.job = o
    BY <1>1, <1>2 DEF Tables, SpawnerInv, Inheritable, Kinds
  <2> HIDE DEF e
  <2>3. \A l \in Kinds, i \in Owner :
          Holding(fdt', {l}, i) = IF k = l /\ o = i THEN Holding(fdt, {l}, i) \cup {Lowest(fdt)}
                                  ELSE Holding(fdt, {l}, i)
    <3> TAKE l \in Kinds, i \in Owner
    <3>1. Holding(fdt', {l}, i) = Holding(fdt, {l}, i) \cup {f \in {Lowest(fdt)} : e.kind = l /\ e.job = i}
      BY ONLY <1>1, <2>1, <2>2, PlaceHolding, l \in Kinds
    <3> QED
      BY <2>2, <3>1
  <2>4. Inheritable(fdt') = {}
    BY <1>1, <2>1, <2>2, PlaceClosed DEF SpawnerInv
  <2>5. moved'[o].fd = Lowest(fdt) /\ moved'[o].held = Holds(k, o) /\ pc'[o] = "move"
    BY <1>1, <1>2, <2>1 DEF SpawnerType
  <2>6. Lowest(fdt) \notin Holds(k, o)
    BY <1>1, <2>1, LowestFree, FreeEntry DEF Holds, Holding, Kinds
  <2>7. Holding(fdt', {k}, o) = Holds(k, o) \cup {Lowest(fdt)}
    BY <2>3 DEF Holds
  <2>8. MovedInv(o, k)'
    BY <2>5, <2>6, <2>7 DEF MovedInv, Holds
  <2> QED
    BY <2>3, <2>4, <2>8 DEF Holds
<1>4. CASE IsSafe(moved[o].fd)
  <2>1. fdt' = Close(fdt, moved[o].held) /\ moved' = [moved EXCEPT ![o].held = {}]
    BY <1>4 DEF Move
  <2>2. moved'[o].fd = moved[o].fd /\ moved'[o].held = {}
    BY <1>1, <2>1 DEF SpawnerType
  <2>3. \A l \in Kinds, i \in Owner : Holding(fdt', {l}, i) = Holding(fdt, {l}, i) \ moved[o].held
    BY <1>1, <2>1, CloseHolding
  <2>4. Inheritable(fdt') = {}
    BY <1>1, <2>1, CloseClosed DEF SpawnerInv
  <2>5. Holding(fdt', {k}, o) = {moved[o].fd}
    <3>1. Holding(fdt', {k}, o) = Holding(fdt, {k}, o) \ moved[o].held
      BY <2>3
    <3> QED
      BY <1>2, <3>1 DEF Holds
  <2>6. ASSUME NEW l \in Kinds, NEW i \in Owner, l # k \/ i # o PROVE Holding(fdt', {l}, i) = Holds(l, i)
    <3>1. Holding(fdt, {l}, i) \cap moved[o].held = {}
      BY <1>2, <2>6 DEF Holds, Holding
    <3> QED
      <4>1. Holding(fdt', {l}, i) = Holding(fdt, {l}, i) \ moved[o].held
        BY <2>3
      <4> QED
        BY <3>1, <4>1 DEF Holds
  <2>7. IsSafe(moved'[o].fd)
    BY <1>4, <2>2
  <2>8. MovedInv(o, k)'
    BY <2>2, <2>5, <2>7 DEF MovedInv, Holds, IsSafe
  <2> QED
    BY <2>4, <2>6, <2>8
<1> QED
  BY <1>3, <1>4

\* A step of SpyInner::init.
LEMMA LibraryStep ==
  ASSUME SpawnerInv, pc[NoJob] # "ready", UNCHANGED <<sec, fut, half>>,
         \A i \in Job : pc'[i] = pc[i] /\ moved'[i] = moved[i],
         \A k \in Kinds, i \in Job : Holding(fdt', {k}, i) = Holds(k, i),
         LibraryInv', Inheritable(fdt') = {}
  PROVE  SpawnerInv'
<1>1. ASSUME NEW i \in Job PROVE SenderInv(i)' /\ ReceiverInv(i)'
  <2>1. /\ Holding(fdt', {"shmTx"}, i) = Holds("shmTx", i) /\ Holding(fdt', {"secTx"}, i) = Holds("secTx", i)
        /\ Holding(fdt', {"shmRx"}, i) = Holds("shmRx", i) /\ Holding(fdt', {"secRx"}, i) = Holds("secRx", i)
    BY DEF Kinds
  <2>2. SenderInv(i) /\ ReceiverInv(i) /\ pc[i] \in {"build", "failed"}
    BY DEF SpawnerInv, SenderInv
  <2>3. SenderInv(i)'
    BY <2>1, <2>2 DEF SenderInv, Moving, Working, Holds
  <2>4. ReceiverInv(i)'
    BY <2>1, <2>2 DEF ReceiverInv, Holds
  <2> QED
    BY <2>3, <2>4
<1> QED
  BY <1>1 DEF SpawnerInv

LEMMA MoveSpawner ==
  ASSUME TypeOK, SpawnerInv, NEW o \in Owner, Move(o)
  PROVE  SpawnerInv'
<1>1. /\ SpawnerType /\ pc[o] = "move" /\ UNCHANGED <<sec, fut, half>>
  BY Types DEF Move, futVars
<1>2. \A i \in Owner \ {o} : moved'[i] = moved[i] /\ pc'[i] = pc[i]
  BY <1>1 DEF Move, SpawnerType
<1>3. pc'[o] = "move" \/ pc'[o] = IF o = NoJob THEN "ready" ELSE "supervise"
  BY <1>1 DEF Move, SpawnerType
<1>4. CASE o = NoJob
  <2>1. MovedInv(NoJob, "memfd")
    BY <1>1, <1>4 DEF SpawnerInv, LibraryInv
  <2>2. /\ MovedInv(NoJob, "memfd")' /\ Inheritable(fdt') = {}
        /\ \A l \in Kinds, i \in Owner : l # "memfd" \/ i # NoJob => Holding(fdt', {l}, i) = Holds(l, i)
    BY <1>4, <2>1, MoveHolding DEF Kinds
  <2>3. LibraryInv'
    BY <1>3, <1>4, <2>2 DEF LibraryInv
  <2>4. \A i \in Job : i \in Owner /\ i # NoJob
    BY Jobs
  <2> QED
    BY <1>1, <1>2, <1>4, <2>2, <2>3, <2>4, LibraryStep
<1>5. CASE o \in Job
  <2>1. MovedInv(o, "shmTx") /\ SenderInv(o) /\ ReceiverInv(o)
    BY <1>1, <1>5 DEF SpawnerInv, SenderInv, Moving
  <2>2. /\ MovedInv(o, "shmTx")' /\ Inheritable(fdt') = {}
        /\ \A l \in Kinds, i \in Owner : l # "shmTx" \/ i # o => Holding(fdt', {l}, i) = Holds(l, i)
    BY <2>1, MoveHolding DEF Kinds
  <2>3. /\ Holding(fdt', {"secTx"}, o) = Holds("secTx", o)
        /\ Holding(fdt', {"shmRx"}, o) = Holds("shmRx", o) /\ Holding(fdt', {"secRx"}, o) = Holds("secRx", o)
    BY <2>2 DEF Kinds
  <2>4. o # NoJob /\ pc'[NoJob] = pc[NoJob] /\ moved'[NoJob] = moved[NoJob]
        /\ Holding(fdt', {"memfd"}, NoJob) = Holds("memfd", NoJob)
    BY <1>2, <1>5, <2>2, Jobs DEF Kinds
  <2>5. SenderInv(o)'
    BY <1>1, <1>3, <2>1, <2>2, <2>3, <2>4 DEF SenderInv, Moving, Working, Holds
  <2>6. ReceiverInv(o)'
    BY <1>1, <1>3, <2>1, <2>3, <2>4 DEF ReceiverInv, Holds
  <2> QED
    BY <1>1, <1>2, <1>5, <2>2, <2>4, <2>5, <2>6, OthersKept, Jobs
<1> QED
  BY <1>4, <1>5 DEF Owner

LEMMA SpyInitSpawner ==
  ASSUME TypeOK, SpawnerInv, SpyInit
  PROVE  SpawnerInv'
<1> DEFINE e == Open("memfd", NoJob)
<1>1. /\ SpawnerType /\ fdt \in Tables /\ e \in Entry /\ Empty(fdt) # {}
      /\ e.kind = "memfd" /\ e.job = NoJob /\ e.cloexec = TRUE
  BY Types, OpenEntry DEF SpyInit, SpawnerType, Kinds, Open
<1>2. /\ pc[NoJob] = "memfd" /\ UNCHANGED <<sec, fut, half>> /\ fdt' = Place(fdt, e)
      /\ moved'[NoJob] = [fd |-> Lowest(fdt), held |-> {}] /\ pc'[NoJob] = "move"
      /\ \A i \in Job : pc'[i] = pc[i] /\ moved'[i] = moved[i]
  BY <1>1, Jobs DEF SpyInit, futVars, SpawnerType
<1> HIDE DEF e
<1>3. ASSUME NEW k \in Kinds, NEW i \in Owner
      PROVE  Holding(fdt', {k}, i) =
               Holding(fdt, {k}, i) \cup {f \in {Lowest(fdt)} : e.kind = k /\ e.job = i}
  BY <1>1, <1>2, PlaceHolding
<1>4. Inheritable(fdt') = {}
  BY <1>1, <1>2, PlaceClosed DEF SpawnerInv
<1>5. Holding(fdt', {"memfd"}, NoJob) = {Lowest(fdt)}
  <2>1. Holding(fdt, {"memfd"}, NoJob) = {} /\ "memfd" \in Kinds /\ NoJob \in Owner
    BY <1>2, Jobs DEF SpawnerInv, LibraryInv, Kinds, Holds
  <2> QED
    BY <1>1, <1>3, <2>1
<1>6. LibraryInv'
  BY <1>2, <1>5 DEF LibraryInv, MovedInv, Holds
<1>7. ASSUME NEW k \in Kinds, NEW i \in Job PROVE Holding(fdt', {k}, i) = Holds(k, i)
  <2>1. i \in Owner /\ i # NoJob
    BY Jobs
  <2> QED
    BY <1>1, <1>3, <2>1 DEF Holds
<1> QED
  BY <1>2, <1>4, <1>6, <1>7, LibraryStep

LEMMA SpyFailsSpawner ==
  ASSUME TypeOK, SpawnerInv, SpyFails
  PROVE  SpawnerInv'
<1> DEFINE S == {moved[NoJob].fd} \cup moved[NoJob].held
<1>1. SpawnerType /\ fdt \in Tables
  BY Types DEF SpawnerType
<1>2. /\ pc[NoJob] = "move" /\ UNCHANGED <<sec, fut, half>> /\ fdt' = Close(fdt, S)
      /\ pc'[NoJob] = "memfd"
      /\ \A i \in Job : pc'[i] = pc[i] /\ moved'[i] = moved[i]
  BY <1>1, Jobs DEF SpyFails, futVars, SpawnerType
<1>3. Holding(fdt, {"memfd"}, NoJob) = S
  BY <1>2 DEF SpawnerInv, LibraryInv, MovedInv, Holds
<1> HIDE DEF S
<1>4. ASSUME NEW k \in Kinds, NEW i \in Owner PROVE Holding(fdt', {k}, i) = Holding(fdt, {k}, i) \ S
  BY <1>1, <1>2, CloseHolding
<1>5. Inheritable(fdt') = {}
  BY <1>1, <1>2, CloseClosed DEF SpawnerInv
<1>6. LibraryInv'
  <2>1. Holding(fdt', {"memfd"}, NoJob) = {}
    BY <1>3, <1>4, Jobs DEF Kinds
  <2> QED
    BY <1>2, <2>1 DEF LibraryInv, Holds
<1>7. ASSUME NEW k \in Kinds, NEW i \in Job PROVE Holding(fdt', {k}, i) = Holds(k, i)
  <2>1. i \in Owner /\ i # NoJob
    BY Jobs
  <2>2. Holding(fdt, {k}, i) \cap S = {}
    BY <1>3, <2>1 DEF Holding
  <2> QED
    BY <1>4, <2>1, <2>2 DEF Holds
<1> QED
  BY <1>2, <1>5, <1>6, <1>7, LibraryStep

LEMMA OtherThreadSpawner ==
  ASSUME TypeOK, SpawnerInv, OtherThread
  PROVE  SpawnerInv'
<1>1. fdt \in Tables /\ UNCHANGED <<pc, moved, sec, fut, half>> /\ Inheritable(fdt) = {}
  BY Types DEF OtherThread, SpawnerType, futVars, SpawnerInv
<1>2. CASE Empty(fdt) # {} /\ fdt' = Place(fdt, Open("other", NoJob))
  <2> DEFINE e == Open("other", NoJob)
  <2>1. e \in Entry /\ e.kind = "other" /\ e.cloexec = TRUE
    BY OpenEntry DEF Kinds, Open
  <2> HIDE DEF e
  <2>2. fdt' = Place(fdt, e) /\ Empty(fdt) # {}
    BY <1>2 DEF e
  <2>3. ASSUME NEW k \in Kinds \ {"other"}, NEW i \in Owner PROVE Holding(fdt', {k}, i) = Holds(k, i)
    <3>1. Holding(fdt', {k}, i) = Holding(fdt, {k}, i) \cup {f \in {Lowest(fdt)} : e.kind = k /\ e.job = i}
      BY <1>1, <2>1, <2>2, PlaceHolding
    <3> QED
      BY <2>1, <3>1 DEF Holds
  <2>4. Inheritable(fdt') = {}
    BY <1>1, <2>1, <2>2, PlaceClosed
  <2> QED
    BY <1>1, <2>3, <2>4, SpawnerKept
<1>3. ASSUME NEW f \in Holding(fdt, {"other"}, NoJob), fdt' = Close(fdt, {f}) PROVE SpawnerInv'
  <2>1. ASSUME NEW k \in Kinds \ {"other"}, NEW i \in Owner PROVE Holding(fdt', {k}, i) = Holds(k, i)
    <3>1. Holding(fdt', {k}, i) = Holding(fdt, {k}, i) \ {f}
      BY <1>1, <1>3, CloseHolding
    <3>2. f \notin Holding(fdt, {k}, i)
      BY DEF Holding
    <3> QED
      BY <3>1, <3>2 DEF Holds
  <2>2. Inheritable(fdt') = {}
    BY <1>1, <1>3, CloseClosed
  <2> QED
    BY <1>1, <2>1, <2>2, SpawnerKept
<1> QED
  BY <1>2, <1>3 DEF OtherThread

\* Closing descriptors of job j disturbs nobody else.
LEMMA JobClose ==
  ASSUME TypeOK, SpawnerInv, NEW j \in Job, NEW S, S \subseteq Holding(fdt, Tx \cup Rx, j),
         fdt' = Close(fdt, S)
  PROVE  /\ Inheritable(fdt') = {}
         /\ \A k \in Kinds : Holding(fdt', {k}, j) = Holds(k, j) \ S
         /\ \A i \in Owner \ {j}, k \in Kinds : Holding(fdt', {k}, i) = Holds(k, i)
         /\ Holding(fdt', {"memfd"}, NoJob) = Holds("memfd", NoJob)
<1>1. fdt \in Tables /\ Inheritable(fdt) = {}
  BY Types DEF SpawnerType, SpawnerInv
<1>2. Inheritable(fdt') = {}
  BY <1>1, CloseClosed
<1>3. ASSUME NEW k \in Kinds, NEW i \in Owner PROVE Holding(fdt', {k}, i) = Holding(fdt, {k}, i) \ S
  BY <1>1, CloseHolding
<1>4. ASSUME NEW k \in Kinds, NEW i \in Owner \ {j} PROVE Holding(fdt', {k}, i) = Holds(k, i)
  <2>1. Holding(fdt, {k}, i) \cap S = {}
    BY DEF Holding
  <2> QED
    BY <1>3, <2>1 DEF Holds
<1>5. j \in Owner /\ NoJob \in Owner \ {j} /\ "memfd" \in Kinds
  BY Jobs DEF Kinds
<1> QED
  BY <1>2, <1>3, <1>4, <1>5 DEF Holds

LEMMA FailSpawner ==
  ASSUME TypeOK, SpawnerInv, NEW j \in Job, Fail(j), pc[j] # "spawned", UNCHANGED <<fut, half>>
  PROVE  SpawnerInv'
<1> DEFINE S == Holding(fdt, Tx \cup Rx, j)
<1>1. fdt' = Close(fdt, S) /\ UNCHANGED <<moved, sec>> /\ SpawnerType
  BY Types DEF Fail
<1>2. \A o \in Owner : pc'[o] = IF o = j THEN "failed" ELSE pc[o]
  BY <1>1, Jobs DEF Fail, SpawnerType
<1>3. /\ Inheritable(fdt') = {}
      /\ \A k \in Kinds : Holding(fdt', {k}, j) = Holds(k, j) \ S
      /\ \A i \in Owner \ {j}, k \in Kinds : Holding(fdt', {k}, i) = Holds(k, i)
      /\ Holding(fdt', {"memfd"}, NoJob) = Holds("memfd", NoJob)
  BY <1>1, JobClose
<1>4. /\ Holding(fdt', {"shmTx"}, j) = {} /\ Holding(fdt', {"secTx"}, j) = {}
      /\ Holding(fdt', {"shmRx"}, j) = {} /\ Holding(fdt', {"secRx"}, j) = {}
  <2>1. /\ Holds("shmTx", j) \subseteq S /\ Holds("secTx", j) \subseteq S
        /\ Holds("shmRx", j) \subseteq S /\ Holds("secRx", j) \subseteq S
    BY DEF Holds, Holding, Tx, Rx
  <2> HIDE DEF S
  <2> QED
    BY <1>3, <2>1 DEF Kinds
<1> HIDE DEF S
<1>5. j \in Owner /\ fut[j] = "none" /\ half[j] = Running
  BY Jobs DEF SpawnerInv, ReceiverInv
<1>6. SenderInv(j)'
  BY <1>2, <1>4, <1>5 DEF SenderInv, Moving, Working, Holds
<1>7. ReceiverInv(j)'
  BY <1>2, <1>4, <1>5 DEF ReceiverInv, Holds
<1> QED
  BY <1>1, <1>2, <1>3, <1>6, <1>7, OthersKept, Jobs

LEMMA PcSpawner ==
  ASSUME TypeOK, SpawnerInv, NEW j \in Job, NEW l \in Working, pc[j] \in Working,
         pc' = [pc EXCEPT ![j] = l], UNCHANGED <<fdt, moved, sec, fut, half>>
  PROVE  SpawnerInv'
<1>1. \A o \in Owner : pc'[o] = IF o = j THEN l ELSE pc[o]
  BY Types, Jobs DEF SpawnerType
<1>2. j # NoJob /\ NoJob \in Owner /\ j \in Owner /\ \A i \in Job \ {j} : i \in Owner /\ i # j
  BY Jobs
<1>3. SenderInv(j)'
  BY <1>1, <1>2 DEF SpawnerInv, SenderInv, MovedInv, Moving, Working, Holds
<1>4. ReceiverInv(j)'
  BY <1>1, <1>2 DEF SpawnerInv, ReceiverInv, Working, Holds
<1>5. Inheritable(fdt') = {} /\ \A k, i : Holding(fdt', {k}, i) = Holds(k, i)
  BY DEF SpawnerInv, Holds
<1> QED
  BY <1>1, <1>2, <1>3, <1>4, <1>5, OthersKept

LEMMA DropCommandSpawner ==
  ASSUME TypeOK, SpawnerInv, NEW j \in Job, DropCommand(j)
  PROVE  SpawnerInv'
<1> DEFINE S == Dropped(j)
<1>1. fdt' = Close(fdt, S) /\ UNCHANGED <<moved, sec, half>> /\ SpawnerType /\ FutType /\ pc[j] = "drop"
  BY Types DEF DropCommand
<1>2. /\ \A o \in Owner : pc'[o] = IF o = j THEN "spawned" ELSE pc[o]
      /\ \A i \in Job : fut'[i] = IF i = j THEN "unpolled" ELSE fut[i]
  BY <1>1, Jobs DEF DropCommand, SpawnerType, FutType
<1>3. SenderInv(j) /\ ReceiverInv(j)
  BY DEF SpawnerInv
<1>4. Holds("shmTx", j) = {moved[j].fd} /\ Holds("secTx", j) = {sec[j]} /\ IsSafe(moved[j].fd)
  BY <1>1, <1>3 DEF SenderInv, MovedInv, Moving, Working
<1>5. S \subseteq Holding(fdt, Tx \cup Rx, j)
  BY <1>4 DEF Dropped, Holds, Holding, Tx, Rx
<1>6. /\ Inheritable(fdt') = {}
      /\ \A k \in Kinds : Holding(fdt', {k}, j) = Holds(k, j) \ S
      /\ \A i \in Owner \ {j}, k \in Kinds : Holding(fdt', {k}, i) = Holds(k, i)
      /\ Holding(fdt', {"memfd"}, NoJob) = Holds("memfd", NoJob)
  BY <1>1, <1>5, JobClose
<1>7. /\ Holding(fdt', {"shmTx"}, j) = {} /\ Holding(fdt', {"secTx"}, j) = {}
      /\ Holding(fdt', {"shmRx"}, j) = Holds("shmRx", j)
  <2>1. Holds("shmRx", j) \cap S = {}
    BY <1>4 DEF Holds, Holding, Dropped
  <2>2. Holds("shmTx", j) \subseteq S /\ Holds("secTx", j) \subseteq S
    BY <1>4 DEF Dropped
  <2> HIDE DEF S
  <2> QED
    BY <1>6, <2>1, <2>2 DEF Kinds
<1> HIDE DEF S
<1>8. j \in Owner /\ j # NoJob /\ NoJob \in Owner /\ fut[j] = "none" /\ half[j] = Running
  BY <1>1, <1>3, Jobs DEF ReceiverInv
<1>9. SenderInv(j)'
  BY <1>1, <1>2, <1>3, <1>4, <1>7, <1>8 DEF SenderInv, Moving, Working, Holds, IsSafe
<1>10. ReceiverInv(j)'
  BY <1>1, <1>2, <1>3, <1>7, <1>8 DEF ReceiverInv, Holds, Pending
<1> QED
  BY <1>1, <1>2, <1>6, <1>8, <1>9, <1>10, OthersKept, Jobs

\* A step of accesses_future that closes receiving ends of its job, or none.
LEMMA FutureSpawner ==
  ASSUME TypeOK, SpawnerInv, NEW j \in Job, pc[j] = "spawned", UNCHANGED <<pc, moved, sec>>,
         NEW S, S \subseteq Holding(fdt, Rx, j), fdt' = Close(fdt, S),
         \A i \in Job \ {j} : fut'[i] = fut[i] /\ half'[i] = half[i],
         fut'[j] # "none", fut'[j] = "unpolled" => half'[j] = Running,
         fut'[j] \in Pending /\ half'[j].shm = "run" => fut[j] \in Pending /\ half[j].shm = "run",
         fut'[j] \in Pending /\ half'[j].shm = "run" => Holds("shmRx", j) \cap S = {},
         fut'[j] \notin Pending \/ half'[j].shm # "run" => Holds("shmRx", j) \subseteq S,
         fut'[j] \notin Pending => Holds("secRx", j) \subseteq S
  PROVE  SpawnerInv'
<1>1. S \subseteq Holding(fdt, Tx \cup Rx, j)
  BY DEF Holding
<1>2. /\ Inheritable(fdt') = {}
      /\ \A k \in Kinds : Holding(fdt', {k}, j) = Holds(k, j) \ S
      /\ \A i \in Owner \ {j}, k \in Kinds : Holding(fdt', {k}, i) = Holds(k, i)
      /\ Holding(fdt', {"memfd"}, NoJob) = Holds("memfd", NoJob)
  BY <1>1, JobClose
<1>3. SenderInv(j) /\ ReceiverInv(j) /\ j \in Owner
  BY Jobs DEF SpawnerInv
<1>4. /\ Holding(fdt', {"shmTx"}, j) = {} /\ Holding(fdt', {"secTx"}, j) = {}
      /\ Holding(fdt', {"shmRx"}, j) = Holds("shmRx", j) \ S
      /\ Holding(fdt', {"secRx"}, j) = Holds("secRx", j) \ S
  <2>1. Holds("shmTx", j) = {} /\ Holds("secTx", j) = {}
    BY <1>3 DEF SenderInv, Moving, Working
  <2> QED
    BY <1>2, <2>1 DEF Kinds
<1>5. SenderInv(j)'
  BY <1>3, <1>4 DEF SenderInv, Moving, Working, Holds
<1>6. ReceiverInv(j)'
  <2>1. Holding(fdt', {"shmRx"}, j) # {} <=> fut'[j] \in Pending /\ half'[j].shm = "run"
    <3>1. CASE fut'[j] \in Pending /\ half'[j].shm = "run"
      BY <1>3, <1>4, <3>1 DEF ReceiverInv
    <3>2. CASE ~(fut'[j] \in Pending /\ half'[j].shm = "run")
      BY <1>4, <3>2
    <3> QED
      BY <3>1, <3>2
  <2>2. Holding(fdt', {"secRx"}, j) # {} => fut'[j] \in Pending
    BY <1>4
  <2> QED
    BY <2>1, <2>2 DEF ReceiverInv, Holds
<1> QED
  BY <1>2, <1>3, <1>5, <1>6, OthersKept, Jobs

LEMMA NextSpawner ==
  ASSUME TypeOK, SpawnerInv, [Next]_vars
  PROVE  SpawnerInv'
<1>1. ASSUME UNCHANGED <<fdt, pc, moved, sec, fut, half>> PROVE SpawnerInv'
  BY <1>1, SpawnerSame
<1>2. CASE SpyInit \/ SpyFails \/ Move(NoJob) \/ OtherThread
  BY <1>2, SpyInitSpawner, SpyFailsSpawner, MoveSpawner, OtherThreadSpawner, Jobs
<1>3. CASE ForeignFork \/ ForeignExec \/ Quiet \/ UNCHANGED vars
  BY <1>1, <1>3 DEF ForeignFork, ForeignExec, Quiet, spawnVars, futVars, vars
<1>4. ASSUME NEW j \in Job, Build(j) \/ ChildExec(j) PROVE SpawnerInv'
  <2>1. UNCHANGED <<fdt, pc, moved, sec, fut, half>>
    BY <1>4 DEF Build, ChildExec, spawnVars, futVars
  <2> QED
    BY <1>1, <2>1
<1>5. ASSUME NEW j \in Job, Pair(j) \/ Move(j) \/ Supervise(j) PROVE SpawnerInv'
  BY <1>5, PairSpawner, MoveSpawner, SuperviseSpawner, Jobs
<1>6. ASSUME NEW j \in Job, Fail(j), pc[j] # "spawned", UNCHANGED futVars PROVE SpawnerInv'
  BY <1>6, FailSpawner DEF futVars
<1>7. ASSUME NEW j \in Job, NEW l \in Working, pc[j] \in Working,
             pc' = [pc EXCEPT ![j] = l], UNCHANGED <<fdt, moved, sec, futVars>>
      PROVE  SpawnerInv'
  BY <1>7, PcSpawner DEF futVars
<1>8. ASSUME NEW j \in Job, Resolve(j) PROVE SpawnerInv'
  BY <1>6, <1>7, <1>8 DEF Resolve, Working
<1>9. ASSUME NEW j \in Job, Fork(j) PROVE SpawnerInv'
  BY <1>7, <1>9 DEF Fork, Working
<1>10. ASSUME NEW j \in Job, SpawnReturns(j) PROVE SpawnerInv'
  BY <1>6, <1>7, <1>10 DEF SpawnReturns, Working
<1>11. ASSUME NEW j \in Job, OsFails(j) PROVE SpawnerInv'
  BY <1>6, <1>11 DEF OsFails
<1>12. ASSUME NEW j \in Job, DropCommand(j) PROVE SpawnerInv'
  BY <1>12, DropCommandSpawner
<1>13. ASSUME NEW j \in Job, Poll(j) PROVE SpawnerInv'
  <2>1. /\ fut[j] = "unpolled" /\ UNCHANGED <<fdt, pc, moved, sec, half>>
        /\ \A i \in Job : fut'[i] = IF i = j THEN "polled" ELSE fut[i]
    BY <1>13, Types DEF Poll, spawnVars, FutType
  <2>2. SenderInv(j)'
    BY <2>1 DEF SpawnerInv, SenderInv, MovedInv, Holds
  <2>3. ReceiverInv(j)'
    BY <2>1 DEF SpawnerInv, ReceiverInv, Holds, Pending
  <2>4. Inheritable(fdt') = {} /\ \A k, i : Holding(fdt', {k}, i) = Holds(k, i)
    BY <2>1 DEF SpawnerInv, Holds
  <2> QED
    BY <2>1, <2>2, <2>3, <2>4, OthersKept
<1>14. ASSUME NEW j \in Job, WaitFirst(j) \/ RecvShm(j) \/ RecvListener(j) \/ \E p \in Tree(j) : Answer(p)
       PROVE  SpawnerInv'
  <2>1. UNCHANGED <<fdt, pc, moved, sec, fut, half>>
    BY <1>14 DEF WaitFirst, RecvShm, RecvListener, Answer, spawnVars
  <2> QED
    BY <1>1, <2>1
<1>15. ASSUME NEW j \in Job, NEW r \in {"ok", "err", "dropped"}, GiveUp(j, r), fut[j] # "none"
       PROVE  SpawnerInv'
  <2> DEFINE S == Holding(fdt, Rx, j)
  <2>1. /\ fdt' = Close(fdt, S) /\ UNCHANGED <<pc, moved, sec, half>>
        /\ \A i \in Job : fut'[i] = IF i = j THEN r ELSE fut[i]
    BY <1>15, Types DEF GiveUp, FutType
  <2>2. Holds("shmRx", j) \subseteq S /\ Holds("secRx", j) \subseteq S
    BY DEF Holds, Holding, Rx
  <2>3. pc[j] = "spawned" /\ fut'[j] = r /\ r \notin Pending /\ r # "unpolled" /\ r # "none"
    BY <1>15, <2>1 DEF SpawnerInv, ReceiverInv, Pending
  <2> HIDE DEF S
  <2>4. S \subseteq Holding(fdt, Rx, j)
    BY DEF S
  <2> QED
    BY <2>1, <2>2, <2>3, <2>4, FutureSpawner
<1>16. ASSUME NEW j \in Job, DropFuture(j) \/ Join(j) PROVE SpawnerInv'
  <2>1. PICK r \in {"ok", "err", "dropped"} : GiveUp(j, r) /\ fut[j] # "none"
    BY <1>16 DEF DropFuture, Join, JoinResult
  <2> QED
    BY <1>15, <2>1
<1>17. ASSUME NEW j \in Job, ShmEnds(j) PROVE SpawnerInv'
  <2> DEFINE S == Holding(fdt, {"shmRx"}, j)
  <2>1. /\ fut[j] = "polled" /\ fdt' = Close(fdt, S) /\ UNCHANGED <<pc, moved, sec, fut>>
        /\ half' = [half EXCEPT ![j].shm = "ok"] \/ half' = [half EXCEPT ![j].shm = "err"]
    BY <1>17 DEF ShmEnds, Polled
  <2>2. /\ half'[j].shm # "run" /\ \A i \in Job \ {j} : half'[i] = half[i]
    BY <2>1, Types DEF FutType
  <2>3. Holds("shmRx", j) \subseteq S /\ S \subseteq Holding(fdt, Rx, j)
    BY DEF Holds, Holding, Rx
  <2>4. pc[j] = "spawned" /\ fut'[j] = "polled" /\ "polled" \in Pending
    BY <2>1 DEF SpawnerInv, ReceiverInv, Pending
  <2> HIDE DEF S
  <2> QED
    BY <2>1, <2>2, <2>3, <2>4, FutureSpawner
<1>18. ASSUME NEW j \in Job, LoopEnds(j) PROVE SpawnerInv'
  <2> DEFINE S == Holding(fdt, {"secRx"}, j)
  <2>1. PICK r \in {"ok", "err"} :
          /\ fut[j] = "polled" /\ fdt' = Close(fdt, S) /\ UNCHANGED <<pc, moved, sec, fut>>
          /\ half' = [half EXCEPT ![j].sec = r]
    BY <1>18 DEF LoopEnds, Polled
  <2>2. /\ half'[j].shm = half[j].shm /\ \A i \in Job \ {j} : half'[i] = half[i]
    BY <2>1, Types DEF FutType
  <2>3. Holds("shmRx", j) \cap S = {} /\ S \subseteq Holding(fdt, Rx, j)
    BY DEF Holds, Holding, Rx
  <2>4. pc[j] = "spawned" /\ fut'[j] = "polled" /\ "polled" \in Pending /\ fut[j] \in Pending
    BY <2>1 DEF SpawnerInv, ReceiverInv, Pending
  <2>5. half[j].shm # "run" => Holds("shmRx", j) = {}
    BY DEF SpawnerInv, ReceiverInv
  <2> HIDE DEF S
  <2> QED
    BY <2>1, <2>2, <2>3, <2>4, <2>5, FutureSpawner
<1>19. ASSUME NEW p, Exit(p) \/ Activity(p) PROVE SpawnerInv'
  <2>1. UNCHANGED <<fdt, pc, moved, sec, fut, half>>
    BY <1>19 DEF Exit, Activity, ReassignLow, CloseAll, SendShm, Syscall, ForkExec, spawnVars, futVars
  <2> QED
    BY <1>1, <2>1
<1> QED
  BY <1>2, <1>3, <1>4, <1>5, <1>8, <1>9, <1>10, <1>11, <1>12, <1>13, <1>14, <1>16, <1>17, <1>18, <1>19
     DEF Next, Spawning, Future

-------------------------------------------------------------------------------
(* Commands and processes *)

LEMMA InitProcess == Init => ProcessInv
<1> SUFFICES ASSUME Init PROVE ProcessInv
  OBVIOUS
<1>1. ASSUME NEW j \in Job PROVE CommandInv(j) /\ LifeInv(j)
  <2>1. pc[j] = "build" /\ st[Target(j)] = "none" /\ st[<<j, 2>>] = "none"
    BY Jobs DEF Init, Owner
  <2> QED
    BY <2>1 DEF CommandInv, LifeInv
<1>2. ASSUME NEW p \in Proc PROVE ProcInv(p)
  BY DEF Init, ProcInv, Executed
<1> QED
  BY <1>1, <1>2 DEF ProcessInv

\* What may be the steps of a spawn.
LEMMA PcStep ==
  ASSUME TypeOK, SpawnerInv, [Next]_vars, NEW j \in Job, ~UNCHANGED <<pc[j], cmd[j], asked[j]>>
  PROVE  Build(j) \/ Pair(j) \/ Move(j) \/ Supervise(j) \/ Resolve(j) \/ Fork(j) \/ SpawnReturns(j)
         \/ DropCommand(j) \/ OsFails(j)
<1> DEFINE Same(i) == pc'[i] = pc[i] /\ cmd'[i] = cmd[i] /\ asked'[i] = asked[i]
<1>1. SpawnerType /\ CmdType /\ j \in Owner /\ j # NoJob
  BY Types, Jobs
<1>2. ASSUME UNCHANGED <<pc, cmd, asked>> PROVE FALSE
  BY <1>2
<1>3. ~(SpyInit \/ SpyFails \/ Move(NoJob))
  BY <1>1 DEF SpyInit, SpyFails, Move, SpawnerType
<1>4. ~(OtherThread \/ ForeignFork \/ ForeignExec \/ Quiet \/ UNCHANGED vars)
  BY <1>2 DEF OtherThread, ForeignFork, ForeignExec, Quiet, spawnVars, vars
<1>5. ASSUME NEW i \in Job, Poll(i) \/ WaitFirst(i) \/ DropFuture(i) \/ Future(i) \/ ChildExec(i) PROVE FALSE
  BY <1>2, <1>5 DEF Poll, WaitFirst, DropFuture, Future, RecvShm, ShmEnds, RecvListener, LoopEnds,
                    Join, GiveUp, Answer, ChildExec, spawnVars
<1>6. ASSUME NEW p, Exit(p) \/ Activity(p) PROVE FALSE
  BY <1>2, <1>6 DEF Exit, Activity, ReassignLow, CloseAll, SendShm, Syscall, ForkExec, spawnVars
<1>7. ASSUME NEW i \in Job, i # j, Fail(i) PROVE Same(j)
  BY <1>1, <1>7 DEF Fail, SpawnerType, CmdType
<1>8. ASSUME NEW i \in Job, i # j, Build(i) PROVE Same(j)
  BY <1>1, <1>8 DEF Build, SpawnerType, CmdType
<1>9. ASSUME NEW i \in Job, i # j, Resolve(i) PROVE Same(j)
  <2>1. CASE Fail(i)
    BY <1>7, <1>9, <2>1
  <2>2. CASE pc' = [pc EXCEPT ![i] = "fork"] /\ UNCHANGED asked /\ \E c : cmd' = [cmd EXCEPT ![i] = c]
    BY <1>1, <1>9, <2>2 DEF SpawnerType, CmdType
  <2> QED
    BY <1>9, <2>1, <2>2 DEF Resolve
<1>10. ASSUME NEW i \in Job, i # j, Pair(i) \/ Move(i) \/ Supervise(i) \/ Fork(i) \/ DropCommand(i) PROVE Same(j)
  BY <1>1, <1>10 DEF Pair, Move, Supervise, Fork, DropCommand, SpawnerType, CmdType
<1>11. ASSUME NEW i \in Job, i # j, SpawnReturns(i) \/ OsFails(i) PROVE Same(j)
  BY <1>1, <1>7, <1>11 DEF SpawnReturns, OsFails, SpawnerType
<1> QED
  BY <1>3, <1>4, <1>5, <1>6, <1>8, <1>9, <1>10, <1>11 DEF Next, Spawning

LEMMA NextCommand ==
  ASSUME TypeOK, SpawnerInv, [Next]_vars, NEW j \in Job, CommandInv(j)
  PROVE  CommandInv(j)'
<1>1. SpawnerType /\ CmdType /\ j \in Owner /\ cmd[j] \in CommandType
  BY Types, Jobs DEF CmdType
<1>2. CASE UNCHANGED <<pc[j], cmd[j], asked[j]>>
  BY <1>2 DEF CommandInv, AsAsked
<1>3. CASE Build(j)
  <2>1. pc'[j] = "build"
    BY <1>3 DEF Build
  <2> QED
    BY <2>1 DEF CommandInv
<1>4. CASE Pair(j)
  <2>1. pc'[j] = "move" /\ cmd'[j] = cmd[j] /\ asked'[j] = cmd[j]
    BY <1>1, <1>4 DEF Pair, SpawnerType, CmdType
  <2> QED
    BY <2>1 DEF CommandInv
<1>5. CASE Move(j) \/ Supervise(j)
  <2>1. /\ pc[j] \in {"move", "supervise"} /\ pc'[j] \in {"move", "supervise", "resolve"}
        /\ cmd'[j] = cmd[j] /\ asked'[j] = asked[j]
    BY <1>1, <1>5, Jobs DEF Move, Supervise, SpawnerType
  <2> QED
    BY <2>1 DEF CommandInv
<1>6. CASE Fail(j) \/ DropCommand(j) \/ (SpawnReturns(j) /\ ~Fail(j))
  <2>1. pc'[j] \in {"failed", "spawned", "drop"}
    BY <1>1, <1>6 DEF Fail, DropCommand, SpawnReturns, SpawnerType
  <2> QED
    BY <2>1 DEF CommandInv
<1>7. CASE Resolve(j) /\ ~Fail(j)
  <2> DEFINE c == cmd[j]
             kind == Kind[Lookup(get_exec(c).program, "here")]
             envs == TracedEnv(kind, get_exec(c).envs)
             d == Planned(c, envs, kind)
  <2>1. /\ pc[j] = "resolve" /\ kind # "missing" /\ cmd' = [cmd EXCEPT ![j] = d] /\ UNCHANGED asked
        /\ pc' = [pc EXCEPT ![j] = "fork"]
    BY <1>7 DEF Resolve, Planned
  <2>2. cmd'[j] = d /\ pc'[j] = "fork" /\ asked'[j] = c
    BY <1>1, <2>1 DEF CommandInv, SpawnerType, CmdType
  <2>3. get_exec(c).program = c.program /\ get_exec(c).envs = c.envs
    BY DEF get_exec
  <2>4. Lookup(c.program, "here") \in Dir /\ c.envs \in [EnvName -> {"unset", "user", "ours"}]
    BY <1>1 DEF CommandType, Lookup, Dir
  <2>5. kind \in {"dynamic", "static"} /\ kind = Kind[Lookup(c.program, "here")]
    BY <2>1, <2>3, <2>4, ConstAssumption
  <2>6. envs \in [EnvName -> {"unset", "user", "ours"}] /\ envs["PATH"] = c.envs["PATH"]
    BY <2>3, <2>4 DEF TracedEnv, EnvName
  <2>7. c \in CommandType
    BY <1>1
  <2> HIDE DEF c, kind, envs
  <2>10. d = Planned(c, envs, kind)
    OBVIOUS
  <2> HIDE DEF d
  <2>8. /\ d.program = c.program /\ d.cwd = c.cwd /\ d.args = c.args
        /\ d.envs = envs /\ d.plan = kind
        /\ d.arg0 = IF c.arg0 = "unset" THEN c.program ELSE c.arg0
    BY <2>5, <2>6, <2>7, <2>10, ExecCommand
  <2>9. AsAsked(j)'
    BY <2>2, <2>6, <2>8 DEF AsAsked
  <2> QED
    BY <2>2, <2>5, <2>8, <2>9 DEF CommandInv
<1>8. CASE Fork(j)
  <2>1. pc[j] = "fork" /\ pc'[j] = "wait" /\ cmd'[j] = cmd[j] /\ asked'[j] = asked[j]
    BY <1>1, <1>8 DEF Fork, SpawnerType
  <2> QED
    BY <2>1 DEF CommandInv, AsAsked
<1> QED
  BY <1>2, <1>3, <1>4, <1>5, <1>6, <1>7, <1>8, PcStep DEF OsFails

\* How the state of the target of a spawn and of its descendant may change.
LEMMA StateStep ==
  ASSUME TypeOK, SpawnerInv, [Next]_vars, NEW p \in Proc, st'[p] # st[p]
  PROVE  \/ st[p] \in {"run", "stopped"} /\ st'[p] \in {"run", "stopped", "exited"}
         \/ p = Foreign
         \/ \E j \in Job : p = Target(j) /\ (Fork(j) \/ ChildExec(j))
         \/ \E j \in Job : p = <<j, 2>> /\ st[Target(j)] = "run" /\ st'[Target(j)] = "run"
                           /\ st[p] = "none" /\ st'[p] \in {"run", "exited"}
<1>1. ProcType
  BY Types
<1>2. ~UNCHANGED st
  OBVIOUS
<1>3. CASE SpyInit \/ SpyFails \/ Move(NoJob) \/ OtherThread \/ Quiet \/ UNCHANGED vars
  BY <1>2, <1>3 DEF SpyInit, SpyFails, Move, OtherThread, Quiet, vars, procVars
<1>4. CASE ForeignFork \/ ForeignExec
  BY <1>1, <1>4, Jobs DEF ForeignFork, ForeignExec, ProcType
<1>5. ASSUME NEW j \in Job, Fork(j) \/ ChildExec(j) PROVE p = Target(j)
  BY <1>1, <1>5, Jobs DEF Fork, ChildExec, ProcType
<1>6. ASSUME NEW j \in Job, Build(j) \/ Pair(j) \/ Move(j) \/ Supervise(j) \/ Resolve(j)
              \/ SpawnReturns(j) \/ DropCommand(j) \/ OsFails(j)
       PROVE  FALSE
  BY <1>2, <1>6 DEF Build, Pair, Move, Supervise, Resolve, SpawnReturns, DropCommand, OsFails, procVars
<1>7. ASSUME NEW j \in Job, Poll(j) \/ WaitFirst(j) \/ RecvShm(j) \/ ShmEnds(j)
              \/ RecvListener(j) \/ LoopEnds(j)
       PROVE  FALSE
  BY <1>2, <1>7 DEF Poll, WaitFirst, RecvShm, ShmEnds, RecvListener, LoopEnds, procVars
<1>8. ASSUME NEW j \in Job, DropFuture(j) \/ Join(j)
      PROVE  st[p] \in {"run", "stopped"} /\ st'[p] \in {"run", "stopped", "exited"}
  BY <1>1, <1>8 DEF DropFuture, Join, GiveUp, StoppedIn, ProcType
<1>9. ASSUME NEW j \in Job, NEW q \in Tree(j), Answer(q)
      PROVE  st[p] \in {"run", "stopped"} /\ st'[p] \in {"run", "stopped", "exited"}
  BY <1>1, <1>9 DEF Answer, StoppedIn, ProcType, Tree
<1>10. ASSUME NEW q \in Proc, Exit(q)
       PROVE  st[p] \in {"run", "stopped"} /\ st'[p] \in {"run", "stopped", "exited"}
  BY <1>1, <1>10 DEF Exit, Ends, ProcType
<1>11. ASSUME NEW q \in Job \X {1, 2}, ReassignLow(q) \/ CloseAll(q) PROVE FALSE
  BY <1>2, <1>11 DEF ReassignLow, CloseAll
<1>12. ASSUME NEW q \in Job \X {1, 2}, SendShm(q) \/ Syscall(q)
       PROVE  st[p] \in {"run", "stopped"} /\ st'[p] \in {"run", "stopped", "exited"}
  <2>1. q \in Proc
    BY Jobs
  <2> QED
    BY <1>1, <1>12, <2>1 DEF SendShm, Syscall, Ends, ProcType
<1>13. ASSUME NEW q \in Job \X {1, 2}, NEW kind, ForkExec(q, kind)
       PROVE  \E j \in Job : p = <<j, 2>> /\ st[Target(j)] = "run" /\ st'[Target(j)] = "run"
                             /\ st[p] = "none" /\ st'[p] \in {"run", "exited"}
  <2> DEFINE j == JobOf(q)
  <2>1. j \in Job /\ <<j, 2>> \in Proc /\ Target(j) \in Proc /\ Target(j) # <<j, 2>>
    BY Jobs
  <2>2. /\ st[Target(j)] = "run" /\ st[<<j, 2>>] = "none"
        /\ st' = [st EXCEPT ![<<j, 2>>] = "run"] \/ st' = [st EXCEPT ![<<j, 2>>] = "exited"]
    BY <1>13 DEF ForkExec
  <2> HIDE DEF j
  <2>3. p = <<j, 2>> /\ st'[Target(j)] = "run" /\ st'[p] \in {"run", "exited"}
    BY <1>1, <2>1, <2>2 DEF ProcType
  <2> QED
    BY <2>1, <2>2, <2>3
<1>14. ASSUME NEW j \in Job, Build(j) \/ Spawning(j) \/ OsFails(j)
       PROVE  p = Target(j) /\ (Fork(j) \/ ChildExec(j))
  BY <1>5, <1>6, <1>14 DEF Spawning
<1>15. ASSUME NEW j \in Job, Poll(j) \/ WaitFirst(j) \/ DropFuture(j) \/ Future(j)
       PROVE  st[p] \in {"run", "stopped"} /\ st'[p] \in {"run", "stopped", "exited"}
  BY <1>7, <1>8, <1>9, <1>15 DEF Future
<1>16. ASSUME NEW q \in Job \X {1, 2}, Activity(q)
       PROVE  \/ st[p] \in {"run", "stopped"} /\ st'[p] \in {"run", "stopped", "exited"}
              \/ \E j \in Job : p = <<j, 2>> /\ st[Target(j)] = "run" /\ st'[Target(j)] = "run"
                                /\ st[p] = "none" /\ st'[p] \in {"run", "exited"}
  BY <1>11, <1>12, <1>13, <1>16 DEF Activity
<1> QED
  BY <1>3, <1>4, <1>10, <1>14, <1>15, <1>16 DEF Next

LEMMA NextLife ==
  ASSUME TypeOK, SpawnerInv, [Next]_vars, NEW j \in Job, LifeInv(j)
  PROVE  LifeInv(j)'
<1>1. /\ SpawnerType /\ ProcType /\ j \in Owner /\ j # NoJob /\ Target(j) \in Proc /\ <<j, 2>> \in Proc
      /\ Target(j) # <<j, 2>> /\ Target(j) # Foreign /\ <<j, 2>> # Foreign
      /\ \A i \in Job : Target(i) = Target(j) => i = j
      /\ \A i \in Job : <<i, 2>> = <<j, 2>> => i = j
      /\ \A i \in Job : Target(i) # <<j, 2>> /\ <<i, 2>> # Target(j)
  <2>1. SpawnerType /\ ProcType
    BY Types
  <2> QED
    BY <2>1, Jobs DEF Target
<1>2. st[Target(j)] \in States /\ st[<<j, 2>>] \in States
  BY <1>1 DEF ProcType
<1>3. CASE UNCHANGED st /\ pc'[j] # pc[j]
  <2>1. \/ pc[j] \in {"build", "move", "supervise"} /\ pc'[j] \in {"move", "supervise", "resolve", "failed"}
        \/ pc[j] \in {"resolve", "fork"} /\ pc'[j] \in {"fork", "failed"}
        \/ pc[j] = "wait" /\ st[Target(j)] \notin {"forked", "failed"} /\ pc'[j] = "drop"
        \/ pc[j] = "wait" /\ st[Target(j)] = "failed" /\ pc'[j] = "failed"
        \/ pc[j] = "drop" /\ pc'[j] = "spawned"
    <3>1. CASE Pair(j) \/ Move(j) \/ Supervise(j) \/ DropCommand(j)
      BY <1>1, <3>1 DEF Pair, Move, Supervise, DropCommand, SpawnerType
    <3>2. CASE Resolve(j)
      <4>1. pc[j] = "resolve" /\ (pc' = [pc EXCEPT ![j] = "failed"] \/ pc' = [pc EXCEPT ![j] = "fork"])
        BY <3>2 DEF Resolve, Fail
      <4> QED
        BY <1>1, <4>1 DEF SpawnerType
    <3>3. CASE SpawnReturns(j)
      BY <1>1, <3>3 DEF SpawnReturns, Fail, SpawnerType
    <3>4. CASE OsFails(j)
      <4>1. pc[j] \in {"build", "supervise", "move", "fork"} /\ pc' = [pc EXCEPT ![j] = "failed"]
        BY <3>4 DEF OsFails, Fail
      <4> QED
        BY <1>1, <4>1 DEF SpawnerType
    <3>5. CASE Build(j) \/ Fork(j)
      <4>1. ~Build(j)
        BY <1>3 DEF Build
      <4>2. ASSUME Fork(j) PROVE FALSE
        <5>1. pc[j] = "fork" /\ st'[Target(j)] = "forked"
          BY <1>1, <4>2 DEF Fork, ProcType
        <5> QED
          BY <1>3, <5>1 DEF LifeInv
      <4> QED
        BY <3>5, <4>1, <4>2
    <3> QED
      BY <1>3, <3>1, <3>2, <3>3, <3>4, <3>5, PcStep
  <2>2. st'[Target(j)] = st[Target(j)] /\ st'[<<j, 2>>] = st[<<j, 2>>]
    BY <1>3
  <2> QED
    BY <1>2, <2>1, <2>2 DEF LifeInv, States
<1>4. CASE Fork(j)
  <2>1. /\ pc[j] = "fork" /\ pc'[j] = "wait" /\ st'[Target(j)] = "forked" /\ st'[<<j, 2>>] = st[<<j, 2>>]
    BY <1>1, <1>4 DEF Fork, SpawnerType, ProcType
  <2> QED
    BY <1>2, <2>1 DEF LifeInv, States
<1>5. CASE ChildExec(j)
  <2>1. /\ st[Target(j)] = "forked" /\ st'[Target(j)] \in {"run", "failed"} /\ pc'[j] = pc[j]
        /\ st'[<<j, 2>>] = st[<<j, 2>>]
    BY <1>1, <1>5 DEF ChildExec, spawnVars, ProcType
  <2> QED
    BY <1>2, <2>1 DEF LifeInv, States
<1>6. CASE pc'[j] = pc[j] /\ ~Fork(j) /\ ~ChildExec(j)
  <2>1. \/ st'[Target(j)] = st[Target(j)]
        \/ st[Target(j)] \in {"run", "stopped"} /\ st'[Target(j)] \in {"run", "stopped", "exited"}
    <3>1. CASE st'[Target(j)] # st[Target(j)]
      BY <1>1, <1>6, <3>1, StateStep
    <3> QED
      BY <3>1
  <2>2. \/ st'[<<j, 2>>] = st[<<j, 2>>]
        \/ st[<<j, 2>>] \in {"run", "stopped"} /\ st'[<<j, 2>>] \in {"run", "stopped", "exited"}
        \/ st[Target(j)] = "run" /\ st'[Target(j)] = "run" /\ st'[<<j, 2>>] \in {"run", "exited"}
    <3>1. CASE st'[<<j, 2>>] # st[<<j, 2>>]
      BY <1>1, <1>6, <3>1, StateStep
    <3> QED
      BY <3>1
  <2> QED
    BY <1>2, <1>6, <2>1, <2>2 DEF LifeInv, States
<1>7. ASSUME ~UNCHANGED st, pc'[j] # pc[j] PROVE Fork(j)
  <2>1. CASE Build(j) \/ Pair(j) \/ Move(j) \/ Supervise(j) \/ Resolve(j) \/ SpawnReturns(j)
             \/ DropCommand(j) \/ OsFails(j)
    BY <1>7, <2>1 DEF Build, Pair, Move, Supervise, Resolve, SpawnReturns, DropCommand, OsFails, procVars
  <2> QED
    BY <1>7, <2>1, PcStep
<1> QED
  BY <1>3, <1>4, <1>5, <1>6, <1>7

\* Once a spawn has forked, the numbers of its descriptors stay.
LEMMA NumbersKept ==
  ASSUME TypeOK, SpawnerInv, [Next]_vars, NEW j \in Job, pc[j] \in {"fork", "wait", "drop", "spawned"}
  PROVE  moved'[j] = moved[j] /\ sec'[j] = sec[j] /\ moved'[NoJob] = moved[NoJob]
<1>1. SpawnerType /\ j \in Owner /\ NoJob \in Owner /\ j # NoJob /\ pc[NoJob] = "ready"
  BY Types, Jobs DEF SpawnerInv, SenderInv
<1>2. ASSUME UNCHANGED <<moved, sec>> PROVE moved'[j] = moved[j] /\ sec'[j] = sec[j] /\ moved'[NoJob] = moved[NoJob]
  BY <1>2
<1>3. ~SpyInit /\ ~SpyFails /\ ~Move(NoJob)
  BY <1>1 DEF SpyInit, SpyFails, Move
<1>4. CASE OtherThread \/ ForeignFork \/ ForeignExec \/ Quiet \/ UNCHANGED vars
  BY <1>2, <1>4 DEF OtherThread, ForeignFork, ForeignExec, Quiet, spawnVars, vars
<1>5. ASSUME NEW i \in Job, Pair(i) \/ Move(i) \/ Supervise(i)
      PROVE  moved'[j] = moved[j] /\ sec'[j] = sec[j] /\ moved'[NoJob] = moved[NoJob]
  <2>1. i # j /\ i # NoJob
    BY <1>5, Jobs DEF Pair, Move, Supervise
  <2> QED
    BY <1>1, <1>5, <2>1 DEF Pair, Move, Supervise, SpawnerType
<1>6. ASSUME NEW i \in Job, Build(i) \/ Resolve(i) \/ Fork(i) \/ ChildExec(i) \/ SpawnReturns(i)
             \/ DropCommand(i) \/ OsFails(i)
      PROVE  UNCHANGED <<moved, sec>>
  BY <1>6 DEF Build, Resolve, Fork, ChildExec, SpawnReturns, DropCommand, OsFails, Fail, spawnVars
<1>7. ASSUME NEW i \in Job, Poll(i) \/ WaitFirst(i) \/ DropFuture(i) \/ Future(i) PROVE UNCHANGED <<moved, sec>>
  BY <1>7 DEF Poll, WaitFirst, DropFuture, Future, RecvShm, ShmEnds, RecvListener, LoopEnds,
              Join, GiveUp, Answer, spawnVars
<1>8. ASSUME NEW p, Exit(p) \/ Activity(p) PROVE UNCHANGED <<moved, sec>>
  BY <1>8 DEF Exit, Activity, ReassignLow, CloseAll, SendShm, Syscall, ForkExec, spawnVars
<1> QED
  BY <1>2, <1>3, <1>4, <1>5, <1>6, <1>7, <1>8 DEF Next, Spawning

\* A process of a tree that exists has a spawn that has forked.
LEMMA LivePc ==
  ASSUME TypeOK, ProcessInv, NEW p \in Proc, p # Foreign, st[p] \in {"forked", "run", "stopped"}
  PROVE  /\ JobOf(p) \in Job /\ pc[JobOf(p)] \in {"wait", "drop", "spawned"}
         /\ st[p] = "forked" => p = Target(JobOf(p))
<1>1. PICK j \in Job : p \in {Target(j), <<j, 2>>} /\ JobOf(p) = j
  BY DEF Proc, Target, JobOf
<1>2. LifeInv(j) /\ st[Target(j)] \in States
  BY Types, Jobs DEF ProcessInv, ProcType
<1> QED
  BY <1>1, <1>2 DEF LifeInv, States

LEMMA ProcKept ==
  ASSUME TypeOK, SpawnerInv, ProcessInv, [Next]_vars, NEW p \in Proc,
         tab'[p] = tab[p], p \in closed => p \in closed',
         \/ st'[p] = st[p]
         \/ st[p] \in {"run", "stopped"} /\ st'[p] \in {"run", "stopped"}
  PROVE  ProcInv(p)'
<1>1. ProcInv(p)
  BY DEF ProcessInv
<1>2. CASE st[p] \notin {"forked", "run", "stopped"}
  BY <1>2 DEF ProcInv, Executed
<1>3. CASE p = Foreign
  BY <1>1, <1>3 DEF ProcInv, Executed
<1>4. CASE p # Foreign /\ st[p] \in {"forked", "run", "stopped"}
  <2>1. /\ moved'[JobOf(p)] = moved[JobOf(p)] /\ sec'[JobOf(p)] = sec[JobOf(p)]
        /\ moved'[NoJob] = moved[NoJob]
    BY <1>4, LivePc, NumbersKept
  <2> QED
    BY <1>1, <1>4, <2>1 DEF ProcInv, Executed, Numbers
<1> QED
  BY <1>2, <1>3, <1>4

\* What an exec leaves of a table whose descriptors all have CLOEXEC.
LEMMA ExecKeeps ==
  ASSUME NEW t \in Tables, NEW S, Inheritable(t) = {}
  PROVE  \A f \in Fd : /\ AfterExec(t, S)[f].kind # "free" => f \in S
                       /\ f \in S => AfterExec(t, S)[f].kind = t[f].kind /\ AfterExec(t, S)[f].job = t[f].job
<1> TAKE f \in Fd
<1>1. /\ AfterExec(t, S)[f].kind = IF f \in S \/ t[f].cloexec # TRUE THEN t[f].kind ELSE "free"
      /\ AfterExec(t, S)[f].job = IF f \in S \/ t[f].cloexec # TRUE THEN t[f].job ELSE NoJob
  BY AfterExecTable
<1>2. t[f].kind = "free" \/ t[f].cloexec = TRUE
  BY DEF Inheritable
<1> QED
  BY <1>1, <1>2

LEMMA ForkProc ==
  ASSUME TypeOK, SpawnerInv, ProcessInv, NEW j \in Job, Fork(j)
  PROVE  ProcInv(Target(j))'
<1> DEFINE p == Target(j)
<1>1. p \in Proc /\ p # Foreign /\ JobOf(p) = j
  BY Jobs
<1>2. st'[p] = "forked" /\ tab'[p] = fdt /\ UNCHANGED <<moved, sec>> /\ pc[j] = "fork"
  BY <1>1, Types DEF Fork, ProcType
<1>3. Inheritable(fdt) = {} /\ SenderInv(j) /\ LibraryInv
  BY DEF SpawnerInv
<1>4. /\ moved[NoJob].fd \in Holding(fdt, {"memfd"}, NoJob) /\ moved[j].fd \in Holding(fdt, {"shmTx"}, j)
      /\ sec[j] \in Holding(fdt, {"secTx"}, j)
  BY <1>2, <1>3 DEF SenderInv, LibraryInv, MovedInv, Moving, Working, Holds
<1> HIDE DEF p
<1>5. ProcInv(p)'
  BY <1>1, <1>2, <1>3, <1>4 DEF ProcInv, Numbers, Executed
<1> QED
  BY <1>5 DEF p

LEMMA ChildExecProc ==
  ASSUME TypeOK, SpawnerInv, ProcessInv, NEW j \in Job, ChildExec(j)
  PROVE  /\ ProcInv(Target(j))'
         /\ st'[Target(j)] = "run" => Preloaded(AfterExec(tab[Target(j)], Inherited(j)))
<1> DEFINE p == Target(j)
           t == AfterExec(tab[p], Inherited(j))
<1>1. p \in Proc /\ p # Foreign /\ JobOf(p) = j /\ tab[p] \in Tables
  BY Types, Jobs DEF ProcType
<1>2. st[p] = "forked" /\ UNCHANGED <<moved, sec>>
  BY DEF ChildExec, spawnVars
<1>3. /\ Inheritable(tab[p]) = {} /\ Numbers(tab[p], j) /\ sec[j] \in Holding(tab[p], {"secTx"}, j)
  BY <1>1, <1>2 DEF ProcessInv, ProcInv
<1>4. \A f \in Fd : /\ t[f].kind # "free" => f \in Inherited(j)
                    /\ f \in Inherited(j) => t[f].kind = tab[p][f].kind /\ t[f].job = tab[p][f].job
  BY <1>1, <1>3, ExecKeeps
<1>5. /\ moved[NoJob].fd \in Fd /\ moved[j].fd \in Fd /\ sec[j] \in Fd
      /\ tab[p][moved[NoJob].fd].kind = "memfd" /\ tab[p][moved[NoJob].fd].job = NoJob
      /\ tab[p][moved[j].fd].kind = "shmTx" /\ tab[p][moved[j].fd].job = j
      /\ tab[p][sec[j]].kind = "secTx" /\ tab[p][sec[j]].job = j
  BY <1>3 DEF Numbers, Holding
<1>6. \/ st'[p] = "run" /\ tab'[p] = t
      \/ st'[p] = "failed"
  BY <1>1, Types DEF ChildExec, ProcType
<1> HIDE DEF t, p
<1>7. Inherited(j) = {moved[NoJob].fd, moved[j].fd, sec[j]}
  BY DEF Inherited
<1>8. \A f \in Fd : t[f].kind \notin Rx /\ (t[f].kind \in Tx => t[f].job = j)
  BY <1>4, <1>5, <1>7 DEF Rx, Tx
<1>9. Numbers(t, j) /\ Preloaded(t)
  BY <1>4, <1>5, <1>7 DEF Numbers, Holding, Preloaded
<1>10. ProcInv(p)'
  <2>1. CASE st'[p] = "run" /\ tab'[p] = t
    <3>1. Numbers(tab[p], j)'
      BY <1>2, <1>9, <2>1 DEF Numbers
    <3> QED
      BY <1>1, <1>8, <2>1, <3>1 DEF ProcInv, Executed
  <2>2. CASE st'[p] = "failed"
    BY <2>2 DEF ProcInv, Executed
  <2> QED
    BY <1>6, <2>1, <2>2
<1> QED
  BY <1>9, <1>10 DEF p, t

LEMMA NextProc ==
  ASSUME TypeOK, SpawnerInv, ProcessInv, [Next]_vars, NEW p \in Proc
  PROVE  ProcInv(p)'
<1>1. ProcType /\ ProcInv(p) /\ SpawnerType
  BY Types DEF ProcessInv
<1>2. ASSUME tab'[p] = tab[p], st'[p] = st[p], closed \subseteq closed' PROVE ProcInv(p)'
  BY <1>2, ProcKept
<1>3. ASSUME UNCHANGED procVars PROVE ProcInv(p)'
  BY <1>2, <1>3 DEF procVars
<1>4. ASSUME st'[p] \notin {"forked", "run", "stopped"} PROVE ProcInv(p)'
  BY <1>4 DEF ProcInv, Executed
<1>5. CASE ForeignFork
  <2>1. CASE p # Foreign
    BY <1>1, <1>2, <1>5, <2>1, Jobs DEF ForeignFork, ProcType
  <2>2. CASE p = Foreign
    <3>1. st'[p] = "forked" /\ tab'[p] = fdt /\ Inheritable(fdt) = {}
      BY <1>1, <1>5, <2>2, Jobs DEF ForeignFork, ProcType, SpawnerInv
    <3> QED
      BY <2>2, <3>1 DEF ProcInv, Executed
  <2> QED
    BY <2>1, <2>2
<1>6. CASE ForeignExec
  <2>1. CASE p # Foreign
    BY <1>1, <1>2, <1>6, <2>1, Jobs DEF ForeignExec, ProcType
  <2>2. CASE p = Foreign
    <3>1. st'[p] = "run" /\ tab'[p] = AfterExec(tab[p], {}) /\ Inheritable(tab[p]) = {} /\ tab[p] \in Tables
      BY <1>1, <1>6, <2>2, Jobs DEF ForeignExec, ProcType, ProcInv
    <3>2. \A f \in Fd : tab'[p][f].kind = "free"
      BY <3>1, ExecKeeps
    <3> QED
      BY <2>2, <3>1, <3>2 DEF ProcInv, Executed, Rx, Tx
  <2> QED
    BY <2>1, <2>2
<1>7. ASSUME NEW j \in Job, Fork(j) PROVE ProcInv(p)'
  <2>1. CASE p # Target(j)
    BY <1>1, <1>2, <1>7, <2>1, Jobs DEF Fork, ProcType
  <2> QED
    BY <1>7, <2>1, ForkProc
<1>8. ASSUME NEW j \in Job, ChildExec(j) PROVE ProcInv(p)'
  <2>1. CASE p # Target(j)
    <3>1. tab'[p] = tab[p] /\ st'[p] = st[p] /\ UNCHANGED closed
      BY <1>1, <1>8, <2>1, Jobs DEF ChildExec, ProcType
    <3> QED
      BY <1>2, <3>1
  <2> QED
    BY <1>8, <2>1, ChildExecProc
<1>9. CASE SpyInit \/ SpyFails \/ Move(NoJob) \/ OtherThread \/ Quiet \/ UNCHANGED vars
  BY <1>3, <1>9 DEF SpyInit, SpyFails, Move, OtherThread, Quiet, vars
<1>10. ASSUME NEW j \in Job, Build(j) \/ Pair(j) \/ Move(j) \/ Supervise(j) \/ Resolve(j)
              \/ SpawnReturns(j) \/ DropCommand(j) \/ OsFails(j)
       PROVE  UNCHANGED procVars
  BY <1>10 DEF Build, Pair, Move, Supervise, Resolve, SpawnReturns, DropCommand, OsFails
<1>11. ASSUME NEW j \in Job, Poll(j) \/ WaitFirst(j) \/ RecvShm(j) \/ ShmEnds(j)
              \/ RecvListener(j) \/ LoopEnds(j)
       PROVE  UNCHANGED procVars
  BY <1>11 DEF Poll, WaitFirst, RecvShm, ShmEnds, RecvListener, LoopEnds
<1>12. ASSUME NEW j \in Job, DropFuture(j) \/ Join(j) PROVE ProcInv(p)'
  <2>1. /\ UNCHANGED <<tab, closed>>
        /\ st'[p] = st[p] \/ (st[p] = "stopped" /\ st'[p] = "run")
    BY <1>12 DEF DropFuture, Join, GiveUp, StoppedIn
  <2> QED
    BY <2>1, ProcKept
<1>13. ASSUME NEW j \in Job, NEW q \in Tree(j), Answer(q) PROVE ProcInv(p)'
  <2>1. /\ UNCHANGED <<tab, closed>>
        /\ st'[p] = st[p] \/ (st[p] = "stopped" /\ st'[p] = "run")
    BY <1>1, <1>13 DEF Answer, StoppedIn, Tree, ProcType
  <2> QED
    BY <2>1, ProcKept
<1>14. ASSUME NEW q \in Proc, Ends(q), UNCHANGED closed PROVE ProcInv(p)'
  <2>1. CASE p # q
    BY <1>1, <1>2, <1>14, <2>1 DEF Ends, ProcType
  <2>2. CASE p = q
    BY <1>1, <1>4, <1>14, <2>2 DEF Ends, ProcType
  <2> QED
    BY <2>1, <2>2
<1>15. ASSUME NEW q \in Job \X {1, 2}, ReassignLow(q) PROVE ProcInv(p)'
  <2>1. CASE p # q
    BY <1>1, <1>2, <1>15, <2>1 DEF ReassignLow, ProcType
  <2>2. CASE p = q
    <3> DEFINE e == [Open("other", NoJob) EXCEPT !.cloexec = FALSE]
    <3>1. /\ st[p] = "run" /\ st'[p] = "run" /\ UNCHANGED <<closed, moved, sec>>
          /\ \A f \in Fd : tab'[p][f] = IF f < SafeFd THEN e ELSE tab[p][f]
      BY <1>1, <1>15, <2>2 DEF ReassignLow, ProcType, spawnVars
    <3>2. e.kind = "other"
      BY DEF Open
    <3> HIDE DEF e
    <3>3. p # Foreign /\ JobOf(p) \in Job
      BY <2>2, Jobs
    <3>4. SenderInv(JobOf(p)) /\ LibraryInv /\ pc[JobOf(p)] \in {"wait", "drop", "spawned"}
      BY <3>1, <3>3, LivePc DEF SpawnerInv
    <3>5. pc[NoJob] = "ready" /\ IsSafe(moved[NoJob].fd) /\ IsSafe(moved[JobOf(p)].fd)
      BY <3>4 DEF SenderInv, LibraryInv, MovedInv, Moving, Working
    <3>6. \A f \in Fd : IsSafe(f) => ~(f < SafeFd)
      BY ConstAssumption DEF IsSafe, Fd
    <3>7. p \notin closed => Numbers(tab'[p], JobOf(p))
      <4>1. SUFFICES ASSUME p \notin closed PROVE Numbers(tab'[p], JobOf(p))
        OBVIOUS
      <4>2. Numbers(tab[p], JobOf(p))
        BY <1>1, <3>1, <3>3, <4>1 DEF ProcInv, Executed
      <4>3. moved[NoJob].fd \in Fd /\ moved[JobOf(p)].fd \in Fd
        BY <4>2 DEF Numbers, Holding
      <4>4. /\ tab'[p][moved[NoJob].fd] = tab[p][moved[NoJob].fd]
            /\ tab'[p][moved[JobOf(p)].fd] = tab[p][moved[JobOf(p)].fd]
        BY <3>1, <3>5, <3>6, <4>3
      <4> QED
        BY <4>2, <4>4 DEF Numbers, Holding
    <3>8. p \notin closed' => Numbers(tab[p], JobOf(p))'
      BY <3>1, <3>7 DEF Numbers
    <3>9. \A f \in Fd : tab'[p][f].kind \notin Rx /\ (tab'[p][f].kind \in Tx => tab'[p][f].job = JobOf(p))
      BY <1>1, <3>1, <3>2 DEF ProcInv, Executed, Rx, Tx
    <3> QED
      BY <3>1, <3>8, <3>9 DEF ProcInv, Executed
  <2> QED
    BY <2>1, <2>2
<1>16. ASSUME NEW q \in Job \X {1, 2}, CloseAll(q) PROVE ProcInv(p)'
  <2>1. CASE p # q
    BY <1>1, <1>2, <1>16, <2>1 DEF CloseAll, ProcType
  <2>2. CASE p = q
    <3>1. st'[p] = "run" /\ p \in closed' /\ tab'[p] = [f \in Fd |-> Free]
      BY <1>1, <1>16, <2>2 DEF CloseAll, ProcType
    <3> QED
      BY <3>1, FreeEntry DEF ProcInv, Executed, Rx, Tx
  <2> QED
    BY <2>1, <2>2
<1>17. ASSUME NEW q \in Job \X {1, 2}, SendShm(q) PROVE ProcInv(p)'
  <2>1. UNCHANGED closed /\ q \in Proc /\ (UNCHANGED <<st, tab>> \/ Ends(q))
    BY <1>17, Jobs DEF SendShm
  <2> QED
    BY <1>2, <1>14, <2>1
<1>18. ASSUME NEW q \in Job \X {1, 2}, Syscall(q) PROVE ProcInv(p)'
  <2>1. /\ UNCHANGED <<tab, closed>>
        /\ st'[p] = st[p] \/ (st[p] = "run" /\ st'[p] = "stopped")
    BY <1>1, <1>18, Jobs DEF Syscall, ProcType
  <2> QED
    BY <2>1, ProcKept
<1>19. ASSUME NEW q \in Job \X {1, 2}, NEW kind, ForkExec(q, kind) PROVE ProcInv(p)'
  <2> DEFINE j == JobOf(q)
             c == <<j, 2>>
  <2>1. j \in Job /\ c \in Proc /\ q \in Proc /\ c # Foreign /\ q # Foreign /\ JobOf(c) = j
    BY Jobs
  <2>2. /\ st[q] = "run" /\ UNCHANGED <<moved, sec>>
        /\ closed' = IF q \in closed THEN closed \cup {c} ELSE closed
        /\ \/ st' = [st EXCEPT ![c] = "run"] /\ tab' = [tab EXCEPT ![c] = tab[q]]
           \/ st' = [st EXCEPT ![c] = "exited"] /\ UNCHANGED tab
    BY <1>19 DEF ForkExec, spawnVars
  <2> HIDE DEF c
  <2>3. CASE p # c
    BY <1>1, <1>2, <2>1, <2>2, <2>3 DEF ProcType
  <2>4. CASE p = c /\ st' = [st EXCEPT ![c] = "exited"]
    BY <1>1, <1>4, <2>4 DEF ProcType
  <2>5. CASE p = c /\ st' = [st EXCEPT ![c] = "run"] /\ tab' = [tab EXCEPT ![c] = tab[q]]
    <3>1. st'[p] = "run" /\ tab'[p] = tab[q] /\ ProcInv(q) /\ JobOf(p) = j /\ p # Foreign
      BY <1>1, <2>1, <2>5 DEF ProcType, ProcessInv
    <3> HIDE DEF j
    <3>2. p \notin closed' => q \notin closed
      BY <2>2, <2>5
    <3>3. q \notin closed => Numbers(tab[p], j)'
      BY <2>1, <2>2, <3>1 DEF ProcInv, Executed, Numbers, j
    <3>4. \A f \in Fd : tab'[p][f].kind \notin Rx /\ (tab'[p][f].kind \in Tx => tab'[p][f].job = j)
      BY <2>2, <3>1 DEF ProcInv, Executed, j
    <3> QED
      BY <3>1, <3>2, <3>3, <3>4 DEF ProcInv, Executed
  <2> QED
    BY <2>2, <2>3, <2>4, <2>5
<1>20. ASSUME NEW q \in Proc, Exit(q) PROVE ProcInv(p)'
  BY <1>14, <1>20 DEF Exit
<1>21. ASSUME NEW j \in Job, Build(j) \/ Spawning(j) \/ OsFails(j) PROVE ProcInv(p)'
  BY <1>3, <1>7, <1>8, <1>10, <1>21 DEF Spawning
<1>22. ASSUME NEW j \in Job, Poll(j) \/ WaitFirst(j) \/ DropFuture(j) \/ Future(j) PROVE ProcInv(p)'
  BY <1>3, <1>11, <1>12, <1>13, <1>22 DEF Future
<1>23. ASSUME NEW q \in Job \X {1, 2}, Activity(q) PROVE ProcInv(p)'
  BY <1>15, <1>16, <1>17, <1>18, <1>19, <1>23 DEF Activity
<1> QED
  BY <1>5, <1>6, <1>9, <1>20, <1>21, <1>22, <1>23 DEF Next

LEMMA NextProcess ==
  ASSUME TypeOK, SpawnerInv, ProcessInv, [Next]_vars
  PROVE  ProcessInv'
<1>1. ASSUME NEW j \in Job PROVE CommandInv(j)' /\ LifeInv(j)'
  BY NextCommand, NextLife DEF ProcessInv
<1> QED
  BY <1>1, NextProc DEF ProcessInv

-------------------------------------------------------------------------------
(* The future *)

LEMMA InitFuture == Init => FutureInv
<1> SUFFICES ASSUME Init, NEW j \in Job PROVE ShmInv(j) /\ LoopInv(j)
  BY DEF FutureInv
<1>1. /\ half[j].shm = "run" /\ half[j].sec = "run" /\ fut[j] = "none" /\ got[j] = 0 /\ sent[j] = 0
      /\ shmq[j] = 0 /\ aborted = {} /\ refused = {} /\ \A p \in Proc : st[p] = "none"
  BY DEF Init, Running
<1> QED
  BY <1>1 DEF ShmInv, LoopInv, Tree

\* Which steps change the future of a job.
LEMMA FutStep ==
  ASSUME TypeOK, [Next]_vars, NEW j \in Job, ~UNCHANGED <<fut[j], half[j]>>
  PROVE  \/ UNCHANGED half /\ (DropCommand(j) \/ Poll(j) \/ DropFuture(j) \/ Join(j))
         \/ UNCHANGED fut /\ (ShmEnds(j) \/ LoopEnds(j))
<1>1. FutType /\ ~UNCHANGED <<fut, half>>
  BY Types
<1>2. CASE SpyInit \/ SpyFails \/ Move(NoJob) \/ OtherThread \/ ForeignFork \/ ForeignExec \/ Quiet \/ UNCHANGED vars
  BY <1>1, <1>2 DEF SpyInit, SpyFails, Move, OtherThread, ForeignFork, ForeignExec, Quiet, vars, futVars
<1>3. ASSUME NEW i \in Job, Build(i) \/ Pair(i) \/ Move(i) \/ Supervise(i) \/ Resolve(i) \/ Fork(i)
              \/ ChildExec(i) \/ SpawnReturns(i) \/ OsFails(i)
      PROVE  FALSE
  BY <1>1, <1>3 DEF Build, Pair, Move, Supervise, Resolve, Fork, ChildExec, SpawnReturns, OsFails, futVars
<1>4. ASSUME NEW i \in Job, WaitFirst(i) \/ RecvShm(i) \/ RecvListener(i) \/ \E p \in Tree(i) : Answer(p)
      PROVE  FALSE
  BY <1>1, <1>4 DEF WaitFirst, RecvShm, RecvListener, Answer
<1>5. ASSUME NEW i \in Job, DropCommand(i) \/ Poll(i) PROVE i = j /\ UNCHANGED half
  BY <1>1, <1>5 DEF DropCommand, Poll, FutType
<1>6. ASSUME NEW i \in Job, DropFuture(i) \/ Join(i) PROVE i = j /\ UNCHANGED half
  <2>1. PICK r : GiveUp(i, r)
    BY <1>6 DEF DropFuture, Join
  <2> QED
    BY <1>1, <2>1 DEF GiveUp, FutType
<1>7. ASSUME NEW i \in Job, ShmEnds(i) \/ LoopEnds(i) PROVE i = j /\ UNCHANGED fut
  <2>1. /\ UNCHANGED fut
        /\ \E r : half' = [half EXCEPT ![i].shm = r] \/ half' = [half EXCEPT ![i].sec = r]
    BY <1>7 DEF ShmEnds, LoopEnds
  <2> QED
    BY <1>1, <2>1 DEF FutType
<1>8. ASSUME NEW p, Exit(p) \/ Activity(p) PROVE FALSE
  BY <1>1, <1>8 DEF Exit, Activity, ReassignLow, CloseAll, SendShm, Syscall, ForkExec, futVars
<1>9. ASSUME NEW i \in Job, Build(i) \/ Spawning(i) \/ OsFails(i) PROVE i = j /\ DropCommand(j) /\ UNCHANGED half
  BY <1>3, <1>5, <1>9 DEF Spawning
<1>10. ASSUME NEW i \in Job, Poll(i) \/ WaitFirst(i) \/ DropFuture(i) \/ Future(i)
       PROVE  \/ UNCHANGED half /\ (Poll(j) \/ DropFuture(j) \/ Join(j))
              \/ UNCHANGED fut /\ (ShmEnds(j) \/ LoopEnds(j))
  BY <1>4, <1>5, <1>6, <1>7, <1>10 DEF Future
<1> QED
  BY <1>2, <1>8, <1>9, <1>10 DEF Next

\* The order of the states of a future, and of its halves.
LEMMA FutOrder ==
  ASSUME TypeOK, SpawnerInv, [Next]_vars, NEW j \in Job
  PROVE  /\ fut'[j] \in Pending \cup {"ok"} => fut[j] \in Pending \/ fut'[j] = fut[j]
         /\ fut'[j] = "ok" => fut[j] = "ok" \/ JoinResult(j) = "ok"
         /\ half[j].shm # "run" => half'[j].shm = half[j].shm
         /\ half[j].sec # "run" => half'[j].sec = half[j].sec
         /\ half'[j].shm = "ok" => half[j].shm = "ok" \/ (ShmDone(j) /\ ShmEnds(j))
         /\ half'[j].sec = "ok" => half[j].sec = "ok" \/ LoopEnds(j)
<1>1. FutType /\ ReceiverInv(j)
  BY Types DEF SpawnerInv
<1>2. CASE UNCHANGED <<fut[j], half[j]>>
  BY <1>2
<1>3. CASE UNCHANGED half /\ (DropCommand(j) \/ Poll(j) \/ DropFuture(j) \/ Join(j))
  <2>1. CASE DropCommand(j) \/ Poll(j)
    <3>1. fut[j] \in Pending /\ fut'[j] # "ok"
      BY <1>1, <2>1 DEF DropCommand, Poll, ReceiverInv, Pending, FutType
    <3> QED
      BY <1>3, <3>1
  <2>2. CASE DropFuture(j)
    <3>1. fut'[j] = "dropped"
      BY <1>1, <2>2 DEF DropFuture, GiveUp, FutType
    <3> QED
      BY <1>3, <3>1 DEF Pending
  <2>3. CASE Join(j)
    <3>1. fut'[j] = JoinResult(j) /\ fut[j] \in Pending
      BY <1>1, <2>3 DEF Join, GiveUp, FutType, Pending
    <3> QED
      BY <1>3, <3>1
  <2> QED
    BY <1>3, <2>1, <2>2, <2>3
<1>4. CASE UNCHANGED fut /\ ShmEnds(j)
  <2>1. /\ half[j].shm = "run"
        /\ (ShmDone(j) /\ half' = [half EXCEPT ![j].shm = "ok"]) \/ half' = [half EXCEPT ![j].shm = "err"]
    BY <1>4 DEF ShmEnds, Polled
  <2>2. half'[j].sec = half[j].sec /\ (half'[j].shm = "ok" => ShmDone(j))
    BY <1>1, <2>1 DEF FutType
  <2> QED
    BY <1>4, <2>1, <2>2
<1>5. CASE UNCHANGED fut /\ LoopEnds(j)
  <2>1. half[j].sec = "run" /\ half'[j].shm = half[j].shm
    BY <1>1, <1>5 DEF LoopEnds, Polled, FutType
  <2> QED
    BY <1>5, <2>1
<1> QED
  BY <1>2, <1>3, <1>4, <1>5, FutStep

\* What a table may become: nothing puts a sending end of another job into it.
LEMMA TabStep ==
  ASSUME TypeOK, [Next]_vars, NEW p \in Proc
  PROVE  \/ tab'[p] = tab[p] \/ tab'[p] = fdt \/ tab'[p] = [f \in Fd |-> Free]
         \/ \E S : tab'[p] = AfterExec(tab[p], S)
         \/ \E q \in Proc : tab'[p] = tab[q]
         \/ \A f \in Fd : tab'[p][f].kind = "other" \/ tab'[p][f] = tab[p][f]
<1>1. ProcType
  BY Types
<1>2. ASSUME UNCHANGED procVars PROVE tab'[p] = tab[p]
  BY <1>2 DEF procVars
<1>3. CASE SpyInit \/ SpyFails \/ Move(NoJob) \/ OtherThread \/ Quiet \/ UNCHANGED vars
  BY <1>2, <1>3 DEF SpyInit, SpyFails, Move, OtherThread, Quiet, vars
<1>4. CASE ForeignFork \/ ForeignExec
  BY <1>1, <1>4 DEF ForeignFork, ForeignExec, ProcType
<1>5. ASSUME NEW j \in Job, Fork(j) PROVE tab'[p] = tab[p] \/ tab'[p] = fdt
  BY <1>1, <1>5 DEF Fork, ProcType
<1>6. ASSUME NEW j \in Job, ChildExec(j)
      PROVE  tab'[p] = tab[p] \/ tab'[p] = [f \in Fd |-> Free] \/ \E S : tab'[p] = AfterExec(tab[p], S)
  BY <1>1, <1>6, Jobs DEF ChildExec, ProcType
<1>7. ASSUME NEW j \in Job, Build(j) \/ Pair(j) \/ Move(j) \/ Supervise(j) \/ Resolve(j)
              \/ SpawnReturns(j) \/ DropCommand(j) \/ OsFails(j)
      PROVE  UNCHANGED procVars
  BY <1>7 DEF Build, Pair, Move, Supervise, Resolve, SpawnReturns, DropCommand, OsFails
<1>8. ASSUME NEW j \in Job, Poll(j) \/ WaitFirst(j) \/ DropFuture(j) \/ Future(j) PROVE tab'[p] = tab[p]
  BY <1>8 DEF Poll, WaitFirst, DropFuture, Future, RecvShm, ShmEnds, RecvListener, LoopEnds, Join,
              GiveUp, Answer, procVars
<1>9. ASSUME NEW q \in Proc, Exit(q) \/ CloseAll(q) \/ SendShm(q) \/ Syscall(q)
      PROVE  tab'[p] = tab[p] \/ tab'[p] = [f \in Fd |-> Free]
  BY <1>1, <1>9 DEF Exit, CloseAll, SendShm, Syscall, Ends, ProcType
<1>10. ASSUME NEW q \in Proc, ReassignLow(q)
       PROVE  tab'[p] = tab[p] \/ \A f \in Fd : tab'[p][f].kind = "other" \/ tab'[p][f] = tab[p][f]
  <2> DEFINE e == [Open("other", NoJob) EXCEPT !.cloexec = FALSE]
  <2>1. tab' = [tab EXCEPT ![q] = [f \in Fd |-> IF f < SafeFd THEN e ELSE tab[q][f]]] /\ e.kind = "other"
    BY <1>10 DEF ReassignLow, Open
  <2> HIDE DEF e
  <2> QED
    BY <1>1, <2>1 DEF ProcType
<1>11. ASSUME NEW q \in Proc, NEW kind, ForkExec(q, kind) PROVE tab'[p] = tab[p] \/ tab'[p] = tab[q]
  BY <1>1, <1>11 DEF ForkExec, ProcType
<1>12. ASSUME NEW j \in Job, Build(j) \/ Spawning(j) \/ OsFails(j)
       PROVE  tab'[p] = tab[p] \/ tab'[p] = fdt \/ tab'[p] = [f \in Fd |-> Free]
              \/ \E S : tab'[p] = AfterExec(tab[p], S)
  BY <1>2, <1>5, <1>6, <1>7, <1>12 DEF Spawning
<1>13. ASSUME NEW q \in Job \X {1, 2}, Activity(q)
       PROVE  \/ tab'[p] = tab[p] \/ tab'[p] = [f \in Fd |-> Free]
              \/ tab'[p] = tab[q] /\ q \in Proc
              \/ \A f \in Fd : tab'[p][f].kind = "other" \/ tab'[p][f] = tab[p][f]
  BY <1>9, <1>10, <1>11, <1>13, Jobs DEF Activity
<1> QED
  BY <1>3, <1>4, <1>8, <1>9, <1>12, <1>13, Jobs DEF Next

\* After its end of file a channel gets no sender again.
LEMMA EofKept ==
  ASSUME TypeOK, SpawnerInv, [Next]_vars, NEW j \in Job, NEW k \in Tx, pc[j] = "spawned", Eof(j, k)
  PROVE  Eof(j, k)' /\ pc'[j] = "spawned"
<1>1. pc'[j] = "spawned"
  <2>1. ASSUME pc'[j] # pc[j] PROVE FALSE
    BY <2>1, PcStep DEF Build, Pair, Move, Supervise, Resolve, Fork, SpawnReturns, DropCommand, OsFails
  <2> QED
    BY <2>1
<1>2. Holding(fdt', {k}, j) = {}
  BY <1>1, NextSpawner DEF SpawnerInv, SenderInv, Moving, Working, Holds, Tx
<1>3. ASSUME NEW p \in Proc PROVE Holding(tab'[p], {k}, j) = {}
  <2>1. \A q \in Proc : \A f \in Fd : ~(tab[q][f].kind = k /\ tab[q][f].job = j)
    BY DEF Eof, Holding
  <2>2. \A f \in Fd : ~(fdt[f].kind = k /\ fdt[f].job = j)
    BY DEF Eof, Holding
  <2>3. k # "free" /\ k # "other" /\ tab[p] \in Tables
    BY Types DEF Tx, ProcType
  <2>4. ASSUME NEW f \in Fd PROVE ~(tab'[p][f].kind = k /\ tab'[p][f].job = j)
    <3>1. CASE tab'[p] = tab[p] \/ tab'[p] = fdt \/ \E q \in Proc : tab'[p] = tab[q]
      BY <2>1, <2>2, <3>1
    <3>2. CASE tab'[p] = [g \in Fd |-> Free]
      BY <2>3, <3>2, FreeEntry
    <3>3. ASSUME NEW S, tab'[p] = AfterExec(tab[p], S) PROVE ~(tab'[p][f].kind = k /\ tab'[p][f].job = j)
      <4>1. \/ AfterExec(tab[p], S)[f].kind = "free"
            \/ /\ AfterExec(tab[p], S)[f].kind = tab[p][f].kind
               /\ AfterExec(tab[p], S)[f].job = tab[p][f].job
        <5>1. /\ AfterExec(tab[p], S)[f].kind = IF f \in S \/ tab[p][f].cloexec # TRUE THEN tab[p][f].kind ELSE "free"
              /\ AfterExec(tab[p], S)[f].job = IF f \in S \/ tab[p][f].cloexec # TRUE THEN tab[p][f].job ELSE NoJob
          BY <2>3, AfterExecTable
        <5> QED
          BY <5>1
      <4> QED
        BY <2>1, <2>3, <3>3, <4>1
    <3>4. CASE \A g \in Fd : tab'[p][g].kind = "other" \/ tab'[p][g] = tab[p][g]
      BY <2>1, <2>3, <3>4
    <3> QED
      BY <3>1, <3>2, <3>3, <3>4, TabStep
  <2> QED
    BY <2>4 DEF Holding
<1> QED
  BY <1>1, <1>2, <1>3 DEF Eof

\* The chunks in flight: sent by a process that names the sender, received one by one,
\* or dropped with the future.
LEMMA QueueStep ==
  ASSUME TypeOK, [Next]_vars, NEW j \in Job
  PROVE  \/ shmq'[j] = shmq[j] /\ sent'[j] = sent[j] /\ got'[j] = got[j]
         \/ /\ shmq'[j] = shmq[j] + 1 /\ sent'[j] = sent[j] + 1 /\ got'[j] = got[j]
            /\ \E p \in Proc : Holding(tab[p], {"shmTx"}, j) # {}
         \/ /\ half[j].shm = "run" /\ shmq[j] > 0
            /\ shmq'[j] = shmq[j] - 1 /\ got'[j] = got[j] + 1 /\ sent'[j] = sent[j]
         \/ shmq'[j] = 0 /\ sent'[j] = sent[j] /\ got'[j] = got[j] /\ fut'[j] \notin Pending
<1>1. FutType
  BY Types
<1>2. ASSUME UNCHANGED futVars PROVE shmq'[j] = shmq[j] /\ sent'[j] = sent[j] /\ got'[j] = got[j]
  BY <1>2 DEF futVars
<1>3. CASE SpyInit \/ SpyFails \/ Move(NoJob) \/ OtherThread \/ ForeignFork \/ ForeignExec \/ Quiet \/ UNCHANGED vars
  BY <1>2, <1>3 DEF SpyInit, SpyFails, Move, OtherThread, ForeignFork, ForeignExec, Quiet, vars
<1>4. ASSUME NEW i \in Job, Build(i) \/ Spawning(i) \/ OsFails(i)
      PROVE  shmq'[j] = shmq[j] /\ sent'[j] = sent[j] /\ got'[j] = got[j]
  BY <1>4 DEF Build, Spawning, Pair, Move, Supervise, Resolve, Fork, ChildExec, SpawnReturns, DropCommand,
              OsFails, futVars
<1>5. ASSUME NEW i \in Job, Poll(i) \/ WaitFirst(i) \/ ShmEnds(i) \/ RecvListener(i) \/ LoopEnds(i)
             \/ \E p \in Tree(i) : Answer(p)
      PROVE  shmq'[j] = shmq[j] /\ sent'[j] = sent[j] /\ got'[j] = got[j]
  BY <1>5 DEF Poll, WaitFirst, ShmEnds, RecvListener, LoopEnds, Answer
<1>6. ASSUME NEW i \in Job, RecvShm(i)
      PROVE  \/ shmq'[j] = shmq[j] /\ sent'[j] = sent[j] /\ got'[j] = got[j]
             \/ /\ half[j].shm = "run" /\ shmq[j] > 0
                /\ shmq'[j] = shmq[j] - 1 /\ got'[j] = got[j] + 1 /\ sent'[j] = sent[j]
  BY <1>1, <1>6 DEF RecvShm, Polled, FutType
<1>7. ASSUME NEW i \in Job, DropFuture(i) \/ Join(i)
      PROVE  \/ shmq'[j] = shmq[j] /\ sent'[j] = sent[j] /\ got'[j] = got[j]
             \/ shmq'[j] = 0 /\ sent'[j] = sent[j] /\ got'[j] = got[j] /\ fut'[j] \notin Pending
  <2>1. PICK r \in {"ok", "err", "dropped"} : GiveUp(i, r)
    BY <1>7 DEF DropFuture, Join, JoinResult
  <2>2. /\ shmq' = [shmq EXCEPT ![i] = 0] /\ fut' = [fut EXCEPT ![i] = r] /\ UNCHANGED <<sent, got>>
    BY <2>1 DEF GiveUp
  <2> QED
    BY <1>1, <2>2 DEF FutType, Pending
<1>8. ASSUME NEW p, Exit(p) \/ ReassignLow(p) \/ CloseAll(p) \/ Syscall(p) \/ \E kind : ForkExec(p, kind)
      PROVE  shmq'[j] = shmq[j] /\ sent'[j] = sent[j] /\ got'[j] = got[j]
  BY <1>8 DEF Exit, ReassignLow, CloseAll, Syscall, ForkExec, futVars
<1>9. ASSUME NEW p \in Job \X {1, 2}, SendShm(p)
      PROVE  \/ shmq'[j] = shmq[j] /\ sent'[j] = sent[j] /\ got'[j] = got[j]
             \/ /\ shmq'[j] = shmq[j] + 1 /\ sent'[j] = sent[j] + 1 /\ got'[j] = got[j]
                /\ \E q \in Proc : Holding(tab[q], {"shmTx"}, j) # {}
  <2>1. JobOf(p) \in Job /\ p \in Proc
    BY Jobs
  <2>2. CASE UNCHANGED <<shmq, sent>>
    BY <1>9, <2>2 DEF SendShm
  <2>3. CASE /\ Names(p, moved[JobOf(p)].fd, "shmTx")
             /\ shmq' = [shmq EXCEPT ![JobOf(p)] = @ + 1] /\ sent' = [sent EXCEPT ![JobOf(p)] = @ + 1]
    <3>1. got'[j] = got[j]
      BY <1>9 DEF SendShm
    <3>2. CASE JobOf(p) # j
      BY <1>1, <2>1, <2>3, <3>1, <3>2 DEF FutType
    <3>3. CASE JobOf(p) = j
      <4>1. moved[j].fd \in Fd
        BY Types, Jobs DEF SpawnerType
      <4>2. moved[j].fd \in Holding(tab[p], {"shmTx"}, j)
        BY <2>3, <3>3, <4>1 DEF Names, Holding
      <4> QED
        BY <1>1, <2>1, <2>3, <3>1, <3>3, <4>2 DEF FutType
    <3> QED
      BY <3>2, <3>3
  <2> QED
    BY <1>9, <2>2, <2>3 DEF SendShm
<1>10. ASSUME NEW i \in Job, Poll(i) \/ WaitFirst(i) \/ DropFuture(i) \/ Future(i)
       PROVE  \/ shmq'[j] = shmq[j] /\ sent'[j] = sent[j] /\ got'[j] = got[j]
              \/ /\ half[j].shm = "run" /\ shmq[j] > 0
                 /\ shmq'[j] = shmq[j] - 1 /\ got'[j] = got[j] + 1 /\ sent'[j] = sent[j]
              \/ shmq'[j] = 0 /\ sent'[j] = sent[j] /\ got'[j] = got[j] /\ fut'[j] \notin Pending
  BY <1>5, <1>6, <1>7, <1>10 DEF Future
<1>11. ASSUME NEW p \in Job \X {1, 2}, Activity(p)
       PROVE  \/ shmq'[j] = shmq[j] /\ sent'[j] = sent[j] /\ got'[j] = got[j]
              \/ /\ shmq'[j] = shmq[j] + 1 /\ sent'[j] = sent[j] + 1 /\ got'[j] = got[j]
                 /\ \E q \in Proc : Holding(tab[q], {"shmTx"}, j) # {}
  BY <1>8, <1>9, <1>11 DEF Activity
<1> QED
  BY <1>3, <1>4, <1>8, <1>10, <1>11 DEF Next

\* unwrap() in a process: a send failed.
LEMMA AbortStep ==
  ASSUME TypeOK, [Next]_vars
  PROVE  /\ closed \subseteq closed'
         /\ \A p \in aborted' \ aborted :
              /\ p \in Proc /\ st[p] = "run" /\ p # Foreign
              /\ ~Names(p, moved[JobOf(p)].fd, "shmTx") \/ ~ShmOpen(JobOf(p))
<1>1. ASSUME UNCHANGED procVars PROVE UNCHANGED <<closed, aborted>>
  BY <1>1 DEF procVars
<1>2. CASE SpyInit \/ SpyFails \/ Move(NoJob) \/ OtherThread \/ ForeignFork \/ ForeignExec \/ Quiet \/ UNCHANGED vars
  BY <1>1, <1>2 DEF SpyInit, SpyFails, Move, OtherThread, ForeignFork, ForeignExec, Quiet, vars
<1>3. ASSUME NEW i \in Job, Build(i) \/ Spawning(i) \/ OsFails(i) PROVE UNCHANGED <<closed, aborted>>
  BY <1>3 DEF Build, Spawning, Pair, Move, Supervise, Resolve, Fork, ChildExec, SpawnReturns, DropCommand,
              OsFails, procVars
<1>4. ASSUME NEW i \in Job, Poll(i) \/ WaitFirst(i) \/ DropFuture(i) \/ Future(i)
      PROVE  UNCHANGED <<closed, aborted>>
  BY <1>4 DEF Poll, WaitFirst, DropFuture, Future, RecvShm, ShmEnds, RecvListener, LoopEnds, Join,
              GiveUp, Answer, procVars
<1>5. ASSUME NEW p, Exit(p) \/ ReassignLow(p) \/ CloseAll(p) \/ Syscall(p) \/ \E kind : ForkExec(p, kind)
      PROVE  closed \subseteq closed' /\ UNCHANGED aborted
  BY <1>5 DEF Exit, ReassignLow, CloseAll, Syscall, ForkExec
<1>6. ASSUME NEW p \in Job \X {1, 2}, SendShm(p)
      PROVE  /\ UNCHANGED closed
             /\ \/ UNCHANGED aborted
                \/ /\ aborted' = aborted \cup {p} /\ p \in Proc /\ p # Foreign /\ st[p] = "run"
                   /\ ~Names(p, moved[JobOf(p)].fd, "shmTx") \/ ~ShmOpen(JobOf(p))
  BY <1>6, Jobs DEF SendShm
<1>7. ASSUME NEW q \in Job \X {1, 2}, Activity(q)
      PROVE  /\ closed \subseteq closed'
             /\ \A p \in aborted' \ aborted :
                  /\ p \in Proc /\ st[p] = "run" /\ p # Foreign
                  /\ ~Names(p, moved[JobOf(p)].fd, "shmTx") \/ ~ShmOpen(JobOf(p))
  <2>1. CASE SendShm(q)
    BY <1>6, <2>1
  <2>2. CASE ReassignLow(q) \/ CloseAll(q) \/ Syscall(q) \/ \E kind : ForkExec(q, kind)
    BY <1>5, <2>2
  <2> QED
    BY <1>7, <2>1, <2>2 DEF Activity
<1> QED
  BY <1>2, <1>3, <1>4, <1>5, <1>7 DEF Next

LEMMA NextShm ==
  ASSUME TypeOK, SpawnerInv, ProcessInv, FutureInv, [Next]_vars, NEW j \in Job
  PROVE  ShmInv(j)'
<1>1. FutType /\ ShmInv(j) /\ LoopInv(j) /\ ReceiverInv(j)
  BY Types DEF FutureInv, SpawnerInv
<1>2. got[j] \in Nat /\ shmq[j] \in Nat /\ sent[j] \in Nat /\ half[j].shm \in {"run", "ok", "err"}
  BY <1>1 DEF FutType
<1>3. half'[j].shm = "run" /\ fut'[j] \in Pending => got'[j] + shmq'[j] = sent'[j]
  <2>1. SUFFICES ASSUME half'[j].shm = "run", fut'[j] \in Pending PROVE got'[j] + shmq'[j] = sent'[j]
    OBVIOUS
  <2>2. half[j].shm = "run" /\ fut[j] \in Pending
    BY <2>1, FutOrder
  <2>3. got[j] + shmq[j] = sent[j]
    BY <1>1, <2>2 DEF ShmInv
  <2> QED
    BY <1>2, <2>1, <2>3, QueueStep
<1>4. half'[j].shm = "ok" => got'[j] = sent'[j] /\ shmq'[j] = 0 /\ Eof(j, "shmTx")'
  <2>1. SUFFICES ASSUME half'[j].shm = "ok" PROVE got'[j] = sent'[j] /\ shmq'[j] = 0 /\ Eof(j, "shmTx")'
    OBVIOUS
  <2>2. CASE half[j].shm = "ok"
    <3>1. got[j] = sent[j] /\ shmq[j] = 0 /\ Eof(j, "shmTx") /\ pc[j] = "spawned"
      BY <1>1, <2>2 DEF ShmInv, ReceiverInv, Running
    <3>2. Eof(j, "shmTx")'
      BY <3>1, EofKept DEF Tx
    <3>3. \A p \in Proc : Holding(tab[p], {"shmTx"}, j) = {}
      BY <3>1 DEF Eof
    <3> QED
      BY <2>2, <3>1, <3>2, <3>3, QueueStep
  <2>3. CASE ShmDone(j) /\ ShmEnds(j) /\ half[j].shm # "ok"
    <3>1. /\ shmq[j] = 0 /\ Eof(j, "shmTx") /\ half[j].shm = "run" /\ fut[j] = "polled"
          /\ UNCHANGED <<shmq, got, sent>>
      BY <2>3 DEF ShmDone, ShmEnds, Polled
    <3>2. pc[j] = "spawned" /\ got[j] + shmq[j] = sent[j]
      BY <1>1, <3>1 DEF ReceiverInv, ShmInv, Pending
    <3>3. Eof(j, "shmTx")'
      BY <3>1, <3>2, EofKept DEF Tx
    <3> QED
      BY <1>2, <3>1, <3>2, <3>3
  <2> QED
    BY <2>1, <2>2, <2>3, FutOrder
<1>5. half'[j].shm # "err" /\ fut'[j] \in Pending \cup {"ok"} =>
        \A p \in Tree(j) : p \in aborted' => p \in closed'
  <2>1. SUFFICES ASSUME half'[j].shm # "err", fut'[j] \in Pending \cup {"ok"},
                        NEW p \in Tree(j), p \in aborted', p \notin closed
                 PROVE  FALSE
    BY AbortStep
  <2>2. half[j].shm # "err" /\ fut[j] \in Pending \cup {"ok"}
    BY <1>2, <2>1, FutOrder
  <2>3. p \in aborted' \ aborted /\ JobOf(p) = j
    BY <1>1, <2>1, <2>2 DEF ShmInv, Tree
  <2>4. /\ p \in Proc /\ st[p] = "run" /\ p # Foreign
        /\ ~Names(p, moved[j].fd, "shmTx") \/ ~ShmOpen(j)
    BY <2>3, AbortStep
  <2>5. Numbers(tab[p], j) /\ pc[j] \in {"wait", "drop", "spawned"}
    BY <2>1, <2>3, <2>4, LivePc DEF ProcessInv, ProcInv, Executed
  <2>6. moved[j].fd \in Holding(tab[p], {"shmTx"}, j) /\ Names(p, moved[j].fd, "shmTx")
    BY <2>3, <2>5 DEF Numbers, Names, Holding
  <2>7. Holds("shmRx", j) = {}
    BY <2>4, <2>6 DEF ShmOpen, Holds
  <2>8. half[j].shm # "ok"
    BY <1>1, <2>4, <2>6 DEF ShmInv, Eof
  <2>9. half[j].shm = "run" /\ fut[j] # "ok"
    BY <1>1, <1>2, <2>2, <2>8 DEF LoopInv
  <2> QED
    BY <1>1, <2>2, <2>5, <2>7, <2>9 DEF ReceiverInv
<1> QED
  BY <1>3, <1>4, <1>5 DEF ShmInv, Tree

\* A handler that fails: the loop still runs.
LEMMA BadStep ==
  ASSUME TypeOK, [Next]_vars
  PROVE  bad \subseteq bad' /\ \A j \in bad' \ bad : half[j].sec = "run"
<1>1. ASSUME UNCHANGED futVars PROVE UNCHANGED bad
  BY <1>1 DEF futVars
<1>2. CASE SpyInit \/ SpyFails \/ Move(NoJob) \/ OtherThread \/ ForeignFork \/ ForeignExec \/ Quiet \/ UNCHANGED vars
  BY <1>1, <1>2 DEF SpyInit, SpyFails, Move, OtherThread, ForeignFork, ForeignExec, Quiet, vars
<1>3. ASSUME NEW i \in Job, Build(i) \/ Spawning(i) \/ OsFails(i) PROVE UNCHANGED bad
  BY <1>3 DEF Build, Spawning, Pair, Move, Supervise, Resolve, Fork, ChildExec, SpawnReturns, DropCommand,
              OsFails, futVars
<1>4. ASSUME NEW i \in Job, Poll(i) \/ WaitFirst(i) \/ DropFuture(i) \/ Future(i)
      PROVE  bad \subseteq bad' /\ \A j \in bad' \ bad : half[j].sec = "run"
  <2>1. CASE \E p \in Tree(i) : Answer(p)
    BY <2>1 DEF Answer, Polled
  <2> QED
    BY <1>4, <2>1 DEF Poll, WaitFirst, DropFuture, Future, RecvShm, ShmEnds, RecvListener, LoopEnds, Join, GiveUp
<1>5. ASSUME NEW p, Exit(p) \/ Activity(p) PROVE UNCHANGED bad
  BY <1>5 DEF Exit, Activity, ReassignLow, CloseAll, SendShm, Syscall, ForkExec, futVars
<1> QED
  BY <1>2, <1>3, <1>4, <1>5 DEF Next

\* ENOSYS: no listener hears the call, the future ends under a stopped one, or a handler
\* has failed.
LEMMA RefusedStep ==
  ASSUME TypeOK, [Next]_vars, NEW j \in Job, NEW p \in Tree(j), p \in refused', p \notin refused
  PROVE  \/ st[p] = "run" /\ how[p] = "filter" /\ (fut[j] \notin Pending \/ j \in bad)
         \/ st[p] = "stopped" /\ fut'[j] \notin Pending /\ (fut'[j] = "ok" => JoinResult(j) = "ok")
         \/ j \in bad'
<1>1. FutType /\ p \in Proc /\ JobOf(p) = j
  BY Types DEF Tree
<1>2. ASSUME UNCHANGED procVars PROVE FALSE
  BY <1>2 DEF procVars
<1>3. CASE SpyInit \/ SpyFails \/ Move(NoJob) \/ OtherThread \/ ForeignFork \/ ForeignExec \/ Quiet \/ UNCHANGED vars
  BY <1>2, <1>3 DEF SpyInit, SpyFails, Move, OtherThread, ForeignFork, ForeignExec, Quiet, vars
<1>4. ASSUME NEW i \in Job, Build(i) \/ Spawning(i) \/ OsFails(i) PROVE FALSE
  BY <1>4 DEF Build, Spawning, Pair, Move, Supervise, Resolve, Fork, ChildExec, SpawnReturns, DropCommand,
              OsFails, procVars
<1>5. ASSUME NEW i \in Job, Poll(i) \/ WaitFirst(i) \/ RecvShm(i) \/ ShmEnds(i) \/ RecvListener(i) \/ LoopEnds(i)
      PROVE  FALSE
  BY <1>5 DEF Poll, WaitFirst, RecvShm, ShmEnds, RecvListener, LoopEnds, procVars
<1>6. ASSUME NEW i \in Job, NEW r, GiveUp(i, r)
      PROVE  i = j /\ st[p] = "stopped" /\ fut'[j] = r
  <2>1. refused' = refused \cup StoppedIn(i) /\ fut' = [fut EXCEPT ![i] = r]
    BY <1>6 DEF GiveUp
  <2>2. p \in StoppedIn(i)
    BY <2>1
  <2> QED
    BY <1>1, <2>1, <2>2 DEF StoppedIn, Tree, FutType
<1>7. ASSUME NEW i \in Job, DropFuture(i)
      PROVE  st[p] = "stopped" /\ fut'[j] \notin Pending /\ (fut'[j] = "ok" => JoinResult(j) = "ok")
  <2>1. GiveUp(i, "dropped")
    BY <1>7 DEF DropFuture
  <2>2. st[p] = "stopped" /\ fut'[j] = "dropped"
    BY <1>6, <2>1
  <2> QED
    BY <2>2 DEF Pending
<1>8. ASSUME NEW i \in Job, Join(i)
      PROVE  st[p] = "stopped" /\ fut'[j] \notin Pending /\ (fut'[j] = "ok" => JoinResult(j) = "ok")
  <2>1. GiveUp(i, JoinResult(i)) /\ JoinResult(i) \in {"ok", "err"}
    BY <1>8 DEF Join, JoinResult
  <2>2. i = j /\ st[p] = "stopped" /\ fut'[j] = JoinResult(i)
    BY <1>6, <2>1
  <2> QED
    BY <2>1, <2>2 DEF Pending
<1>9. ASSUME NEW i \in Job, NEW q \in Tree(i), Answer(q) PROVE j \in bad'
  <2>1. JobOf(q) = i
    BY DEF Tree
  <2>2. refused' = refused \cup (StoppedIn(i) \ {q}) /\ bad' = bad \cup {i}
    BY <1>9, <2>1 DEF Answer
  <2> QED
    BY <1>1, <2>2 DEF StoppedIn, Tree
<1>10. ASSUME NEW q, Exit(q) \/ ReassignLow(q) \/ CloseAll(q) \/ SendShm(q) \/ \E kind : ForkExec(q, kind)
       PROVE  FALSE
  BY <1>10 DEF Exit, ReassignLow, CloseAll, SendShm, ForkExec
<1>11. ASSUME NEW q, Syscall(q)
       PROVE  st[p] = "run" /\ how[p] = "filter" /\ (fut[j] \notin Pending \/ j \in bad)
  <2>1. q = p
    BY <1>11 DEF Syscall
  <2> QED
    BY <1>1, <1>11, <2>1 DEF Syscall, Pending
<1>12. ASSUME NEW i \in Job, Poll(i) \/ WaitFirst(i) \/ DropFuture(i) \/ Future(i)
       PROVE  \/ st[p] = "stopped" /\ fut'[j] \notin Pending /\ (fut'[j] = "ok" => JoinResult(j) = "ok")
              \/ j \in bad'
  BY <1>5, <1>7, <1>8, <1>9, <1>12 DEF Future
<1>13. ASSUME NEW q, Activity(q)
       PROVE  st[p] = "run" /\ how[p] = "filter" /\ (fut[j] \notin Pending \/ j \in bad)
  BY <1>10, <1>11, <1>13 DEF Activity
<1> QED
  BY <1>3, <1>4, <1>10, <1>12, <1>13 DEF Next

\* What traces a process is settled when it executes; only a filtered call stops it.
LEMMA TraceStep ==
  ASSUME TypeOK, [Next]_vars, NEW p \in Proc
  PROVE  /\ \/ how'[p] = how[p]
            \/ \E j \in Job : p = Target(j) /\ ChildExec(j)
            \/ \E j \in Job : p = <<j, 2>> /\ \E kind \in {"dynamic", "static"} : ForkExec(Target(j), kind)
         /\ st'[p] = "stopped" /\ st[p] # "stopped" => Syscall(p) /\ how'[p] = how[p]
<1>1. ProcType
  BY Types
<1>2. ASSUME UNCHANGED procVars PROVE how'[p] = how[p] /\ st'[p] = st[p]
  BY <1>2 DEF procVars
<1>3. CASE SpyInit \/ SpyFails \/ Move(NoJob) \/ OtherThread \/ Quiet \/ UNCHANGED vars
  BY <1>2, <1>3 DEF SpyInit, SpyFails, Move, OtherThread, Quiet, vars
<1>4. CASE ForeignFork \/ ForeignExec
  BY <1>1, <1>4 DEF ForeignFork, ForeignExec, ProcType
<1>5. ASSUME NEW i \in Job, Build(i) \/ Pair(i) \/ Move(i) \/ Supervise(i) \/ Resolve(i)
              \/ SpawnReturns(i) \/ DropCommand(i) \/ OsFails(i)
      PROVE  UNCHANGED procVars
  BY <1>5 DEF Build, Pair, Move, Supervise, Resolve, SpawnReturns, DropCommand, OsFails
<1>6. ASSUME NEW i \in Job, Fork(i) PROVE how'[p] = how[p] /\ (st'[p] = st[p] \/ st'[p] = "forked")
  BY <1>1, <1>6 DEF Fork, ProcType
<1>7. ASSUME NEW i \in Job, ChildExec(i)
      PROVE  (how'[p] = how[p] \/ p = Target(i)) /\ (st'[p] = st[p] \/ st'[p] \in {"run", "failed"})
  <2>1. /\ UNCHANGED how \/ \E h : how' = [how EXCEPT ![Target(i)] = h]
        /\ st' = [st EXCEPT ![Target(i)] = "run"] \/ st' = [st EXCEPT ![Target(i)] = "failed"]
    BY <1>7 DEF ChildExec
  <2> QED
    BY <1>1, <2>1 DEF ProcType
<1>8. ASSUME NEW i \in Job, Poll(i) \/ WaitFirst(i) \/ DropFuture(i) \/ Future(i)
      PROVE  how'[p] = how[p] /\ (st'[p] = st[p] \/ st'[p] = "run")
  <2>1. CASE Poll(i) \/ WaitFirst(i) \/ RecvShm(i) \/ ShmEnds(i) \/ RecvListener(i) \/ LoopEnds(i)
    BY <1>2, <2>1 DEF Poll, WaitFirst, RecvShm, ShmEnds, RecvListener, LoopEnds
  <2>2. CASE DropFuture(i) \/ Join(i)
    <3>1. PICK r : GiveUp(i, r)
      BY <2>2 DEF DropFuture, Join
    <3> QED
      BY <1>1, <3>1 DEF GiveUp, ProcType
  <2>3. ASSUME NEW q \in Tree(i), Answer(q) PROVE how'[p] = how[p] /\ (st'[p] = st[p] \/ st'[p] = "run")
    <3>1. UNCHANGED how
      BY <2>3 DEF Answer
    <3>2. CASE st' = [st EXCEPT ![q] = "run"]
      BY <1>1, <3>1, <3>2 DEF ProcType
    <3>3. CASE st' = [r \in Proc |-> IF r \in StoppedIn(JobOf(q)) THEN "run" ELSE st[r]]
      BY <3>1, <3>3
    <3> QED
      BY <2>3, <3>2, <3>3 DEF Answer
  <2> QED
    BY <1>8, <2>1, <2>2, <2>3 DEF Future
<1>9. ASSUME NEW q \in Proc, Exit(q) \/ ReassignLow(q) \/ CloseAll(q) \/ SendShm(q)
      PROVE  how'[p] = how[p] /\ (st'[p] = st[p] \/ st'[p] = "exited")
  BY <1>1, <1>9 DEF Exit, ReassignLow, CloseAll, SendShm, Ends, ProcType
<1>10. ASSUME NEW q \in Proc, Syscall(q)
       PROVE  how'[p] = how[p] /\ (st'[p] = "stopped" /\ st[p] # "stopped" => Syscall(p))
  <2>1. UNCHANGED how /\ (UNCHANGED st \/ st' = [st EXCEPT ![q] = "stopped"])
    BY <1>10 DEF Syscall
  <2>2. st'[p] = st[p] \/ q = p
    BY <1>1, <2>1 DEF ProcType
  <2> QED
    BY <1>10, <2>1, <2>2
<1>11. ASSUME NEW q \in Job \X {1, 2}, NEW kind \in {"dynamic", "static"}, ForkExec(q, kind)
       PROVE  /\ how'[p] = how[p] \/ \E j \in Job : p = <<j, 2>> /\ ForkExec(Target(j), kind)
              /\ st'[p] = st[p] \/ st'[p] \in {"run", "exited"}
  <2>1. /\ UNCHANGED how \/ \E h : how' = [how EXCEPT ![<<JobOf(q), 2>>] = h]
        /\ st' = [st EXCEPT ![<<JobOf(q), 2>>] = "run"] \/ st' = [st EXCEPT ![<<JobOf(q), 2>>] = "exited"]
        /\ q = Target(JobOf(q)) /\ JobOf(q) \in Job
    BY <1>11, Jobs DEF ForkExec
  <2>2. how'[p] = how[p] \/ p = <<JobOf(q), 2>>
    BY <1>1, <2>1 DEF ProcType
  <2>3. st'[p] = st[p] \/ st'[p] \in {"run", "exited"}
    BY <1>1, <2>1 DEF ProcType
  <2> QED
    BY <1>11, <2>1, <2>2, <2>3
<1>12. ASSUME NEW q \in Job \X {1, 2}, Activity(q)
       PROVE  /\ \/ how'[p] = how[p]
                 \/ \E j \in Job : p = <<j, 2>> /\ \E kind \in {"dynamic", "static"} : ForkExec(Target(j), kind)
              /\ st'[p] = "stopped" /\ st[p] # "stopped" => Syscall(p) /\ how'[p] = how[p]
  <2>1. q \in Proc
    BY Jobs
  <2>2. CASE ReassignLow(q) \/ CloseAll(q) \/ SendShm(q) \/ Syscall(q)
    BY <1>9, <1>10, <2>1, <2>2
  <2>3. ASSUME NEW kind \in {"dynamic", "static"}, ForkExec(q, kind)
        PROVE  /\ \/ how'[p] = how[p]
                  \/ \E j \in Job : p = <<j, 2>> /\ \E k \in {"dynamic", "static"} : ForkExec(Target(j), k)
               /\ ~(st'[p] = "stopped" /\ st[p] # "stopped")
    BY <1>11, <2>3
  <2> QED
    BY <1>12, <2>2, <2>3 DEF Activity
<1>13. ASSUME NEW i \in Job, Build(i) \/ Spawning(i) \/ OsFails(i)
       PROVE  /\ how'[p] = how[p] \/ \E j \in Job : p = Target(j) /\ ChildExec(j)
              /\ ~(st'[p] = "stopped" /\ st[p] # "stopped")
  BY <1>2, <1>5, <1>6, <1>7, <1>13 DEF Spawning
<1> QED
  BY <1>2, <1>3, <1>4, <1>8, <1>9, <1>12, <1>13 DEF Next

LEMMA NextLoop ==
  ASSUME TypeOK, SpawnerInv, ProcessInv, FutureInv, [Next]_vars, NEW j \in Job
  PROVE  LoopInv(j)'
<1>1. ReceiverInv(j) /\ LifeInv(j) /\ LoopInv(j) /\ FutType /\ ProcType /\ sec[j] \in Fd
  BY Types DEF SpawnerInv, ProcessInv, FutureInv, SpawnerType
<1>2. \A p \in Tree(j) : p \in Proc /\ p # Foreign /\ p \in {Target(j), <<j, 2>>}
  BY Jobs DEF Tree
<1>3. \A i \in Job : (Target(i) \in Tree(j) \/ <<i, 2>> \in Tree(j)) => i = j
  BY DEF Tree, Target, JobOf
\* handling_loop has ended
<1>4. ASSUME half'[j].sec = "ok"
      PROVE  j \notin bad' /\ Eof(j, "secTx")' /\ \A p \in Tree(j) : how'[p] = "filter" => st'[p] = "exited"
  <2>1. CASE half[j].sec = "ok"
    <3>1. /\ j \notin bad /\ Eof(j, "secTx") /\ pc[j] = "spawned"
          /\ \A p \in Tree(j) : how[p] = "filter" => st[p] = "exited"
      BY <1>1, <2>1 DEF LoopInv, ReceiverInv, Running
    <3>2. j \notin bad' /\ Eof(j, "secTx")'
      BY <2>1, <3>1, BadStep, EofKept DEF Tx
    <3>3. ASSUME NEW p \in Tree(j), how'[p] = "filter" PROVE how[p] = "filter"
      <4>1. SUFFICES ASSUME how'[p] # how[p] PROVE FALSE
        BY <3>3
      <4>2. ~ChildExec(j)
        BY <1>1, <3>1 DEF ChildExec, LifeInv
      <4>3. ASSUME NEW kind \in {"dynamic", "static"}, ForkExec(Target(j), kind), p = <<j, 2>> PROVE FALSE
        <5>1. JobOf(Target(j)) = j /\ Target(j) \in Tree(j)
          BY Jobs DEF Tree, Target, JobOf
        <5>2. /\ st[Target(j)] = "run"
              /\ how[Target(j)] = "preload" /\ kind = "static" => Names(Target(j), sec[j], "secTx")
              /\ how' = [how EXCEPT ![p] = IF how[Target(j)] # "preload" THEN how[Target(j)]
                                           ELSE IF kind = "static" THEN "filter"
                                           ELSE IF Preloaded(tab[Target(j)]) THEN "preload" ELSE "none"]
          BY <4>1, <4>3, <5>1 DEF ForkExec
        <5>3. how[Target(j)] # "filter"
          BY <3>1, <5>1, <5>2
        <5>4. ~Names(Target(j), sec[j], "secTx")
          BY <1>1, <1>2, <3>1, <5>1 DEF Eof, Holding, Names
        <5> QED
          BY <1>1, <1>2, <3>3, <5>2, <5>3, <5>4 DEF ProcType
      <4> QED
        BY <1>2, <1>3, <4>1, <4>2, <4>3, TraceStep
    <3>4. ASSUME NEW p \in Tree(j), st[p] = "exited" PROVE st'[p] = "exited"
      <4>1. SUFFICES ASSUME st'[p] # st[p] PROVE FALSE
        BY <3>4
      <4>2. ~Fork(j) /\ ~ChildExec(j)
        BY <1>1, <3>1 DEF Fork, ChildExec, LifeInv
      <4> QED
        BY <1>2, <1>3, <3>4, <4>1, <4>2, StateStep
    <3> QED
      BY <3>1, <3>2, <3>3, <3>4
  <2>2. CASE LoopEnds(j) /\ half[j].sec # "ok"
    <3>1. /\ fut[j] = "polled" /\ Eof(j, "secTx") /\ UNCHANGED <<bad, st, how>>
          /\ half' = [half EXCEPT ![j].sec = IF j \in bad THEN "err" ELSE "ok"]
          /\ \A p \in Tree(j) : how[p] = "filter" => st[p] = "exited"
      BY <2>2 DEF LoopEnds, Polled, procVars
    <3>2. j \notin bad /\ pc[j] = "spawned"
      BY <1>1, <1>4, <3>1 DEF FutType, ReceiverInv
    <3>3. Eof(j, "secTx")'
      BY <3>1, <3>2, EofKept DEF Tx
    <3> QED
      BY <3>1, <3>2, <3>3
  <2> QED
    BY <1>4, <2>1, <2>2, FutOrder
\* a stopped process is a filtered one
<1>5. ASSUME NEW p \in Tree(j), st'[p] = "stopped" PROVE how'[p] = "filter"
  <2>1. CASE st[p] # "stopped"
    <3>1. Syscall(p) /\ how'[p] = how[p]
      BY <1>2, <1>5, <2>1, TraceStep
    <3> QED
      BY <3>1 DEF Syscall
  <2>2. CASE st[p] = "stopped"
    <3>1. how[p] = "filter"
      BY <1>1, <2>2 DEF LoopInv
    <3>2. p = Target(j) => ~ChildExec(j)
      BY <2>2 DEF ChildExec
    <3>3. ASSUME p = <<j, 2>>, NEW kind PROVE ~ForkExec(Target(j), kind)
      BY <2>2, <3>3 DEF ForkExec, Target, JobOf
    <3>4. \/ how'[p] = how[p]
          \/ \E i \in Job : p = Target(i) /\ ChildExec(i)
          \/ \E i \in Job : p = <<i, 2>> /\ \E kind \in {"dynamic", "static"} : ForkExec(Target(i), kind)
      BY <1>2, TraceStep
    <3> QED
      BY <1>3, <3>1, <3>2, <3>3, <3>4
  <2> QED
    BY <2>1, <2>2
\* both halves
<1>6. ASSUME fut'[j] = "ok" PROVE half'[j].shm = "ok" /\ half'[j].sec = "ok"
  <2>1. half[j].shm = "ok" /\ half[j].sec = "ok"
    BY <1>1, <1>6, FutOrder DEF LoopInv, JoinResult
  <2> QED
    BY <2>1, FutOrder
\* no call is refused
<1>7. ASSUME j \notin bad', fut'[j] \in Pending \cup {"ok"}, NEW p \in Tree(j), p \in refused' PROVE FALSE
  <2>1. j \notin bad /\ (fut[j] \in Pending \/ (fut'[j] = fut[j] /\ fut[j] = "ok"))
    BY <1>7, BadStep, FutOrder
  <2>2. p \notin refused
    BY <1>1, <1>7, <2>1 DEF LoopInv
  <2>3. CASE st[p] = "run" /\ how[p] = "filter" /\ (fut[j] \notin Pending \/ j \in bad)
    <3>1. half[j].sec = "ok"
      BY <1>1, <2>1, <2>3 DEF LoopInv
    <3> QED
      BY <1>1, <2>3, <3>1 DEF LoopInv
  <2>4. CASE st[p] = "stopped" /\ fut'[j] \notin Pending /\ (fut'[j] = "ok" => JoinResult(j) = "ok")
    <3>1. half[j].sec = "ok" /\ how[p] = "filter"
      BY <1>1, <1>7, <2>4 DEF LoopInv, JoinResult
    <3> QED
      BY <1>1, <2>4, <3>1 DEF LoopInv
  <2> QED
    BY <1>7, <2>2, <2>3, <2>4, RefusedStep
<1> QED
  BY <1>4, <1>5, <1>6, <1>7 DEF LoopInv, Tree

-------------------------------------------------------------------------------
(* The theorems *)

LEMMA Invariance == Spec => []SpawnInv
<1>1. Init => SpawnInv
  BY InitType, InitSpawner, InitProcess, InitFuture DEF SpawnInv
<1>2. SpawnInv /\ [Next]_vars => SpawnInv'
  <2> SUFFICES ASSUME SpawnInv, [Next]_vars PROVE SpawnInv'
    OBVIOUS
  <2>1. TypeOK' /\ SpawnerInv' /\ ProcessInv'
    BY NextType, NextSpawner, NextProcess DEF SpawnInv
  <2>2. \A j \in Job : ShmInv(j)' /\ LoopInv(j)'
    BY NextShm, NextLoop DEF SpawnInv
  <2>3. FutureInv'
    BY <2>2 DEF FutureInv
  <2> QED
    BY <2>1, <2>3 DEF SpawnInv
<1> QED
  BY <1>1, <1>2, PTL DEF Spec

\* The state of every spawn, process and future keeps its type, however many spawns run
\* at once and whatever the limits are.
THEOREM TypeCorrect == Spec => []TypeOK
<1>1. SpawnInv => TypeOK
  BY DEF SpawnInv
<1> QED
  BY <1>1, Invariance, PTL

\* No process that runs holds an end of another spawn, or a receiving end, although
\* every fork copies the whole table of the spawner: what the spawner opens is CLOEXEC,
\* and the closure of a child clears the flag of its own three descriptors only.
THEOREM DescriptorsPrivate == Spec => []NoLeak
<1>1. SpawnInv => NoLeak
  BY DEF SpawnInv, ProcessInv, ProcInv, NoLeak
<1> QED
  BY <1>1, Invariance, PTL

\* The numbers in the payload name the sender of the shm channel and the library in
\* every process of the tree: duplicate_until_safe has moved both above what a program
\* reassigns.
THEOREM PayloadNamesSender == Spec => []PayloadValid
<1>1. SpawnInv => PayloadValid
  <2> SUFFICES ASSUME SpawnInv, NEW p \in Job \X {1, 2}, Executed(p), p \notin closed
               PROVE  Names(p, moved[JobOf(p)].fd, "shmTx") /\ Preloaded(tab[p])
    BY DEF PayloadValid
  <2>1. p \in Proc /\ p # Foreign /\ ProcInv(p)
    BY Jobs DEF SpawnInv, ProcessInv, Foreign, ConstAssumption
  <2>2. Numbers(tab[p], JobOf(p))
    BY <2>1 DEF ProcInv
  <2> QED
    BY <2>2 DEF Numbers, Holding, Names, Preloaded
<1> QED
  BY <1>1, Invariance, PTL

\* A spawn that failed, at whichever step, and a future that ended, however it ended,
\* leave none of their descriptors open in the spawner.
THEOREM NothingKept == Spec => []Tidy
<1>1. SpawnInv => Tidy
  <2> SUFFICES ASSUME SpawnInv, NEW j \in Job, Over(j) PROVE Holding(fdt, Tx \cup Rx, j) = {}
    BY DEF Tidy
  <2>1. SenderInv(j) /\ ReceiverInv(j)
    BY DEF SpawnInv, SpawnerInv
  <2>2. pc[j] = "failed" \/ (pc[j] = "spawned" /\ fut[j] \notin Pending)
    BY <2>1 DEF Over, ReceiverInv, Pending
  <2>3. Holds("shmTx", j) = {} /\ Holds("secTx", j) = {}
    BY <2>1, <2>2 DEF SenderInv, Moving, Working
  <2>4. Holds("shmRx", j) = {} /\ Holds("secRx", j) = {}
    BY <2>1, <2>2 DEF ReceiverInv
  <2> QED
    BY <2>3, <2>4 DEF Holds, Holding, Tx, Rx
<1> QED
  BY <1>1, Invariance, PTL

\* When accesses_future returns Ok, nothing is missing: every chunk sent was received,
\* no traced process that keeps its descriptors is left to send another, no filtered
\* call was refused, and no send of the library failed.
THEOREM OkIsComplete == Spec => []OkComplete
<1>1. SpawnInv => OkComplete
  <2> SUFFICES ASSUME SpawnInv, NEW j \in Job, fut[j] = "ok"
               PROVE  /\ got[j] = sent[j]
                      /\ \A p \in Tree(j) : ~Executed(p) \/ p \in closed
                      /\ \A p \in Tree(j) : p \notin refused
                      /\ \A p \in Tree(j) : p \in aborted => p \in closed
    BY DEF OkComplete
  <2>1. ShmInv(j) /\ LoopInv(j)
    BY DEF SpawnInv, FutureInv
  <2>2. half[j].shm = "ok" /\ half[j].sec = "ok"
    BY <2>1 DEF LoopInv
  <2>3. got[j] = sent[j] /\ Eof(j, "shmTx") /\ \A p \in Tree(j) : p \in aborted => p \in closed
    BY <2>1, <2>2 DEF ShmInv
  <2>4. \A p \in Tree(j) : p \notin refused
    BY <2>1, <2>2 DEF LoopInv
  <2>5. ASSUME NEW p \in Tree(j), Executed(p), p \notin closed PROVE FALSE
    <3>1. p \in Proc /\ p # Foreign /\ JobOf(p) = j /\ ProcInv(p)
      BY Jobs DEF SpawnInv, ProcessInv, Tree
    <3>2. Numbers(tab[p], j)
      BY <2>5, <3>1 DEF ProcInv
    <3> QED
      BY <2>3, <3>1, <3>2 DEF Numbers, Eof
  <2> QED
    BY <2>3, <2>4, <2>5
<1> QED
  BY <1>1, Invariance, PTL

\* What a child that starts to run was asked for.
LEMMA StartStep ==
  ASSUME SpawnInv, [Next]_vars, NEW j \in Job, Starts(j)
  PROVE  ChildExec(j) /\ CommandInv(j) /\ pc[j] = "wait"
<1>1. CommandInv(j) /\ LifeInv(j) /\ TypeOK /\ SpawnerInv
  BY DEF SpawnInv, ProcessInv
<1>2. st[Target(j)] = "forked" /\ st'[Target(j)] = "run" /\ pc[j] = "wait"
  BY <1>1 DEF Starts, LifeInv
<1>3. ~Fork(j)
  BY <1>2 DEF Fork
<1>4. Target(j) \in Proc /\ Target(j) # Foreign /\ \A i \in Job : Target(i) = Target(j) => i = j
  BY Jobs DEF Target
<1>5. \A i \in Job : <<i, 2>> # Target(j)
  BY DEF Target
<1> QED
  BY <1>1, <1>2, <1>3, <1>4, <1>5, StateStep

\* The target is traced from its first instruction, by the library or by the filter,
\* unless a relative program was combined with current_dir.
THEOREM TracedFromStart == Spec => TargetTraced
<1>1. SpawnInv /\ [Next]_vars =>
        [\A j \in Job : Starts(j) =>
           how'[Target(j)] # "none" \/ (asked[j].program = "rel" /\ asked[j].cwd # "unset")]_vars
  <2> SUFFICES ASSUME SpawnInv, [Next]_vars, NEW j \in Job, Starts(j),
                      ~(asked[j].program = "rel" /\ asked[j].cwd # "unset")
               PROVE  how'[Target(j)] # "none"
    OBVIOUS
  <2> DEFINE p == Target(j)
             c == cmd[j]
             kind == Kind[Lookup(c.program, DirOf(c))]
             t == AfterExec(tab[p], Inherited(j))
  <2>1. ChildExec(j) /\ CommandInv(j) /\ pc[j] = "wait"
    BY StartStep
  <2>2. st'[p] = "run" /\ p \in Proc /\ how \in [Proc -> {"none", "preload", "filter"}]
        /\ st \in [Proc -> States]
    BY Types, Jobs DEF Starts, SpawnInv, ProcType
  <2>3. Preloaded(t)
    BY <2>1, <2>2, ChildExecProc DEF SpawnInv
  <2>4. how'[p] = IF c.plan = "static" THEN "filter"
                  ELSE IF kind = "dynamic" /\ Preloaded(t) THEN "preload" ELSE "none"
    <3>1. CASE st' = [st EXCEPT ![p] = "failed"]
      BY <2>2, <3>1
    <3>2. CASE how' = [how EXCEPT ![p] = IF c.plan = "static" THEN "filter"
                                         ELSE IF kind = "dynamic" /\ Preloaded(t) THEN "preload" ELSE "none"]
      BY <2>2, <3>2
    <3> QED
      BY <2>1, <3>1, <3>2 DEF ChildExec
  <2>5. c.program = asked[j].program /\ c.cwd = asked[j].cwd
        /\ c.plan = Kind[Lookup(c.program, "here")] /\ c.plan # "missing"
    BY <2>1 DEF CommandInv, AsAsked
  <2>6. Lookup(c.program, DirOf(c)) = Lookup(c.program, "here")
    BY <2>5 DEF Lookup, DirOf
  <2>7. c.plan \in {"dynamic", "static"}
    <3>1. cmd[j] \in CommandType
      BY Types DEF SpawnInv, CmdType
    <3>2. Lookup(c.program, "here") \in Dir
      BY <3>1 DEF CommandType, Lookup, Dir
    <3> QED
      BY <2>5, <3>2, ConstAssumption
  <2> QED
    BY <2>3, <2>4, <2>5, <2>6, <2>7
<1> QED
  BY <1>1, Invariance, PTL DEF Spec, TargetTraced

\* The child runs with what the builder methods set: get_exec, handle_exec and set_exec
\* lose no argument, name, directory or variable on the way.
THEOREM CommandHonoured == Spec => HonoursCommand
<1>1. SpawnInv /\ [Next]_vars => [\A j \in Job : Starts(j) => AsAsked(j)]_vars
  <2> SUFFICES ASSUME SpawnInv, [Next]_vars, NEW j \in Job, Starts(j) PROVE AsAsked(j)
    OBVIOUS
  <2> QED
    BY StartStep DEF CommandInv
<1> QED
  BY <1>1, Invariance, PTL DEF Spec, HonoursCommand

===============================================================================
