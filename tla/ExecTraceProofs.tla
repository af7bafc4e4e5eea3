---------------------------- MODULE ExecTraceProofs ----------------------------
(***************************************************************************)
(* handle_exec (ExecTrace), for every set of files, search path and        *)
(* environment and any number of calls and of changes to files: every      *)
(* program of the traced tree is traced, posix_spawn can be repeated       *)
(* whatever fails in it, a successful exec starts what it would have       *)
(* started without the library, and what the kernel reads for it has been  *)
(* reported.                                                               *)
(***************************************************************************)
EXTENDS ExecTrace, SequenceTheorems, TLAPS

\* What ensure_env returns: an environment, and ours under its name if it
\* succeeds; it leaves the other entries alone.
LEMMA EnsureEnv ==
  ASSUME NEW e \in [Var -> Value], NEW v \in Var
  PROVE  /\ ensure_env(e, v).envs \in [Var -> Value]
         /\ ensure_env(e, v).ok => ensure_env(e, v).envs[v] = "ours"
         /\ \A w \in Var : w # v => ensure_env(e, v).envs[w] = e[w]
  BY DEF ensure_env, Value

\* The environment of a dynamic program after both calls of ensure_env.
LEMMA BothEnvs ==
  ASSUME NEW e \in [Var -> Value]
  PROVE  LET e1 == ensure_env(e, "LD_PRELOAD")
             e2 == ensure_env(e1.envs, "FSPY_PAYLOAD")
         IN /\ e2.envs \in [Var -> Value]
            /\ e1.ok /\ e2.ok => \A v \in Ours : e2.envs[v] = "ours"
<1> DEFINE e1 == ensure_env(e, "LD_PRELOAD")
           e2 == ensure_env(e1.envs, "FSPY_PAYLOAD")
<1>1. "LD_PRELOAD" \in Var /\ "FSPY_PAYLOAD" \in Var
  BY DEF Var, Ours
<1>2. /\ e1.envs \in [Var -> Value]
      /\ e1.ok => e1.envs["LD_PRELOAD"] = "ours"
  BY <1>1, EnsureEnv
<1> HIDE DEF e1
<1>3. /\ e2.envs \in [Var -> Value]
      /\ e2.ok => e2.envs["FSPY_PAYLOAD"] = "ours"
      /\ e2.envs["LD_PRELOAD"] = e1.envs["LD_PRELOAD"]
  <2>1. "LD_PRELOAD" # "FSPY_PAYLOAD"
    OBVIOUS
  <2> QED BY <1>1, <1>2, <2>1, EnsureEnv
<1> HIDE DEF e2
<1>4. e1.ok /\ e2.ok => \A v \in Ours : e2.envs[v] = "ours"
  BY <1>2, <1>3 DEF Ours
<1> QED BY <1>3, <1>4 DEF e1, e2

\* An error return leaves nothing of the command behind.
LEMMA ReturnInv ==
  ASSUME NEW e, Return(e)
  PROVE  CmdInv' /\ idx' \in 1..Len(Candidates) /\ Inspected' /\ (ImageInv /\ image' = image => ImageInv')
<1>1. pc' = "run" /\ cmd' = NoCmd /\ idx' = 1
  BY DEF Return
<1>2. 1 \in 1..Len(Candidates)
  BY ConstAssumption
<1>3. [v \in Var |-> "absent"] \in [Var -> Value]
  BY DEF Value
<1> QED BY <1>1, <1>2, <1>3 DEF CmdInv, ImageInv, Inspected, NoCmd, Filters

\* The initial states satisfy the invariant.
LEMMA TraceInit == Init => TraceInv
<1> SUFFICES ASSUME Init PROVE TraceInv
  OBVIOUS
<1>1. [v \in Var |-> "absent"] \in [Var -> Value]
  BY DEF Value
<1>2. 1 \in 1..Len(Candidates)
  BY ConstAssumption
<1>3. fs \in [File -> Content]
  BY ConstAssumption DEF Init
<1> QED BY <1>1, <1>2, <1>3 DEF Init, TraceInv, Calling, CmdInv, ImageInv, Inspected, TracingCarriedOn, NoCmd, Filters

\* Entering handle_exec: the command is well formed and nothing else has changed.
LEMMA EnterInv ==
  ASSUME TraceInv, NEW fn, NEW prog \in File \cup {Name, Empty}, NEW argv,
         NEW env \in [Var -> Value], Enter(fn, prog, argv, env), fs' = fs, gap' = gap, Calling'
  PROVE  TraceInv'
<1> USE DEF TraceInv
<1>1. EnvOf(fn, env) \in [Var -> Value]
  BY DEF EnvOf, ImageInv
<1>2. CmdInv'
  BY <1>1 DEF Enter, CmdInv, ImageInv
<1>3. ImageInv' /\ TracingCarriedOn' /\ Inspected'
  BY DEF Enter, ImageInv, TracingCarriedOn, Inspected
<1> QED BY <1>2, <1>3 DEF Enter

\* The kernel's execve keeps the filter, and the command stays empty.
LEMMA DirectInv ==
  ASSUME TraceInv, NEW r, NEW env \in [Var -> Value], Direct(r, env),
         gap' \in BOOLEAN, gap \/ image.filter = "live" \/ gap', gap => gap', Calling'
  PROVE  TraceInv'
<1> USE DEF TraceInv
<1>1. pc = "run" /\ pc' = pc /\ cmd' = cmd /\ idx' = idx /\ fs' = fs
  BY DEF Direct, Begin, Idle
<1>2. ImageInv' /\ image'.filter = image.filter
  <2>1. CASE image' = image
    BY <2>1 DEF ImageInv
  <2>2. ASSUME image' = NewImage(r, env, image.filter)
        PROVE  ImageInv' /\ image'.filter = image.filter
    BY <2>2 DEF NewImage, ImageInv
  <2>3. image' = NewImage(r, env, image.filter) \/ image' = image
    BY Zenon DEF Direct
  <2> QED BY <2>1, <2>2, <2>3
<1>3. CmdInv' /\ Inspected'
  BY <1>1 DEF CmdInv, Inspected
<1> QED BY <1>1, <1>2, <1>3 DEF TracingCarriedOn

\* What parse_shebang makes of a line.
LEMMA ParsedLine ==
  ASSUME NEW c \in Content
  PROVE  /\ parse_shebang(c).interp \in File \cup {Empty}
         /\ parse_shebang(c).opt \in Seq(Word)
         /\ Ordinary(c) => parse_shebang(c).interp = c.interp /\ parse_shebang(c).opt = c.opt
<1>1. /\ c.interp \in File \cup {Empty} /\ c.rest \in Word /\ (c.cut = "interp" => c.rest \in File \cup {Empty})
      /\ Trim[c.interp] \in File \cup {Empty}
  BY ConstAssumption
<1>2. \A w \in Word : Words(w) \in Seq(Word) /\ Trim[w] \in Word
  BY ConstAssumption DEF Words
<1>3. CASE c.opt = <<>>
  <2>1. <<>> \in Seq(Word)
    BY EmptySeq
  <2> QED
    BY <1>1, <1>2, <1>3, <2>1 DEF parse_shebang, Ordinary
<1>4. ASSUME NEW w \in Word, w # Empty, c.opt = <<w>> PROVE
         /\ parse_shebang(c).interp \in File \cup {Empty}
         /\ parse_shebang(c).opt \in Seq(Word)
         /\ Ordinary(c) => parse_shebang(c).interp = c.interp /\ parse_shebang(c).opt = c.opt
  <2>1. c.opt # <<>> /\ c.opt[1] = w /\ <<>> \in Seq(Word) /\ Words(w) = c.opt
    BY <1>4, EmptySeq DEF Words
  <2> QED
    BY <1>1, <1>2, <2>1 DEF parse_shebang, Ordinary
<1> QED
  BY <1>3, <1>4, ConstAssumption

\* Only a program with the library is inside handle_exec.
LEMMA CallingStep ==
  ASSUME Calling, ImageInv, [Next]_vars
  PROVE  Calling'
<1>1. ASSUME NEW prog, NEW env, Exec(prog, env) PROVE Calling'
  <2>1. ASSUME NEW fn, NEW argv, Call(fn, prog, argv, env) PROVE Calling'
    BY <2>1 DEF Call, Enter, Panic, Return, Calling
  <2>2. ASSUME NEW argv, CallAt(prog, argv, env) PROVE Calling'
    BY <2>2 DEF CallAt, Enter, Return, Calling
  <2>3. ASSUME NEW r, Direct(r, env) PROVE Calling'
    BY <2>3 DEF Direct, Begin, Idle, Calling
  <2> QED
    BY <1>1, <2>1, <2>2, <2>3 DEF Exec, RawCall, CallAtDirect
<1>2. CASE Which \/ Peek \/ Inspect
  <2>1. pc \notin {"run", "aborted"} /\ image' = image
    BY <1>2 DEF Which, Peek, Inspect, SendError
  <2> QED
    BY <2>1 DEF Calling
<1>3. CASE PreExec
  <2>1. /\ pc = "pre_exec"
        /\ image' = image \/ \E st : image' = [image EXCEPT !.filter = st]
    BY <1>3 DEF PreExec
  <2>2. image'.client = image.client
    BY <2>1 DEF ImageInv
  <2> QED
    BY <2>1, <2>2 DEF Calling
<1>4. CASE Execve
  BY <1>4 DEF Execve, Return, Calling
<1>5. ASSUME NEW f, NEW c, Change(f, c) PROVE Calling'
  BY <1>5 DEF Change, Calling
<1>6. CASE UNCHANGED vars
  BY <1>6 DEF vars, Calling
<1> QED
  BY <1>1, <1>2, <1>3, <1>4, <1>5, <1>6 DEF Next, Terminated

\* Every step keeps the invariant.
LEMMA TraceStep == TraceInv /\ [Next]_vars => TraceInv'
<1> SUFFICES ASSUME TraceInv, [Next]_vars PROVE TraceInv'
  OBVIOUS
<1>c. Calling'
  BY CallingStep DEF TraceInv
<1> USE <1>c DEF TraceInv
<1>0. ASSUME NEW env \in Env \cup {image.env}
      PROVE  env \in [Var -> Value]
  BY <1>0, ConstAssumption DEF ImageInv
<1>1. ASSUME NEW fn \in Functions, NEW prog \in File \cup {Name, Empty}, NEW argv,
             NEW env \in Env \cup {image.env}, Call(fn, prog, argv, env)
      PROVE  TraceInv'
  <2>1. fs' = fs /\ gap' = gap /\ pc = "run"
    BY <1>1 DEF Call, Begin, Idle
  <2>2. CASE Enter(fn, prog, argv, env)
    BY <1>0, <2>1, <2>2, EnterInv
  <2>3. CASE Panic /\ image' = image
    <3>1. CmdInv' /\ Inspected' /\ idx' = idx
      BY <2>1, <2>3 DEF Panic, CmdInv, Inspected
    <3> QED BY <2>1, <2>3, <3>1 DEF ImageInv, TracingCarriedOn
  <2>4. CASE (\E e : Return(e)) /\ image' = image
    <3>1. CmdInv' /\ ImageInv' /\ idx' \in 1..Len(Candidates) /\ Inspected'
      BY <2>4, ReturnInv
    <3> QED BY <2>1, <2>4, <3>1 DEF TracingCarriedOn
  <2> QED BY <1>1, <2>2, <2>3, <2>4 DEF Call
<1>2. ASSUME NEW prog \in File \cup {Name, Empty}, NEW argv, NEW env \in Env \cup {image.env},
             NEW at, NEW flags,
             \/ CallAt(prog, argv, env) \/ RawCall(prog, argv, env)
             \/ CallAtDirect(at, prog, argv, env, flags)
      PROVE  TraceInv'
  <2>1. CASE RawCall(prog, argv, env)
    <3>1. PICK r : Direct(r, env) /\ gap' = gap /\ (gap \/ image.filter = "live")
      BY <2>1 DEF RawCall, TracingCarriedOn
    <3> QED BY <1>0, <3>1, DirectInv
  <2>2. CASE CallAtDirect(at, prog, argv, env, flags)
    <3>1. PICK r : Direct(r, env) /\ gap' = TRUE
      BY <2>2 DEF CallAtDirect
    <3> QED BY <1>0, <3>1, DirectInv
  <2>3. CASE fs' = fs /\ gap' = gap /\ Enter("execveat", prog, argv, env)
    BY <1>0, <2>3, EnterInv
  <2>4. CASE fs' = fs /\ gap' = gap /\ (\E e : Return(e)) /\ image' = image
    <3>1. CmdInv' /\ ImageInv' /\ idx' \in 1..Len(Candidates) /\ Inspected'
      BY <2>4, ReturnInv
    <3> QED BY <2>4, <3>1 DEF TracingCarriedOn
  <2> QED BY <1>2, <2>1, <2>2, <2>3, <2>4 DEF CallAt, Begin
<1>3. CASE Which
  <2>1. Candidates[idx] \in File
    BY ConstAssumption
  <2>2. fs' = fs /\ gap' = gap /\ image' = image /\ TracingCarriedOn' /\ ImageInv'
    BY <1>3 DEF Which, SendError, TracingCarriedOn, ImageInv
  <2>3. CmdInv' /\ Inspected' /\ idx' \in 1..Len(Candidates)
    <3>1. CASE pc' = "peek" /\ cmd' = [cmd EXCEPT !.program = Candidates[idx]] /\ idx' = idx
      BY <2>1, <3>1, ConstAssumption DEF CmdInv, Inspected
    <3>2. CASE pc' = "which" /\ cmd' = cmd /\ idx < Len(Candidates) /\ idx' = idx + 1
      <4>1. idx' \in 1..Len(Candidates)
        BY <3>2, ConstAssumption
      <4> QED BY <3>2, <4>1 DEF CmdInv, Inspected
    <3>3. CASE \E e : Return(e)
      BY <2>2, <3>3, ReturnInv
    <3>4. CASE pc' = "aborted" /\ cmd' = cmd /\ idx' = idx
      BY <3>4 DEF CmdInv, Inspected
    <3> QED BY <1>3, <3>1, <3>2, <3>3, <3>4 DEF Which, SendError, Panic
  <2> QED BY <2>2, <2>3
<1>4. CASE Peek
  <2>1. fs' = fs /\ gap' = gap /\ image' = image /\ TracingCarriedOn' /\ ImageInv'
    BY <1>4 DEF Peek, TracingCarriedOn, ImageInv
  <2>2. CmdInv' /\ Inspected' /\ idx' \in 1..Len(Candidates)
    <3>1. CASE pc' = "aborted" /\ cmd' = cmd /\ idx' = idx
      BY <3>1 DEF CmdInv, Inspected
    <3>2. CASE /\ cmd.program \in File /\ pc = "peek" /\ pc' = "inspect"
               /\ cmd' = Shebang(cmd, parse_shebang(fs[cmd.program])) /\ idx' = idx
      <4>1. PICK b : b = parse_shebang(fs[cmd.program])
        OBVIOUS
      <4>2. b.interp \in File \cup {Empty}
        BY <3>2, <4>1, ParsedLine
      <4> QED BY <3>2, <4>1, <4>2, ConstAssumption DEF CmdInv, Inspected, Shebang
    <3>3. CASE pc = "peek" /\ pc' = "inspect" /\ cmd' = cmd /\ idx' = idx
      BY <3>3 DEF CmdInv, Inspected
    <3>4. CASE \E e : Return(e)
      BY <2>1, <3>4, ReturnInv
    <3>5. ASSUME cmd.program # Empty, ReadErr(cmd.program) = "" PROVE cmd.program \in File
      BY <3>5 DEF ReadErr, AccessErr, CmdInv
    <3> QED BY <1>4, <3>1, <3>2, <3>3, <3>4, <3>5 DEF Peek, SendError, Panic
  <2> QED BY <2>1, <2>2
<1>5. CASE Inspect
  <2> DEFINE e1 == ensure_env(cmd.envs, "LD_PRELOAD")
             e2 == ensure_env(e1.envs, "FSPY_PAYLOAD")
  <2>1. fs' = fs /\ gap' = gap /\ image' = image /\ TracingCarriedOn' /\ ImageInv'
    BY <1>5 DEF Inspect, TracingCarriedOn, ImageInv
  <2>2. e2.envs \in [Var -> Value] /\ (e1.ok /\ e2.ok => \A v \in Ours : e2.envs[v] = "ours")
    BY BothEnvs DEF CmdInv
  <2>3. pc = "inspect"
    BY <1>5 DEF Inspect
  <2>6. ASSUME cmd.program # Empty, InspectErr(cmd.program) = "" PROVE cmd.program \in File
    BY <2>6 DEF InspectErr, ReadErr, AccessErr, CmdInv
  <2>4. \/ pc' = "aborted" /\ cmd' = cmd /\ idx' = idx
        \/ \E e : Return(e)
        \/ /\ cmd.program \in File /\ fs[cmd.program].kind = "dynamic" /\ e1.ok /\ e2.ok
           /\ cmd' = [cmd EXCEPT !.envs = e2.envs] /\ pc' = "execve" /\ idx' = idx
        \/ /\ cmd.program \in File /\ fs[cmd.program].kind = "static"
           /\ cmd' = [cmd EXCEPT !.envs = [v \in Var |-> IF v \in Ours THEN "absent" ELSE @[v]]]
           /\ pc' = "pre_exec" /\ idx' = idx
    BY <1>5, <2>6 DEF Inspect, SendError, Panic
  <2> HIDE DEF e1, e2
  <2>5. CmdInv' /\ Inspected' /\ idx' \in 1..Len(Candidates)
    <3>1. CASE pc' = "aborted" /\ cmd' = cmd /\ idx' = idx
      BY <3>1 DEF CmdInv, Inspected
    <3>2. CASE \E e : Return(e)
      BY <2>1, <3>2, ReturnInv
    <3>3. CASE /\ cmd.program \in File /\ fs[cmd.program].kind = "dynamic" /\ e1.ok /\ e2.ok
               /\ cmd' = [cmd EXCEPT !.envs = e2.envs] /\ pc' = "execve" /\ idx' = idx
      BY <2>1, <2>2, <2>3, <3>3 DEF CmdInv, Inspected
    <3>4. CASE /\ cmd.program \in File /\ fs[cmd.program].kind = "static"
               /\ cmd' = [cmd EXCEPT !.envs = [v \in Var |-> IF v \in Ours THEN "absent" ELSE @[v]]]
               /\ pc' = "pre_exec" /\ idx' = idx
      <4>1. [v \in Var |-> IF v \in Ours THEN "absent" ELSE cmd.envs[v]] \in [Var -> Value]
        BY DEF Value, CmdInv
      <4> QED BY <2>1, <2>3, <3>4, <4>1 DEF CmdInv, Inspected
    <3> QED BY <2>4, <3>1, <3>2, <3>3, <3>4
  <2> QED BY <2>1, <2>5
<1>6. CASE PreExec
  <2>1. fs' = fs /\ gap' = gap /\ pc = "pre_exec"
    BY <1>6 DEF PreExec
  <2>2. ImageInv' /\ TracingCarriedOn'
    <3>1. CASE image' = image
      BY <2>1, <3>1 DEF ImageInv, TracingCarriedOn
    <3>2. CASE image' = [image EXCEPT !.filter = "live"]
      BY <3>2 DEF ImageInv, TracingCarriedOn, Filters
    <3>3. CASE image' = [image EXCEPT !.filter = "dead"]
      BY <2>1, <3>3 DEF ImageInv, TracingCarriedOn, Filters, Calling
    <3> QED BY <1>6, <3>1, <3>2, <3>3 DEF PreExec
  <2>3. CASE Panic
    <3>1. CmdInv' /\ Inspected' /\ idx' = idx
      BY <2>1, <2>3 DEF Panic, CmdInv, Inspected
    <3> QED BY <2>1, <2>2, <2>3, <3>1
  <2>4. CASE \E e : Return(e)
    BY <2>1, <2>2, <2>4, ReturnInv
  <2>5. CASE cmd' = [cmd EXCEPT !.filter = "live"] /\ pc' = "execve" /\ idx' = idx
    <3>1. CmdInv' /\ cmd'.filter = "live" /\ cmd'.program = cmd.program
      BY <2>5 DEF CmdInv, Filters
    <3>2. gap \/ Inspected'
      BY <2>1, <2>5, <3>1 DEF Inspected, ElfKinds
    <3> QED BY <2>1, <2>2, <2>5, <3>1, <3>2
  <2> QED BY <1>6, <2>3, <2>4, <2>5 DEF PreExec
<1>7. CASE Execve
  <2> DEFINE r == Outcome(Run(cmd.program, cmd.args), cmd.envs)
  <2>1. CASE \E e : Return(e) /\ image' = image
    <3>1. fs' = fs /\ gap' = gap
      BY <1>7 DEF Execve
    <3>2. CmdInv' /\ ImageInv' /\ idx' \in 1..Len(Candidates) /\ Inspected'
      BY <2>1, ReturnInv
    <3> QED BY <2>1, <3>1, <3>2 DEF TracingCarriedOn
  <2>2. CASE /\ image' = NewImage(r, cmd.envs, cmd.filter)
             /\ pc' = "run" /\ cmd' = NoCmd /\ idx' = 1
    <3>1. fs' = fs /\ gap' = gap /\ pc = "execve"
      BY <1>7 DEF Execve
    <3>2. ImageInv' /\ image'.filter = cmd.filter
      BY <2>2 DEF NewImage, ImageInv, CmdInv
    <3>3. TracingCarriedOn'
      <4>1. CASE cmd.filter = "live" \/ gap
        BY <3>1, <3>2, <4>1 DEF TracingCarriedOn
      <4>2. CASE cmd.filter # "live" /\ ~gap
        <5>1. /\ cmd.program \in File /\ fs[cmd.program].kind = "dynamic"
              /\ \A v \in Ours : cmd.envs[v] = "ours"
          BY <3>1, <4>2 DEF Inspected
        <5>2. r.file = cmd.program
          <6>1. fs[cmd.program].kind \in ElfKinds
            BY <5>1 DEF ElfKinds
          <6> QED BY <5>1, <6>1, ConstAssumption DEF Run, Ok, Outcome
        <5>3. image'.client
          BY <2>2, <5>1, <5>2 DEF NewImage, Ours
        <5> QED BY <5>3 DEF TracingCarriedOn
      <4> QED BY <4>1, <4>2
    <3>4. CmdInv' /\ Inspected' /\ idx' \in 1..Len(Candidates)
      <4>1. [v \in Var |-> "absent"] \in [Var -> Value]
        BY DEF Value
      <4>2. 1 \in 1..Len(Candidates)
        BY ConstAssumption
      <4> QED BY <2>2, <4>1, <4>2 DEF CmdInv, Inspected, NoCmd, Filters
    <3> QED BY <3>1, <3>2, <3>3, <3>4
  <2>3. CASE image' = image /\ pc' = "run" /\ cmd' = NoCmd /\ idx' = 1
    <3>1. fs' = fs /\ gap' = gap
      BY <1>7 DEF Execve
    <3>2. [v \in Var |-> "absent"] \in [Var -> Value]
      BY DEF Value
    <3>3. 1 \in 1..Len(Candidates)
      BY ConstAssumption
    <3>4. CmdInv' /\ Inspected' /\ ImageInv' /\ TracingCarriedOn'
      BY <2>3, <3>1, <3>2 DEF CmdInv, Inspected, NoCmd, ImageInv, TracingCarriedOn, Filters
    <3> QED BY <2>3, <3>1, <3>3, <3>4
  <2> QED BY <1>7, <2>1, <2>2, <2>3 DEF Execve
<1>8. ASSUME NEW f \in File, NEW c \in Content, Change(f, c)
      PROVE  TraceInv'
  <2>1. fs' \in [File -> Content] /\ gap' \in BOOLEAN
    BY <1>8 DEF Change
  <2>2. CmdInv' /\ ImageInv' /\ TracingCarriedOn'
    BY <1>8 DEF Change, CmdInv, ImageInv, TracingCarriedOn
  <2>3. gap' \/ Inspected'
    BY <1>8 DEF Change, Inspected
  <2> QED BY <1>8, <2>1, <2>2, <2>3 DEF Change
<1>9. CASE UNCHANGED vars
  BY <1>9 DEF vars, CmdInv, ImageInv, Inspected, TracingCarriedOn
<1> QED BY <1>1, <1>2, <1>3, <1>4, <1>5, <1>6, <1>7, <1>8, <1>9 DEF Next, Exec, Terminated

\* However execs of dynamic, static and interpreted programs follow each other,
\* every program is traced by the library or a filter with an open listener, whichever
\* step of pre_exec fails, unless a file was changed between the inspection of a program
\* and execve (handle_exec is not atomic) or execveat could not name it.
THEOREM TreeTraced == Spec => []TracingCarriedOn
<1>1. TraceInv => TracingCarriedOn
  BY DEF TraceInv
<1> QED BY <1>1, TraceInit, TraceStep, PTL DEF Spec

-------------------------------------------------------------------------------
(* Types *)

\* What TraceInv leaves open.
Others ==
  /\ pc \in {"run", "which", "peek", "inspect", "pre_exec", "execve", "aborted"}
  /\ reported \subseteq File \cup {Name}
  /\ ncalls \in 0..MaxCalls /\ nchanges \in 0..MaxChanges
SpawnFlag == cmd.spawn \in BOOLEAN

LEMMA FlagStep ==
  ASSUME TraceInv, SpawnFlag, [Next]_vars
  PROVE  SpawnFlag'
<1>1. ASSUME cmd' = cmd PROVE SpawnFlag'
  BY <1>1 DEF SpawnFlag
<1>2. ASSUME cmd' = NoCmd PROVE SpawnFlag'
  <2>1. NoCmd.spawn = FALSE
    BY Zenon DEF NoCmd
  <2> QED
    BY <1>2, <2>1 DEF SpawnFlag
<1>3. ASSUME NEW fn, NEW prog, NEW argv, NEW env, Enter(fn, prog, argv, env) PROVE SpawnFlag'
  <2>1. cmd'.spawn = (fn \in Spawning)
    BY <1>3 DEF Enter
  <2> QED
    BY <2>1 DEF SpawnFlag
<1>4. DOMAIN cmd = {"program", "args", "envs", "spawn", "filter"}
  BY DEF TraceInv, CmdInv
<1>5. ASSUME NEW prog, NEW env, Exec(prog, env) PROVE SpawnFlag'
  <2>1. \/ cmd' = cmd \/ cmd' = NoCmd \/ \E fn, p, argv : Enter(fn, p, argv, env)
    BY <1>5 DEF Exec, Call, CallAt, CallAtDirect, RawCall, Direct, Panic, Return
  <2> QED
    BY <1>1, <1>2, <1>3, <2>1
<1>6. ASSUME Which \/ Peek \/ Inspect \/ PreExec \/ Execve PROVE SpawnFlag'
  <2>1. \/ cmd' = cmd \/ cmd' = NoCmd \/ (\E x : cmd' = [cmd EXCEPT !.program = x])
        \/ (\E s : cmd' = Shebang(cmd, s)) \/ (\E x : cmd' = [cmd EXCEPT !.envs = x])
        \/ cmd' = [cmd EXCEPT !.filter = "live"]
    <3>1. CASE Which
      BY <3>1 DEF Which, Return, SendError, Panic
    <3>2. CASE Peek
      BY <3>2 DEF Peek, Return, SendError, Panic
    <3>3. CASE Inspect
      BY <3>3 DEF Inspect, Return, SendError, Panic
    <3>4. CASE PreExec \/ Execve
      BY <3>4 DEF PreExec, Execve, Return, Panic
    <3> QED
      BY <1>6, <3>1, <3>2, <3>3, <3>4
  <2>2. ASSUME \/ (\E x : cmd' = [cmd EXCEPT !.program = x]) \/ (\E s : cmd' = Shebang(cmd, s))
               \/ (\E x : cmd' = [cmd EXCEPT !.envs = x]) \/ cmd' = [cmd EXCEPT !.filter = "live"]
        PROVE  cmd'.spawn = cmd.spawn
    BY <1>4, <2>2 DEF Shebang
  <2> QED
    BY <1>1, <1>2, <2>1, <2>2 DEF SpawnFlag
<1>7. ASSUME NEW f, NEW c, Change(f, c) PROVE SpawnFlag'
  BY <1>1, <1>7 DEF Change
<1>8. CASE UNCHANGED vars
  BY <1>1, <1>8 DEF vars
<1> QED
  BY <1>5, <1>6, <1>7, <1>8 DEF Next, Terminated

LEMMA OthersStep ==
  ASSUME TraceInv, Others, [Next]_vars
  PROVE  Others'
<1>1. MaxCalls \in Nat /\ MaxChanges \in Nat /\ Candidates[idx] \in File /\ cmd.program \in File \cup {Name, Empty}
  BY ConstAssumption DEF TraceInv, CmdInv
<1>2. ASSUME NEW prog, NEW env, Exec(prog, env) PROVE Others'
  <2>1. PICK outcome : Begin(outcome)
    BY <1>2 DEF Exec, Call, CallAt, CallAtDirect, RawCall, Direct
  <2>2. pc' \in {"run", "which", "peek", "aborted"}
    <3>1. ASSUME NEW fn, NEW p, NEW argv, Enter(fn, p, argv, env) PROVE pc' \in {"which", "peek"}
      BY <3>1 DEF Enter
    <3>2. pc = "run"
      BY <2>1 DEF Begin, Idle
    <3>3. \/ pc' = pc \/ pc' = "run" \/ pc' = "aborted" \/ \E fn, p, argv : Enter(fn, p, argv, env)
      BY <1>2 DEF Exec, Call, CallAt, CallAtDirect, RawCall, Direct, Panic, Return
    <3> QED
      BY <3>1, <3>2, <3>3
  <2> QED
    BY <1>1, <2>1, <2>2 DEF Begin, Idle, Others
<1>3. CASE Which
  <2>1. pc' \in {"run", "which", "peek", "aborted"} /\ UNCHANGED <<ncalls, nchanges>>
        /\ (reported' = reported \/ reported' = Report(Candidates[idx]))
    BY <1>3 DEF Which, Return, SendError, Panic
  <2> QED
    BY <1>1, <2>1 DEF Others, Report
<1>4. CASE Peek \/ Inspect
  <2>1. pc' \in {"run", "inspect", "pre_exec", "execve", "aborted"} /\ UNCHANGED <<ncalls, nchanges>>
        /\ (reported' = reported \/ (cmd.program # Empty /\ reported' = Report(cmd.program)))
    <3>1. CASE Peek
      BY <3>1 DEF Peek, Return, SendError, Panic
    <3>2. CASE Inspect
      BY <3>2 DEF Inspect, Return, SendError, Panic
    <3> QED
      BY <1>4, <3>1, <3>2
  <2> QED
    BY <1>1, <2>1 DEF Others, Report
<1>5. CASE PreExec \/ Execve
  <2>1. pc' \in {"run", "execve", "aborted"} /\ UNCHANGED <<ncalls, nchanges, reported>>
    BY <1>5 DEF PreExec, Execve, Return, Panic
  <2> QED
    BY <2>1 DEF Others
<1>6. ASSUME NEW f, NEW c, Change(f, c) PROVE Others'
  BY <1>1, <1>6 DEF Change, Busy, Others
<1>7. CASE UNCHANGED vars
  BY <1>7 DEF vars, Others
<1> QED
  BY <1>2, <1>3, <1>4, <1>5, <1>6, <1>7 DEF Next, Terminated

\* The locals of resolve, which and handle_exec have their types; which never looks
\* past the end of PATH.
THEOREM TypeCorrect == Spec => []TypeOK
<1>1. Init => TraceInv /\ SpawnFlag /\ Others
  <2> SUFFICES ASSUME Init PROVE TraceInv /\ SpawnFlag /\ Others
    OBVIOUS
  <2>1. NoCmd.spawn = FALSE
    BY Zenon DEF NoCmd
  <2>2. 0 \in 0..MaxCalls /\ 0 \in 0..MaxChanges
    BY ConstAssumption
  <2> QED
    BY <2>1, <2>2, TraceInit DEF Init, SpawnFlag, Others
<1>2. TraceInv /\ SpawnFlag /\ Others /\ [Next]_vars => TraceInv' /\ SpawnFlag' /\ Others'
  BY TraceStep, FlagStep, OthersStep
<1>3. TraceInv /\ SpawnFlag /\ Others => TypeOK
  BY DEF TraceInv, CmdInv, ImageInv, SpawnFlag, Others, TypeOK, Filters
<1> QED
  BY <1>1, <1>2, <1>3, PTL DEF Spec

-------------------------------------------------------------------------------
(* What the kernel does without the library *)

Path == File \cup {Name, Empty}

\* One level of Chain, given the one below.
Level(below, d) ==
  [f \in Path |->
    IF OpenErr(f) # "" THEN Fail(OpenErr(f))
    ELSE IF fs[f].kind \in ElfKinds THEN Ok(f, <<f>>, {f})
    ELSE IF fs[f].kind = "data" \/ fs[f].interp = Empty THEN Fail("ENOEXEC")
    ELSE IF d = 0 THEN Fail("ELOOP")
    ELSE LET r == below[fs[f].interp]
         IN IF r.errno # "" THEN r
            ELSE Ok(r.file, r.argv \o fs[f].opt \o <<f>>, r.reads \cup {f})]

\* The depth is a constant, so that the recursion can be written out.
LEMMA ChainLevels == \A d \in 0..MaxDepth : Chain[d] = Level(Chain[d - 1], d)
<1> DEFINE g0 == Level({}, 0)
           g1 == Level(g0, 1)
           g2 == Level(g1, 2)
           g3 == Level(g2, 3)
           g4 == Level(g3, 4)
           g5 == Level(g4, 5)
           g == [d \in 0..MaxDepth |-> IF d = 0 THEN g0 ELSE IF d = 1 THEN g1 ELSE IF d = 2 THEN g2
                                       ELSE IF d = 3 THEN g3 ELSE IF d = 4 THEN g4 ELSE g5]
           Fits(h) == h = [d \in 0..MaxDepth |->
             [f \in File \cup {Name, Empty} |->
               IF OpenErr(f) # "" THEN Fail(OpenErr(f))
               ELSE IF fs[f].kind \in ElfKinds THEN Ok(f, <<f>>, {f})
               ELSE IF fs[f].kind = "data" \/ fs[f].interp = Empty THEN Fail("ENOEXEC")
               ELSE IF d = 0 THEN Fail("ELOOP")
               ELSE LET r == h[d - 1][fs[f].interp]
                    IN IF r.errno # "" THEN r
                       ELSE Ok(r.file, r.argv \o fs[f].opt \o <<f>>, r.reads \cup {f})]]
<1>1. ASSUME NEW a, NEW b PROVE Level(a, 0) = Level(b, 0)
  BY DEF Level
<1>2. Fits(g)
  <2>0. \A d \in 0..MaxDepth : d \in {0, 1, 2, 3, 4, 5}
    BY DEF MaxDepth
  <2>1. /\ g[0] = g0 /\ g[1] = g1 /\ g[2] = g2 /\ g[3] = g3 /\ g[4] = g4 /\ g[5] = g5
    BY DEF MaxDepth
  <2> HIDE DEF g
  <2>2. g[0] = Level(g[0 - 1], 0)
    BY <1>1, <2>1
  <2>3. /\ g[1] = Level(g[1 - 1], 1) /\ g[2] = Level(g[2 - 1], 2) /\ g[3] = Level(g[3 - 1], 3)
        /\ g[4] = Level(g[4 - 1], 4) /\ g[5] = Level(g[5 - 1], 5)
    <3> HIDE DEF g0, g1, g2, g3, g4
    <3>1. 1 - 1 = 0 /\ 2 - 1 = 1 /\ 3 - 1 = 2 /\ 4 - 1 = 3 /\ 5 - 1 = 4
      OBVIOUS
    <3> QED
      BY <2>1, <3>1 DEF g1, g2, g3, g4, g5
  <2>4. \A d \in 0..MaxDepth : g[d] = Level(g[d - 1], d)
    BY <2>0, <2>2, <2>3
  <2>5. g = [d \in 0..MaxDepth |-> g[d]]
    BY DEF g
  <2>6. g = [d \in 0..MaxDepth |-> Level(g[d - 1], d)]
    BY <2>4, <2>5
  <2> QED
    BY <2>6 DEF Level, Path
<1>3. Chain = CHOOSE h : Fits(h)
  BY DEF Chain
<1> HIDE DEF g, Fits
<1>4. Fits(CHOOSE h : Fits(h))
  BY <1>2
<1>5. Fits(Chain)
  BY <1>3, <1>4
<1> QED
  BY <1>5 DEF Fits, Level, Path
-------------------------------------------------------------------------------
(* The program that runs is the one the caller named *)

\* The argument vector execve makes of an empty one.
Args(argv) == IF argv = <<>> THEN <<Empty>> ELSE argv
IsElf(f) == f \in File /\ fs[f].kind \in ElfKinds
\* A script whose interpreter is a program, which is as far as parse_shebang goes.
IsScript(f) == f \in File /\ fs[f].kind = "script" /\ IsElf(fs[f].interp)
ScriptArgs(f, argv) == <<fs[f].interp>> \o fs[f].opt \o <<f>> \o Tail(argv)

\* The call would have started file with these arguments, after reading these files.
Wants(file, argv, reads, env) ==
  /\ want.errno = "" /\ want.file = file /\ want.argv = argv /\ want.reads = reads
  /\ want.user = env["USER"]

\* What the call would have done if f is the file it finds: Chain does not occur here,
\* so that steps which leave the files alone preserve it.
Promise(f, argv, env) ==
  /\ IsElf(f) => Wants(f, Args(argv), {f}, env)
  /\ IsScript(f) /\ argv # <<>> => Wants(fs[f].interp, ScriptArgs(f, argv), {fs[f].interp, f}, env)

Refused(i) == AccessErr(Candidates[i]) \in {"EACCES", "ENOENT"}

\* At each step of handle_exec, while nothing has set it apart.
SearchInv ==
  cmd.program = Name =>
    /\ \A j \in 1..(idx - 1) : Refused(j)
    /\ \A i \in 1..Len(Candidates) :
         (\A j \in 1..(i - 1) : Refused(j)) => Promise(Candidates[i], cmd.args, cmd.envs)
FoundInv ==
  IsElf(cmd.program) =>
    /\ want.errno = "" /\ want.file = cmd.program /\ want.argv = Args(cmd.args)
    /\ want.user = cmd.envs["USER"]
    /\ want.reads \ Hidden \subseteq reported \cup (IF pc = "inspect" THEN {cmd.program} ELSE {})
WantInv ==
  /\ pc = "which" => cmd.program \in {Name, Empty} /\ SearchInv
  /\ pc = "peek" => Promise(cmd.program, cmd.args, cmd.envs)
  /\ pc \in {"inspect", "pre_exec", "execve"} => FoundInv
  /\ pc \in {"pre_exec", "execve"} => IsElf(cmd.program)
  /\ SameProgram /\ ReadsReported

Settled ==
  /\ cmd.args \in Seq(Word)
  /\ pc = "run" => idx = 1
  /\ apart \in BOOLEAN

SameInv == Settled /\ (~apart => WantInv)

Fields == {"errno", "file", "argv", "reads", "user"}

LEMMA Records ==
  /\ \A f, a, r : /\ DOMAIN Ok(f, a, r) = Fields /\ Ok(f, a, r).errno = "" /\ Ok(f, a, r).file = f
                  /\ Ok(f, a, r).argv = a /\ Ok(f, a, r).reads = r
  /\ \A e : DOMAIN Fail(e) = Fields /\ Fail(e).errno = e /\ Fail(e).reads = {}
  BY DEF Ok, Fail, Fields

LEMMA OutcomeFields ==
  ASSUME NEW r, DOMAIN r = Fields, NEW env
  PROVE  /\ DOMAIN Outcome(r, env) = Fields /\ Outcome(r, env).errno = r.errno /\ Outcome(r, env).file = r.file
         /\ Outcome(r, env).argv = r.argv /\ Outcome(r, env).reads = r.reads
         /\ Outcome(r, env).user = env["USER"]
  BY DEF Outcome, Fields

\* access and open agree but for directories.
LEMMA Opens ==
  ASSUME NEW f \in Path, fs \in [File -> Content]
  PROVE  /\ AccessErr(f) # "" => OpenErr(f) = AccessErr(f)
         /\ IsElf(f) \/ (f \in File /\ fs[f].kind = "script") => AccessErr(f) = "" /\ OpenErr(f) = ""
<1>1. f \in File => f # Empty /\ f # Name
  BY ConstAssumption
<1>2. DOMAIN Refusal = {"missing", "noexec", "loop"}
  BY DEF Refusal
<1> QED
  BY <1>1, <1>2 DEF OpenErr, AccessErr, IsElf, ElfKinds

LEMMA LevelFields ==
  ASSUME fs \in [File -> Content], NEW below, NEW d,
         d = 0 \/ \A f \in Path : DOMAIN below[f] = Fields
  PROVE  \A f \in Path : DOMAIN Level(below, d)[f] = Fields
<1> SUFFICES ASSUME NEW f \in Path PROVE DOMAIN Level(below, d)[f] = Fields
  OBVIOUS
<1>1. CASE OpenErr(f) # "" \/ f \notin File
  <2>1. OpenErr(f) # ""
    BY <1>1 DEF Path, OpenErr, AccessErr
  <2> QED
    BY <2>1, Records DEF Level
<1>2. CASE OpenErr(f) = "" /\ f \in File
  <2>1. fs[f].interp \in Path
    BY <1>2, ConstAssumption DEF Path
  <2>2. CASE fs[f].kind \in ElfKinds \/ fs[f].kind = "data" \/ fs[f].interp = Empty \/ d = 0
    BY <1>2, <2>2, Records DEF Level
  <2>3. CASE ~(fs[f].kind \in ElfKinds \/ fs[f].kind = "data" \/ fs[f].interp = Empty \/ d = 0)
    <3>1. DOMAIN below[fs[f].interp] = Fields
      BY <2>1, <2>3
    <3> QED
      BY <1>2, <2>3, <3>1, Records DEF Level
  <2> QED
    BY <2>2, <2>3
<1> QED
  BY <1>1, <1>2

LEMMA ChainFields ==
  ASSUME fs \in [File -> Content]
  PROVE  \A f \in Path : DOMAIN Chain[MaxDepth][f] = Fields /\ DOMAIN Chain[MaxDepth - 1][f] = Fields
<1> DEFINE Good(d) == \A f \in Path : DOMAIN Chain[d][f] = Fields
<1>1. Good(0)
  <2>1. Chain[0] = Level(Chain[0 - 1], 0)
    BY ChainLevels DEF MaxDepth
  <2> QED
    BY <2>1, LevelFields
<1>2. ASSUME NEW d \in 1..MaxDepth, Good(d - 1) PROVE Good(d)
  <2>1. Chain[d] = Level(Chain[d - 1], d)
    BY ChainLevels DEF MaxDepth
  <2> QED
    BY <1>2, <2>1, LevelFields
<1> HIDE DEF Good
<1>3. Good(1 - 1)
  BY <1>1
<1>4. Good(1) /\ Good(2 - 1)
  BY <1>2, <1>3 DEF MaxDepth
<1>5. Good(2) /\ Good(3 - 1)
  BY <1>2, <1>4 DEF MaxDepth
<1>6. Good(3) /\ Good(4 - 1)
  BY <1>2, <1>5 DEF MaxDepth
<1>7. Good(4) /\ Good(5 - 1)
  BY <1>2, <1>6 DEF MaxDepth
<1>8. Good(5)
  BY <1>2, <1>7 DEF MaxDepth
<1> QED
  BY <1>7, <1>8 DEF Good, MaxDepth

\* What Chain is for the files that handle_exec lets through.
LEMMA ChainKnown ==
  ASSUME NEW f \in Path, fs \in [File -> Content]
  PROVE  /\ AccessErr(f) # "" => Chain[MaxDepth][f].errno = AccessErr(f)
         /\ IsElf(f) => Chain[MaxDepth][f] = Ok(f, <<f>>, {f})
         /\ IsScript(f) => Chain[MaxDepth][f] = Ok(fs[f].interp, <<fs[f].interp>> \o fs[f].opt \o <<f>>,
                                                  {fs[f].interp} \cup {f})
<1>1. /\ Chain[MaxDepth] = Level(Chain[MaxDepth - 1], MaxDepth)
      /\ Chain[MaxDepth - 1] = Level(Chain[MaxDepth - 2], MaxDepth - 1)
      /\ MaxDepth # 0 /\ MaxDepth - 1 # 0
  BY ChainLevels DEF MaxDepth
<1>2. ASSUME NEW below, NEW d, NEW g \in Path, IsElf(g) PROVE Level(below, d)[g] = Ok(g, <<g>>, {g})
  BY <1>2, Opens DEF Level, IsElf
<1>3. ASSUME AccessErr(f) # "" PROVE Chain[MaxDepth][f].errno = AccessErr(f)
  <2>1. OpenErr(f) = AccessErr(f) /\ OpenErr(f) # ""
    BY <1>3, Opens
  <2>2. Level(Chain[MaxDepth - 1], MaxDepth)[f] = Fail(OpenErr(f))
    BY <2>1 DEF Level
  <2>3. Fail(OpenErr(f)).errno = OpenErr(f)
    BY DEF Fail
  <2>4. Chain[MaxDepth][f] = Fail(OpenErr(f))
    BY <1>1, <2>2
  <2> QED
    BY <2>1, <2>3, <2>4
<1>4. ASSUME IsScript(f)
      PROVE  Chain[MaxDepth][f] = Ok(fs[f].interp, <<fs[f].interp>> \o fs[f].opt \o <<f>>, {fs[f].interp} \cup {f})
  <2> DEFINE i == fs[f].interp
             r == Chain[MaxDepth - 1][i]
  <2>1. i \in Path /\ IsElf(i) /\ i # Empty /\ OpenErr(f) = "" /\ f \in File /\ fs[f].kind = "script"
    BY <1>4, Opens, ConstAssumption DEF IsScript, IsElf, Path
  <2>2. r = Ok(i, <<i>>, {i})
    <3>1. Level(Chain[MaxDepth - 2], MaxDepth - 1)[i] = Ok(i, <<i>>, {i})
      <4> HIDE DEF i
      <4> QED
        BY <1>2, <2>1
    <3> QED
      BY <1>1, <3>1
  <2>3. "script" \notin ElfKinds
    BY DEF ElfKinds
  <2> HIDE DEF r
  <2>4. Level(Chain[MaxDepth - 1], MaxDepth)[f] =
          IF r.errno # "" THEN r ELSE Ok(r.file, r.argv \o fs[f].opt \o <<f>>, r.reads \cup {f})
    BY <1>1, <2>1, <2>3 DEF Level, r
  <2>5. r.errno = "" /\ r.file = i /\ r.argv = <<i>> /\ r.reads = {i}
    BY <2>2 DEF Ok
  <2> QED
    BY <1>1, <2>4, <2>5
<1>5. IsElf(f) => Chain[MaxDepth][f] = Ok(f, <<f>>, {f})
  <2>1. ASSUME IsElf(f) PROVE Level(Chain[MaxDepth - 1], MaxDepth)[f] = Ok(f, <<f>>, {f})
    BY <1>2, <2>1
  <2> QED
    BY <1>1, <2>1
<1> QED
  BY <1>3, <1>4, <1>5

\* execve of a program, and of a script with a program as its interpreter.
LEMMA RunKnown ==
  ASSUME NEW f \in Path, fs \in [File -> Content], NEW argv
  PROVE  /\ DOMAIN Run(f, argv) = Fields
         /\ IsElf(f) => Run(f, argv) = Ok(f, Args(argv), {f})
         /\ IsScript(f) /\ argv # <<>> =>
              Run(f, argv) = Ok(fs[f].interp, ScriptArgs(f, argv), {fs[f].interp, f})
<1> DEFINE r == Chain[MaxDepth][f]
<1>1. DOMAIN r = Fields
  BY ChainFields
<1>2. IsElf(f) => Run(f, argv) = Ok(f, Args(argv), {f})
  BY DEF Run, IsElf, Args
<1>3. ~IsElf(f) => Run(f, argv) = IF r.errno # "" THEN r ELSE Ok(r.file, r.argv \o Tail(Args(argv)), r.reads)
  BY DEF Run, IsElf, Args
<1>4. ASSUME IsScript(f), argv # <<>>
      PROVE  Run(f, argv) = Ok(fs[f].interp, ScriptArgs(f, argv), {fs[f].interp, f})
  <2>1. r = Ok(fs[f].interp, <<fs[f].interp>> \o fs[f].opt \o <<f>>, {fs[f].interp} \cup {f}) /\ ~IsElf(f)
    BY <1>4, ChainKnown DEF IsScript, IsElf, ElfKinds
  <2> HIDE DEF r
  <2>2. /\ r.errno = "" /\ r.file = fs[f].interp /\ r.argv = <<fs[f].interp>> \o fs[f].opt \o <<f>>
        /\ r.reads = {fs[f].interp, f}
    BY <2>1 DEF Ok
  <2>3. Args(argv) = argv
    BY <1>4 DEF Args
  <2>4. Run(f, argv) = Ok(r.file, r.argv \o Tail(argv), r.reads)
    BY <1>3, <2>1, <2>2, <2>3
  <2> QED
    BY <2>2, <2>4 DEF ScriptArgs
<1> HIDE DEF r
<1>5. DOMAIN Run(f, argv) = Fields
  <2>1. Run(f, argv) = r \/ \E a, b, c : Run(f, argv) = Ok(a, b, c)
    BY <1>2, <1>3
  <2> QED
    BY <1>1, <2>1 DEF Ok, Fields
<1> QED
  BY <1>2, <1>4, <1>5

\* execvp takes the first candidate that is neither missing nor forbidden.
LEMMA SearchedKnown ==
  ASSUME fs \in [File -> Content], NEW argv, NEW i \in 1..Len(Candidates),
         \A j \in 1..(i - 1) : Refused(j), IsElf(Candidates[i]) \/ IsScript(Candidates[i])
  PROVE  Searched(argv) = Run(Candidates[i], argv)
<1>1. DOMAIN Candidates = 1..Len(Candidates) /\ Len(Candidates) \in Nat
      /\ \A j \in 1..Len(Candidates) : Candidates[j] \in Path
  BY ConstAssumption DEF Path
<1>2. Goes(Candidates[i])
  <2>1. Chain[MaxDepth][Candidates[i]].errno = ""
    <3>1. PICK a, b, c : Chain[MaxDepth][Candidates[i]] = Ok(a, b, c)
      <4> DEFINE x == Candidates[i]
      <4>0. x \in Path /\ (IsElf(x) \/ IsScript(x))
        BY <1>1
      <4> HIDE DEF x
      <4>1. \/ Chain[MaxDepth][x] = Ok(x, <<x>>, {x})
            \/ Chain[MaxDepth][x] = Ok(fs[x].interp, <<fs[x].interp>> \o fs[x].opt \o <<x>>, {fs[x].interp} \cup {x})
        BY <4>0, ChainKnown
      <4>2. \E a, b, c : Chain[MaxDepth][x] = Ok(a, b, c)
        BY <4>1
      <4> QED
        BY <4>2 DEF x
    <3>2. Ok(a, b, c).errno = ""
      BY DEF Ok
    <3> QED
      BY <3>1, <3>2
  <2> QED
    BY <2>1 DEF Goes
<1>3. \A j \in 1..(i - 1) : ~Goes(Candidates[j])
  <2> TAKE j \in 1..(i - 1)
  <2>1. Refused(j) /\ Candidates[j] \in Path
    BY <1>1
  <2>2. AccessErr(Candidates[j]) # "" /\ AccessErr(Candidates[j]) \in {"EACCES", "ENOENT"}
    BY <2>1 DEF Refused
  <2>3. Chain[MaxDepth][Candidates[j]].errno = AccessErr(Candidates[j])
    BY <2>1, <2>2, ChainKnown
  <2> QED
    BY <2>2, <2>3 DEF Goes
<1> DEFINE First(k) == Goes(Candidates[k]) /\ \A j \in 1..(k - 1) : ~Goes(Candidates[j])
<1>4. First(i)
  BY <1>2, <1>3
<1>5. ASSUME NEW k \in DOMAIN Candidates, First(k) PROVE k = i
  <2>1. k \in 1..Len(Candidates) /\ ~(k < i) /\ ~(i < k)
    BY <1>1, <1>2, <1>3, <1>5
  <2> QED
    BY <1>1, <2>1
<1> HIDE DEF First
<1>6. i \in DOMAIN Candidates
  BY <1>1
<1>7. (CHOOSE k \in DOMAIN Candidates : First(k)) = i
  BY <1>4, <1>5, <1>6
<1>8. Searched(argv) = Run(Candidates[CHOOSE k \in DOMAIN Candidates : First(k)], argv)
  BY <1>2, <1>6 DEF Searched, First
<1> QED
  BY <1>7, <1>8

LEMMA SameInit == Init => SameInv
<1> SUFFICES ASSUME Init PROVE SameInv
  OBVIOUS
<1>1. cmd.args = <<>> /\ <<>> \in Seq(Word)
  BY EmptySeq DEF Init, NoCmd
<1>2. apart \in BOOLEAN
  BY Zenon DEF Init
<1>3. res = want /\ want.reads = {} /\ want.errno = "" /\ pc = "run" /\ idx = 1
  BY DEF Init, Fail
<1> QED
  BY <1>1, <1>2, <1>3 DEF SameInv, Settled, WantInv, SameProgram, ReadsReported

\* A call that fails claims nothing.
LEMMA ReturnSame ==
  ASSUME NEW e, e # "", Return(e), apart' \in BOOLEAN
  PROVE  SameInv'
<1>1. pc' = "run" /\ idx' = 1 /\ cmd'.args = <<>> /\ res'.errno = e
  BY DEF Return, NoCmd, Fail
<1>2. <<>> \in Seq(Word)
  BY EmptySeq
<1> QED
  BY <1>1, <1>2 DEF SameInv, Settled, WantInv, SameProgram, ReadsReported

\* #! lines make an argument vector that is not empty.
LEMMA ScriptVector ==
  ASSUME NEW i \in Word, NEW opt \in Seq(Word), NEW f \in Word, NEW argv \in Seq(Word), argv # <<>>
  PROVE  /\ <<i>> \o opt \o <<f>> \o Tail(argv) \in Seq(Word)
         /\ <<i>> \o opt \o <<f>> \o Tail(argv) # <<>>
<1>1. Tail(argv) \in Seq(Word) /\ <<i>> \in Seq(Word) /\ <<f>> \in Seq(Word) /\ Len(<<i>>) = 1
  OBVIOUS
<1>2. <<i>> \o opt \in Seq(Word) /\ Len(<<i>> \o opt) = 1 + Len(opt) /\ Len(opt) \in Nat
  BY <1>1
<1>3. <<i>> \o opt \o <<f>> \in Seq(Word) /\ Len(<<i>> \o opt \o <<f>>) = 1 + Len(opt) + 1
  BY <1>1, <1>2
<1> DEFINE a == <<i>> \o opt \o <<f>>
           b == Tail(argv)
<1>4. a \in Seq(Word) /\ Len(a) > 0 /\ b \in Seq(Word)
  BY <1>1, <1>2, <1>3
<1> HIDE DEF a, b
<1>5. a \o b \in Seq(Word) /\ Len(a \o b) > 0
  BY <1>4
<1>6. a \o b # <<>>
  BY <1>5
<1> QED
  BY <1>5, <1>6 DEF a, b

\* The arguments, the search and the history at each step.
LEMMA SettledStep ==
  ASSUME TraceInv, Settled, [Next]_vars
  PROVE  Settled'
<1>1. <<>> \in Seq(Word) /\ fs \in [File -> Content] /\ cmd.program \in Path
      /\ DOMAIN cmd = {"program", "args", "envs", "spawn", "filter"}
  BY EmptySeq DEF TraceInv, CmdInv, Path
<1>2. ASSUME NEW e, Return(e), apart' \in BOOLEAN PROVE Settled'
  BY <1>1, <1>2 DEF Return, NoCmd, Settled
<1>3. ASSUME pc' # "run", cmd'.args = cmd.args, apart' \in BOOLEAN PROVE Settled'
  BY <1>3 DEF Settled
<1>4. ASSUME NEW fn \in Functions \cup {"execveat"}, NEW p, NEW argv \in ArgvOf(fn), NEW env, Enter(fn, p, argv, env),
             apart' \in BOOLEAN
      PROVE  Settled'
  <2>1. argv \in Seq(Word)
    BY ConstAssumption DEF ArgvOf
  <2>2. cmd'.args = argv /\ pc' # "run"
    BY <1>4 DEF Enter
  <2> QED
    BY <1>4, <2>1, <2>2 DEF Settled
<1>5. ASSUME NEW prog, NEW env, Exec(prog, env) PROVE Settled'
  <2>1. (apart' = FALSE \/ apart' = TRUE) /\ pc = "run"
    BY <1>5 DEF Exec, Call, CallAt, CallAtDirect, RawCall, Direct, Begin, Idle
  <2>2. \/ UNCHANGED <<pc, cmd, idx>>
        \/ pc' = "aborted" /\ cmd' = cmd
        \/ \E e : Return(e)
        \/ \E fn \in Functions \cup {"execveat"} : \E p : \E argv \in ArgvOf(fn) : Enter(fn, p, argv, env)
    <3>1. ASSUME NEW fn \in Functions, NEW argv \in ArgvOf(fn), Call(fn, prog, argv, env)
          PROVE  (pc' = "aborted" /\ cmd' = cmd) \/ (\E e : Return(e)) \/ Enter(fn, prog, argv, env)
      BY <3>1 DEF Call, Panic
    <3>2. ASSUME NEW argv \in Argv, CallAt(prog, argv, env)
          PROVE  (\E e : Return(e)) \/ Enter("execveat", prog, argv, env)
      BY <3>2 DEF CallAt
    <3>3. ASSUME NEW argv, NEW at, NEW flags, RawCall(prog, argv, env) \/ CallAtDirect(at, prog, argv, env, flags)
          PROVE  UNCHANGED <<pc, cmd, idx>>
      BY <3>3 DEF RawCall, CallAtDirect, Direct
    <3>4. ArgvOf("execveat") = Argv
      BY DEF ArgvOf, Variadic
    <3> QED
      BY <1>5, <3>1, <3>2, <3>3, <3>4 DEF Exec
  <2>3. apart' \in BOOLEAN
    BY <2>1
  <2>4. CASE UNCHANGED <<pc, cmd, idx>>
    BY <2>3, <2>4 DEF Settled
  <2> QED
    BY <1>2, <1>3, <1>4, <2>2, <2>3, <2>4
<1>6. CASE Which
  <2>1. apart' \in BOOLEAN
    BY <1>6 DEF Which, SendError, Settled
  <2>2. (\E e : Return(e)) \/ (pc' # "run" /\ cmd'.args = cmd.args)
    BY <1>1, <1>6 DEF Which, SendError, Panic
  <2> QED
    BY <1>2, <1>3, <2>1, <2>2
<1>7. CASE Peek
  <2>1. apart' \in BOOLEAN
    <3>1. apart' = apart \/ apart' = (apart \/ ~Ordinary(fs[cmd.program]))
      BY <1>7 DEF Peek, SendError
    <3>2. CASE Ordinary(fs[cmd.program])
      BY <3>1, <3>2 DEF Settled
    <3>3. CASE ~Ordinary(fs[cmd.program])
      BY <3>1, <3>3 DEF Settled
    <3> QED
      BY <3>2, <3>3
  <2>2. CASE (\E e : Return(e)) \/ (pc' # "run" /\ cmd' = cmd)
    BY <1>2, <1>3, <2>1, <2>2
  <2>3. CASE /\ cmd.program # Empty /\ ReadErr(cmd.program) = "" /\ cmd.args # <<>>
             /\ cmd' = Shebang(cmd, parse_shebang(fs[cmd.program])) /\ pc' = "inspect"
    <3>0. PICK b : b = parse_shebang(fs[cmd.program])
      OBVIOUS
    <3>1. cmd.program \in File
      BY <1>1, <2>3 DEF ReadErr, AccessErr, Path
    <3>2. b.interp \in Word /\ b.opt \in Seq(Word) /\ cmd.program \in Word
      BY <1>1, <3>0, <3>1, ParsedLine, ConstAssumption
    <3>3. cmd'.args = <<b.interp>> \o b.opt \o <<cmd.program>> \o Tail(cmd.args)
      BY <1>1, <2>3, <3>0 DEF Shebang
    <3>4. cmd'.args \in Seq(Word)
      BY <2>3, <3>2, <3>3, ScriptVector DEF Settled
    <3> QED
      BY <2>1, <2>3, <3>4 DEF Settled
  <2> QED
    BY <1>7, <2>2, <2>3 DEF Peek, SendError, Panic
<1>8. CASE Inspect \/ PreExec \/ Execve
  <2>1. apart' \in BOOLEAN
    BY <1>8 DEF Inspect, SendError, PreExec, Execve, Settled
  <2>2. \/ (\E e : Return(e)) \/ (cmd' = NoCmd /\ idx' = 1)
        \/ pc' # "run" /\ (cmd' = cmd \/ (\E x : cmd' = [cmd EXCEPT !.envs = x]) \/ cmd' = [cmd EXCEPT !.filter = "live"])
    <3>1. CASE Inspect
      BY <3>1 DEF Inspect, SendError, Panic
    <3>2. CASE PreExec
      BY <3>2 DEF PreExec, Panic
    <3>3. CASE Execve
      BY <3>3 DEF Execve
    <3> QED
      BY <1>8, <3>1, <3>2, <3>3
  <2>3. ASSUME cmd' = cmd \/ (\E x : cmd' = [cmd EXCEPT !.envs = x]) \/ cmd' = [cmd EXCEPT !.filter = "live"]
        PROVE  cmd'.args = cmd.args
    BY <1>1, <2>3
  <2>4. ASSUME cmd' = NoCmd, idx' = 1 PROVE Settled'
    BY <1>1, <2>1, <2>4 DEF NoCmd, Settled
  <2> QED
    BY <1>2, <1>3, <2>1, <2>2, <2>3, <2>4
<1>9. ASSUME NEW f, NEW c, Change(f, c) PROVE Settled'
  <2>1. UNCHANGED <<cmd, pc, idx>> /\ apart' = TRUE
    BY <1>9 DEF Change
  <2> QED
    BY <2>1 DEF Settled
<1>10. CASE UNCHANGED vars
  BY <1>10 DEF vars, Settled
<1> QED
  BY <1>5, <1>6, <1>7, <1>8, <1>9, <1>10 DEF Next, Terminated

\* While the files are left alone, so is what they mean.
LEMMA Still ==
  ASSUME fs' = fs, NEW f
  PROVE  IsElf(f)' = IsElf(f) /\ IsScript(f)' = IsScript(f) /\ AccessErr(f)' = AccessErr(f)
  BY DEF IsElf, IsScript, AccessErr

LEMMA PromiseKept ==
  ASSUME fs' = fs, want' = want, NEW f, NEW argv, NEW env, Promise(f, argv, env)
  PROVE  Promise(f, argv, env)'
<1>1. IsElf(f)' = IsElf(f) /\ IsScript(f)' = IsScript(f) /\ ScriptArgs(f, argv)' = ScriptArgs(f, argv)
  BY Still DEF ScriptArgs
<1>2. ASSUME NEW g, NEW a, NEW r PROVE Wants(g, a, r, env)' = Wants(g, a, r, env)
  BY DEF Wants
<1> QED
  BY <1>1, <1>2 DEF Promise, Wants

\* What execve would have done when the call begins.
LEMMA PromiseMade ==
  ASSUME fs \in [File -> Content], fs' = fs, NEW f \in Path, NEW argv, NEW env,
         want' = Outcome(Run(f, argv), env)
  PROVE  Promise(f, argv, env)'
<1>1. IsElf(f)' = IsElf(f) /\ IsScript(f)' = IsScript(f) /\ ScriptArgs(f, argv)' = ScriptArgs(f, argv)
      /\ fs'[f].interp = fs[f].interp
  BY Still DEF ScriptArgs
<1>2. ASSUME NEW g, NEW a, NEW r, Run(f, argv) = Ok(g, a, r) PROVE Wants(g, a, r, env)'
  <2>1. PICK o : o = Ok(g, a, r)
    OBVIOUS
  <2>2. DOMAIN o = Fields /\ o.errno = "" /\ o.file = g /\ o.argv = a /\ o.reads = r
    BY <2>1 DEF Ok, Fields
  <2>3. want' = Outcome(o, env)
    BY <1>2, <2>1
  <2>4. /\ Outcome(o, env).errno = "" /\ Outcome(o, env).file = g /\ Outcome(o, env).argv = a
        /\ Outcome(o, env).reads = r /\ Outcome(o, env).user = env["USER"]
    BY <2>2, OutcomeFields
  <2> QED
    BY <2>3, <2>4 DEF Wants
<1>3. ASSUME IsElf(f) PROVE Wants(f, Args(argv), {f}, env)'
  BY <1>2, <1>3, RunKnown
<1>4. ASSUME IsScript(f), argv # <<>>
      PROVE  Wants(fs[f].interp, ScriptArgs(f, argv), {fs[f].interp, f}, env)'
  <2>1. PICK i, a : i = fs[f].interp /\ a = ScriptArgs(f, argv)
    OBVIOUS
  <2>2. Run(f, argv) = Ok(i, a, {i, f})
    BY <1>4, <2>1, RunKnown
  <2>3. Wants(i, a, {i, f}, env)'
    BY <1>2, <2>2
  <2> QED
    BY <1>1, <2>1, <2>3 DEF Wants
<1>5. Args(argv)' = Args(argv)
  BY DEF Args
<1> QED
  BY <1>1, <1>3, <1>4, <1>5 DEF Promise

\* A call that is under way claims nothing yet.
LEMMA UnderWay ==
  ASSUME pc' # "run"
  PROVE  SameProgram' /\ ReadsReported'
  BY DEF SameProgram, ReadsReported

\* The functions of the family: which of them search, and whose environment they use.
LEMMA FamilyTable ==
  ASSUME NEW fn \in Functions
  PROVE  (fn \in Searching <=> "p" \in Family[fn]) /\ (fn \in UseEnviron <=> "e" \notin Family[fn])
  BY DEF Functions, Searching, UseEnviron, Variadic, Spawning, Family

LEMMA EnterSame ==
  ASSUME TraceInv, Settled, NEW fn \in Functions, NEW p \in Path,
         NEW argv, NEW env, Begin(Expected(fn, p, argv, env)), Enter(fn, p, argv, env)
  PROVE  WantInv'
<1>1. fs \in [File -> Content] /\ fs' = fs /\ idx' = 1
      /\ want' = Expected(fn, p, argv, env)
  BY DEF Begin, Idle, Enter, TraceInv, Settled
<1>2. Empty \notin File /\ Name \notin File /\ Name # Empty
  BY ConstAssumption
<1>3. PICK E : E = EnvOf(fn, env)
  OBVIOUS
<1>4. E = IF "e" \in Family[fn] THEN env ELSE image.env
  BY <1>3, FamilyTable DEF EnvOf
<1>5. /\ cmd'.program = p /\ cmd'.args = argv /\ cmd'.envs = E
      /\ pc' = IF fn \in Searching /\ p \in {Name, Empty} THEN "which" ELSE "peek"
  BY <1>3 DEF Enter
<1>6. pc' # "run" /\ pc' \notin {"inspect", "pre_exec", "execve"} /\ SameProgram' /\ ReadsReported'
  BY <1>5, UnderWay
<1>7. ASSUME NEW f, f \notin File PROVE Promise(f, argv, E)'
  BY <1>7 DEF Promise, IsElf, IsScript
<1>8. CASE p = Empty
  <2>1. pc' = "which" => SearchInv'
    BY <1>2, <1>5, <1>8 DEF SearchInv
  <2>2. pc' = "peek" => Promise(cmd.program, cmd.args, cmd.envs)'
    <3>1. Promise(Empty, argv, E)'
      BY <1>2, <1>7
    <3> QED
      BY <1>5, <1>8, <3>1 DEF Promise, IsElf, IsScript
  <2> QED
    BY <1>5, <1>6, <1>8, <2>1, <2>2 DEF WantInv
<1>9. CASE p \in File
  <2>1. want' = Outcome(Run(p, argv), E)
    BY <1>1, <1>2, <1>4, <1>9 DEF Expected
  <2>2. Promise(p, argv, E)'
    BY <1>1, <2>1, PromiseMade
  <2>3. pc' = "peek"
    BY <1>2, <1>5, <1>9
  <2>4. Promise(cmd.program, cmd.args, cmd.envs)'
    BY <1>5, <2>2, <2>3 DEF Promise, Wants, IsElf, IsScript, ScriptArgs
  <2> QED
    BY <1>6, <2>3, <2>4 DEF WantInv
<1>10. CASE p = Name /\ fn \notin Searching
  <2>1. Promise(Name, argv, E)'
    BY <1>2, <1>7
  <2>2. Promise(cmd.program, cmd.args, cmd.envs)'
    BY <1>2, <1>5, <1>10, <2>1 DEF Promise, IsElf, IsScript
  <2> QED
    BY <1>5, <1>6, <1>10, <2>2 DEF WantInv
<1>11. CASE p = Name /\ fn \in Searching
  <2>1. "p" \in Family[fn]
    BY <1>2, <1>11, FamilyTable
  <2>2. want' = Outcome(Searched(argv), E)
    BY <1>1, <1>4, <1>11, <2>1 DEF Expected
  <2>3. ASSUME NEW i \in 1..Len(Candidates), \A j \in 1..(i - 1) : Refused(j)'
        PROVE  Promise(Candidates[i], argv, E)'
    <3>1. \A j \in 1..(i - 1) : Refused(j)
      <4>1. ASSUME NEW j PROVE Refused(j)' = Refused(j)
        BY <1>1, Still DEF Refused
      <4> QED
        BY <2>3, <4>1
    <3>2. PICK f : f = Candidates[i]
      OBVIOUS
    <3>3. f \in Path
      BY <3>2, ConstAssumption DEF Path
    <3>4. CASE IsElf(f) \/ IsScript(f)
      <4>1. IsElf(Candidates[i]) \/ IsScript(Candidates[i])
        BY <3>2, <3>4
      <4>2. Searched(argv) = Run(f, argv)
        BY <1>1, <3>1, <3>2, <4>1, SearchedKnown
      <4>3. want' = Outcome(Run(f, argv), E)
        BY <2>2, <4>2
      <4>4. Promise(f, argv, E)'
        BY <1>1, <3>3, <4>3, PromiseMade
      <4> QED
        BY <3>2, <4>4
    <3>5. CASE ~(IsElf(f) \/ IsScript(f))
      <4>1. ~IsElf(f)' /\ ~IsScript(f)'
        BY <1>1, <3>5, Still
      <4>2. Promise(f, argv, E)'
        BY <4>1 DEF Promise
      <4> QED
        BY <3>2, <4>2
    <3> QED
      BY <3>4, <3>5
  <2>4. SearchInv'
    <3>1. \A j \in 1..(idx' - 1) : Refused(j)'
      BY <1>1
    <3> QED
      BY <1>5, <2>3, <3>1 DEF SearchInv
  <2> QED
    BY <1>5, <1>6, <1>11, <2>4 DEF WantInv
<1> QED
  BY <1>8, <1>9, <1>10, <1>11 DEF Path

\* A direct execve has the outcome of execve, and claims no reports.
LEMMA DirectSame ==
  ASSUME TraceInv, NEW prog \in Path, NEW argv, NEW env, RawCall(prog, argv, env)
  PROVE  WantInv'
<1> DEFINE r == Outcome(Run(prog, argv), env)
<1>1. DOMAIN r = Fields
  BY RunKnown, OutcomeFields DEF TraceInv
<1>2. want' = [r EXCEPT !.reads = {}] /\ res' = r /\ pc = "run" /\ pc' = pc
  BY DEF RawCall, Direct, Begin, Idle
<1> HIDE DEF r
<1>3. want'.errno = r.errno /\ want'.file = r.file /\ want'.argv = r.argv /\ want'.user = r.user /\ want'.reads = {}
  BY <1>1, <1>2 DEF Fields
<1>4. SameProgram' /\ ReadsReported'
  BY <1>2, <1>3 DEF SameProgram, ReadsReported
<1> QED
  BY <1>2, <1>4 DEF WantInv

LEMMA SearchSame ==
  ASSUME TraceInv, Settled, WantInv, Which, apart' \in BOOLEAN
  PROVE  SameInv' \/ WantInv'
<1>1. fs' = fs /\ want' = want /\ pc = "which" /\ fs \in [File -> Content]
      /\ DOMAIN cmd = {"program", "args", "envs", "spawn", "filter"}
  BY DEF Which, TraceInv, CmdInv
<1>2. cmd.program \in {Name, Empty} /\ SearchInv
  BY <1>1 DEF WantInv
<1>3. PICK f : f = Candidates[idx]
  OBVIOUS
<1>4. CASE \E e : e # "" /\ Return(e)
  BY <1>4, ReturnSame
<1>5. CASE AccessErr(f) = "" /\ cmd.program # Empty /\ cmd' = [cmd EXCEPT !.program = f] /\ pc' = "peek"
  <2>1. PICK a, E : a = cmd.args /\ E = cmd.envs
    OBVIOUS
  <2>2. cmd'.program = f /\ cmd'.args = a /\ cmd'.envs = E
    BY <1>1, <1>5, <2>1
  <2>3. idx \in 1..Len(Candidates)
    BY DEF TraceInv
  <2>4. Promise(f, a, E)
    BY <1>2, <1>3, <1>5, <2>1, <2>3 DEF SearchInv
  <2>5. Promise(f, a, E)'
    BY <1>1, <2>4, PromiseKept
  <2>6. Promise(cmd.program, cmd.args, cmd.envs)'
    BY <2>2, <2>5 DEF Promise, Wants, IsElf, IsScript, ScriptArgs
  <2>7. SameProgram' /\ ReadsReported'
    BY <1>5, UnderWay
  <2> QED
    BY <1>5, <2>6, <2>7 DEF WantInv
<1>6. CASE AccessErr(f) \in {"EACCES", "ENOENT"} /\ idx' = idx + 1 /\ cmd' = cmd /\ pc' = pc
  <2>1. PICK a, E : a = cmd.args /\ E = cmd.envs
    OBVIOUS
  <2>2. ASSUME NEW j PROVE Refused(j)' = Refused(j)
    BY <1>1, Still DEF Refused
  <2>3. idx \in 1..Len(Candidates) /\ Len(Candidates) \in Nat
    BY ConstAssumption DEF TraceInv
  <2>4. SearchInv'
    <3> SUFFICES ASSUME cmd.program = Name PROVE SearchInv'
      BY <1>6 DEF SearchInv
    <3>1. \A j \in 1..(idx' - 1) : Refused(j)'
      <4>1. Refused(idx)
        BY <1>3, <1>6 DEF Refused
      <4>2. \A j \in 1..(idx - 1) : Refused(j)
        BY <1>2 DEF SearchInv
      <4>3. ASSUME NEW j \in 1..(idx' - 1) PROVE Refused(j)
        BY <1>6, <2>3, <4>1, <4>2
      <4> QED
        BY <2>2, <4>3
    <3>2. ASSUME NEW i \in 1..Len(Candidates), \A j \in 1..(i - 1) : Refused(j)'
          PROVE  Promise(Candidates[i], a, E)'
      <4>1. \A j \in 1..(i - 1) : Refused(j)
        BY <2>2, <3>2
      <4>2. Promise(Candidates[i], a, E)
        BY <1>2, <2>1, <4>1 DEF SearchInv
      <4> QED
        BY <1>1, <4>2, PromiseKept
    <3>3. cmd'.args = a /\ cmd'.envs = E
      BY <1>6, <2>1
    <3> QED
      BY <3>1, <3>2, <3>3 DEF SearchInv
  <2>5. SameProgram' /\ ReadsReported'
    BY <1>1, <1>6, UnderWay
  <2> QED
    BY <1>1, <1>2, <1>6, <2>4, <2>5 DEF WantInv
<1>7. CASE pc' = "aborted"
  BY <1>7, UnderWay DEF WantInv
<1> QED
  <2>1. \/ \E e : e # "" /\ Return(e)
        \/ pc' = "aborted"
        \/ AccessErr(f) = "" /\ cmd.program # Empty /\ cmd' = [cmd EXCEPT !.program = f] /\ pc' = "peek"
        \/ AccessErr(f) \in {"EACCES", "ENOENT"} /\ idx' = idx + 1 /\ cmd' = cmd /\ pc' = pc
    BY <1>3 DEF Which, SendError, Panic
  <2> QED
    BY <1>4, <1>5, <1>6, <1>7, <2>1

\* parse_shebang makes of the command what the kernel makes of it.
LEMMA PeekSame ==
  ASSUME TraceInv, Settled, WantInv, Peek, ~apart', apart' \in BOOLEAN
  PROVE  SameInv' \/ WantInv'
<1>1. fs' = fs /\ want' = want /\ pc = "peek" /\ fs \in [File -> Content] /\ cmd.program \in Path
      /\ DOMAIN cmd = {"program", "args", "envs", "spawn", "filter"}
  BY DEF Peek, TraceInv, CmdInv, Path
<1>2. PICK f, a, E : f = cmd.program /\ a = cmd.args /\ E = cmd.envs
  OBVIOUS
<1>3. Promise(f, a, E)
  BY <1>1, <1>2 DEF WantInv
<1>4. CASE \E e : e # "" /\ Return(e)
  BY <1>4, ReturnSame
<1>5. CASE pc' = "aborted"
  BY <1>5, UnderWay DEF WantInv
<1>6. CASE /\ f # Empty /\ reported' = Report(f) /\ ReadErr(f) = "" /\ fs[f].kind = "script" /\ a # <<>>
           /\ cmd' = Shebang(cmd, parse_shebang(fs[f])) /\ pc' = "inspect" /\ Ordinary(fs[f])
  <2>1. f \in File
    BY <1>1, <1>2, <1>6 DEF ReadErr, AccessErr, Path
  <2>2. PICK i, v : i = fs[f].interp /\ v = ScriptArgs(f, a)
    OBVIOUS
  <2>3. cmd'.program = i /\ cmd'.args = v /\ cmd'.envs = E
    <3>1. PICK b : b = parse_shebang(fs[f])
      OBVIOUS
    <3>2. b.interp = i /\ b.opt = fs[f].opt
      BY <1>1, <1>6, <2>1, <2>2, <3>1, ParsedLine
    <3>3. cmd' = Shebang(cmd, b)
      BY <1>6, <3>1
    <3> QED
      BY <1>1, <1>2, <2>2, <3>2, <3>3 DEF Shebang, ScriptArgs
  <2>4. v # <<>>
    <3>1. i \in Word /\ f \in Word /\ a \in Seq(Word)
      BY <1>1, <1>2, <2>1, <2>2, ConstAssumption DEF Settled
    <3>2. fs[f].opt \in Seq(Word)
      BY <1>1, <1>6, <2>1, ParsedLine
    <3> QED
      BY <1>6, <2>2, <3>1, <3>2, ScriptVector DEF ScriptArgs
  <2>5. ASSUME IsElf(i) PROVE Wants(i, v, {i, f}, E)
    BY <1>3, <1>6, <2>1, <2>2, <2>5 DEF Promise, IsScript
  <2>6. IsElf(i)' = IsElf(i)
    BY <1>1, Still
  <2>7. FoundInv'
    <3> SUFFICES ASSUME IsElf(i) PROVE FoundInv'
      BY <2>3, <2>6 DEF FoundInv, IsElf
    <3>1. /\ want'.errno = "" /\ want'.file = i /\ want'.argv = v /\ want'.user = E["USER"]
          /\ want'.reads = {i, f}
      BY <1>1, <2>5 DEF Wants
    <3>2. Args(v) = v
      BY <2>4 DEF Args
    <3>3. {i, f} \ Hidden \subseteq reported' \cup {i}
      BY <1>6 DEF Report
    <3> QED
      BY <1>6, <2>3, <3>1, <3>2, <3>3 DEF FoundInv, Args
  <2> QED
    BY <1>6, <2>7, UnderWay DEF WantInv
<1>7. CASE f # Empty /\ reported' = Report(f) /\ cmd' = cmd /\ pc' = "inspect"
  <2>1. IsElf(f)' = IsElf(f)
    BY <1>1, Still
  <2>2. FoundInv'
    <3> SUFFICES ASSUME IsElf(f) PROVE FoundInv'
      BY <1>2, <1>7, <2>1 DEF FoundInv, IsElf
    <3>1. Wants(f, Args(a), {f}, E)
      BY <1>3 DEF Promise
    <3>2. /\ want'.errno = "" /\ want'.file = f /\ want'.argv = Args(a) /\ want'.user = E["USER"]
          /\ want'.reads = {f}
      BY <1>1, <3>1 DEF Wants
    <3>3. cmd'.program = f /\ cmd'.args = a /\ cmd'.envs = E
      BY <1>2, <1>7
    <3>4. {f} \ Hidden \subseteq reported' \cup {f}
      OBVIOUS
    <3> QED
      BY <1>7, <3>2, <3>3, <3>4 DEF FoundInv, Args
  <2> QED
    BY <1>7, <2>2, UnderWay DEF WantInv
<1> QED
  BY <1>2, <1>4, <1>5, <1>6, <1>7 DEF Peek, SendError, Panic

\* The entries that are added or taken out are ours: USER stays.
LEMMA UserKept ==
  ASSUME NEW e \in [Var -> Value]
  PROVE  ensure_env(ensure_env(e, "LD_PRELOAD").envs, "FSPY_PAYLOAD").envs["USER"] = e["USER"]
<1>1. "LD_PRELOAD" \in Var /\ "FSPY_PAYLOAD" \in Var /\ "USER" \in Var
      /\ "USER" # "LD_PRELOAD" /\ "USER" # "FSPY_PAYLOAD"
  BY DEF Var, Ours
<1>2. PICK e1 : e1 = ensure_env(e, "LD_PRELOAD").envs
  OBVIOUS
<1>3. e1 \in [Var -> Value] /\ e1["USER"] = e["USER"]
  BY <1>1, <1>2, EnsureEnv
<1>4. ensure_env(e1, "FSPY_PAYLOAD").envs["USER"] = e1["USER"]
  BY <1>1, <1>3, EnsureEnv
<1> QED
  BY <1>2, <1>3, <1>4

LEMMA InspectSame ==
  ASSUME TraceInv, Settled, WantInv, Inspect, apart' \in BOOLEAN
  PROVE  SameInv' \/ WantInv'
<1>1. fs' = fs /\ want' = want /\ pc = "inspect" /\ fs \in [File -> Content] /\ cmd.program \in Path
      /\ DOMAIN cmd = {"program", "args", "envs", "spawn", "filter"} /\ cmd.envs \in [Var -> Value]
  BY DEF Inspect, TraceInv, CmdInv, Path
<1>2. PICK f, a, E : f = cmd.program /\ a = cmd.args /\ E = cmd.envs
  OBVIOUS
<1>3. FoundInv
  BY <1>1 DEF WantInv
<1>4. CASE \E e : e # "" /\ Return(e)
  BY <1>4, ReturnSame
<1>5. CASE pc' = "aborted"
  BY <1>5, UnderWay DEF WantInv
<1>6. ASSUME f # Empty, reported' = Report(f), InspectErr(f) = "", fs[f].kind \in ElfKinds,
             NEW E2, E2["USER"] = E["USER"], cmd' = [cmd EXCEPT !.envs = E2], pc' \in {"execve", "pre_exec"}
      PROVE  WantInv'
  <2>1. f \in File
    BY <1>1, <1>2, <1>6 DEF InspectErr, ReadErr, AccessErr, Path
  <2>2. IsElf(f) /\ IsElf(f)'
    BY <1>1, <1>6, <2>1 DEF IsElf
  <2>3. cmd'.program = f /\ cmd'.args = a /\ cmd'.envs = E2
    BY <1>1, <1>2, <1>6
  <2>4. /\ want.errno = "" /\ want.file = f /\ want.argv = Args(a) /\ want.user = E["USER"]
        /\ want.reads \ Hidden \subseteq reported \cup {f}
    BY <1>1, <1>2, <1>3, <2>2 DEF FoundInv
  <2>5. want.reads \ Hidden \subseteq reported'
    BY <1>6, <2>4 DEF Report
  <2>6. FoundInv'
    BY <1>1, <1>6, <2>3, <2>4, <2>5 DEF FoundInv, Args
  <2>7. IsElf(cmd.program)'
    BY <2>2, <2>3 DEF IsElf
  <2> QED
    BY <1>6, <2>6, <2>7, UnderWay DEF WantInv
<1>7. PICK D : D = ensure_env(ensure_env(E, "LD_PRELOAD").envs, "FSPY_PAYLOAD").envs
  OBVIOUS
<1>8. PICK S : S = [v \in Var |-> IF v \in Ours THEN "absent" ELSE E[v]]
  OBVIOUS
<1>9. D["USER"] = E["USER"] /\ S["USER"] = E["USER"]
  BY <1>1, <1>2, <1>7, <1>8, UserKept DEF Var, Ours
<1>10. \/ \E e : e # "" /\ Return(e)
       \/ pc' = "aborted"
       \/ /\ f # Empty /\ reported' = Report(f) /\ InspectErr(f) = "" /\ fs[f].kind \in ElfKinds
          /\ cmd' = [cmd EXCEPT !.envs = D] /\ pc' = "execve"
       \/ /\ f # Empty /\ reported' = Report(f) /\ InspectErr(f) = "" /\ fs[f].kind \in ElfKinds
          /\ cmd' = [cmd EXCEPT !.envs = S] /\ pc' = "pre_exec"
  BY <1>2, <1>7, <1>8 DEF Inspect, SendError, Panic, ElfKinds
<1> QED
  BY <1>4, <1>5, <1>6, <1>9, <1>10

LEMMA PreExecSame ==
  ASSUME TraceInv, Settled, WantInv, PreExec, apart' \in BOOLEAN
  PROVE  SameInv' \/ WantInv'
<1>1. fs' = fs /\ want' = want /\ reported' = reported /\ pc = "pre_exec"
      /\ DOMAIN cmd = {"program", "args", "envs", "spawn", "filter"}
  BY DEF PreExec, TraceInv, CmdInv
<1>2. CASE pc' = "aborted"
  BY <1>2, UnderWay DEF WantInv
<1>3. CASE cmd' = [cmd EXCEPT !.filter = "live"] /\ pc' = "execve"
  <2>1. cmd'.program = cmd.program /\ cmd'.args = cmd.args /\ cmd'.envs = cmd.envs
    BY <1>1, <1>3
  <2>2. FoundInv /\ IsElf(cmd.program)
    BY <1>1 DEF WantInv
  <2>3. FoundInv' /\ IsElf(cmd.program)'
    BY <1>1, <1>3, <2>1, <2>2 DEF FoundInv, IsElf, Args
  <2> QED
    BY <1>3, <2>3, UnderWay DEF WantInv
<1>4. CASE \E e : e # "" /\ Return(e)
  BY <1>4, ReturnSame
<1> QED
  BY <1>2, <1>3, <1>4 DEF PreExec, Panic

\* The real execve gets the file itself, no longer a script or a name.
LEMMA ExecveSame ==
  ASSUME TraceInv, Settled, WantInv, Execve, apart' \in BOOLEAN
  PROVE  SameInv' \/ WantInv'
<1>1. fs' = fs /\ want' = want /\ reported' = reported /\ pc = "execve" /\ fs \in [File -> Content]
      /\ cmd.program \in Path
  BY DEF Execve, TraceInv, CmdInv, Path
<1>2. PICK f, a, E : f = cmd.program /\ a = cmd.args /\ E = cmd.envs
  OBVIOUS
<1>3. PICK o : o = Ok(f, Args(a), {f})
  OBVIOUS
<1>4. DOMAIN o = Fields /\ o.errno = "" /\ o.file = f /\ o.argv = Args(a)
  BY <1>3 DEF Ok, Fields
<1>5. IsElf(f) /\ FoundInv
  BY <1>1, <1>2 DEF WantInv
<1>6. Run(f, a) = o
  BY <1>1, <1>2, <1>3, <1>5, RunKnown
<1>7. Outcome(o, E).errno = "" /\ Outcome(o, E).file = f /\ Outcome(o, E).argv = Args(a)
      /\ Outcome(o, E).user = E["USER"]
  BY <1>4, OutcomeFields
<1>8. /\ want.errno = "" /\ want.file = f /\ want.argv = Args(a) /\ want.user = E["USER"]
      /\ want.reads \ Hidden \subseteq reported
  BY <1>1, <1>2, <1>5 DEF FoundInv
<1>9. CASE pc' = "run" /\ res' = Outcome(o, E)
  <2>1. SameProgram' /\ ReadsReported'
    BY <1>1, <1>7, <1>8, <1>9 DEF SameProgram, ReadsReported
  <2> QED
    BY <1>9, <2>1 DEF WantInv
<1>10. CASE \E e : e # "" /\ Return(e)
  BY <1>10, ReturnSame
<1> QED
  BY <1>2, <1>6, <1>9, <1>10 DEF Execve

\* Every step keeps what the call promised.
LEMMA SameStep == TraceInv /\ SameInv /\ [Next]_vars => SameInv'
<1> SUFFICES ASSUME TraceInv, SameInv, [Next]_vars PROVE SameInv'
  OBVIOUS
<1>1. Settled /\ Settled' /\ apart' \in BOOLEAN
  BY SettledStep DEF SameInv, Settled
<1>2. WantInv' => SameInv'
  BY <1>1 DEF SameInv
<1>3. ASSUME NEW prog \in File \cup {Name, Empty}, NEW env, NEW fn \in Functions, NEW argv, Call(fn, prog, argv, env)
      PROVE  SameInv'
  <2>1. prog \in Path
    BY DEF Path
  <2>2. Begin(Expected(fn, prog, argv, env))
    BY <1>3 DEF Call
  <2>3. CASE Enter(fn, prog, argv, env)
    BY <1>1, <1>2, <2>1, <2>2, <2>3, EnterSame
  <2>4. CASE pc' = "aborted"
    BY <1>2, <2>4, UnderWay DEF WantInv
  <2>5. CASE \E e : e # "" /\ Return(e)
    BY <1>1, <2>5, ReturnSame
  <2> QED
    BY <1>3, <2>3, <2>4, <2>5 DEF Call, Panic
<1>4. ASSUME NEW prog \in File \cup {Name, Empty}, NEW env, NEW argv, RawCall(prog, argv, env)
      PROVE  SameInv'
  <2>1. prog \in Path
    BY DEF Path
  <2> QED
    BY <1>2, <1>4, <2>1, DirectSame
<1>8. ASSUME NEW prog, NEW env, NEW argv, NEW at, NEW flags,
             CallAt(prog, argv, env) \/ CallAtDirect(at, prog, argv, env, flags)
      PROVE  SameInv'
  BY <1>1, <1>8 DEF CallAt, CallAtDirect, SameInv
<1>5. CASE Which \/ Peek \/ Inspect \/ PreExec \/ Execve
  <2>1. apart => apart'
    BY <1>5 DEF Which, Peek, Inspect, PreExec, Execve, SendError
  <2>2. CASE apart'
    BY <1>1, <2>2 DEF SameInv
  <2>3. CASE ~apart'
    <3>1. WantInv
      BY <2>1, <2>3 DEF SameInv
    <3>2. SameInv' \/ WantInv'
      BY <1>1, <1>5, <2>3, <3>1, SearchSame, PeekSame, InspectSame, PreExecSame, ExecveSame
    <3> QED
      BY <1>2, <3>2
  <2> QED
    BY <2>2, <2>3
<1>6. ASSUME NEW f, NEW c, Change(f, c) PROVE SameInv'
  BY <1>1, <1>6 DEF Change, SameInv
<1>7. CASE UNCHANGED vars
  <2>1. UNCHANGED <<fs, pc, cmd, idx, res, want, reported, apart>>
    BY <1>7 DEF vars
  <2> QED
    BY <2>1 DEF SameInv, Settled, WantInv, SearchInv, FoundInv, Promise, Wants, IsElf, IsScript, ScriptArgs,
       Refused, AccessErr, SameProgram, ReadsReported, Args
<1> QED
  BY <1>3, <1>4, <1>5, <1>6, <1>7, <1>8 DEF Next, Exec, Terminated

\* handle_exec starts what execve, execvp and posix_spawn would have started: the file,
\* the arguments and the program's own environment are the same, for every function of
\* the family but execveat, every search path and every #! line that ends within 128
\* bytes and without a carriage return, unless a file was changed during the call.
THEOREM ProgramKept == Spec => []SameProgram
<1>1. SameInv => SameProgram
  BY DEF SameInv, WantInv, SameProgram
<1> QED
  BY <1>1, TraceInit, TraceStep, SameInit, SameStep, PTL DEF Spec

\* When an exec succeeds, on_path_access has been called for all files the kernel reads to
\* start the program, whether the search or a #! line found them.
THEOREM ReadsAreReported == Spec => []ReadsReported
<1>1. SameInv => ReadsReported
  BY DEF SameInv, WantInv, ReadsReported
<1> QED
  BY <1>1, TraceInit, TraceStep, SameInit, SameStep, PTL DEF Spec

-------------------------------------------------------------------------------
(* posix_spawn of static programs *)

\* The kernel's own errors: EBUSY comes from the installation of a filter only.
LEMMA LevelBusy ==
  ASSUME fs \in [File -> Content], NEW below, NEW d,
         d = 0 \/ \A f \in Path : below[f].errno # "EBUSY"
  PROVE  \A f \in Path : Level(below, d)[f].errno # "EBUSY"
<1> SUFFICES ASSUME NEW f \in Path PROVE Level(below, d)[f].errno # "EBUSY"
  OBVIOUS
<1>1. OpenErr(f) # "EBUSY"
  <2>1. AccessErr(f) # "EBUSY"
    BY DEF AccessErr, Refusal
  <2> QED
    BY <2>1 DEF OpenErr
<1>2. CASE OpenErr(f) # "" \/ f \notin File
  <2>1. OpenErr(f) # ""
    BY <1>2 DEF Path, OpenErr, AccessErr
  <2> QED
    BY <1>1, <2>1, Records DEF Level
<1>3. CASE OpenErr(f) = "" /\ f \in File
  <2>1. fs[f].interp \in Path
    BY <1>3, ConstAssumption DEF Path
  <2>2. CASE fs[f].kind \in ElfKinds \/ fs[f].kind = "data" \/ fs[f].interp = Empty \/ d = 0
    BY <1>3, <2>2, Records DEF Level
  <2>3. CASE ~(fs[f].kind \in ElfKinds \/ fs[f].kind = "data" \/ fs[f].interp = Empty \/ d = 0)
    <3>1. below[fs[f].interp].errno # "EBUSY"
      BY <2>1, <2>3
    <3> QED
      BY <1>3, <2>3, <3>1, Records DEF Level
  <2> QED
    BY <2>2, <2>3
<1> QED
  BY <1>2, <1>3

LEMMA ChainBusy ==
  ASSUME fs \in [File -> Content]
  PROVE  \A f \in Path : Chain[MaxDepth][f].errno # "EBUSY"
<1> DEFINE Good(d) == \A f \in Path : Chain[d][f].errno # "EBUSY"
<1>1. Good(0)
  <2>1. Chain[0] = Level(Chain[0 - 1], 0)
    BY ChainLevels DEF MaxDepth
  <2> QED
    BY <2>1, LevelBusy
<1>2. ASSUME NEW d \in 1..MaxDepth, Good(d - 1) PROVE Good(d)
  <2>1. Chain[d] = Level(Chain[d - 1], d)
    BY ChainLevels DEF MaxDepth
  <2> QED
    BY <1>2, <2>1, LevelBusy
<1> HIDE DEF Good
<1>3. Good(1 - 1)
  BY <1>1
<1>4. Good(2 - 1)
  BY <1>2, <1>3 DEF MaxDepth
<1>5. Good(3 - 1)
  BY <1>2, <1>4 DEF MaxDepth
<1>6. Good(4 - 1)
  BY <1>2, <1>5 DEF MaxDepth
<1>7. Good(5 - 1)
  BY <1>2, <1>6 DEF MaxDepth
<1>8. Good(5)
  BY <1>2, <1>7 DEF MaxDepth
<1> QED
  BY <1>8 DEF Good, MaxDepth

LEMMA RunBusy ==
  ASSUME fs \in [File -> Content], NEW f \in Path, NEW argv, NEW env
  PROVE  Outcome(Run(f, argv), env).errno # "EBUSY"
<1>1. Run(f, argv) = Chain[MaxDepth][f] \/ \E a, b, c : Run(f, argv) = Ok(a, b, c)
  BY DEF Run
<1>2. Run(f, argv).errno # "EBUSY"
  <2>1. CASE Run(f, argv) = Chain[MaxDepth][f]
    BY <2>1, ChainBusy
  <2>2. ASSUME NEW a, NEW b, NEW c, Run(f, argv) = Ok(a, b, c) PROVE Run(f, argv).errno = ""
    <3>1. Ok(a, b, c).errno = ""
      BY DEF Ok
    <3> QED
      BY <2>2, <3>1
  <2> QED
    BY <1>1, <2>1, <2>2
<1>3. DOMAIN Run(f, argv) = Fields
  BY RunKnown
<1> QED
  BY <1>2, <1>3, OutcomeFields

\* Nothing of the library goes to a static program, so that a program that has it
\* cannot inherit the filter installed for one.
Stripped == cmd.envs["LD_PRELOAD"] = "absent"
Searches == {"which", "peek", "inspect", "pre_exec"}
Clean ==
  /\ res.errno # "EBUSY"
  /\ pc \in Searches \cup {"run"} /\ image.client => image.filter = "none"
  /\ pc \in Searches => cmd.filter = "none"
  /\ pc = "pre_exec" => Stripped
  /\ pc = "execve" => /\ cmd.spawn \/ cmd.filter = "none" => image.filter = "none"
                      /\ Stripped \/ cmd.filter = "none"
CleanInv == spoilt \in BOOLEAN /\ (spoilt \/ Clean)

LEMMA CleanInit == Init => CleanInv
<1> SUFFICES ASSUME Init PROVE CleanInv
  OBVIOUS
<1>1. spoilt \in BOOLEAN
  BY Zenon DEF Init
<1>2. res.errno # "EBUSY" /\ pc = "run" /\ image.filter = "none"
  BY DEF Init, Fail
<1> QED
  BY <1>1, <1>2 DEF CleanInv, Clean, Searches

\* A call that ends with another error leaves its caller as it was.
LEMMA ReturnClean ==
  ASSUME NEW e, e # "EBUSY", Return(e), image'.client => image'.filter = "none"
  PROVE  Clean'
<1>1. pc' = "run" /\ res'.errno = e
  BY DEF Return, Fail
<1> QED
  BY <1>1 DEF Clean, Searches

LEMMA PanicClean ==
  ASSUME Clean, Panic
  PROVE  Clean'
  BY DEF Clean, Panic, Searches

\* A call begins with no filter, or without the library.
LEMMA CallClean ==
  ASSUME TraceInv, Clean, NEW prog \in Path, NEW env, Exec(prog, env), ~spoilt'
  PROVE  Clean'
<1>0. pc = "run" /\ fs \in [File -> Content] /\ (image.client => image.filter = "none")
  BY DEF Exec, Call, CallAt, CallAtDirect, RawCall, Direct, Begin, Idle, TraceInv, Clean
<1>1. ASSUME NEW fn, NEW argv, image.client, Enter(fn, prog, argv, env) PROVE Clean'
  <2>1. res'.errno = "" /\ cmd'.filter = image.filter /\ image' = image /\ pc' \in {"which", "peek"}
    BY <1>1 DEF Enter, Fail
  <2> QED
    BY <1>0, <1>1, <2>1 DEF Clean, Searches
<1>2. ASSUME NEW e, e # "EBUSY", Return(e), image' = image PROVE Clean'
  BY <1>0, <1>2, ReturnClean
<1>3. ASSUME NEW fn, NEW argv, Call(fn, prog, argv, env) PROVE Clean'
  BY <1>1, <1>2, <1>3, PanicClean DEF Call
<1>4. ASSUME NEW argv, CallAt(prog, argv, env) PROVE Clean'
  BY <1>1, <1>2, <1>4 DEF CallAt
<1>5. ASSUME NEW r, r.errno # "EBUSY", Direct(r, env) PROVE Clean'
  <2>1. res' = r /\ pc' = pc /\ ~(r.errno = "" /\ image'.client /\ image.filter # "none")
    BY <1>5 DEF Direct
  <2>2. CASE r.errno = ""
    <3>1. image' = NewImage(r, env, image.filter)
      BY <1>5, <2>2 DEF Direct
    <3>2. image'.filter = image.filter
      BY <3>1 DEF NewImage
    <3> QED
      BY <1>0, <1>5, <2>1, <2>2, <3>2 DEF Clean, Searches
  <2>3. CASE r.errno # ""
    <3>1. image' = image
      BY <1>5, <2>3 DEF Direct
    <3> QED
      BY <1>0, <1>5, <2>1, <3>1 DEF Clean, Searches
  <2> QED
    BY <2>2, <2>3
<1>6. ASSUME NEW argv, RawCall(prog, argv, env) PROVE Clean'
  <2>1. PICK r : r = Outcome(Run(prog, argv), env)
    OBVIOUS
  <2>2. r.errno # "EBUSY" /\ Direct(r, env)
    BY <1>0, <1>6, <2>1, RunBusy DEF RawCall
  <2> QED
    BY <1>5, <2>2
<1>7. ASSUME NEW argv, NEW at \in Hidden, NEW flags, CallAtDirect(at, prog, argv, env, flags) PROVE Clean'
  <2>1. PICK r : r = Outcome(RunAt(at, prog, argv, flags), env)
    OBVIOUS
  <2>2. at \in Path
    BY ConstAssumption DEF Path
  <2>3. ASSUME NEW e PROVE Outcome(Fail(e), env).errno = e
    <3>1. PICK o : o = Fail(e)
      OBVIOUS
    <3>2. DOMAIN o = Fields /\ o.errno = e
      BY <3>1 DEF Fail, Fields
    <3>3. Outcome(o, env).errno = e
      BY <3>2, OutcomeFields
    <3> QED
      BY <3>1, <3>3
  <2>4. r.errno # "EBUSY"
    <3>1. CASE RunAt(at, prog, argv, flags) \in {Fail("ENOENT"), Fail("ELOOP")}
      BY <2>1, <2>3, <3>1
    <3>2. CASE RunAt(at, prog, argv, flags) \in {Run(at, argv), Run(prog, argv)}
      BY <1>0, <2>1, <2>2, <3>2, RunBusy
    <3> QED
      BY <3>1, <3>2 DEF RunAt
  <2> QED
    BY <1>5, <1>7, <2>1, <2>4 DEF CallAtDirect
<1> QED
  BY <1>3, <1>4, <1>6, <1>7 DEF Exec

\* A search ends in an error, or in a command for the calling thread.
LEMMA ResolveClean ==
  ASSUME TraceInv, Clean, Which \/ Peek \/ Inspect
  PROVE  Clean'
<1>1. /\ image' = image /\ pc \in {"which", "peek", "inspect"} /\ image.client
      /\ DOMAIN cmd = {"program", "args", "envs", "spawn", "filter"}
  BY DEF Which, Peek, Inspect, TraceInv, Calling, CmdInv
<1>2. image.filter = "none" /\ cmd.filter = "none" /\ res.errno # "EBUSY"
  BY <1>1 DEF Clean, Searches
<1>3. CASE Panic
  BY <1>3, PanicClean
<1>4. CASE \E e : e # "EBUSY" /\ Return(e)
  BY <1>1, <1>2, <1>4, ReturnClean
<1>5. CASE /\ pc' \in {"which", "peek", "inspect", "execve"} /\ res' = res
           /\ cmd' = cmd \/ (\E x : cmd' = [cmd EXCEPT !.program = x]) \/ (\E b : cmd' = Shebang(cmd, b))
                \/ (\E x : cmd' = [cmd EXCEPT !.envs = x])
  <2>1. cmd'.filter = "none"
    BY <1>1, <1>2, <1>5 DEF Shebang
  <2> QED
    BY <1>1, <1>2, <1>5, <2>1 DEF Clean, Searches
<1>6. CASE /\ cmd' = [cmd EXCEPT !.envs = [v \in Var |-> IF v \in Ours THEN "absent" ELSE @[v]]]
           /\ pc' = "pre_exec" /\ res' = res
  <2>1. cmd'.filter = "none" /\ cmd'.envs["LD_PRELOAD"] = "absent"
    BY <1>1, <1>2, <1>6 DEF Var, Ours
  <2> QED
    BY <1>1, <1>2, <1>6, <2>1 DEF Clean, Searches, Stripped
<1>7. ASSUME NEW f PROVE AccessErr(f) # "EBUSY" /\ ReadErr(f) # "EBUSY" /\ InspectErr(f) # "EBUSY"
  <2>1. AccessErr(f) # "EBUSY"
    BY DEF AccessErr, Refusal
  <2> QED
    BY <2>1 DEF ReadErr, InspectErr
<1>8. CASE Which
  BY <1>3, <1>4, <1>5, <1>7, <1>8 DEF Which, SendError
<1>9. CASE Peek
  BY <1>3, <1>4, <1>5, <1>7, <1>9 DEF Peek, SendError
<1>10. CASE Inspect
  BY <1>3, <1>4, <1>5, <1>6, <1>7, <1>10 DEF Inspect, SendError
<1> QED
  BY <1>8, <1>9, <1>10

\* The filter goes to the thread that makes the call; if posix_spawn asked for it, its
\* caller has none afterwards, whichever part of install_target fails.
LEMMA PreExecClean ==
  ASSUME TraceInv, Clean, PreExec, ~spoilt'
  PROVE  Clean'
<1>1. pc = "pre_exec" /\ image.client /\ DOMAIN cmd = {"program", "args", "envs", "spawn", "filter"}
  BY DEF PreExec, TraceInv, Calling, CmdInv
<1>2. image.filter = "none" /\ cmd.filter = "none" /\ res.errno # "EBUSY" /\ cmd.envs["LD_PRELOAD"] = "absent"
  BY <1>1 DEF Clean, Searches, Stripped
<1>3. CASE /\ cmd' = [cmd EXCEPT !.filter = "live"] /\ pc' = "execve" /\ res' = res
           /\ cmd.spawn => image' = image
  <2>1. cmd'.filter = "live" /\ cmd'.spawn = cmd.spawn /\ cmd'.envs["LD_PRELOAD"] = "absent"
    BY <1>1, <1>2, <1>3
  <2> QED
    BY <1>2, <1>3, <2>1 DEF Clean, Searches, Stripped
<1>4. CASE \E e : e # "EBUSY" /\ Return(e) /\ image' = image
  BY <1>2, <1>4, ReturnClean
<1>5. CASE Panic
  BY <1>5, PanicClean
<1>6. \/ /\ cmd' = [cmd EXCEPT !.filter = "live"] /\ pc' = "execve" /\ res' = res
         /\ cmd.spawn => image' = image
      \/ Return("EPIPE") /\ cmd.spawn /\ image' = image
      \/ Return("ENOMEM") /\ image' = image
      \/ Panic
  BY <1>2 DEF PreExec, FilterCaller
<1> QED
  BY <1>3, <1>4, <1>5, <1>6

LEMMA ExecveClean ==
  ASSUME TraceInv, Clean, Execve, ~spoilt'
  PROVE  Clean'
<1>1. pc = "execve" /\ cmd.program \in Path /\ fs \in [File -> Content]
  BY DEF Execve, TraceInv, CmdInv, Path
<1>2. /\ cmd.spawn \/ cmd.filter = "none" => image.filter = "none"
      /\ Stripped \/ cmd.filter = "none"
  BY <1>1 DEF Clean
<1>3. PICK r : r = Outcome(Run(cmd.program, cmd.args), cmd.envs)
  OBVIOUS
<1>4. r.errno # "EBUSY"
  BY <1>1, <1>3, RunBusy
<1>5. CASE image' = NewImage(r, cmd.envs, cmd.filter) /\ pc' = "run" /\ res' = r
  <2>1. image'.filter = cmd.filter /\ (image'.client => cmd.envs["LD_PRELOAD"] = "ours")
    BY <1>5 DEF NewImage
  <2> QED
    BY <1>2, <1>4, <1>5, <2>1 DEF Clean, Searches, Stripped
<1>6. CASE cmd.spawn /\ image' = image /\ pc' = "run" /\ res' = r
  BY <1>2, <1>4, <1>6 DEF Clean, Searches
<1>8. \/ image' = NewImage(r, cmd.envs, cmd.filter) /\ pc' = "run" /\ res' = r
      \/ cmd.spawn /\ image' = image /\ pc' = "run" /\ res' = r
      \/ /\ \E e : e # "EBUSY" /\ Return(e)
         /\ cmd.spawn \/ cmd.filter = "none"
         /\ image' = image
  BY <1>3, <1>4 DEF Execve
<1>7. CASE (\E e : e # "EBUSY" /\ Return(e)) /\ (cmd.spawn \/ cmd.filter = "none") /\ image' = image
  BY <1>2, <1>7, ReturnClean
<1> QED
  BY <1>5, <1>6, <1>7, <1>8

LEMMA CleanStep ==
  ASSUME TraceInv, CleanInv, [Next]_vars
  PROVE  CleanInv'
<1>1. spoilt' \in BOOLEAN /\ (spoilt => spoilt')
  <2>1. spoilt' = spoilt \/ \E x : spoilt' = (spoilt \/ x)
    <3>1. ASSUME NEW prog, NEW env, Exec(prog, env) PROVE spoilt' = spoilt \/ \E x : spoilt' = (spoilt \/ x)
      BY <3>1, Zenon DEF Exec, Call, CallAt, CallAtDirect, RawCall, Direct
    <3>2. CASE Which \/ Peek \/ Inspect
      BY <3>2 DEF Which, Peek, Inspect
    <3>3. CASE PreExec
      BY <3>3, Zenon DEF PreExec
    <3>4. CASE Execve
      BY <3>4, Zenon DEF Execve
    <3>5. ASSUME NEW f, NEW c, Change(f, c) PROVE spoilt' = spoilt
      BY <3>5 DEF Change
    <3>6. CASE UNCHANGED vars
      BY <3>6 DEF vars
    <3> QED
      BY <3>1, <3>2, <3>3, <3>4, <3>5, <3>6 DEF Next, Terminated
  <2> QED
    BY <2>1, Zenon DEF CleanInv
<1> SUFFICES ASSUME ~spoilt' PROVE Clean'
  BY <1>1 DEF CleanInv
<1>2. Clean
  BY <1>1 DEF CleanInv
<1>3. ASSUME NEW prog \in File \cup {Name, Empty}, NEW env, Exec(prog, env) PROVE Clean'
  BY <1>2, <1>3, CallClean DEF Path
<1>4. ASSUME NEW f, NEW c, Change(f, c) PROVE Clean'
  BY <1>2, <1>4 DEF Change, Clean, Stripped, Searches
<1>5. CASE UNCHANGED vars
  BY <1>2, <1>5 DEF vars, Clean, Stripped, Searches
<1> QED
  BY <1>2, <1>3, <1>4, <1>5, ResolveClean, PreExecClean, ExecveClean DEF Next, Terminated

\* A program can start static programs by posix_spawn any number of times, whichever
\* step of one call fails: no call is refused with EBUSY, and the program itself, if it
\* has the library, has no filter.  The exceptions are a program whose own exec failed
\* after pre_exec and one that got the payload from a static program.
THEOREM SpawnsRepeat == Spec => []SpawnRepeatable
<1>1. CleanInv => SpawnRepeatable
  BY DEF CleanInv, Clean, SpawnRepeatable, Searches
<1> QED
  BY <1>1, TraceInit, TraceStep, CleanInit, CleanStep, PTL DEF Spec
===============================================================================
