------------------------------- MODULE ExecTrace -------------------------------
(***************************************************************************)
(* How tracing survives an exec: the interposed functions of the exec and  *)
(* posix_spawn families and handle_exec of fspy_shared_unix, which they    *)
(* and the spawner call (Linux).                                           *)
(*                                                                         *)
(* The library repeats what the kernel is going to do (search PATH, read   *)
(* the #! line), looks at the program found, and either puts itself into   *)
(* the environment (dynamic program) or installs a seccomp filter (static  *)
(* one) before it calls the real execve.  Other processes may change the   *)
(* files between any two of these steps.                                   *)
(*                                                                         *)
(* File contents are abstracted to what decides the outcome; of a #! line  *)
(* the module has what the kernel takes from it and what tells the library *)
(* to take something else.  The kernel's execve and musl's execvp are the  *)
(* reference that Run and Expected state.                                  *)
(***************************************************************************)
EXTENDS Integers, Sequences

CONSTANTS File,        \* paths, all with a slash
          Hidden,      \* those below /proc/, such as the one fexecve makes
          Candidates,  \* what PATH makes of a name without a slash, in order
          Empty,       \* the empty path
          Name,        \* a program name without a slash
          Content,     \* what a file may be
          Systems,     \* what the files may be together
          Links,       \* the paths that are symbolic links
          Word,        \* arguments, paths among them
          Trim,        \* a word -> without the carriage returns and other white space at
                       \* its ends that trim_ascii strips and the kernel does not
          Argv,        \* argument vectors of the callers
          VarArgv,     \* those of callers of the variadic functions
          StackArgs,   \* the vectors with_argv keeps on the stack are shorter (32)
          ArgLimit,    \* with_argv refuses vectors of this length (4096)
          Env,         \* environments a program makes for its child
          SendFails,   \* whether the channel may fail
          MaxCalls,    \* bound on exec calls
          MaxChanges   \* bound on changes to files during a call

\* interp, opt: what the kernel takes from the #! line, of which it reads 256 bytes:
\* the interpreter (Empty: none, or it does not end there) and the argument, if there
\* is one.  cut: the word in which the first 128 bytes end, rest: what they have of it.
\* No line begins with white space other than blanks and tabs.
Line(i, opt, cut, rest) ==
  [kind |-> "script", interp |-> i, opt |-> opt, cut |-> cut, rest |-> rest]
Script(i, opt) == Line(i, opt, "no", Empty)
Plain(k)       == [kind |-> k, interp |-> Empty, opt |-> <<>>, cut |-> "no", rest |-> Empty]
ElfKinds       == {"dynamic", "static", "execonly"}
Kinds          == ElfKinds \cup {"script", "missing", "noexec", "dir", "data", "loop"}

\* the entries fspy needs, and one that is the program's own
Ours  == {"LD_PRELOAD", "FSPY_PAYLOAD"}
Var   == Ours \cup {"USER"}
\* bare: an entry without "=", ours: the value fspy needs, foreign: another
Value == {"absent", "bare", "ours", "foreign"}

ASSUME ConstAssumption ==
    /\ Hidden \subseteq File
    /\ Candidates \in Seq(File) /\ Candidates # <<>>
    /\ Empty \notin File /\ Name \notin File /\ Name # Empty
    /\ File \cup {Name, Empty} \subseteq Word
    /\ \A c \in Content :
         /\ c.kind \in Kinds /\ c.interp \in File \cup {Empty}
         /\ c.opt = <<>> \/ \E w \in Word : w # Empty /\ c.opt = <<w>>
         /\ c.cut \in {"no", "interp", "opt"} /\ c.rest \in Word
         /\ c.cut = "interp" => c.rest \in File \cup {Empty}
    /\ Links \subseteq File /\ Trim \in [Word -> Word]
    /\ \A f \in File \cup {Empty} : Trim[f] \in File \cup {Empty}
    /\ Systems \subseteq [File -> Content]
    /\ Argv \subseteq Seq(Word) /\ VarArgv \subseteq Seq(Word)
    /\ Env \subseteq [Var -> Value]
    /\ SendFails \in BOOLEAN /\ StackArgs \in Nat /\ ArgLimit \in Nat
    /\ MaxCalls \in Nat /\ MaxChanges \in Nat

VARIABLES
  fs,        \* path -> what the file is
  image,     \* the environment of the program that runs, and how it is traced
  pc,        \* where its thread is inside handle_exec
  cmd,       \* the Exec being resolved: program, args, envs; for posix_spawn; the
             \* filter of the thread that makes the real call
  idx,       \* index into Candidates, seenEacces: which's locals
  seenEacces,
  res,       \* outcome of the call, when it has ended
  \* history only:
  want,      \* outcome the call would have without the library, and its environment
  reported,  \* paths sent by on_path_access during the call
  apart,     \* the call may end otherwise than without the library: a file was changed
             \* meanwhile, it is an execveat, or its #! line is not Ordinary
  gap,       \* a call started what it had not inspected: a file changed after the
             \* inspection, or execveat went to the kernel directly
  spoilt,    \* a program came to run with a filter beside the library: an exec failed
             \* after pre_exec, or a static program handed the payload on
  ncalls, nchanges

vars == <<fs, image, pc, cmd, idx, seenEacces, res, want, reported, apart, gap, spoilt,
          ncalls, nchanges>>

-------------------------------------------------------------------------------
(* The kernel and libc without the library: external *)

Ok(f, argv, reads) == [errno |-> "", file |-> f, argv |-> argv, reads |-> reads,
                       user |-> ""]
Fail(e)            == [errno |-> e, file |-> Empty, argv |-> <<>>, reads |-> {}, user |-> ""]
Outcome(r, env)    == [r EXCEPT !.user = env["USER"]]

\* access(path, X_OK); a directory passes
Refusal == [missing |-> "ENOENT", noexec |-> "EACCES", loop |-> "ELOOP"]
AccessErr(f) ==
  IF f \in {Empty, Name} THEN "ENOENT"
  ELSE IF fs[f].kind \in DOMAIN Refusal THEN Refusal[fs[f].kind] ELSE ""

\* opening for execution: directories and special files are refused
OpenErr(f) ==
  IF AccessErr(f) = "" /\ fs[f].kind = "dir" THEN "EACCES" ELSE AccessErr(f)

\* exec_binprm: follows #! lines, at most MaxDepth of them
MaxDepth == 5
Chain[d \in 0..MaxDepth] ==
  [f \in File \cup {Name, Empty} |->
    IF OpenErr(f) # "" THEN Fail(OpenErr(f))
    ELSE IF fs[f].kind \in ElfKinds THEN Ok(f, <<f>>, {f})
    ELSE IF fs[f].kind = "data" \/ fs[f].interp = Empty THEN Fail("ENOEXEC")
    ELSE IF d = 0 THEN Fail("ELOOP")
    ELSE LET r == Chain[d - 1][fs[f].interp]
         IN IF r.errno # "" THEN r
            ELSE Ok(r.file, r.argv \o fs[f].opt \o <<f>>, r.reads \cup {f})]

\* execve: a #! line replaces argv[0]; an empty argv gets one (Linux 5.18)
Run(f, argv) ==
  LET r    == Chain[MaxDepth][f]
      args == IF argv = <<>> THEN <<Empty>> ELSE argv
  IN IF f \in File /\ fs[f].kind \in ElfKinds THEN Ok(f, args, {f})
     ELSE IF r.errno # "" THEN r
     ELSE Ok(r.file, r.argv \o Tail(args), r.reads)

\* execvp: the first candidate that does not fail with EACCES or ENOENT
Goes(f) == Chain[MaxDepth][f].errno \notin {"EACCES", "ENOENT"}
Searched(argv) ==
  IF \E i \in DOMAIN Candidates : Goes(Candidates[i])
  THEN LET i == CHOOSE i \in DOMAIN Candidates :
                  Goes(Candidates[i]) /\ \A j \in 1..(i - 1) : ~Goes(Candidates[j])
       IN Run(Candidates[i], argv)
  ELSE Fail(IF \E i \in DOMAIN Candidates : Chain[MaxDepth][Candidates[i]].errno = "EACCES"
            THEN "EACCES" ELSE "ENOENT")

\* The exec family as POSIX has it: "p" searches, "l" takes a list of arguments
\* and "e" an environment.  Without a search a name is a file of the working
\* directory, where there is none.
Family == [execve |-> {"e"}, execv |-> {}, execvp |-> {"p"}, execvpe |-> {"p", "e"},
           execl |-> {"l"}, execlp |-> {"l", "p"}, execle |-> {"l", "e"},
           fexecve |-> {"e"},
           posix_spawn |-> {"e"}, posix_spawnp |-> {"p", "e"}]
\* execveat, with prog relative to a directory or, if it is empty, the descriptor's
\* file, which at names as fexecve does.  (The kernel calls a script by another
\* name then, /dev/fd/N, which is left out.)
RunAt(at, prog, argv, flags) ==
  IF prog = Empty THEN IF "empty_path" \in flags THEN Run(at, argv) ELSE Fail("ENOENT")
  ELSE IF prog \in Links /\ "nofollow" \in flags THEN Fail("ELOOP") ELSE Run(prog, argv)

Expected(fn, prog, argv, env) ==
  LET r == IF prog = Name /\ "p" \in Family[fn] THEN Searched(argv) ELSE Run(prog, argv)
  IN Outcome(r, IF "e" \in Family[fn] THEN env ELSE image.env)

\* The dynamic loader loads the library, whose constructor needs the payload.
\* A filter stays with the process, live or dead: its listener open or closed.
NewImage(r, env, filter) ==
  [env |-> env, filter |-> filter,
   client |-> fs[r.file].kind # "static" /\ env["LD_PRELOAD"] = "ours"
              /\ env["FSPY_PAYLOAD"] = "ours"]

-------------------------------------------------------------------------------
(* Exec::resolve and handle_exec *)

NoCmd == [program |-> Empty, args |-> <<>>, envs |-> [v \in Var |-> "absent"],
          spawn |-> FALSE, filter |-> "none"]

\* The process that calls first is the spawner's child: it has the payload.
Init ==
  /\ fs \in Systems
  /\ image = [env |-> [v \in Var |-> "absent"], filter |-> "none", client |-> TRUE]
  /\ pc = "run" /\ cmd = NoCmd /\ idx = 1 /\ seenEacces = FALSE
  /\ res = Fail("") /\ want = Fail("")
  /\ reported = {} /\ apart = FALSE /\ gap = FALSE /\ spoilt = FALSE /\ ncalls = 0 /\ nchanges = 0

\* The call ends with an error; the program goes on.
Return(e) ==
  /\ pc'  = "run"
  /\ res' = Fail(e)
  /\ cmd' = NoCmd /\ idx' = 1 /\ seenEacces' = FALSE

\* expect(), or an index out of bounds: the profile aborts.
Panic == pc' = "aborted" /\ UNCHANGED <<cmd, idx, seenEacces, res>>

\* The functions that call handle_exec with search_path_enabled, those that pass
\* environ() on, and those that collect their arguments with with_argv
Searching == {"execvp", "execvpe", "execlp", "posix_spawnp"}
UseEnviron == {"execv", "execvp", "execl", "execlp"}
Variadic == {"execl", "execlp", "execle"}
Spawning == {"posix_spawn", "posix_spawnp"}
Functions == UseEnviron \cup Searching \cup Variadic \cup Spawning \cup {"execve", "fexecve"}

\* envp of the call
EnvOf(fn, env) == IF fn \in UseEnviron THEN image.env ELSE env

Idle == pc = "run" /\ ncalls < MaxCalls

\* What a call finds when it begins, for the properties
Begin(outcome) ==
  /\ Idle
  /\ ncalls' = ncalls + 1
  /\ want' = outcome /\ reported' = {}
  /\ UNCHANGED <<fs, nchanges>>

\* The kernel is called directly and nobody reports what it reads.
Direct(r, env) ==
  /\ Begin([r EXCEPT !.reads = {}])
  /\ res' = r
  /\ image' = IF r.errno = "" THEN NewImage(r, env, image.filter) ELSE image
  /\ spoilt' = (spoilt \/ (r.errno = "" /\ image'.client /\ image.filter # "none"))
  /\ UNCHANGED <<pc, cmd, idx, seenEacces>>

\* handle_exec is entered: to_exec copies the arguments.  search_path only matters
\* for a path without a slash.
Enter(fn, prog, argv, env) ==
  /\ cmd' = [program |-> prog, args |-> argv, envs |-> EnvOf(fn, env),
             spawn |-> fn \in Spawning, filter |-> image.filter]
  /\ pc'  = IF fn \in Searching /\ prog \in {Name, Empty} THEN "which" ELSE "peek"
  /\ res' = Fail("")
  /\ UNCHANGED <<image, idx, seenEacces>>

\* with_argv: the vector and its terminating null fit into the stack buffer
ArgcOk(argv) == Len(argv) < StackArgs

\* A function is called.  fexecve names the descriptor by a path below /proc.
\* Longer lists of a variadic function go into an allocation without room for
\* the null (index out of bounds; or there is no memory), or are refused.
Call(fn, prog, argv, env) ==
  /\ image.client
  /\ fn = "fexecve" => prog \in Hidden
  /\ Begin(Expected(fn, prog, argv, env))
  /\ \/ /\ fn \in Variadic => ArgcOk(argv)
        /\ Enter(fn, prog, argv, env)
     \/ /\ fn \in Variadic /\ ~ArgcOk(argv)
        /\ IF Len(argv) < ArgLimit THEN Panic \/ Return("ENOMEM") ELSE Return("E2BIG")
        /\ UNCHANGED image
  /\ apart' = FALSE
  /\ UNCHANGED <<gap, spoilt>>

\* execveat makes the path absolute, ignores the flags and uses the path after its
\* CString was dropped: the bytes may spell p, whatever path the caller gave.  The
\* path may also have no absolute form (no working directory, a link that may not be
\* read).
CallAt(p, argv, env) ==
  /\ image.client
  /\ Begin(Fail(""))
  /\ \/ Enter("execveat", p, argv, env)
     \/ (\E e \in {"ENOENT", "EACCES"} : Return(e)) /\ UNCHANGED image
  /\ apart' = TRUE
  /\ UNCHANGED <<gap, spoilt>>

\* execveat where the directory has no path, for want of /proc: the real execveat is
\* called with what the caller gave, flags included.
CallAtDirect(at, prog, argv, env, flags) ==
  /\ image.client
  /\ Direct(Outcome(RunAt(at, prog, argv, flags), env), env)
  /\ apart' = TRUE /\ gap' = TRUE

\* A static program calls the kernel itself; the filter does not stop execve.
RawCall(prog, argv, env) ==
  /\ ~image.client
  /\ Direct(Outcome(Run(prog, argv), env), env)
  /\ apart' = FALSE
  /\ UNCHANGED gap

\* send().unwrap() in on_path_access: the channel fails and the program aborts.
SendError(f) ==
  /\ SendFails /\ f \notin Hidden
  /\ Panic
  /\ UNCHANGED <<reported, apart>>

\* Mutant: on_path_access is not called for an interpreter.
Report_first_only(f) == IF pc = "inspect" THEN reported ELSE reported \cup ({f} \ Hidden)

\* on_path_access: send leaves out what is below /proc
Report(f) == reported \cup ({f} \ Hidden)

\* Mutant: after the last entry the search goes on.
Which_past_end ==
  LET f == Candidates[idx]
      e == AccessErr(f)
  IN /\ pc = "which"
     /\ reported' = Report(f)
     /\ idx' = idx + 1
     /\ \/ /\ e = ""
           /\ cmd' = [cmd EXCEPT !.program = f]
           /\ pc' = "peek"
           /\ UNCHANGED <<seenEacces, res>>
        \/ /\ e # ""
           /\ seenEacces' = (seenEacces \/ e = "EACCES")
           /\ UNCHANGED <<cmd, pc, res>>
     /\ UNCHANGED <<fs, image, want, apart, gap, spoilt, ncalls, nchanges>>

\* which: the empty name is refused; one entry of PATH is reported and tested
Which ==
  LET f == Candidates[idx]
      e == AccessErr(f)
      eacces == seenEacces \/ e = "EACCES"
  IN /\ pc = "which"
     /\ \/ /\ cmd.program = Empty
           /\ Return("ENOENT")
           /\ UNCHANGED reported
        \/ cmd.program # Empty /\ SendError(f)
        \/ /\ cmd.program # Empty
           /\ reported' = Report(f)
           /\ \/ /\ e = ""
                 /\ cmd' = [cmd EXCEPT !.program = f]
                 /\ pc' = "peek"
                 /\ UNCHANGED <<idx, seenEacces, res>>
              \/ /\ e \in {"EACCES", "ENOENT"} /\ idx < Len(Candidates)
                 /\ idx' = idx + 1
                 /\ seenEacces' = eacces
                 /\ UNCHANGED <<cmd, pc, res>>
              \/ /\ e \in {"EACCES", "ENOENT"} /\ idx = Len(Candidates)
                 /\ Return(IF eacces THEN "EACCES" ELSE e)
              \/ /\ e \notin {"", "EACCES", "ENOENT"}
                 /\ Return(e)
     /\ UNCHANGED <<fs, image, want, apart, gap, spoilt, ncalls, nchanges>>

\* open_executable, then reading: what fails before any byte is seen
ReadErr(f) ==
  IF AccessErr(f) # "" THEN AccessErr(f)
  ELSE IF fs[f].kind = "execonly" THEN "EACCES"
  ELSE IF fs[f].kind = "dir" THEN "EISDIR" ELSE ""

\* parse_shebang: the library reads 128 bytes of the file, ends the line where they
\* end, and strips all white space from its end (trim_ascii).
Words(w) == IF w = Empty THEN <<>> ELSE <<w>>
parse_shebang(s) ==
  IF s.cut = "interp" THEN [interp |-> s.rest, opt |-> <<>>]
  ELSE IF s.cut = "opt" THEN [interp |-> s.interp, opt |-> Words(s.rest)]
  ELSE IF s.opt = <<>> THEN [interp |-> Trim[s.interp], opt |-> <<>>]
  ELSE [interp |-> s.interp, opt |-> Words(Trim[s.opt[1]])]

\* A line that ends within 128 bytes, without a carriage return before its end.
Ordinary(s) ==
  s.cut = "no" /\ IF s.opt = <<>> THEN Trim[s.interp] = s.interp ELSE Trim[s.opt[1]] = s.opt[1]

\* Mutant: the script's path goes before the argument of its #! line.
Shebang_swapped(c, b) ==
  [c EXCEPT !.program = b.interp,
            !.args = <<b.interp, c.program>> \o b.opt \o Tail(@)]

\* Exec::parse_shebang: the command after a #! line, one level deep
Shebang(c, b) ==
  [c EXCEPT !.program = b.interp,
            !.args = <<b.interp>> \o b.opt \o <<c.program>> \o Tail(@)]

\* on_path_access makes the path absolute, which fails for the empty one; then
\* the first bytes are read.  args[0] is assigned without a check.
Peek ==
  LET f == cmd.program IN
  /\ pc = "peek"
  /\ \/ /\ f = Empty
        /\ Panic
        /\ UNCHANGED <<reported, apart>>
     \/ f # Empty /\ SendError(f)
     \/ /\ f # Empty
        /\ reported' = Report(f)
        /\ \/ /\ ReadErr(f) # ""
              /\ Return(ReadErr(f))
              /\ UNCHANGED apart
           \/ /\ ReadErr(f) = "" /\ fs[f].kind = "script" /\ cmd.args = <<>>
              /\ Panic
              /\ UNCHANGED apart
           \/ /\ ReadErr(f) = "" /\ fs[f].kind = "script" /\ cmd.args # <<>>
              /\ cmd' = Shebang(cmd, parse_shebang(fs[f]))
              /\ apart' = (apart \/ ~Ordinary(fs[f]))
              /\ pc' = "inspect"
              /\ UNCHANGED <<idx, seenEacces, res>>
           \/ /\ ReadErr(f) = "" /\ fs[f].kind # "script"
              /\ pc' = "inspect"
              /\ UNCHANGED <<cmd, idx, seenEacces, res, apart>>
  /\ UNCHANGED <<fs, image, want, gap, spoilt, ncalls, nchanges>>

\* Mutant: an existing value is taken for ours.
ensure_env_unchecked(envs, v) == [ok |-> TRUE,
  envs |-> IF envs[v] \in {"absent", "bare"} THEN [envs EXCEPT ![v] = "ours"] ELSE envs]

\* ensure_env: adds the entry unless there is one with a value, which must be ours
ensure_env(envs, v) ==
  [ok   |-> envs[v] # "foreign",
   envs |-> IF envs[v] \in {"absent", "bare"} THEN [envs EXCEPT ![v] = "ours"] ELSE envs]

\* Mapping a directory fails.
InspectErr(f) == IF ReadErr(f) = "EISDIR" THEN "ENODEV" ELSE ReadErr(f)

\* The program that resolve left is reported, mapped and parsed as ELF.
Inspect ==
  LET f  == cmd.program
      e1 == ensure_env(cmd.envs, "LD_PRELOAD")
      e2 == ensure_env(e1.envs, "FSPY_PAYLOAD")
  IN
  /\ pc = "inspect"
  /\ \/ /\ f = Empty
        /\ Panic
        /\ UNCHANGED reported
     \/ f # Empty /\ SendError(f)
     \/ /\ f # Empty
        /\ reported' = Report(f)
        /\ \/ /\ InspectErr(f) # ""
              /\ Return(InspectErr(f))
           \/ /\ InspectErr(f) = "" /\ fs[f].kind \notin ElfKinds
              /\ Return("ENOEXEC")
           \/ /\ InspectErr(f) = "" /\ fs[f].kind = "dynamic" /\ ~(e1.ok /\ e2.ok)
              /\ Return("EINVAL")
           \/ /\ InspectErr(f) = "" /\ fs[f].kind = "dynamic" /\ e1.ok /\ e2.ok
              /\ cmd' = [cmd EXCEPT !.envs = e2.envs]
              /\ pc' = "execve"
              /\ UNCHANGED <<idx, seenEacces, res>>
           \/ /\ InspectErr(f) = "" /\ fs[f].kind = "static"
              /\ cmd' = [cmd EXCEPT !.envs = [v \in Var |-> IF v \in Ours THEN "absent" ELSE @[v]]]
              /\ pc' = "pre_exec"
              /\ UNCHANGED <<idx, seenEacces, res>>
  /\ UNCHANGED <<fs, image, want, apart, gap, spoilt, ncalls, nchanges>>

\* Mutant: posix_spawn runs pre_exec in the calling thread.
FilterCaller_always == TRUE

\* posix_spawn runs pre_exec and the real call in a thread of their own, which may
\* not be startable; exec runs them in the calling thread.
FilterCaller == ~cmd.spawn

\* PreExec::run: install_target.  The filter is refused while the thread has one that
\* is live (EBUSY), or for other reasons; if only send_fd fails, the filter is there
\* and its listener closed.  Either error ends the call.
PreExec ==
  LET Filtered(st) == image' = IF FilterCaller THEN [image EXCEPT !.filter = st] ELSE image
  IN
  /\ pc = "pre_exec"
  /\ \/ /\ cmd.filter # "live"
        /\ cmd' = [cmd EXCEPT !.filter = "live"]
        /\ Filtered("live")
        /\ pc' = "execve"
        /\ UNCHANGED <<idx, seenEacces, res, spoilt>>
     \/ /\ cmd.filter # "live"
        /\ Filtered("dead")
        /\ Return("EPIPE")
        /\ spoilt' = (spoilt \/ ~cmd.spawn)
     \/ /\ Return(IF cmd.filter = "live" THEN "EBUSY" ELSE "ENOMEM")
        /\ UNCHANGED <<image, spoilt>>
     \/ cmd.spawn /\ Panic /\ UNCHANGED <<image, spoilt>>
  /\ UNCHANGED <<fs, want, reported, apart, gap, ncalls, nchanges>>

\* The real execve or posix_spawn.  It may fail for want of memory or room for the
\* arguments.  After posix_spawn caller and child both run; image is one of them.
Execve ==
  LET r == Outcome(Run(cmd.program, cmd.args), cmd.envs) IN
  /\ pc = "execve"
  /\ \/ /\ r.errno = ""
        /\ \/ image' = NewImage(r, cmd.envs, cmd.filter)
           \/ cmd.spawn /\ image' = image
        /\ pc' = "run" /\ res' = r
        /\ cmd' = NoCmd /\ idx' = 1 /\ seenEacces' = FALSE
        /\ UNCHANGED spoilt
     \/ /\ Return(IF r.errno # "" THEN r.errno ELSE "E2BIG")
        /\ spoilt' = (spoilt \/ (~cmd.spawn /\ cmd.filter # "none"))
        /\ UNCHANGED image
  /\ UNCHANGED <<fs, want, reported, apart, gap, ncalls, nchanges>>

Busy == pc \notin {"run", "aborted"} /\ nchanges < MaxChanges

\* Another process replaces a file while the call is under way.
Change(f, c) ==
  /\ Busy
  /\ fs[f] # c
  /\ fs' = [fs EXCEPT ![f] = c] /\ fs' \in Systems
  /\ apart' = TRUE
  /\ gap' = (gap \/ pc \in {"pre_exec", "execve"})
  /\ nchanges' = nchanges + 1
  /\ UNCHANGED <<image, pc, cmd, idx, seenEacces, res, want, reported, spoilt, ncalls>>

Terminated ==
  /\ pc = "aborted" \/ (pc = "run" /\ ncalls = MaxCalls)
  /\ UNCHANGED vars

ArgvOf(fn) == IF fn \in Variadic THEN VarArgv ELSE Argv
Exec(prog, env) ==
  \/ \E fn \in Functions : \E argv \in ArgvOf(fn) : Call(fn, prog, argv, env)
  \/ \E argv \in Argv :
       \/ CallAt(prog, argv, env) \/ RawCall(prog, argv, env)
       \/ \E at \in Hidden, flags \in SUBSET {"nofollow", "empty_path"} :
            CallAtDirect(at, prog, argv, env, flags)

Next ==
  \/ Idle /\ \E prog \in File \cup {Name, Empty}, env \in Env \cup {image.env} : Exec(prog, env)
  \/ Which \/ Peek \/ Inspect \/ PreExec \/ Execve
  \/ Busy /\ \E f \in File, c \in Content : Change(f, c)
  \/ Terminated

Spec == Init /\ [][Next]_vars

-------------------------------------------------------------------------------
(* Properties *)

Filters == {"none", "live", "dead"}

\* Every variable has its type (the locals of resolve, which and handle_exec);
\* which stays within PATH.
TypeOK ==
  /\ fs \in [File -> Content]
  /\ image.env \in [Var -> Value]
  /\ image.filter \in Filters /\ image.client \in BOOLEAN
  /\ pc \in {"run", "which", "peek", "inspect", "pre_exec", "execve", "aborted"}
  /\ cmd.program \in File \cup {Name, Empty} /\ cmd.envs \in [Var -> Value]
  /\ cmd.spawn \in BOOLEAN /\ cmd.filter \in Filters
  /\ idx \in 1..Len(Candidates)
  /\ reported \subseteq File \cup {Name}
  /\ ncalls \in 0..MaxCalls /\ nchanges \in 0..MaxChanges

\* Every program of the tree is traced, by the library with our payload or by a
\* filter whose listener has gone to the supervisor, however execs and spawns of
\* dynamic, static and interpreted programs follow each other, whatever environment
\* they pass on and whichever step of pre_exec fails.  Only a program that was
\* replaced after its inspection, or that execveat could not name, escapes.
TracingCarriedOn == image.client \/ image.filter = "live" \/ gap

\* A call that succeeds runs what it would have run without the library, with the
\* same arguments and environment: the library's tables of the family, its search
\* and its rewriting of scripts change nothing.  This is so for all functions but
\* execveat, whose flags are ignored, and for #! lines that end within 128 bytes and
\* without a carriage return, where library and kernel read the line alike.
SameProgram ==
  pc = "run" /\ res.errno = "" /\ ~apart =>
    want.errno = "" /\ res.file = want.file /\ res.argv = want.argv /\ res.user = want.user

\* All files the kernel would have read to start the program the caller named,
\* scripts and interpreters, have been reported when an interposed exec succeeds,
\* but for those below /proc (what fexecve starts), with the exceptions of SameProgram.
ReadsReported ==
  pc = "run" /\ res.errno = "" /\ ~apart => want.reads \ Hidden \subseteq reported

\* A program can start static programs by posix_spawn again and again, whichever step
\* of one call fails: none is refused with EBUSY, and none leaves a filter in its
\* caller, live or dead (with the latter the caller could not open a file any more).
\* Only an exec that fails after its pre_exec does, or a static program that hands
\* the payload on.
SpawnRepeatable ==
  ~spoilt /\ pc = "run" => res.errno # "EBUSY" /\ (image.client => image.filter = "none")

\* The inductive invariant behind TracingCarriedOn: what inspection found is still
\* true when execve is called, and the environment or the filter fits it.
CmdInv ==
  /\ DOMAIN cmd = {"program", "args", "envs", "spawn", "filter"}
  /\ cmd.program \in File \cup {Name, Empty}
  /\ cmd.envs \in [Var -> Value]
  /\ cmd.filter \in Filters
ImageInv ==
  /\ DOMAIN image = {"env", "filter", "client"}
  /\ image.filter \in Filters /\ image.client \in BOOLEAN /\ image.env \in [Var -> Value]
Inspected ==
  /\ pc = "pre_exec" => cmd.program \in File /\ fs[cmd.program].kind = "static"
  /\ pc = "execve" =>
       /\ cmd.program \in File
       /\ \/ cmd.filter = "live" /\ fs[cmd.program].kind \in ElfKinds
          \/ fs[cmd.program].kind = "dynamic" /\ \A v \in Ours : cmd.envs[v] = "ours"
Calling == pc \notin {"run", "aborted"} => image.client
TraceInv ==
  /\ fs \in [File -> Content]
  /\ Calling
  /\ gap \in BOOLEAN
  /\ idx \in 1..Len(Candidates)
  /\ CmdInv
  /\ ImageInv
  /\ gap \/ Inspected
  /\ TracingCarriedOn

\* The comment of Exec::resolve: it replicates the behaviour of execve and
\* execvp, PATH search and #! lines included, and fails as they would.  (Without
\* a foreign LD_PRELOAD, which is refused on purpose, lack of memory and pre_exec.)
ResolvesLikeExec ==
  /\ pc = "run" /\ ~apart /\ res.errno \notin {"EINVAL", "E2BIG", "ENOMEM", "EPIPE", "EBUSY"} =>
       res.errno = want.errno
  /\ ~apart => pc # "aborted"

===============================================================================
