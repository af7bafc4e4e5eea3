---------------------------- MODULE InterposeProofs ----------------------------
(***************************************************************************)
(* What the interposed functions report is what they access, for any       *)
(* directories, paths, descriptors and calls.                              *)
(***************************************************************************)
EXTENDS Interpose, TLAPS

Bases == Place \cup {"none", "pipe", "deleted"}

\* A report that is about to be followed by its original function fits the file
\* the argument named, and the uses of the function.
SentFits ==
  /\ /\ named # NoFile
     /\ named.base \notin Hidden
     /\ NeedsProc(op) => proc = "mounted"
     => sent.path = named
  /\ sent # NoReport /\ op.mode \notin {"r+", "w+", "a+"} => sent.mode = Uses(op)

CallInv ==
  /\ TypeOK
  /\ pc = "handle" => ready
  /\ pc # "idle" => op \in Calls
  /\ up /\ pc # "original" => sent = NoReport /\ named = NoFile
  /\ pc = "original" => SentFits
  /\ FileReported
  /\ ModeReported

-------------------------------------------------------------------------------
(* Calls and paths *)

\* The shape of a call.
LEMMA CallShape ==
  ASSUME NEW c \in AllCalls
  PROVE  /\ c.fn \in PathFns \cup AtFns \cup FdFns
         /\ c.dirfd \in Fd \cup {"cwd"}
         /\ c.fn \in PathFns => c.dirfd = "cwd"
         /\ c.path \in Args
         /\ c.mode \in Modes(c.fn)
         /\ c.flags \in {{}} \cup Flags
<1>1. PICK fn \in PathFns \cup AtFns \cup FdFns :
        c \in [fn : {fn}, dirfd : IF fn \in PathFns THEN {"cwd"} ELSE Fd,
               path : IF fn \in FdFns THEN {Path("", "")} ELSE Args,
               mode : Modes(fn), flags : IF fn = "open" THEN Flags ELSE {{}}]
  BY Zenon DEF AllCalls
<1>2. Path("", "") \in Args
  BY DEF Args
<1>. QED
  BY <1>1, <1>2

\* A path that is no absolute one.
LEMMA RelativeArg ==
  ASSUME NEW a \in Args, a \notin Absolute, a \notin {Null, Long}
  PROVE  a.base = "" /\ a.rel \in {"", "x"}
<1>1. a = Path("", "x") \/ a = Path("", "")
  BY Zenon DEF Args
<1>2. CASE a = Path("", "x")
  BY <1>2 DEF Path
<1>3. CASE a = Path("", "")
  BY <1>3 DEF Path
<1>. QED
  BY <1>1, <1>2, <1>3

LEMMA AbsoluteArg ==
  ASSUME NEW a \in Absolute
  PROVE  a.base \in Place /\ a.rel = "" /\ a = Path(a.base, "")
<1>1. PICK p \in Place : a = Path(p, "")
  BY Zenon DEF Absolute
<1>2. a = [base |-> p, rel |-> ""]
  BY <1>1, Zenon DEF Path
<1>3. a.base = p /\ a.rel = ""
  BY <1>2
<1>. QED
  BY <1>1, <1>3, Zenon

\* What get_fd_path can give: a path, a text, or nothing.
LEMMA FdPath ==
  ASSUME TypeOK, NEW d \in Fd \cup {"cwd"}
  PROVE  /\ get_fd_path(d) \in Bases \cup {"error"}
         /\ get_fd_path(d) = "error" => (d = "cwd" /\ at[cwd] = "gone") \/ (d # "cwd" /\ proc = "denied")
<1>1. CASE d = "cwd"
  BY <1>1, PlaceAssumption DEF TypeOK, get_fd_path, Bases
<1>2. CASE d # "cwd"
  BY <1>2, PlaceAssumption, NodeAssumption DEF TypeOK, get_fd_path, Bases
<1>. QED
  BY <1>1, <1>2

\* What to_absolute_path makes of a call.
LEMMA AbsolutePath ==
  ASSUME TypeOK, NEW c \in AllCalls, c.path \notin {Null, Long}
  PROVE  /\ to_absolute_path(c) \in [base : Bases \cup {"error"}, rel : {"", "x"}]
         /\ to_absolute_path(c).base = "error" =>
              /\ c.path \notin Absolute
              /\ (c.dirfd = "cwd" /\ at[cwd] = "gone") \/ (c.dirfd # "cwd" /\ proc = "denied")
<1>1. c.path \in Args /\ c.dirfd \in Fd \cup {"cwd"}
  BY CallShape
<1>2. CASE c.path \in Absolute
  <2>1. to_absolute_path(c) = c.path
    BY <1>2 DEF to_absolute_path
  <2>2. c.path.base \in Place /\ c.path = Path(c.path.base, "")
    BY <1>2, AbsoluteArg
  <2>3. c.path.base \in Bases \cup {"error"} /\ c.path.base # "error"
    BY <2>2, PlaceAssumption DEF Bases
  <2>4. Path(c.path.base, "") \in [base : Bases \cup {"error"}, rel : {"", "x"}]
    BY <2>3 DEF Path
  <2>. QED
    BY <2>1, <2>2, <2>3, <2>4, Zenon
<1>3. CASE c.path \notin Absolute
  <2> DEFINE b == get_fd_path(c.dirfd)
  <2>1. /\ b \in Bases \cup {"error"}
        /\ b = "error" => (c.dirfd = "cwd" /\ at[cwd] = "gone") \/ (c.dirfd # "cwd" /\ proc = "denied")
    BY <1>1, FdPath
  <2>2. c.path.rel \in {"", "x"}
    BY <1>1, <1>3, RelativeArg
  <2>3. PICK r \in {"", "x"} : to_absolute_path(c) = Path(b, r)
    BY <1>3, <2>2 DEF to_absolute_path
  <2>4. Path(b, r) \in [base : Bases \cup {"error"}, rel : {"", "x"}] /\ Path(b, r).base = b
    BY <2>1 DEF Path
  <2>. QED
    BY <1>3, <2>1, <2>3, <2>4, Zenon
<1>. QED
  BY <1>2, <1>3

\* If the argument names a file, and /proc is there where it is needed, then the
\* absolute path is that file.
LEMMA NamesTarget ==
  ASSUME TypeOK, NEW c \in AllCalls, c.path \notin {Null, Long},
         Target(c) # NoFile, NeedsProc(c) => proc = "mounted"
  PROVE  to_absolute_path(c) = Target(c) /\ Target(c).base \in Place
<1>1. c.path \in Args /\ c.dirfd \in Fd \cup {"cwd"}
  BY CallShape
<1>2. CASE c.path \in Absolute
  BY <1>2, AbsoluteArg DEF to_absolute_path, Target
<1>3. CASE c.path \notin Absolute
  <2> DEFINE n == IF c.dirfd = "cwd" THEN cwd ELSE fds[c.dirfd]
  <2>1. Dir(c.dirfd) # "gone" /\ Target(c) = Path(Dir(c.dirfd), c.path.rel)
    BY <1>3 DEF Target
  <2>2. n \in Node /\ Dir(c.dirfd) = at[n]
    BY <2>1 DEF Dir
  <2>3. at[n] \in Place
    BY <2>1, <2>2 DEF TypeOK
  <2>4. c.dirfd # "cwd" => proc = "mounted"
    BY <1>3 DEF NeedsProc
  <2>5. get_fd_path(c.dirfd) = at[n]
    BY <2>1, <2>2, <2>3, <2>4, NodeAssumption, PlaceAssumption DEF get_fd_path
  <2>6. at[n] \notin {"none", "error"}
    BY <2>3, PlaceAssumption
  <2>7. to_absolute_path(c) = Path(at[n], c.path.rel)
    BY <1>3, <2>5, <2>6 DEF to_absolute_path
  <2>8. Target(c) = Path(at[n], c.path.rel)
    BY <2>1, <2>2
  <2>9. Path(at[n], c.path.rel).base = at[n]
    BY DEF Path
  <2>. QED
    BY <2>3, <2>7, <2>8, <2>9
<1>. QED
  BY <1>2, <1>3

\* The mode that is reported has all uses, but for the "+" of fopen.
LEMMA ModeIsUses ==
  ASSUME NEW c \in AllCalls, c.mode \notin {"r+", "w+", "a+"}
  PROVE  to_access_mode(c) = Uses(c)
<1>1. c.fn \in PathFns \cup AtFns \cup FdFns /\ c.mode \in Modes(c.fn)
  BY CallShape
<1>2. CASE c.fn \in {"open", "openat"}
  <2>1. c.mode \in {"rdonly", "wronly", "rdwr"}
    BY <1>1, <1>2 DEF Modes
  <2>. QED
    BY <1>2, <2>1 DEF to_access_mode, OpenFlags, Uses
<1>3. CASE c.fn \in {"fopen", "freopen"}
  <2>1. c.mode \in {"r", "w", "a"}
    BY <1>1, <1>3 DEF Modes
  <2>. QED
    BY <1>3, <2>1 DEF to_access_mode, ModeStr, Uses
<1>4. CASE c.fn \notin {"open", "openat", "fopen", "freopen"}
  <2>1. c.mode = ""
    BY <1>1, <1>4 DEF Modes
  <2>2. c.fn \in {"stat", "lstat", "fstat", "fstatat", "opendir", "scandir", "fdopendir", "getdirentries"}
    BY <1>1, <1>4 DEF PathFns, AtFns, FdFns
  <2>. QED
    BY <2>1, <2>2 DEF to_access_mode, Uses
<1>. QED
  BY <1>2, <1>3, <1>4

-------------------------------------------------------------------------------
(* The steps *)

LEMMA InitEstablishes ==
  Init => CallInv
<1>. SUFFICES ASSUME Init PROVE CallInv
  OBVIOUS
<1>1. TypeOK
  BY DEF Init, TypeOK, ReportType, NoReport, NoFile, Path
<1>2. FileReported /\ ModeReported
  BY DEF Init, FileReported, ModeReported, NoLast, NoReport, NoCall, Creates
<1>. QED
  BY <1>1, <1>2 DEF Init, CallInv

LEMMA InitClientKeeps ==
  CallInv /\ InitClient => CallInv'
BY DEF CallInv, InitClient, TypeOK, process, SentFits, FileReported, ModeReported, NeedsProc,
       Uses, Creates

LEMMA CallKeeps ==
  ASSUME CallInv, NEW c \in Calls, Call(c)
  PROVE  CallInv'
<1>1. TypeOK'
  BY DEF CallInv, TypeOK, Call, process
<1>2. pc = "idle" /\ sent = NoReport /\ named = NoFile
  BY DEF CallInv, Call
<1>3. SentFits'
  BY <1>2 DEF Call, SentFits
<1>4. FileReported' /\ ModeReported'
  BY DEF Call, FileReported, ModeReported, NoLast, NoReport, NoCall, Creates
<1>. QED
  BY <1>1, <1>2, <1>3, <1>4 DEF CallInv, Call

LEMMA HandleKeeps ==
  CallInv /\ Handle => CallInv'
<1>. SUFFICES ASSUME CallInv, Handle PROVE CallInv'
  OBVIOUS
<1> DEFINE p == to_absolute_path(op)
<1>1. op \in AllCalls /\ op \in Calls
  BY CallsAssumption DEF CallInv, Handle
<1>2. FileReported' /\ ModeReported'
  BY DEF Handle, process, CallInv, FileReported, ModeReported, NeedsProc, Uses, Creates
<1>3. CASE up' = FALSE /\ UNCHANGED <<pc, sent>>
  <2>1. UNCHANGED <<process, ready, pc, op, sent, last>> /\ pc = "handle" /\ up' = FALSE
    BY <1>3 DEF Handle
  <2>. QED
    BY <1>1, <1>2, <2>1 DEF CallInv, TypeOK, process
<1>4. CASE /\ op.path # Null /\ p.base # "error" /\ "ok" \in SendResults(p)
           /\ sent' = IF Sends(p) THEN [path |-> p, mode |-> to_access_mode(op)] ELSE NoReport
           /\ pc' = "original" /\ UNCHANGED up
  <2>0. op.path # Long
    <3>1. ASSUME op.path = Long PROVE FALSE
      <4>1. p = Long /\ Long.base = "long"
        BY <3>1 DEF to_absolute_path, Long, Path
      <4>2. Sends(p)
        BY <4>1, PlaceAssumption DEF Sends
      <4>. QED
        BY <1>4, <4>1, <4>2 DEF SendResults
    <3>. QED
      BY <3>1
  <2>1. p \in [base : Bases \cup {"error"}, rel : {"", "x"}]
    BY <1>1, <1>4, <2>0, AbsolutePath DEF CallInv
  <2>2. /\ sent' = IF Sends(p) THEN [path |-> p, mode |-> to_access_mode(op)] ELSE NoReport
        /\ pc' = "original" /\ named' = Target(op)
        /\ UNCHANGED <<process, ready, up, op, last>>
    BY <1>4 DEF Handle
  <2>3. to_access_mode(op) \in SUBSET {"read", "write", "readdir"}
    BY DEF to_access_mode, OpenFlags, ModeStr
  <2>4. TypeOK'
    <3>1. sent' \in ReportType
      <4>1. NoReport \in ReportType
        BY DEF ReportType, NoReport, NoFile, Path
      <4>2. p \in [base : Bases, rel : {"", "x"}]
        <5> HIDE DEF p
        <5>. QED
          BY <1>4, <2>1
      <4>3. PICK q, m : q = p /\ m = to_access_mode(op)
        OBVIOUS
      <4>4. [path |-> q, mode |-> m] \in ReportType
        BY <2>3, <4>2, <4>3 DEF ReportType, Bases
      <4>. QED
        BY <2>2, <4>1, <4>3, <4>4
    <3>. QED
      BY <2>2, <3>1 DEF CallInv, TypeOK, process
  <2>5. ASSUME named' # NoFile, named'.base \notin Hidden, NeedsProc(op) => proc = "mounted"
        PROVE  sent'.path = named'
    <3>1. p = Target(op) /\ Target(op).base \in Place
      BY <1>1, <1>4, <2>0, <2>2, <2>5, NamesTarget DEF CallInv
    <3>2. Sends(p)
      BY <2>2, <2>5, <3>1, PlaceAssumption DEF Sends
    <3>. QED
      BY <2>2, <3>1, <3>2
  <2>6. ASSUME sent' # NoReport, op.mode \notin {"r+", "w+", "a+"}
        PROVE  sent'.mode = Uses(op)
    BY <1>1, <2>2, <2>6, ModeIsUses
  <2>7. SentFits'
    BY <2>2, <2>5, <2>6 DEF SentFits, NeedsProc, Uses, process
  <2>. QED
    BY <1>1, <1>2, <2>2, <2>4, <2>7 DEF CallInv
<1>. QED
  BY <1>3, <1>4 DEF Handle

LEMMA OriginalKeeps ==
  CallInv /\ Original => CallInv'
<1>. SUFFICES ASSUME CallInv, Original PROVE CallInv'
  OBVIOUS
<1>1. SentFits /\ pc = "original"
  BY DEF CallInv, Original
<1>2. TypeOK'
  BY DEF CallInv, TypeOK, Original, process, ReportType, NoReport, NoFile, Path
<1>3. /\ last'.op = op /\ last'.sent = sent /\ last'.named = named
      /\ last'.file = Target(op) /\ last'.withMode = has_mode_arg(op.flags)
      /\ UNCHANGED process
  BY DEF Original
<1>4. FileReported'
  BY <1>1, <1>3 DEF FileReported, SentFits, NeedsProc, process
<1>5. Creates(op) => has_mode_arg(op.flags)
  BY DEF Creates, has_mode_arg
<1>6. ModeReported'
  BY <1>1, <1>3, <1>5 DEF ModeReported, SentFits, Uses, Creates
<1>. QED
  BY <1>2, <1>4, <1>6 DEF CallInv, Original

LEMMA OthersKeep ==
  CallInv /\ Others => CallInv'
<1>. SUFFICES ASSUME CallInv, Others PROVE CallInv'
  OBVIOUS
<1>1. UNCHANGED <<proc, ready, up, pc, op, sent, named, last>>
  BY DEF Others, Chdir, Remove, SetFd, Move, Break
<1>2. /\ cwd' \in Node /\ fds' \in [Fd -> Node \cup {"pipe", "closed"}]
      /\ at' \in [Node -> Place \cup {"gone"}]
  BY DEF Others, Chdir, Remove, SetFd, Move, Break, CallInv, TypeOK
<1>3. TypeOK'
  <2>1. chan' \in BOOLEAN
    BY DEF Others, Chdir, Remove, SetFd, Move, Break, CallInv, TypeOK
  <2>. QED
    BY <1>1, <1>2, <2>1 DEF CallInv, TypeOK
<1>. QED
  BY <1>1, <1>3 DEF CallInv, SentFits, FileReported, ModeReported, NeedsProc, Uses, Creates

LEMMA StutterKeeps ==
  CallInv /\ UNCHANGED vars => CallInv'
BY DEF CallInv, vars, process, TypeOK, SentFits, FileReported, ModeReported, NeedsProc,
       Uses, Creates

-------------------------------------------------------------------------------
(* Theorems *)

\* The inductive invariant: between conversion and original function a report fits
\* what the argument named (try_handle_open), and what has ended was reported.
THEOREM CallsInvariant == Spec => []CallInv
<1>1. CallInv /\ [Next]_vars => CallInv'
  BY InitClientKeeps, CallKeeps, HandleKeeps, OriginalKeeps, OthersKeep, StutterKeeps
     DEF Next, Aborted
<1>. QED
  BY InitEstablishes, <1>1, PTL DEF Spec

\* The file that open, stat or a directory function accesses is the one that it
\* has reported, whatever other threads and processes do meanwhile.
THEOREM AccessReported == Spec => []FileReported
<1>1. CallInv => FileReported
  BY DEF CallInv
<1>. QED
  BY CallsInvariant, <1>1, PTL

\* The report has all the ways in which the function uses the file.
THEOREM UsesReported == Spec => []ModeReported
<1>1. CallInv => ModeReported
  BY DEF CallInv
<1>. QED
  BY CallsInvariant, <1>1, PTL

\* handle_open ends the program only for a null or an overlong path, a relative one
\* without a working directory, a descriptor whose link may not be read, or a report
\* that the broken channel does not take: never before the client is set, and never
\* for a descriptor that is closed or a path that is not reported.
THEOREM AbortsRarely == Spec => AbortsOnly
<1>1. ASSUME CallInv, Next, up, ~up' PROVE ready /\ MayAbort
  <2>1. Handle
    BY <1>1 DEF Next, InitClient, Call, Original, Others, Aborted, vars
  <2>2. op \in AllCalls /\ ready
    BY <1>1, <2>1, CallsAssumption DEF CallInv, Handle
  <2>3. \/ op.path = Null \/ to_absolute_path(op).base = "error"
        \/ "error" \in SendResults(to_absolute_path(op))
    BY <1>1, <2>1 DEF Handle
  <2>4. CASE op.path \in {Null, Long}
    BY <2>2, <2>4 DEF MayAbort
  <2>5. CASE op.path \notin {Null, Long} /\ to_absolute_path(op).base = "error"
    BY <1>1, <2>2, <2>5, AbsolutePath DEF MayAbort, CallInv, NeedsProc
  <2>6. CASE op.path \notin {Null, Long} /\ "error" \in SendResults(to_absolute_path(op))
    <3>1. PICK p : p = to_absolute_path(op)
      OBVIOUS
    <3>2. p # Long
      <4>1. p.base \in Bases \cup {"error"}
        BY <1>1, <2>2, <2>6, <3>1, AbsolutePath DEF CallInv
      <4>2. Long.base = "long"
        BY DEF Long, Path
      <4>. QED
        BY <4>1, <4>2, PlaceAssumption DEF Bases
    <3>. QED
      BY <2>2, <2>6, <3>1, <3>2 DEF SendResults, MayAbort
  <2>. QED
    BY <2>3, <2>4, <2>5, <2>6
<1>2. CallInv /\ [Next]_vars => [up /\ ~up' => ready /\ MayAbort]_vars
  BY <1>1
<1>. QED
  BY CallsInvariant, <1>2, PTL DEF Spec, AbortsOnly

===============================================================================
