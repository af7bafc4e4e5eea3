------------------------------- MODULE Interpose -------------------------------
(***************************************************************************)
(* The interposed open, stat and directory functions of the preload        *)
(* library (Linux): what a call reports, and what it then really accesses. *)
(*                                                                         *)
(* A call makes its argument absolute by a system call of its own (getcwd, *)
(* or readlink of /proc/self/fd/N), sends the path, and calls the original *)
(* function, which resolves the argument once more.  Other threads change  *)
(* the working directory and the descriptors in between, other processes   *)
(* move and remove the directories.                                        *)
(*                                                                         *)
(* The channel behind send is ShmChannel; here it works or does not.       *)
(***************************************************************************)
EXTENDS Naturals

CONSTANTS Node,     \* directories as the kernel knows them
          Place,    \* absolute paths
          Hidden,   \* those below /dev/, /proc/ and /sys/
          Fd,       \* descriptors
          Calls     \* the calls that are made

ASSUME PlaceAssumption ==
  /\ Hidden \subseteq Place
  /\ \A p \in Place : p \notin {"", "gone", "none", "error", "pipe", "deleted", "null", "long"}
ASSUME FdAssumption == \A f \in Fd : f # "cwd"
ASSUME NodeAssumption == \A n \in Node : n \notin {"pipe", "closed"}

VARIABLES
  cwd, fds,  \* the process: working directory, descriptor -> node, pipe or closed
  at,        \* the file system: node -> its path, or gone
  proc,      \* /proc is mounted, absent, or not readable for the process (EACCES)
  chan,      \* the channel works: its socket, shm_open, ftruncate and mmap
  ready,     \* the constructor has set CLIENT
  up,        \* the process has not aborted
  pc, op,    \* one of its threads: where it is, and in which call
  sent,      \* what the call has sent
  \* history only:
  named,     \* what the argument named when the call made it absolute
  last       \* the call that has ended, and the file it accessed

process == <<cwd, fds, at, proc, chan>>
vars == <<process, ready, up, pc, op, sent, named, last>>

-------------------------------------------------------------------------------
(* Arguments.  A relative path has one component; Null is a null pointer and *)
(* Long an absolute path whose record is larger than a chunk.                *)
Path(b, r) == [base |-> b, rel |-> r]
NoFile     == Path("none", "")
Absolute   == {Path(p, "") : p \in Place}
Null       == Path("null", "")
Long       == Path("long", "")
Args       == Absolute \cup {Path("", "x"), Path("", ""), Null, Long}

PathFns    == {"open", "fopen", "freopen", "stat", "lstat", "opendir", "scandir"}
AtFns      == {"openat", "fstatat"}
FdFns      == {"fstat", "fdopendir", "getdirentries"}

\* Flags of open and openat, without the access mode; O_TMPFILE has the bits
\* tmpfile and directory.
Flags      == SUBSET {"creat", "directory", "tmpfile"}
Modes(fn)  ==
  CASE fn \in {"open", "openat"}    -> {"rdonly", "wronly", "rdwr"}
    [] fn \in {"fopen", "freopen"}  -> {"r", "r+", "w", "w+", "a", "a+"}
    [] OTHER                        -> {""}
AllCalls ==
  UNION {[fn : {fn}, dirfd : IF fn \in PathFns THEN {"cwd"} ELSE Fd,
          path : IF fn \in FdFns THEN {Path("", "")} ELSE Args,
          mode : Modes(fn), flags : IF fn = "open" THEN Flags ELSE {{}}]
         : fn \in PathFns \cup AtFns \cup FdFns}
NoCall   == [fn |-> "", dirfd |-> "cwd", path |-> NoFile, mode |-> "", flags |-> {}]
NoReport == [path |-> NoFile, mode |-> {}]
NoLast   == [op |-> NoCall, sent |-> NoReport, named |-> NoFile, file |-> NoFile,
             withMode |-> FALSE]
ASSUME CallsAssumption == Calls \subseteq AllCalls

-------------------------------------------------------------------------------
(* The kernel and libc: external *)

\* the path of the directory a descriptor stands for
Dir(d) ==
  LET n == IF d = "cwd" THEN cwd ELSE fds[d]
  IN IF n \in Node THEN at[n] ELSE "gone"

\* The file that the original function accesses, if there is one.  fstatat takes
\* the empty path for the directory itself (AT_EMPTY_PATH), the others refuse it.
Target(c) ==
  IF c.path \in Absolute THEN c.path
  ELSE IF c.path \in {Null, Long} \/ Dir(c.dirfd) = "gone" THEN NoFile
  ELSE IF c.path.rel = "" /\ c.fn \notin FdFns \cup {"fstatat"} THEN NoFile
  ELSE Path(Dir(c.dirfd), c.path.rel)

\* the ways in which the function uses the file
Uses(c) ==
  CASE c.mode \in {"rdonly", "r"}            -> {"read"}
    [] c.mode \in {"wronly", "w", "a"}       -> {"write"}
    [] c.mode \in {"rdwr", "r+", "w+", "a+"} -> {"read", "write"}
    [] c.fn \in {"opendir", "scandir", "fdopendir", "getdirentries"} -> {"readdir"}
    [] OTHER                                 -> {"read"}

\* open creates a file, and needs its third argument
Creates(c) == "creat" \in c.flags \/ {"tmpfile", "directory"} \subseteq c.flags

-------------------------------------------------------------------------------
(* client/convert.rs *)

\* Mutant: an unknown descriptor is an error like any other.
get_fd_path_strict(d) ==
  LET n == IF d = "cwd" THEN cwd ELSE fds[d]
  IN IF d = "cwd" THEN IF at[cwd] = "gone" THEN "error" ELSE at[cwd]
     ELSE IF proc # "mounted" \/ n = "closed" THEN "error"
     ELSE IF n = "pipe" THEN "pipe"
     ELSE IF at[n] = "gone" THEN "deleted" ELSE at[n]

\* get_fd_path: the working directory must have a path; readlink gives a text for
\* everything that is open, also for pipes and removed directories, and ENOENT
\* where there is no such link.  Its other errors are passed on: a process that is
\* not dumpable may not read its own links (EACCES).
get_fd_path(d) ==
  LET n == IF d = "cwd" THEN cwd ELSE fds[d]
  IN IF d = "cwd" THEN IF at[cwd] = "gone" THEN "error" ELSE at[cwd]
     ELSE IF proc = "denied" THEN "error"
     ELSE IF proc = "absent" \/ n = "closed" THEN "none"
     ELSE IF n = "pipe" THEN "pipe"
     ELSE IF at[n] = "gone" THEN "deleted" ELSE at[n]

\* Mutant: openat and fstatat take relative paths for ones of the working directory.
to_absolute_path_cwd(c) ==
  IF c.path \in Absolute \cup {Long} THEN c.path
  ELSE LET b == get_fd_path(IF c.fn \in AtFns THEN "cwd" ELSE c.dirfd)
       IN IF b \in {"none", "error"} THEN Path(b, "") ELSE Path(b, c.path.rel)

\* ToAbsolutePath of PathAt, of a pointer (which is PathAt of AT_FDCWD) and of Fd
to_absolute_path(c) ==
  IF c.path \in Absolute \cup {Long} THEN c.path
  ELSE LET b == get_fd_path(c.dirfd)
       IN IF b \in {"none", "error"} THEN Path(b, "") ELSE Path(b, c.path.rel)

\* Mutant: the access mode of open is taken for a set of bits.
OpenFlags_bits(m) == IF m = "rdwr" THEN {"read"} ELSE IF m = "wronly" THEN {"write"} ELSE {"read"}

\* ToAccessMode of OpenFlags
OpenFlags(m) ==
  IF m = "rdwr" THEN {"read", "write"} ELSE IF m = "wronly" THEN {"write"} ELSE {"read"}

\* ToAccessMode of ModeStr looks for the letters r, w and a, not for "+".
ModeStr(m) == IF m \in {"r", "r+"} THEN {"read"} ELSE {"write"}

to_access_mode(c) ==
  CASE c.fn \in {"open", "openat"}   -> OpenFlags(c.mode)
    [] c.fn \in {"fopen", "freopen"} -> ModeStr(c.mode)
    [] c.fn \in {"stat", "lstat", "fstat", "fstatat"} -> {"read"}
    [] OTHER -> {"readdir"}

-------------------------------------------------------------------------------
Init ==
  /\ cwd \in Node /\ fds \in [Fd -> Node \cup {"pipe", "closed"}]
  /\ at \in [Node -> Place] /\ \A m, n \in Node : at[m] = at[n] => m = n
  /\ proc \in {"mounted", "absent", "denied"} /\ chan = TRUE /\ ready = FALSE /\ up = TRUE
  /\ pc = "idle" /\ op = NoCall /\ sent = NoReport /\ named = NoFile /\ last = NoLast

\* init_client: libraries initialised before it already use the functions
InitClient ==
  /\ up /\ ~ready /\ pc = "idle"
  /\ ready' = TRUE
  /\ UNCHANGED <<process, up, pc, op, sent, named, last>>

\* A function is called.  handle_open does nothing without a client.
Call(c) ==
  /\ up /\ pc = "idle"
  /\ op' = c
  /\ pc' = IF ready THEN "handle" ELSE "original"
  /\ last' = NoLast
  /\ UNCHANGED <<process, ready, up, sent, named>>

\* send is called for a path that is known, and leaves out the hidden ones
Sends(p) == p.base \notin Hidden \cup {"none"}

\* What send may answer: a record that fits no chunk is refused, and without the
\* channel there is no new chunk, though the last one may still have room.
SendResults(p) ==
  IF ~Sends(p) THEN {"ok"}
  ELSE (IF p = Long THEN {} ELSE {"ok"}) \cup (IF p = Long \/ ~chan THEN {"error"} ELSE {})

\* try_handle_open: one system call at most.  An error of the conversion or of send,
\* or a null pointer, ends the process.
Handle ==
  LET p == to_absolute_path(op) IN
  /\ up /\ pc = "handle"
  /\ named' = Target(op)
  /\ \/ /\ op.path = Null \/ p.base = "error" \/ "error" \in SendResults(p)
        /\ up' = FALSE
        /\ UNCHANGED <<pc, sent>>
     \/ /\ op.path # Null /\ p.base # "error" /\ "ok" \in SendResults(p)
        /\ sent' = IF Sends(p) THEN [path |-> p, mode |-> to_access_mode(op)] ELSE NoReport
        /\ pc' = "original"
        /\ UNCHANGED up
  /\ UNCHANGED <<process, ready, op, last>>

\* has_mode_arg tests for any bit of O_TMPFILE, among them that of O_DIRECTORY
has_mode_arg(f) == "creat" \in f \/ f \cap {"tmpfile", "directory"} # {}

\* The original function is called with the same arguments.
Original ==
  /\ up /\ pc = "original"
  /\ last' = [op |-> op, sent |-> sent, named |-> named, file |-> Target(op),
              withMode |-> has_mode_arg(op.flags)]
  /\ pc' = "idle" /\ op' = NoCall /\ sent' = NoReport /\ named' = NoFile
  /\ UNCHANGED <<process, ready, up>>

\* Another thread changes the working directory or a descriptor (close, dup2, open).
Chdir(n) == cwd' = n /\ UNCHANGED <<fds, at, proc, chan>>
SetFd(f, o) == fds' = [fds EXCEPT ![f] = o] /\ UNCHANGED <<cwd, at, proc, chan>>
\* Another process renames a directory or removes it.
Move(n, p) ==
  /\ at[n] # "gone" /\ \A m \in Node : at[m] # p
  /\ at' = [at EXCEPT ![n] = p]
  /\ UNCHANGED <<cwd, fds, proc, chan>>
Remove(n) == at' = [at EXCEPT ![n] = "gone"] /\ UNCHANGED <<cwd, fds, proc, chan>>
\* The spawner is gone, or memory or descriptors are used up.
Break == chan' = FALSE /\ UNCHANGED <<cwd, fds, at, proc>>
Others ==
  /\ up
  /\ \/ \E n \in Node : (at[n] # "gone" /\ Chdir(n)) \/ Remove(n)
     \/ \E f \in Fd, o \in Node \cup {"pipe", "closed"} : SetFd(f, o)
     \/ \E n \in Node, p \in Place : Move(n, p)
     \/ Break
  /\ UNCHANGED <<ready, up, pc, op, sent, named, last>>

Aborted == ~up /\ UNCHANGED vars

Next ==
  \/ InitClient \/ (\E c \in Calls : Call(c)) \/ Handle \/ Original
  \/ Others \/ Aborted

Spec == Init /\ [][Next]_vars

-------------------------------------------------------------------------------
(* Properties *)

ReportType == [path : [base : Place \cup {"none", "pipe", "deleted"}, rel : {"", "x"}],
               mode : SUBSET {"read", "write", "readdir"}]

\* The state of the process, of its thread in an interposed function and of the
\* report it is about to send.
TypeOK ==
  /\ cwd \in Node /\ fds \in [Fd -> Node \cup {"pipe", "closed"}]
  /\ at \in [Node -> Place \cup {"gone"}]
  /\ proc \in {"mounted", "absent", "denied"} /\ chan \in BOOLEAN /\ ready \in BOOLEAN /\ up \in BOOLEAN
  /\ pc \in {"idle", "handle", "original"}
  /\ op \in Calls \cup {NoCall}
  /\ sent \in ReportType

\* The path depends on what /proc/self/fd says.
NeedsProc(c) == c.path \notin Absolute \cup {Null, Long} /\ c.dirfd # "cwd"

\* The file that an interposed function accesses is the one it has reported, if
\* the client was there and /proc where it is needed, unless the file is below
\* /dev/, /proc/ or /sys/, or the argument has come to mean another file since it
\* was made absolute (chdir, dup2, close or a rename in between).
FileReported ==
  /\ last.file # NoFile /\ last.file = last.named
  /\ last.file.base \notin Hidden
  /\ NeedsProc(last.op) => proc = "mounted"
  => last.sent.path = last.file

\* A report has all ways in which the function uses the file, so that a file
\* opened for writing is not taken for one that is only read; only the "+" of
\* fopen and freopen is overlooked.  And a file that open creates gets the
\* permissions the program asked for: has_mode_arg passes the third argument on.
ModeReported ==
  /\ last.sent # NoReport /\ last.op.mode \notin {"r+", "w+", "a+"} =>
       last.sent.mode = Uses(last.op)
  /\ Creates(last.op) => last.withMode

\* The library ends the program, by the unwrap in handle_open, only in a call with a
\* null path or one whose record fits no chunk; with a relative path when the working
\* directory has been removed; with a descriptor when its link may not be read; or
\* with a path that is reported when the channel is broken.  A closed descriptor, a
\* pipe, a removed directory or a missing /proc does no harm, no call fails before
\* the client is set, and what is not reported does not need the channel.
MayAbort ==
  \/ op.path \in {Null, Long}
  \/ op.path \notin Absolute /\ op.dirfd = "cwd" /\ at[cwd] = "gone"
  \/ NeedsProc(op) /\ proc = "denied"
  \/ ~chan /\ Sends(to_absolute_path(op))
AbortsOnly == [][up /\ ~up' => ready /\ MayAbort]_vars

===============================================================================
