# A TLA+ model of fspy

fspy runs a program and reports every path that the program, and everything it
starts, accesses. It injects a preload library that intercepts libc functions;
programs the library cannot follow (statically linked ones, on Linux) are traced
with a seccomp filter whose notifications a supervisor in the spawning process
answers. This directory models the parts of fspy in which processes, threads,
the kernel and an async runtime interleave, checks them with TLC and proves, with TLAPS and
for instances of any size, that they are safe (section 5).

Line numbers below refer to files under `src/crates/`.

## 1. The system

| Part | State | Operations | Talks to |
|---|---|---|---|
| **Preload client** `fspy_preload_unix/src/client/mod.rs` | one `ShmCursor` per thread id of the `thread_local` crate, `shm_id`, the inherited socket `payload.ipc_fd` | `send`, `with_shm_buf`, `new_shm`, `reset_shm_atfork` | writes shm chunks; sends their fds over the socket |
| **Spawner** `fspy/src/unix/mod.rs` | both socket ends, `shm_fds`, the mappings | `spawn_impl`, `shm_future`, `accesses_future`, `PathAccessIterable::iter` | receives fds until end of file, reads the chunks; joins the supervisor |
| **Seccomp target** `seccomp_unotify/src/target.rs` | the installed filter | `install_target` | sends the listener fd to the supervisor |
| **Supervisor** `seccomp_unotify/src/supervisor/` | a `JoinSet` of listener tasks, one handler (with an arena) each | `supervise`, `handling_loop`, `NotifyListener::next`, `send_continue` | kernel listener ioctls, tokio `AsyncFd`, `process_vm_readv` |
| **Command** `fspy/src/command.rs` | program, `arg0`, arguments, environment, directory | builder methods, `get_exec`, `set_exec`, `resolve_program` | consumed by the spawner |
| **Interposed functions** `fspy_preload_unix/src/interceptions/` | none of their own | `open*`, `scandir`, `stat*`, `exec*`, `posix_spawn*` | path conversion and client; program resolution; `install_target` before a static exec |
| **Program resolution** `fspy_shared_unix/src/{exec,spawn}` | none | `which`, `parse_shebang`, `ensure_env`, `handle_exec` | called by the spawner and by every interposed exec |
| **Fixtures** `fspy/src/fixture.rs` | files in the temporary directory | `Fixture::write_to` | concurrent spawners, other processes |
| **Windows** `fspy/src/windows`, `fspy_preload_windows` | a named pipe; a set of messages; detours | `spawn_impl`, `Client::send/finish`, `CreateProcess*` detours | suspended child, DLL injection |
| **IPC types** `fspy_shared/src/ipc` | none | encoding of `PathAccess` | everything above |

**How one traced run goes.** `spawn_impl` creates two socket pairs, passes the
sending ends to the child through the environment (the *payload*), spawns it and
drops its own sending ends. Each thread of each process of the tree lazily creates
a shm chunk, sends the fd to the spawner and appends records to it. A program
that the library cannot follow gets a seccomp filter just before its `execve`;
its listener fd goes over the second socket. Both receivers run until end of file
on their socket, that is until no process of the tree holds a sending end.
`accesses_future` joins them, maps the chunks and yields an iterator.

**What is hard.**

* `send` and `iter` share memory with no lock. The only synchronisation is one
  flag byte per record, and the processes involved fork, exec, are killed and
  close descriptors between any two steps.
* `fork` duplicates cursors into memory that stays shared.
* Thread ids, process ids and shm names are all recycled.
* End of file on the sockets decides what is complete.
* The supervisor combines an edge-triggered poll, cached readiness and a
  blocking ioctl; its peer can be interrupted or killed at any time.
* Descriptor numbers are promised to the child in the payload, while the child,
  its descendants and other threads of the spawner rearrange descriptors.
* A path is found out by one system call and used by another.
* `handling_loop` only runs while the caller polls `accesses_future`.
* One failing step (handler, exec, send) must not corrupt what others see.

**What makes each part correct.** The channel: chunks have one writer; what
the iterator reads is whole, was sent, and is never rewritten; nothing sent before
end of file is missing, doubled or out of program order; end of file is reached.
The supervisor: no call is let through unrecorded when the result is `Ok`; no
stopped task waits for ever; the loop ends with the tree. Program resolution:
the resolved program is the one the kernel would have run, and every exec keeps
the environment that carries the tracing on. The interposed functions: the file that
is accessed is the one reported, with the right mode, and the program is not
disturbed. The spawner: no descriptor leaks, an `Ok` result is complete, an awaited
future ends with the tree. Fixtures: a path that is returned holds the whole file,
and the file is never modified under its users. Windows: no process runs unprepared;
what a process recorded arrives once when it ends.

## 2. Modules

| Module | Models | Code |
|---|---|---|
| `ShmChannel` | the channel: target processes and threads, `Client`, receiver, iterator | `client/mod.rs`, `fspy/src/unix/mod.rs` |
| `AccessLog` | what the channel promises, as an abstract specification | |
| `ShmRefinement` | the mapping from `ShmChannel` to `AccessLog` | |
| `Unotify` | supervisor, listener tasks, target, kernel listener, `AsyncFd` | `seccomp_unotify`, `syscall_handler`, the installing parts of `exec` and `posix_spawn` |
| `Spawn` | the composition: `Command`, `spawn_impl`, both channels, caller | `fspy/src/unix/mod.rs`, `command.rs`, `lib.rs`, `supervisor/mod.rs` |
| `ExecTrace` | how an exec is resolved and tracing carried on (Linux) | `fspy_shared_unix/src/{exec,spawn}`, `open_exec.rs`, `raw_exec.rs`, the interposed `exec` and `posix_spawn` families |
| `Interpose` | what an interposed open, stat or directory function reports and accesses | `interceptions/{open,stat,dirent}.rs`, `client/convert.rs`, `handle_open` |
| `Fixture` | extraction of embedded files by several processes | `fspy/src/fixture.rs`, its callers |
| `WinPipe` | tracing on Windows: creation of processes, message set, pipe, reader | `fspy/src/windows/mod.rs`, `fspy_preload_windows` |
| `ShmChannelProofs`, `ShmHistoryProofs`, `UnotifyProofs`, `SpawnProofs`, `ExecTraceProofs`, `InterposeProofs`, `FixtureProofs`, `WinPipeProofs` | theorems | |
| `MC...` | instances for TLC | |

A definition whose comment begins with `Mutant:` stands before the definition it
distorts. It is a plausible bug of that code, used to show that a property can
fail; nothing else refers to it.

### ShmChannel

*Target.* `alive`, `ipc` and `slot` are processes, their copy of the socket and
the ids that `thread_local` hands out (lowest free id first; the value stays when
a thread exits). `Fork` copies everything, runs `reset_shm_atfork` in the child
and leaves the ids of threads that do not exist there `"leaked"`. `Exec` restarts
the client (`init_client`) with `shm_id` 0. `Exit` may happen at any step.
`CloseIpc` is a target that closes descriptors it does not know.

*Client.* One action per system call or store of `send`, because a kill can
separate any two: `Send` (first `advance`), `ShmOpen`, `ShmUnlink`, `SendFd`,
`Truncate` (with `mmap` and the second `advance`), `WriteData`, `StoreFlag`.
An error becomes `Abort`, since `handle_open` and `handle_exec` unwrap and the
release profile aborts on panic.

*Spawner.* `DropSender`, `RecvFd`, `RecvEof`, `MapNext`, `ReadRecord`, `ReadStop`,
`ReadGarbage`, `Finish`; `DropReceiver` is a cancelled future, the other half
of `try_join` failing, or `Mmap::map` failing for one of the chunks after end of file.

*Abstractions.* A chunk has `Cap` cells for its 256 KiB (`SHM_CHUNK_SIZE`); an access takes
`EncodedSize` cells. A cell says what was stored there, so that broken records
are recognisable. `WriteData` stores the encoded bytes in one step: nothing can
tell a partly written body from none, as the flag in front is zero either way, and
the `Release`/`Acquire` pair orders the body before the flag. Accesses are
distinct tokens, which is what lets properties follow one from send to report.
`begun`, `done`, `sealed`, `last`, `prev`, `orphaned`, `garbled` and `aborted` are
history variables that no action reads.

*The `orphaned` exception.* A thread that exits leaves its cursor behind. If the
process then forks, the cursor exists in both processes, is reset in neither, and
new threads of both adopt it: two processes write into one chunk (finding
`shm_fork_comment`). `orphaned` collects exactly these chunks; the properties
are stated for all others, and `NoGarbage` says that the damage stays there.

*Left out.* `vfork` (the child borrows the parent's address space; it acts as
the parent's thread) and processes made by a raw `clone`, which do not run
`pthread_atfork` handlers.

### Unotify

*Target.* `InstallForExec` is `install_target` called by `handle_exec` (the filter
covers the calling thread), `InstallForSpawn` the helper thread of
`handle_posix_spawn`; `SendFd` sends the listener and performs the exec, which
may fail. `Syscall` is a filtered `openat` or `getdents64`, with arguments the
supervisor can read or not (`bad`). `Interrupt` is a signal that ends the wait;
`Exit`, `Reap`, `Fork` and `CloseSock` are what processes do.

*Supervisor.* `RecvFd`, `RecvEof`, `LoopFails`, `JoinError`, `JoinAll` are
`handling_loop`; `Readable`, `ClearReady`, `NotifRecv`, `HandleNotify`,
`SendContinue`, `HandleResult` and `AbortTask` one listener task. The order
inside `HandleNotify`, `SendContinue`, `HandleResult` is the code's: record,
continue the call whatever happened, and only then report the error.

*External.* The kernel's listener keeps a queue and a request counter and is
polled with edge-triggered `epoll` (`Driver`). `AsyncFd` caches readiness in
`ready`; `clear_ready` has no effect if an event came since (`fresh`). Two facts
depend on the kernel: since Linux 6.11 a zombie no longer counts as a user of its
filter, and the receiving ioctl returns once no user is left (`Kernel611`). On the
current-thread runtime the I/O driver runs only between polls of the tasks
(`MultiThread = FALSE`). `CallerJoins` says whether the caller reaps the child
while it awaits the accesses or only afterwards, as `fspy/tests/test_utils.rs`
does.

### AccessLog and ShmRefinement

`AccessLog` knows no memory, sockets or cursors: processes complete reports,
`Seal` is end of file, `Yield` hands out one access, once, not before those that
precede it, and `Finish` requires that all that was complete at `Seal` has been
yielded. `End` is a reader that gives up, before end of file or before it has yielded anything,
or that panics at a lost chunk. `Lose` gives a chunk up: it is the one weakness the abstraction must
admit. Records of lost chunks are exempt from every promise. In the mapping the lost chunks are
the orphaned ones, so that `Lose` happens exactly when a cursor is duplicated; `before` comes from `prev`, `state` from `phase`,
and the other variables are those of the channel. `ImplementsLog` says that each step
of any process, thread, the receiver or the iterator is a step of the log or invisible there.

### Spawn

*Spawner.* `Build` is one builder method of `Command`; the variables it sets may be those of fspy. `Pair`, `Move`, `Supervise`,
`Resolve`, `Fork`, `ChildExec`, `SpawnReturns` and `DropCommand` are the steps of
`spawn_impl` that other threads can separate; `Move` is one round of
`duplicate_until_safe`, which runs for the preload memfd (`SpyInit`) too; when that fails (`SpyFails`) the next use of the spy starts over. Each
step can fail (`OsFails`, `Resolve`, `SpawnReturns`) and `Fail` drops what the call owns. The
descriptor table of the spawner, with its `CLOEXEC` flags, is state; `fork` copies
it, and exec keeps what the `pre_exec` closure cleared.

*Processes.* A target and one descendant per job send chunks (`SendShm`), are stopped at a
listener (`Syscall`), start programs (`ForkExec`), reassign the low descriptors as
libuv does (`ReassignLow`), close everything (`CloseAll`) and exit. `ForeignFork` and
`ForeignExec` are an ordinary child of another thread; `OtherThread` opens and closes
descriptors.

*Future.* `Poll` and `WaitFirst` are the two orders in which a caller awaits child and
`accesses_future`; `DropFuture` gives it up. `RecvShm`, `ShmEnds`, `RecvListener`,
`Answer`, `LoopEnds` happen only while the future is polled, and `Join` is `try_join`: the
first error ends both halves. What travels is only counted, since `ShmChannel` and
`Unotify` model it. Standard streams are left out.

### ExecTrace

One process calls functions of the exec and posix_spawn families again and again.
`Call` enters `handle_exec` from any of them, with the family's own tables of who
searches PATH, who takes an environment and who collects a variadic list (`with_argv`, whose
limits are `StackArgs` and `ArgLimit`). `CallAt` is `execveat`, which ignores its flags and uses
a path after its `CString` was dropped, so that it may be any path; without `/proc` it
passes everything to the kernel (`CallAtDirect`). `Which` tests one entry of PATH, `Peek` reads the `#!` line, `Inspect`
parses the program found and adjusts the environment, `PreExec` is `install_target` (in a
helper thread for posix_spawn), `Execve` is the real call, which may also fail for
lack of memory. `install_target` fails before the filter is there (`EBUSY` under a live one, or other
reasons) or after it, when the listener cannot be sent: the thread then has a filter whose
listener is closed. `SendError` is the `unwrap` of the reports. After a `posix_spawn` the model follows either caller or child. A static
program has no library and calls the kernel itself (`RawCall`). `Change` replaces a
file while a call is under way.

A file is reduced to what decides the outcome: a dynamic or static program, one
without read permission, a script, other data, a
directory, a file without execute permission, a symlink loop, nothing. Of a `#!` line
(`Line`) the module has the interpreter and argument that the kernel takes from its 256 bytes, and where the
library takes something else: what its 128 bytes end in (`cut`, `rest`) and white space
that `trim_ascii` strips and the kernel leaves (`Trim`); `parse_shebang` is what the library makes of it. The
environment keeps `LD_PRELOAD` and `FSPY_PAYLOAD`, each absent, without `=`, ours or
foreign, and a variable of the program's own; duplicate entries are not modelled.
`Chain`, `Run`, `Searched` and `Expected` state what the kernel and libc do without the
library; they are external and serve as the reference. A raw `execve` system call in
a dynamic program bypasses the library and is not modelled, nor are set-user-id
programs, for which the loader ignores `LD_PRELOAD`, nor what `no_new_privs`, which `install_target`
sets first, means to them.

*What is promised.* A file that changes during the call, a `#!` line that the two parsers read
differently, and `execveat` (whose flags `exec/mod.rs:187` leaves as a TODO and whose path is undefined) may start
another program, or one where the kernel would have failed: `apart` marks these calls, and `SameProgram` and `ReadsReported`
are about the others. `TracingCarriedOn` is about all of them: whatever runs is traced, but for a
file that changed after its inspection or an `execveat` without `/proc` (`gap`). `SpawnRepeatable` is about what a
failing call leaves behind: an exec that fails after `pre_exec` leaves its filter with the program, live or
dead (`spoilt`); posix_spawn never does, so it can be repeated.

### Interpose

One thread calls the functions (`Call`); `Handle` is `try_handle_open` with
`to_absolute_path` and `to_access_mode`, `Original` the call of the real function.
`InitClient` comes at any time, since libraries initialised earlier use the functions too.
`Others` are the other threads and processes: they change directory, open, close and
exchange descriptors, move and remove directories, between any two steps. A path is a base
and at most one relative component; `Long` is one whose record fits no chunk. `/proc` is mounted,
absent or denied (`proc`), and the channel works until `Break`; after that a send may fail, unless its
chunk still has room. `Target`, `Uses` and `Creates` are the reference for
what libc does. The behaviours are not bounded: the state space is finite as it is.

### Fixture

Each process takes `write_to` for each fixture in turn, one action per system call:
`CreateDir`, `Exists`, `OpenTmp`, `Write` (one of several writes of `write_all`),
`Rename`, `RenameFails`, `Recheck`, `Remove`. `Fails` and `FailsWithTmp` are its errors
before and after the temporary file is there (of `fs::exists`, opening, writing, removing),
`Retry` is `get_or_try_init` after an error, `Die` a crash, `Clean` a cleaner of the
temporary directory. Files are inodes, so that a replaced file which others still have
mapped stays distinguishable. A temporary name is random and may collide with one in
use. Which fixtures exist depends on the platform and is the number `NFixture`.

### WinPipe

*Creation.* `CreateStep` and `CreateFails` are the steps of preparing a suspended process:
in `spawn_with` for the first one (`DetourUpdateProcessWithDll`, `DuplicateHandle`,
`DetourCopyPayloadToProcess`, `ResumeThread`), in the detours of `CreateProcessA` and
`CreateProcessW` for all others, where `prepare_child_process` runs inside
`DetourCreateProcessWithDllEx` and so before the DLL is added. A failed step leaves
the child suspended, except that Detours terminates one it cannot add the DLL to.
`ResumeLater` is a program that asked for `CREATE_SUSPENDED` itself.

*Recording.* `BeginInsert` and `EndInsert` are the insertion of an access into the
`DashSet` under the lock of a shard. `ExitProcess` stops all other threads, wherever
they are, and runs `DLL_PROCESS_DETACH`; `write_pipe_message` writes one element of the
set, `EndDetach` returns from `finish`. `Terminate` is `TerminateProcess` or a crash,
where nothing is written.

*Reading.* `Read`, `ReadEof` and `Cancel` are `accesses_future`. A message longer than
`MESSAGE_MAX_LEN` (`Big`) ends it with an error.

*External.* Detours, pipe, handles and process termination. Attaching the detours, and
the conversion of paths and access masks, are not modelled. Which shard an element
lies in is not modelled either: a lock that is never released keeps `finish` from
returning, after any part of the messages.

## 3. Runs

| Run | Checks | Shows |
|---|---|---|
| `shm_fork` | `TypeOK`, `ReportedOnce`, `Complete`, `CausalOrder` | With forks, execs, kills, closed sockets, recycled pids and a record that fits no chunk, what was sent before end of file is reported once and in program order |
| `shm_threads` | `SingleWriter`, `IntactRecords`, `NoGarbage`, `NeverOverwritten`, `NamesUnique`, `ImplementsLog`, `EofReached` | Two processes of two threads with recycled thread ids: one writer per chunk, chunks readable wherever a writer dies, broken records in orphaned chunks only, a name is opened twice only after a crash in between, delivery once nobody holds the socket, and the whole refines `AccessLog` |
| `shm_fork_comment` | `ForkResetsCursor`, *violated* | See findings |
| `unotify_safe` | `TypeOK`, `OkMeansComplete`, `OkMeansUndisturbed`, `RecordedFirst` | A successful `handling_loop` recorded every executed call and refused none |
| `unotify_live` | `Answered`, `Completes` | No notification is lost between the edge-triggered poll and `clear_ready`; the loop ends after the last task |
| `unotify_hang` | `Completes`, *violated* | See findings |
| `spawn` | `NoLeak`, `PayloadValid`, `Tidy`, `OkComplete`, `TargetTraced`, `HonoursCommand`, `NoStandstill` | No descriptor leaks into another child; the numbers in the payload stay valid when a target rearranges its descriptors; a failed or ended spawn leaves nothing open; an `Ok` result has all chunks and disturbed nobody; the target runs as asked and traced; a tree whose future is awaited never stands still |
| `exec_trace` | `TypeOK`, `TracingCarriedOn`, `SameProgram`, `ReadsReported`, `SpawnRepeatable` | Along chains of execs and spawns every program stays traced, is the one that would run without the library, with the same arguments and environment, all files read to start it are reported, and posix_spawn can be repeated whichever of its steps fails |
| `exec_resolve` | `ResolvesLikeExec`, *violated* | See findings |
| `interpose` | `FileReported`, `ModeReported`, `AbortsOnly` | The file accessed is the one reported, with all the ways it is used; the program is ended only by a null or too long path, a relative one in a removed directory, a descriptor that may not be looked up, or a broken channel |
| `fixture` | `WholeOrAbsent`, `OkMeansThere`, `Unmodified` | With crashes, full disks, lost races and a cleaner, a fixture is whole or absent, is there on success, and is never modified under its users |
| `win_pipe` | `TypeOK`, `RunsPrepared`, `CompleteOnce`, `Delivered`, `Exits` | Nothing runs before DLL, payload and pipe are in place; what processes that ended by `ExitProcess` recorded is read, once; neither the reader nor an exiting process waits for ever (but for one stopped inside an insertion) |

**Bounds.** Two pids suffice for every property of the channel: they relate at most a
parent and its child, and pids are recycled, so longer chains occur. `shm_fork` has
single-threaded processes that can each fill a chunk and open a second (`MaxChunk` 2), with
records of 2 and 3 cells in chunks of 5, so that records end exactly at, just below and
beyond the end, and one record that fits none. `shm_threads` has two ids per
process (`MaxSlot` 2), which gives a live, an exited and a leaked thread, and one chunk per
thread, since the question there is what several writers do to one chunk. `MaxEvents` bounds
thread exits, forks, execs, closes and cancellations together; two are enough for an
exit followed by a fork and a fork followed by an exec. Kills are never bounded. The supervisor
needs two calls at one listener for a lost wake-up and two filters for a task that
installs twice. `spawn` has one job, with its target, a descendant and an ordinary child of another
thread; six descriptors of which three are safe let the moving run through, run out
and collide with the other thread; two events are enough for a fault in one half and a disturbed
target. With two jobs at once, no events and no other child (410 thousand states) the invariants of the run
hold as well. For `ExecTrace`, two files that may
interpret each other give nested and looping `#!` lines, and both are on PATH, so the search skips, stops
and fails; a third is reached through a descriptor; `#!` lines end in the interpreter or the argument after 128 bytes, or in
a carriage return; two calls lead from a dynamic to a static program and
from that one on; one file changes at any step; the limits of `with_argv` are 3 and 4 instead of 32
and 4096, with lists just below, between and at them. `Interpose` has two directories, one descriptor and every function
with every kind of path; every mode and flag is combined with one path. `Fixture` has three processes
(winner, loser, and one that dies), two fixtures, files of two writes and two faults. For
`WinPipe`, a process and its child suffice (creations are alike at every depth); a pipe
of one message makes every second write wait. The theorems hold without any of these bounds.
Symmetry is used for interchangeable accesses, writers, names and directories, and only in runs without
liveness properties.

**Deadlock** is checked in all runs: `Terminated` is the only state in which nothing
more can happen, so a state where everyone waits would be reported.

**Fairness.** Only fspy's own steps, and the kernel's, are fair; the target owes
nothing. `ShmChannel!FairSpec`: `spawn_impl` drops the sender right after
`spawn()`, and the caller awaits `accesses_future` and drains the iterator.
`Unotify!FairSpec`: the tokio runtime polls a ready task and its I/O driver,
the caller keeps polling `accesses_future`, and zombies are reaped by someone. This
last point is not fspy's doing: with an old kernel and a caller that reaps only after
awaiting the accesses, `Reap` is never enabled and `Completes` fails, because the zombie
keeps its filter. With an old kernel, the current-thread runtime and a
caller that joins both, it holds. `handling_loop` is lazy: a caller that first waits
for a static child without polling `accesses_future` waits for ever. That is outside
`FairSpec` there; in `Spawn`, `Poll` is not fair and `WaitFirst` shows such a caller.
`Spawn!FairSpec`: `spawn_impl` runs to its end, a polled future makes progress whatever it waits
for, and a forked child executes; targets, callers and other threads owe nothing. `WinPipe!FairSpec`: `spawn_impl` runs to its end, the caller awaits
`accesses_future` until it drops it, and a process in `ExitProcess` is scheduled; strong
fairness for its writes, since the system completes blocked writes in their order.

## 4. Findings

* **Recycled cursors after fork** (`shm_fork_comment`). `reset_shm_atfork`
  (`client/mod.rs:303`) resets the cursor of the forking thread only. The
  cursor of a thread that exited earlier is adopted in parent and child, and both write
  into the same chunk at the same position.
* **Stale readiness** (`unotify_hang`). On the multi-thread runtime, an event
  that arrives between `clear_ready` and `notif_recv` leaves readiness for a notification
  that is already received. The next `notif_recv` is a blocking ioctl that, before Linux
  6.11, the exit of the last task does not end.
* **Resolution differs from exec** (`exec_resolve`). The comment of
  `Exec::resolve` promises the behaviour and errors of the exec functions. `execve("")`
  aborts the caller instead of failing with `ENOENT`, because `on_path_access` expects
  `std::path::absolute` to succeed. The run has nothing but dynamic programs; with other files
the property fails in other ways too: an empty
  interpreter and a script with an empty `argv` abort; a directory on PATH ends the search;
  an interpreter that is itself a script fails with `ENOEXEC`.

## 5. Proofs

All theorems rest only on the named assumptions of the modules' constants.

`ShmChannelProofs` proves for every set of pids and accesses, every number of
threads and chunks, every chunk size and encoding:

| Theorem | Statement |
|---|---|
| `LayoutInvariant` | `Spec => []LayoutInv` |
| `TypeCorrect` | `Spec => []TypeOK` |
| `WritersDisjoint` | `Spec => []SingleWriter` |
| `RecordsIntact` | `Spec => []IntactRecords` |
| `IteratorClean` | `Spec => []NoGarbage` |
| `RecordsStable` | `Spec => NeverOverwritten` |

The only assumption is `ConstAssumption`: the bounds are natural numbers, every
encoding takes at least one cell, and `NoAccess` is not an access.

**The argument.** None of the four properties is inductive. That a record is
whole when its flag is stored needs the body to be there and nobody else to have
written over it (`SingleWriter`), which in turn needs a chunk under creation to be
known to its creator only (`FreshInv`). That a store hits no completed
record needs the chunk to be blank from the cursor on (`WriterInv`); that the
iterator never lands inside a record needs it to stand at the end of one
(`ReaderInv`) and the cell after every record to be a flag byte
(`IntactRecords`). `LayoutInv` is their conjunction. The proof takes the actions in turn:
those that leave memory and cursors alone, those that discard cursors (exit,
exec, abort), fork, the ones that create a chunk, the two stores, and the
iterator's. For `Fork` it shows that the child's copy of a running thread's
cursor is at the end, leaked or orphaned. `RecordsStable` follows since a store
goes either to the record under construction, whose flag is zero, or to cells
that no completed record covers.

`ShmHistoryProofs` proves, from the same assumption, what becomes of the records:

| Theorem | Statement |
|---|---|
| `HistoryInvariant` | `Spec => [](LayoutInv /\ HistoryInv)` |
| `YieldedOnce` | `Spec => []ReportedOnce` |
| `NothingMissed` | `Spec => []Complete` |
| `ProgramOrder` | `Spec => []CausalOrder` |
| `Refinement` | `Spec => ImplementsLog` |
| `NumbersUnique` | `Spec => NamesUnique` |

**The argument.** `HistoryInv` follows an access from `send` to the iterator. It is sent by one thread,
once, and what its thread completed before is known (`AccInv`). The fd of a chunk enters the sequence of shm fds,
received ones and those in flight (`Order`), once and before the chunk is truncated, mapped or written (`SentInv`,
`SizeInv`); so at end of file the chunk of every completed record has been received, with its full size. The completed sends of a chunk are the
records in its memory, they follow each other without a gap, and the writer goes on where the last one ends
(`RecordsInv`); so a zero flag has no record behind it, and a reader that stops there misses nothing. What was yielded lies behind
the iterator's position, and whatever lies behind it was yielded (`OutInv`, `PassedInv`): each record is yielded once, and `Complete` holds when all chunks
are passed. For the order, a thread's next record goes into the chunk of its last one, behind it, or into a
chunk whose fd is sent later, and if that is the case, the last one was complete at end of file (`CauseInv`). The second
half matters for processes that go on after they closed the socket: they write only to chunks sent before.

Every step is first put into one of five kinds (`Steps`): it leaves the threads alone or discards some, or copies cursors (`Calm`), it is the
receiver's, or one thread starts a send, makes progress in it or completes it. Each part of the invariant is then proved for the
kinds. The refinement needs no further invariant: `StoreFlag` is `Complete`, `RecvEof` is `Seal`, `ReadRecord` is `Yield`, whose two guards are
`ReportedOnce` and `CausalOrder` after the step, and a panic or a failing `Mmap::map` is `End`, allowed since `NoGarbage` finds an orphaned chunk, or nothing has been yielded. The mapping keeps lost
records in `out` rather than selecting the others: `SelectSeq` is recursive, so nothing about it can be proved here. `NumbersUnique` rests on an
invariant of its own: a number drawn by `fetch_add` is below the counter until the name is unlinked.

`UnotifyProofs` proves for any number of tasks, filters and calls, on old and new kernels and on
both runtimes:

| Theorem | Statement |
|---|---|
| `TypeCorrect` | `Spec => []TypeOK` |
| `ContinuedRecorded` | `Spec => []RecordedFirst` |
| `OkComplete` | `Spec => []OkMeansComplete` |
| `OkUndisturbed` | `Spec => []OkMeansUndisturbed` |

The assumption is that the bounds are numbers and the kernel and runtime flags Booleans. `UnotifyInv`
is `TypeOK`, `Structure` and `Flow`. `Structure` says where a listener is: with the task that
is installing it, in the socket once, with one tokio task until that ends, or closed. `Flow` follows
a call: a pending one stops a task under its own filter (`PendingInv`); one that a listener task holds is the
one it received, recorded before it is continued unless an error is kept (`CallInv`); readiness with `hup`, like a
task that ended well, means that nobody uses the filter any more (`HupInv`). That is what
makes `Ok` complete. A call is refused with `ENOSYS` only if its listener is closed, by an error of its task, with
the end of the loop, or because it never reached the loop (`RefusedInv`); the first two do not end in `Ok` (`DoneInv`),
and the third is the case that `OkMeansUndisturbed` excepts.

`SpawnProofs` proves for any number of spawns, descriptors, builder calls, sends and disturbances:

| Theorem | Statement |
|---|---|
| `TypeCorrect` | `Spec => []TypeOK` |
| `DescriptorsPrivate` | `Spec => []NoLeak` |
| `PayloadNamesSender` | `Spec => []PayloadValid` |
| `NothingKept` | `Spec => []Tidy` |
| `OkIsComplete` | `Spec => []OkComplete` |
| `TracedFromStart` | `Spec => TargetTraced` |
| `CommandHonoured` | `Spec => HonoursCommand` |

`SpawnInv` is `TypeOK` with three parts. `SpawnerInv` says which descriptors the spawner holds at each label of
`spawn_impl`, `duplicate_until_safe` included (`MovedInv`: the one reached and those held back),
and that all of them are close-on-exec. `ProcessInv` ties the tables of the processes to that: a child
between fork and exec has the descriptors of the spawner under the same numbers, none of them inheritable before `pre_exec` clears the flags of
its own; a program holds no sending end but its own tree's and, unless it closed them, has under the
numbers of the payload what the payload says; and the plan is what `Resolve` found for the command. `FutureInv` counts: what
was sent has been received, is queued, or the receiver is gone. `OkComplete` then follows since
both halves end only when nobody holds a sending end and nothing is queued.

`ExecTraceProofs` proves for every set of files and environments, every PATH, any number of calls and changes:

| Theorem | Statement |
|---|---|
| `TypeCorrect` | `Spec => []TypeOK` |
| `TreeTraced` | `Spec => []TracingCarriedOn` |
| `SpawnsRepeat` | `Spec => []SpawnRepeatable` |
| `ProgramKept` | `Spec => []SameProgram` |
| `ReadsAreReported` | `Spec => []ReadsReported` |

The assumption is again `ConstAssumption` (PATH is not empty, names and paths differ,
contents, arguments and environments are of the kinds listed). For `TreeTraced` the inductive invariant `TraceInv` adds
that, unless a file was changed late, the program at `execve` is still the ELF file that was
inspected, and that its environment or the filter fits it (`Inspected`). For `SpawnsRepeat`, `CleanInv` says
that a traced program has no filter unless an exec failed late, that the call in progress starts without one and gives
a posix_spawn's only to its helper thread, and that a program started under a filter has lost the entries that would load the library.

`ProgramKept` and `ReadsAreReported` compare with the reference `Expected`. `SameInv` says at each label what is already
settled. While PATH is searched, the entries passed were refused, so the reference passes them too (`SearchInv`). Once a file is
found, the reference finds the same one (`FoundInv`). From the `#!` line on, program, arguments and files still to be read are
such that an exec of them does what the reference does for the original call (`Promise`). The kernel's recursion through interpreters
has a fixed depth (`MaxDepth`, the kernel's five), so the lemmas `ChainLevels` and
`ChainKnown` write `Chain` out level by level, with no induction over data.

`InterposeProofs` proves for all directories, paths, descriptors and calls:

| Theorem | Statement |
|---|---|
| `CallsInvariant` | `Spec => []CallInv`, with type correctness |
| `AccessReported` | `Spec => []FileReported` |
| `UsesReported` | `Spec => []ModeReported` |
| `AbortsRarely` | `Spec => AbortsOnly` |

`FileReported` compares a report with what the original function does later. `CallInv` therefore
carries, between the two, that the report fits what the argument named when it was made absolute
(`SentFits`). The lemma behind it, `NamesTarget`, is the one about the code: wherever the argument names
a file and `/proc` is there if needed, `to_absolute_path` gives that file. `AbortsRarely` rests on what the conversion and `send` can fail with
and on the call in progress being one of the family.

`FixtureProofs` proves for every number of processes, fixtures, temporary names, blocks and
faults:

| Theorem | Statement |
|---|---|
| `FilesSafe` | `Spec => []FileInv` |
| `NeverPartial` | `Spec => []WholeOrAbsent` |
| `PublishedUnmodified` | `Spec => Unmodified` |
| `InitLeavesFixtures` | `Spec => []OkMeansThere` |

That a published file is whole is not inductive: it needs the temporary file of a writer that
is about to rename to be whole, hence nobody else to have written to it or taken
its name. `FileInv` adds that a writer at work owns a temporary name that stands for its own
file (`OwnerAt`), that no two names share a file (`NamesApart`) and no two writers a name
(`TmpApart`). `create_new` is what the last two rest on. `PublishedUnmodified` follows: a
write goes to a file under a temporary name, which by `NamesApart` has no final one. `InitLeavesFixtures` is about what a writer
leaves behind: a fixture it has passed is there or was cleaned away (`PassedInv`), and unless a writer died or an
error came between, every temporary name belongs to a writer at work (`OwnedTmp`).

`WinPipeProofs` proves for any number of processes and accesses and any pipe:

| Theorem | Statement |
|---|---|
| `TypeCorrect` | `Spec => []TypeOK` |
| `Prepared` | `Spec => []RunsPrepared` |
| `ReadsAllOnce` | `Spec => []CompleteOnce` |

`Prepared` needs that a child in creation is suspended, has one creator and what the steps so far put into it
(`CreationInv`); the two orders of the steps, of `spawn_with` and of the detours, are both covered. `ReadsAllOnce`
needs that nothing in the pipe or already read will be written again (`WrittenOnce`) and that what a process in `finish`
has still to write, with pipe and arena, is all it recorded (`NoneLost`).

**Only model-checked.** Liveness (`EofReached`, `Answered`, `Completes`, `NoStandstill`, `Delivered`, `Exits`): liveness under
fairness is outside what the proof system supports. Every invariant and every action property that a
passing run checks, and the refinement, is proved.

## 6. Not modelled, and the plan

`PROJECT.json` lists all parts. Left out, and why:

* *macOS variants* of resolution, interposition and spawning: they differ in libc tables and file
  actions, not in the protocols; the spawner of the first design is included by no module of the crate.
* *Bytes*: the ELF format, bincode, native strings, reads of remote strings
  (`supervisor/handler/arg.rs`). They are sequential and deterministic. Of the `#!` format the module has what
  library and kernel take from it, not the scan for blanks; the tests of `shebang.rs:150` are commented out, so no
  unit test reaches it.
* *Windows names and attachment*: forms of object names, access masks and the attaching of
  detours. Two places there deserve a reader's attention: `ck_long` (`winapi_utils.rs:29`) tests a
  constant instead of its argument, and the test for an absolute name in `convert.rs:57` is inverted.
* *Partial writes on Windows*: the loop of `client.rs:46` passes the whole message again after a partial
  write. The pipe is in message mode and its handles block, where `WriteFile` writes a message whole or
  fails, so the second round of the loop is not reached and `write_pipe_message` is one step.
* *Re-entrance*: a signal handler that opens a file while its thread is inside `send` borrows a
  `RefCell` twice and panics.
* *Power failure*: `write_to` renames without `fsync`; a crash in `Fixture` is that of a process.
* *The end-to-end runner* beyond how it awaits the future, and the `interpose` prototype, which is
  not a member of the workspace.

Known consequences that are modelled and excepted from properties: a process killed between
`shm_open` and `shm_unlink` leaves a name that aborts a later process of the same pid; `notify_fd_sender`
stays at a low number, so a target that reassigns those cannot start static programs; a relative
program combined with `current_dir` is inspected in another directory than it is run in;
`TerminateProcess` loses all accesses of a process on Windows; a child whose preparation fails there stays
suspended; `fexecve` is traced, but the program is not reported; `execveat` ignores its flags and uses a
dangling path; scripts with a `#!` line of more than 128 bytes, or with a carriage return at its end, may run
another interpreter or get another argument than without the library; an exec that fails after `pre_exec` leaves its filter behind; the `+` of `fopen` is overlooked.

Planned, most important first:

1. The safety half of the liveness arguments as theorems: that a state in which a future still waits
   leaves some fair step possible, stated on the guards (`NoStandstill`, `Delivered`).
2. An abstract specification of the supervisor, next to `AccessLog`, and its refinement by `Unotify`; `Spawn` then joins the two.
