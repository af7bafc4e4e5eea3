------------------------------ MODULE ShmChannel ------------------------------
(***************************************************************************)
(* The shared-memory channel between the preloaded client of fspy and the  *)
(* process that spawned the target.                                        *)
(*                                                                         *)
(* Each thread of a traced process appends its path accesses to a shm      *)
(* chunk of its own.  A record is one flag byte followed by the encoded    *)
(* access; the flag is stored last.  The fd of a new chunk is sent over a  *)
(* socket whose sending end every traced process inherits.  The spawner    *)
(* collects fds until end of file, maps them, and reads each chunk up to   *)
(* the first zero flag.                                                    *)
(*                                                                         *)
(* Processes fork, exec, exit and are killed between any two steps; the    *)
(* target may close the inherited socket; process ids are reused.          *)
(* Accesses are distinct tokens, each sent at most once, so that a report  *)
(* can be traced back to its send.  Byte-level memory order is abstracted: *)
(* the flag is stored with Release and loaded with Acquire, so the data is *)
(* visible whenever the flag is.                                           *)
(***************************************************************************)
EXTENDS Integers, Sequences, FiniteSets

CONSTANTS Pid,          \* process ids the kernel hands out
          Root,         \* the process that spawn_impl starts
          MaxSlot,      \* ids of the thread_local crate: 1..MaxSlot
          MaxChunk,     \* bound on the chunks ever created
          MaxEvents,    \* bound on what target and caller do to disturb: see Event
          Cap,          \* SHM_CHUNK_SIZE, in cells
          Access,       \* the path accesses of one behaviour
          EncodedSize,  \* cells bincode needs for an access
          NoAccess      \* not an access

ASSUME ConstAssumption ==
    /\ Root \in Pid
    /\ MaxSlot \in Nat \ {0}
    /\ MaxChunk \in Nat \ {0}
    /\ MaxEvents \in Nat
    /\ Cap \in Nat \ {0}
    /\ EncodedSize \in [Access -> Nat \ {0}]
    /\ NoAccess \notin Access

VARIABLES
  alive,     \* pid -> the process exists
  ipc,       \* pid -> its payload.ipc_fd is open
  slot,      \* pid -> thread_local id -> "free", "run" or "leaked"
  op,        \* pid -> id -> where the thread is inside Client::send
  cursor,    \* pid -> id -> tls_shm_cursor: chunk (0: none) and position
  shmId,     \* pid -> Client.shm_id
  names,     \* names present in the shm file system, <<pid, id>>
  nchunk,    \* chunks created so far
  size,      \* chunk -> length of the shm object
  mem,       \* chunk -> offset -> cell
  queue,     \* fds in flight in the socket
  sender,    \* the spawner still holds the sending end
  phase,     \* where accesses_future and the iteration over it are
  fds,       \* shm_fds, in the order of arrival
  maplen,    \* lengths of the mappings made so far
  ri, rpos,  \* chunk index and position of PathAccessIterable::iter
  out,       \* accesses the iterator has yielded, with their chunk
  \* history only:
  begun,     \* accesses some thread has started to send
  done,      \* records whose flag was stored
  sealed,    \* done, at the moment the receiver saw end of file
  last,      \* pid -> id -> latest access completed in the thread's past
  prev,      \* access -> value of last when its send began
  orphaned,  \* chunks whose cursor, of an exited thread, a fork duplicated
  garbled,   \* chunks in which the iterator decoded a broken record
  aborted,   \* <<pid, reason>> of unwrap() failures
  events     \* thread exits, forks, execs, closes and cancellations so far

procVars  == <<alive, ipc, slot, op, cursor, shmId>>
shmVars   == <<names, nchunk, size, mem>>
rxVars    == <<phase, fds, maplen, ri, rpos, out, garbled, sealed>>
histVars  == <<begun, done, last, prev, orphaned, aborted>>
vars == <<procVars, shmVars, queue, sender, rxVars, histVars, events>>

Slot  == 1..MaxSlot
Chunk == 1..MaxChunk
Offset == 0..(Cap - 1)

Zero       == [kind |-> "zero", acc |-> NoAccess, at |-> 0]
Flag       == [kind |-> "flag", acc |-> NoAccess, at |-> 0]
Data(a, i) == [kind |-> "data", acc |-> a, at |-> i]
Cell == [kind : {"zero", "flag", "data"}, acc : Access \cup {NoAccess}, at : 0..Cap]

\* 1 + size_writer.bytes_written
RecLen(a) == 1 + EncodedSize[a]

NoCursor == [chunk |-> 0, pos |-> 0]
\* a thread at pc in send(acc); first: new_shm was called by get_or_try; id and
\* new: number of the name and chunk that new_shm is creating
At(pc, acc, first, id, new) ==
  [pc |-> pc, acc |-> acc, first |-> first, id |-> id, new |-> new]
IdleOp   == At("idle", NoAccess, FALSE, 0, 0)
Pcs      == {"idle", "open", "unlink", "send_fd", "truncate", "write", "flag"}

Init ==
  /\ alive  = [p \in Pid |-> p = Root]
  /\ ipc    = [p \in Pid |-> p = Root]
  /\ slot   = [p \in Pid |-> [s \in Slot |-> "free"]]
  /\ op     = [p \in Pid |-> [s \in Slot |-> IdleOp]]
  /\ cursor = [p \in Pid |-> [s \in Slot |-> NoCursor]]
  /\ shmId  = [p \in Pid |-> 0]
  /\ names  = {}
  /\ nchunk = 0
  /\ size   = [c \in Chunk |-> 0]
  /\ mem    = [c \in Chunk |-> [o \in Offset |-> Zero]]
  /\ queue  = <<>>
  /\ sender = TRUE
  /\ phase  = "recv"
  /\ fds = <<>> /\ maplen = <<>> /\ ri = 1 /\ rpos = 0 /\ out = <<>>
  /\ begun = {} /\ done = {} /\ sealed = {}
  /\ last = [p \in Pid |-> [s \in Slot |-> NoAccess]]
  /\ prev = [a \in Access |-> NoAccess]
  /\ orphaned = {} /\ garbled = {} /\ aborted = {}
  /\ events = 0

-------------------------------------------------------------------------------
(* Threads and processes of the target *)

\* One of the events MaxEvents bounds; exits and kills are not bounded.
Event == events < MaxEvents /\ events' = events + 1

\* A process image is gone: its memory, its threads and its descriptors.
Vanish(p) ==
  /\ alive'  = [alive EXCEPT ![p] = FALSE]
  /\ ipc'    = [ipc EXCEPT ![p] = FALSE]
  /\ slot'   = [slot EXCEPT ![p] = [s \in Slot |-> "free"]]
  /\ op'     = [op EXCEPT ![p] = [s \in Slot |-> IdleOp]]
  /\ cursor' = [cursor EXCEPT ![p] = [s \in Slot |-> NoCursor]]
  /\ shmId'  = [shmId EXCEPT ![p] = 0]

\* handle_open().unwrap(), or send().unwrap() in handle_exec, met an Err: the
\* profile panics with abort.
Abort(p, why) ==
  /\ Vanish(p)
  /\ aborted' = aborted \cup {<<p, why>>}

\* exit, or death by a signal, between any two steps of any thread
Exit(p) ==
  /\ alive[p]
  /\ Vanish(p)
  /\ UNCHANGED <<shmVars, queue, sender, rxVars, histVars, events>>

\* ThreadLocal hands the lowest unused id to a thread that needs one, together
\* with whatever value an exited thread left there.
StartThread(p, s) ==
  /\ alive[p]
  /\ slot[p][s] = "free"
  /\ \A t \in Slot : slot[p][t] = "free" => s <= t
  /\ slot' = [slot EXCEPT ![p][s] = "run"]
  /\ UNCHANGED <<alive, ipc, op, cursor, shmId, shmVars, queue, sender, rxVars, histVars, events>>

\* A thread ends outside send; its id becomes free, its cursor stays.
EndThread(p, s) ==
  /\ slot[p][s] = "run"
  /\ op[p][s] = IdleOp
  /\ slot' = [slot EXCEPT ![p][s] = "free"]
  /\ Event
  /\ UNCHANGED <<alive, ipc, op, cursor, shmId, shmVars, queue, sender, rxVars, histVars>>

\* Mutant: pthread_atfork was not called, the child keeps the parent's cursors.
reset_shm_atfork_missing(p, s) == cursor[p]

\* The cursors of the child after reset_shm_atfork, which runs in the child and
\* moves the cursor of the forking thread to the end of its chunk.
reset_shm_atfork(p, s) ==
  [t \in Slot |->
     IF t = s /\ cursor[p][s].chunk # 0 THEN [cursor[p][s] EXCEPT !.pos = Cap]
                                        ELSE cursor[p][t]]

\* Chunks that a fork leaves writable through the cursor of an id that is free
\* in parent and child alike.
Orphans(p) ==
  {c \in Chunk : \E t \in Slot :
     slot[p][t] = "free" /\ cursor[p][t].chunk = c /\ cursor[p][t].pos < Cap}

\* fork() by thread s of p; the child gets an unused pid q.  Only the forking
\* thread exists in the child, the ids of the others are never released there.
Fork(p, s, q) ==
  /\ slot[p][s] = "run"
  /\ op[p][s] = IdleOp
  /\ ~alive[q]
  /\ alive'  = [alive EXCEPT ![q] = TRUE]
  /\ ipc'    = [ipc EXCEPT ![q] = ipc[p]]
  /\ slot'   = [slot EXCEPT ![q] = [t \in Slot |->
                  IF t # s /\ slot[p][t] = "run" THEN "leaked" ELSE slot[p][t]]]
  /\ op'     = [op EXCEPT ![q] = [t \in Slot |-> IdleOp]]
  /\ cursor' = [cursor EXCEPT ![q] = reset_shm_atfork(p, s)]
  /\ shmId'  = [shmId EXCEPT ![q] = shmId[p]]
  /\ last'   = [last EXCEPT ![q] = [t \in Slot |-> last[p][s]]]
  /\ orphaned' = orphaned \cup Orphans(p)
  /\ Event
  /\ UNCHANGED <<shmVars, queue, sender, rxVars, begun, done, prev, aborted>>

\* execve() by thread s: the other threads die where they are, the new image
\* runs init_client again and keeps the inherited socket.
Exec(p, s) ==
  /\ slot[p][s] = "run"
  /\ op[p][s] = IdleOp
  /\ slot'   = [slot EXCEPT ![p] = [t \in Slot |-> "free"]]
  /\ op'     = [op EXCEPT ![p] = [t \in Slot |-> IdleOp]]
  /\ cursor' = [cursor EXCEPT ![p] = [t \in Slot |-> NoCursor]]
  /\ shmId'  = [shmId EXCEPT ![p] = 0]
  /\ last'   = [last EXCEPT ![p] = [t \in Slot |-> last[p][s]]]
  /\ Event
  /\ UNCHANGED <<alive, ipc, shmVars, queue, sender, rxVars,
                 begun, done, prev, orphaned, aborted>>

\* The target closes descriptors it does not know, ours among them.
CloseIpc(p) ==
  /\ ipc[p]
  /\ ipc' = [ipc EXCEPT ![p] = FALSE]
  /\ Event
  /\ UNCHANGED <<alive, slot, op, cursor, shmId, shmVars, queue, sender, rxVars, histVars>>

-------------------------------------------------------------------------------
(* Client::send, with_shm_buf and new_shm *)

\* Mutant: the flag byte is not counted against the end of the chunk.
Fits_without_flag(cur, len) == cur.pos + len - 1 <= Cap

\* ShmCursor::advance: the cursor after taking len cells, if they fit
Fits(cur, len) == cur.pos + len <= Cap
Advance(cur, len) == [cur EXCEPT !.pos = @ + len]

\* send() of a path outside /dev, /proc and /sys (the others return at once):
\* get_or_try of the thread's cursor, then the first advance.
Send(p, s, a) ==
  /\ slot[p][s] = "run"
  /\ op[p][s] = IdleOp
  /\ a \notin begun
  /\ begun' = begun \cup {a}
  /\ prev'  = [prev EXCEPT ![a] = last[p][s]]
  /\ \/ /\ cursor[p][s].chunk = 0
        /\ op' = [op EXCEPT ![p][s] = At("open", a, TRUE, 0, 0)]
        /\ UNCHANGED cursor
     \/ /\ cursor[p][s].chunk # 0
        /\ Fits(cursor[p][s], RecLen(a))
        /\ cursor' = [cursor EXCEPT ![p][s] = Advance(@, RecLen(a))]
        /\ op' = [op EXCEPT ![p][s] = At("write", a, FALSE, 0, 0)]
     \/ /\ cursor[p][s].chunk # 0
        /\ ~Fits(cursor[p][s], RecLen(a))
        /\ op' = [op EXCEPT ![p][s] = At("open", a, FALSE, 0, 0)]
        /\ UNCHANGED cursor
  /\ UNCHANGED <<alive, ipc, slot, shmId, shmVars, queue, sender, rxVars,
                 done, last, orphaned, aborted, events>>

\* Mutant: shm_id is read and increased in two steps, with another thread between.
ShmOpen_load(p, s) ==
  /\ op[p][s].pc = "open"
  /\ \/ /\ <<p, shmId[p]>> \notin names
        /\ nchunk < MaxChunk
        /\ nchunk' = nchunk + 1
        /\ names'  = names \cup {<<p, shmId[p]>>}
        /\ op'     = [op EXCEPT ![p][s] =
                        At("unlink", @.acc, @.first, shmId[p], nchunk + 1)]
        /\ UNCHANGED <<alive, ipc, slot, cursor, shmId, aborted>>
     \/ /\ <<p, shmId[p]>> \in names
        /\ Abort(p, "EEXIST")
        /\ UNCHANGED <<nchunk, names>>
  /\ UNCHANGED <<size, mem, queue, sender, rxVars, begun, done, last, prev, orphaned, events>>

\* shm_id.fetch_add and shm_open with O_CREAT | O_EXCL
ShmOpen(p, s) ==
  /\ op[p][s].pc = "open"
  /\ \/ /\ <<p, shmId[p]>> \notin names
        /\ nchunk < MaxChunk
        /\ nchunk' = nchunk + 1
        /\ names'  = names \cup {<<p, shmId[p]>>}
        /\ shmId'  = [shmId EXCEPT ![p] = @ + 1]
        /\ op'     = [op EXCEPT ![p][s] =
                        At("unlink", @.acc, @.first, shmId[p], nchunk + 1)]
        /\ UNCHANGED <<alive, ipc, slot, cursor, aborted>>
     \/ /\ <<p, shmId[p]>> \in names
        /\ Abort(p, "EEXIST")
        /\ UNCHANGED <<nchunk, names>>
  /\ UNCHANGED <<size, mem, queue, sender, rxVars, begun, done, last, prev, orphaned, events>>

\* shm_unlink of the name just created
ShmUnlink(p, s) ==
  /\ op[p][s].pc = "unlink"
  /\ names' = names \ {<<p, op[p][s].id>>}
  /\ op' = [op EXCEPT ![p][s] = [@ EXCEPT !.pc = "send_fd"]]
  /\ UNCHANGED <<alive, ipc, slot, cursor, shmId, nchunk, size, mem, queue, sender,
                 rxVars, histVars, events>>

\* ipc_fd.send_fd: fails when the target has closed the descriptor or the
\* receiver is gone
SendFd(p, s) ==
  /\ op[p][s].pc = "send_fd"
  /\ \/ /\ ipc[p] /\ phase = "recv"
        /\ queue' = Append(queue, op[p][s].new)
        /\ op' = [op EXCEPT ![p][s] = [@ EXCEPT !.pc = "truncate"]]
        /\ UNCHANGED <<alive, ipc, slot, cursor, shmId, aborted>>
     \/ /\ ~ipc[p] \/ phase # "recv"
        /\ Abort(p, "send_fd")
        /\ UNCHANGED queue
  /\ UNCHANGED <<shmVars, sender, rxVars, begun, done, last, prev, orphaned, events>>

\* ftruncate and mmap, the new cursor stored in its cell, and the advance that
\* follows; a record that fits no chunk is an error, after a second new_shm if
\* the first one came from get_or_try
Truncate(p, s) ==
  LET o   == op[p][s]
      cur == [chunk |-> o.new, pos |-> 0]
      len == RecLen(o.acc)
  IN /\ o.pc = "truncate"
     /\ size' = [size EXCEPT ![o.new] = Cap]
     /\ \/ /\ Fits(cur, len)
           /\ cursor' = [cursor EXCEPT ![p][s] = Advance(cur, len)]
           /\ op' = [op EXCEPT ![p][s] = At("write", o.acc, FALSE, 0, 0)]
           /\ UNCHANGED <<alive, ipc, slot, shmId, aborted>>
        \/ /\ ~Fits(cur, len) /\ o.first
           /\ cursor' = [cursor EXCEPT ![p][s] = cur]
           /\ op' = [op EXCEPT ![p][s] = At("open", o.acc, FALSE, 0, 0)]
           /\ UNCHANGED <<alive, ipc, slot, shmId, aborted>>
        \/ /\ ~Fits(cur, len) /\ ~o.first
           /\ Abort(p, "too big")
     /\ UNCHANGED <<names, nchunk, mem, queue, sender, rxVars,
                    begun, done, last, prev, orphaned, events>>

\* where the record being written starts
RecStart(p, s) == cursor[p][s].pos - RecLen(op[p][s].acc)

\* Mutant: the flag is stored before the data is encoded.
WriteData_flag_first(p, s) ==
  /\ op[p][s].pc = "write"
  /\ mem' = [mem EXCEPT ![cursor[p][s].chunk] = [@ EXCEPT ![RecStart(p, s)] = Flag]]
  /\ op' = [op EXCEPT ![p][s] = [@ EXCEPT !.pc = "flag"]]
  /\ UNCHANGED <<alive, ipc, slot, cursor, shmId, names, nchunk, size, queue, sender,
                 rxVars, histVars, events>>

\* encode_into_slice into buf[1..]
WriteData(p, s) ==
  LET c == cursor[p][s].chunk
      b == RecStart(p, s)
      a == op[p][s].acc
  IN /\ op[p][s].pc = "write"
     /\ mem' = [mem EXCEPT ![c] = [o \in Offset |->
                  IF b < o /\ o < cursor[p][s].pos THEN Data(a, o - b) ELSE mem[c][o]]]
     /\ op' = [op EXCEPT ![p][s] = [@ EXCEPT !.pc = "flag"]]
     /\ UNCHANGED <<alive, ipc, slot, cursor, shmId, names, nchunk, size, queue, sender,
                    rxVars, histVars, events>>

\* the flag byte stored with Release; send returns Ok
StoreFlag(p, s) ==
  LET c == cursor[p][s].chunk
      a == op[p][s].acc
  IN /\ op[p][s].pc = "flag"
     /\ mem'  = [mem EXCEPT ![c] = [@ EXCEPT ![RecStart(p, s)] = Flag]]
     /\ done' = done \cup {[acc |-> a, chunk |-> c]}
     /\ last' = [last EXCEPT ![p][s] = a]
     /\ op'   = [op EXCEPT ![p][s] = IdleOp]
     /\ UNCHANGED <<alive, ipc, slot, cursor, shmId, names, nchunk, size, queue, sender,
                    rxVars, begun, prev, orphaned, aborted, events>>

-------------------------------------------------------------------------------
(* The spawner: spawn_impl after spawn(), accesses_future, iter *)

\* Mutant: the command is kept, and with it the spawner's sending end.
DropSender_kept == sender /\ UNCHANGED vars

\* drop(tokio_command) closes the spawner's copy of the sending end
DropSender ==
  /\ sender
  /\ sender' = FALSE
  /\ UNCHANGED <<procVars, shmVars, queue, rxVars, histVars, events>>

\* Mutant: the fds are collected last in, first out.
RecvFd_push_front ==
  /\ phase = "recv"
  /\ queue # <<>>
  /\ fds'   = <<Head(queue)>> \o fds
  /\ queue' = Tail(queue)
  /\ UNCHANGED <<procVars, shmVars, sender, phase, maplen, ri, rpos, out, garbled,
                 sealed, histVars, events>>

\* recv_fd inside shm_future
RecvFd ==
  /\ phase = "recv"
  /\ queue # <<>>
  /\ fds'   = Append(fds, Head(queue))
  /\ queue' = Tail(queue)
  /\ UNCHANGED <<procVars, shmVars, sender, phase, maplen, ri, rpos, out, garbled,
                 sealed, histVars, events>>

\* Mutant: the receiver stops when the target is gone, with fds in flight.
RecvEof_undrained ==
  /\ phase = "recv"
  /\ ~sender /\ \A p \in Pid : ~ipc[p]
  /\ phase' = "map"
  /\ sealed' = done
  /\ UNCHANGED <<procVars, shmVars, queue, sender, fds, maplen, ri, rpos, out, garbled, histVars, events>>

\* recv_fd reports UnexpectedEof: nothing in flight and nobody left to send
RecvEof ==
  /\ phase = "recv"
  /\ queue = <<>>
  /\ ~sender /\ \A p \in Pid : ~ipc[p]
  /\ phase' = "map"
  /\ sealed' = done
  /\ UNCHANGED <<procVars, shmVars, queue, sender, fds, maplen, ri, rpos, out, garbled, histVars, events>>

\* Mmap::map takes the length the object has at that moment
MapNext ==
  /\ phase = "map"
  /\ \/ /\ Len(maplen) < Len(fds)
        /\ maplen' = Append(maplen, size[fds[Len(maplen) + 1]])
        /\ UNCHANGED phase
     \/ /\ Len(maplen) = Len(fds)
        /\ phase' = "iter"
        /\ UNCHANGED maplen
  /\ UNCHANGED <<procVars, shmVars, queue, sender, fds, ri, rpos, out, garbled, sealed, histVars, events>>

\* The future is dropped before end of file: the caller cancels it, or try_join
\* returns because the supervisor's handling loop failed.  Or Mmap::map fails
\* afterwards and the fds are dropped.
DropReceiver ==
  /\ phase \in {"recv", "map"}
  /\ phase' = "dropped"
  /\ queue' = <<>>
  /\ Event
  /\ UNCHANGED <<procVars, shmVars, sender, fds, maplen, ri, rpos, out, garbled, sealed, histVars>>

Reading == phase = "iter" /\ ri <= Len(fds)

\* the bytes after the flag at offset b decode, within len, to access a
Decodes(c, b, len, a) ==
  /\ b + RecLen(a) <= len
  /\ \A i \in 1..EncodedSize[a] : mem[c][b + i] = Data(a, i)

\* Mutant: the rest of the buffer is not taken up after a record.
ReadRecord_same_buf(a) ==
  /\ Reading
  /\ rpos < maplen[ri]
  /\ mem[fds[ri]][rpos] = Flag
  /\ Decodes(fds[ri], rpos, maplen[ri], a)
  /\ out'  = Append(out, [acc |-> a, chunk |-> fds[ri]])
  /\ UNCHANGED <<procVars, shmVars, queue, sender, phase, fds, maplen, ri, rpos, garbled, sealed, histVars, events>>

\* flag set and the access decoded
ReadRecord(a) ==
  /\ Reading
  /\ rpos < maplen[ri]
  /\ mem[fds[ri]][rpos] = Flag
  /\ Decodes(fds[ri], rpos, maplen[ri], a)
  /\ out'  = Append(out, [acc |-> a, chunk |-> fds[ri]])
  /\ rpos' = rpos + RecLen(a)
  /\ UNCHANGED <<procVars, shmVars, queue, sender, phase, fds, maplen, ri, garbled, sealed, histVars, events>>

\* split_first finds nothing, or the flag byte is zero (a data byte met out of
\* place may be zero too)
ReadStop ==
  /\ Reading
  /\ rpos < maplen[ri] => mem[fds[ri]][rpos] # Flag
  /\ ri' = ri + 1
  /\ rpos' = 0
  /\ UNCHANGED <<procVars, shmVars, queue, sender, phase, fds, maplen, out, garbled, sealed, histVars, events>>

\* Bytes that are not one record: decoding fails and unwrap panics, or yields
\* some access no thread sent and moves on by its size.
ReadGarbage ==
  /\ Reading
  /\ rpos < maplen[ri]
  /\ mem[fds[ri]][rpos] # Zero
  /\ mem[fds[ri]][rpos] = Flag =>
        ~ \E a \in Access : Decodes(fds[ri], rpos, maplen[ri], a)
  /\ garbled' = garbled \cup {fds[ri]}
  /\ \/ phase' = "panicked" /\ UNCHANGED rpos
     \/ rpos' \in (rpos + 1)..maplen[ri] /\ UNCHANGED phase
  /\ UNCHANGED <<procVars, shmVars, queue, sender, fds, maplen, ri, out, sealed, histVars, events>>

\* the iterator is exhausted
Finish ==
  /\ phase = "iter"
  /\ ri = Len(fds) + 1
  /\ phase' = "done"
  /\ UNCHANGED <<procVars, shmVars, queue, sender, fds, maplen, ri, rpos, out, garbled, sealed, histVars, events>>

-------------------------------------------------------------------------------
Thread(p, s) ==
  \/ StartThread(p, s)
  \/ EndThread(p, s)
  \/ Exec(p, s)
  \/ \E q \in Pid : Fork(p, s, q)
  \/ \E a \in Access : Send(p, s, a)
  \/ ShmOpen(p, s)
  \/ ShmUnlink(p, s)
  \/ SendFd(p, s)
  \/ Truncate(p, s)
  \/ WriteData(p, s)
  \/ StoreFlag(p, s)

Target ==
  \/ \E p \in Pid : Exit(p) \/ CloseIpc(p)
  \/ \E p \in Pid, s \in Slot : Thread(p, s)

\* what the spawner does on its own; DropReceiver is its caller's choice
Receiver ==
  \/ RecvFd \/ RecvEof \/ MapNext \/ ReadStop \/ ReadGarbage \/ Finish
  \/ \E a \in Access : ReadRecord(a)

Ended == phase \in {"done", "dropped", "panicked"}

\* everything has stopped
Terminated ==
  /\ \A p \in Pid : ~alive[p]
  /\ ~sender /\ Ended
  /\ UNCHANGED vars

Next == Target \/ DropSender \/ DropReceiver \/ Receiver \/ Terminated

Spec == Init /\ [][Next]_vars

\* spawn_impl drops the sender right after spawn(); the caller awaits
\* accesses_future and drains the iterator.  The target owes nothing.
FairSpec == Spec /\ WF_vars(DropSender) /\ WF_vars(Receiver)

-------------------------------------------------------------------------------
(* Properties *)

OpType     == [pc : Pcs, acc : Access \cup {NoAccess}, first : BOOLEAN, id : Nat,
               new : 0..MaxChunk]
CursorType == [chunk : 0..MaxChunk, pos : 0..Cap]
Record     == [acc : Access, chunk : Chunk]

ProcTypeOK ==
  /\ alive \in [Pid -> BOOLEAN]
  /\ ipc \in [Pid -> BOOLEAN]
  /\ slot \in [Pid -> [Slot -> {"free", "run", "leaked"}]]
  /\ op \in [Pid -> [Slot -> OpType]]
  /\ cursor \in [Pid -> [Slot -> CursorType]]
  /\ shmId \in [Pid -> Nat]

ShmTypeOK ==
  /\ names \subseteq (Pid \X Nat)
  /\ nchunk \in 0..MaxChunk
  /\ size \in [Chunk -> {0, Cap}]
  /\ mem \in [Chunk -> [Offset -> Cell]]

RxTypeOK ==
  /\ phase \in {"recv", "map", "iter", "done", "dropped", "panicked"}
  /\ fds \in Seq(Chunk)
  /\ maplen \in Seq({0, Cap})
  /\ ri \in Nat
  /\ rpos \in Nat
  /\ out \in Seq(Record)
  /\ garbled \subseteq Chunk
  /\ sealed \subseteq Record

HistTypeOK ==
  /\ begun \subseteq Access
  /\ done \subseteq Record
  /\ last \in [Pid -> [Slot -> Access \cup {NoAccess}]]
  /\ prev \in [Access -> Access \cup {NoAccess}]
  /\ orphaned \subseteq Chunk
  /\ aborted \subseteq (Pid \X {"EEXIST", "send_fd", "too big"})

\* Every variable has its type (the state of client/mod.rs and unix/mod.rs).
TypeOK ==
  /\ ProcTypeOK
  /\ ShmTypeOK
  /\ queue \in Seq(Chunk)
  /\ sender \in BOOLEAN
  /\ RxTypeOK
  /\ HistTypeOK
  /\ events \in 0..MaxEvents

\* Thread s of p can still advance within chunk c: the id is or may come into
\* use, and its cursor is not at the end.
MayWrite(p, s, c) ==
  /\ slot[p][s] # "leaked"
  /\ cursor[p][s].chunk = c
  /\ cursor[p][s].pos < Cap \/ op[p][s].pc \in {"write", "flag"}

\* A chunk has one writer, whatever forks, execs, thread exits and reuses of
\* thread_local ids have happened (with_shm_buf takes no lock, so it needs it).
SingleWriter ==
  \A c \in Chunk \ orphaned : \A p, q \in Pid : \A s, t \in Slot :
    MayWrite(p, s, c) /\ MayWrite(q, t, c) => p = q /\ s = t

Boundary(c, o) == o = Cap \/ (o < Cap /\ mem[c][o] \in {Zero, Flag})

\* Wherever a flag is set, a whole record follows and the record after it
\* starts with a flag byte, set or zero: killing, forking or exec'ing a writer
\* at any step of send leaves every chunk readable by iter.
IntactAt(c, o) ==
  mem[c][o] = Flag =>
    \E a \in Access : Decodes(c, o, Cap, a) /\ Boundary(c, o + RecLen(a))
IntactRecords ==
  \A c \in Chunk \ orphaned : Boundary(c, 0) /\ \A o \in Offset : IntactAt(c, o)

\* iter decodes no broken record: its unwrap() cannot panic and it yields no
\* access that nobody made, even while writers that closed the socket go on.
NoGarbage == garbled \subseteq orphaned

\* What the iterator yields was completed by a send, and is yielded once.
ReportedOnce ==
  \A j \in DOMAIN out : out[j].chunk \notin orphaned =>
    /\ out[j] \in done
    /\ \A i \in DOMAIN out : out[i] = out[j] => i = j

\* When the iteration ends, every access whose send completed before the
\* receiver saw end of file has been yielded: no chunk in flight is missed, and
\* no record lies behind a zero flag.
Complete ==
  phase = "done" => \A d \in sealed : d.chunk \notin orphaned =>
                      \E j \in DOMAIN out : out[j] = d

\* The iterator respects program order, across the chunks of a thread, forks
\* and execs: an access is yielded only after the last one completed before its
\* send began in the same thread, in the thread that forked it, or in the image
\* before execve.
CausalOrder ==
  \A j \in DOMAIN out : \A d \in done :
    (out[j].chunk \notin orphaned /\ d.chunk \notin orphaned /\ prev[out[j].acc] = d.acc)
      => \E i \in 1..(j - 1) : out[i] = d

\* A completed record is never written again (iter reads it without a lock
\* while its writer may be alive).
StillThere ==
  \A c \in Chunk \ orphaned' : \A o \in Offset : mem[c][o] = Flag =>
    /\ mem'[c][o] = Flag
    /\ \A a \in Access : Decodes(c, o, Cap, a) => Decodes(c, o, Cap, a)'
NeverOverwritten == [][StillThere]_vars

\* Once no process of the tree holds the socket the accesses are delivered (or
\* the caller has given up): the comment at drop(tokio_command).
EofReached == (\A p \in Pid : ~ipc[p]) ~> Ended

\* reset_shm_atfork's comment: after a fork the next use of an inherited cursor
\* starts a new chunk, so two processes never write into one chunk.
ForkResetsCursor ==
  \A c \in Chunk : \A p, q \in Pid : \A s, t \in Slot :
    /\ slot[p][s] = "run" /\ op[p][s].pc \in {"write", "flag"} /\ cursor[p][s].chunk = c
    /\ slot[q][t] = "run" /\ op[q][t].pc \in {"write", "flag"} /\ cursor[q][t].chunk = c
    => p = q

\* Threads of one process never draw the same name (shm_id.fetch_add): a name that
\* new_shm finds taken is that of an earlier image with the same pid, which ended
\* between shm_open and shm_unlink.
NamesUnique ==
  [][\A p \in Pid : <<p, "EEXIST">> \in aborted' \ aborted =>
       \A s \in Slot : op[p][s].pc = "unlink" => op[p][s].id # shmId[p]]_vars

-------------------------------------------------------------------------------
(* The inductive invariant behind SingleWriter, IntactRecords and NoGarbage *)

Blank(c) == \A o \in Offset : mem[c][o] = Zero

Creating == {"unlink", "send_fd", "truncate"}
Writing  == {"write", "flag"}

\* Threads are inside send only while they run, with an access in hand; a dead
\* process has no thread and no cursor.
ThreadAt(p, s) ==
  /\ op[p][s].pc # "idle" => slot[p][s] = "run" /\ op[p][s].acc \in Access
  /\ op[p][s].pc \in Writing =>
       /\ cursor[p][s].chunk \in Chunk
       /\ RecLen(op[p][s].acc) <= cursor[p][s].pos
  /\ ~alive[p] => slot[p][s] = "free" /\ cursor[p][s] = NoCursor
ThreadInv == \A p \in Pid, s \in Slot : ThreadAt(p, s)

\* A chunk that was not created yet is blank and belongs to nobody; one being
\* created is blank and known to its creator alone.
FreshAt(p, s) ==
  op[p][s].pc \in Creating =>
    /\ op[p][s].new \in 1..nchunk
    /\ Blank(op[p][s].new)
    /\ \A q \in Pid, t \in Slot :
         /\ cursor[q][t].chunk # op[p][s].new
         /\ op[q][t].pc \in Creating /\ op[q][t].new = op[p][s].new => q = p /\ t = s
FreshInv ==
  /\ \A c \in Chunk : c > nchunk => Blank(c)
  /\ \A p \in Pid, s \in Slot : cursor[p][s].chunk <= nchunk
  /\ \A p \in Pid, s \in Slot : FreshAt(p, s)

\* The chunk of a writer is blank from its cursor on; the record being written
\* lies right below it, its flag still zero, its data complete before the flag.
WriterAt(p, s, c) ==
  MayWrite(p, s, c) =>
    /\ \A o \in Offset : o >= cursor[p][s].pos => mem[c][o] = Zero
    /\ op[p][s].pc \in Writing => mem[c][RecStart(p, s)] = Zero
    /\ op[p][s].pc = "write" =>
         \A o \in Offset : o >= RecStart(p, s) => mem[c][o] = Zero
    /\ op[p][s].pc = "flag" => Decodes(c, RecStart(p, s), Cap, op[p][s].acc)
WriterInv == \A p \in Pid, s \in Slot : \A c \in Chunk \ orphaned : WriterAt(p, s, c)

\* r is where some completed record of c ends, or the start of the chunk.
RecordEnd(c, r) ==
  r = 0 \/ \E x \in Offset, a \in Access :
             mem[c][x] = Flag /\ Decodes(c, x, Cap, a) /\ r = x + RecLen(a)

\* The iterator stands at the end of a record it has decoded.
ReaderInv ==
  /\ ri \in Nat \ {0}
  /\ Len(maplen) <= Len(fds)
  /\ phase = "iter" => Len(maplen) = Len(fds)
  /\ phase \in {"recv", "map"} => rpos = 0
  /\ Reading /\ fds[ri] \notin orphaned => RecordEnd(fds[ri], rpos)

\* The inductive invariant of the chunk layout: what Client::send maintains and
\* PathAccessIterable::iter relies on, with no lock between them.
LayoutInv ==
  /\ TypeOK
  /\ ThreadInv
  /\ FreshInv
  /\ SingleWriter
  /\ IntactRecords
  /\ WriterInv
  /\ ReaderInv
  /\ NoGarbage

===============================================================================
