--------------------------- MODULE ShmChannelProofs ---------------------------
(* Proofs about ShmChannel for every number of processes, threads, chunks,    *)
(* accesses and record sizes.                                                 *)
EXTENDS ShmChannel, TLAPS

-------------------------------------------------------------------------------
(* Facts about the operators *)

\* A record takes at least two cells: a flag and some data.
LEMMA RecLenType ==
  ASSUME NEW a \in Access
  PROVE  EncodedSize[a] \in Nat \ {0} /\ RecLen(a) \in Nat /\ RecLen(a) >= 2
                                      /\ RecLen(a) = EncodedSize[a] + 1
BY ConstAssumption DEF RecLen

\* What WriteData and StoreFlag put into a chunk are cells of three distinct kinds.
LEMMA CellType ==
  /\ Zero \in Cell
  /\ Flag \in Cell
  /\ Zero # Flag
  /\ \A a \in Access, i \in 0..Cap :
       Data(a, i) \in Cell /\ Data(a, i) # Zero /\ Data(a, i) # Flag
BY ConstAssumption DEF Zero, Flag, Data, Cell

\* Equal data cells belong to one access.
LEMMA DataInjective ==
  ASSUME NEW a, NEW b, NEW i, NEW j, Data(a, i) = Data(b, j)
  PROVE  a = b /\ i = j
BY DEF Data

\* A thread's place inside send, as new_shm and send set it, has its type.
LEMMA OpTypes ==
  /\ \A l \in Pcs, a \in Access \cup {NoAccess}, f \in BOOLEAN, i \in Nat, n \in 0..MaxChunk :
       At(l, a, f, i, n) \in OpType
  /\ \A o \in OpType, l \in Pcs : [o EXCEPT !.pc = l] \in OpType
  /\ \A a \in Access, f \in BOOLEAN :
       At("open", a, f, 0, 0) \in OpType /\ At("write", a, f, 0, 0) \in OpType
BY ConstAssumption DEF At, OpType, Pcs

\* A thread outside send has a well-typed place.
LEMMA IdleOpType ==
  IdleOp.pc = "idle" /\ IdleOp \in OpType /\ NoCursor \in CursorType
BY ConstAssumption DEF IdleOp, At, NoCursor, Pcs, OpType, CursorType

\* ShmCursor::advance that fits keeps the cursor within the chunk.
LEMMA AdvanceType ==
  ASSUME NEW cur \in CursorType, NEW n \in Nat, Fits(cur, n)
  PROVE  Advance(cur, n) \in CursorType
BY ConstAssumption DEF CursorType, Fits, Advance

\* Updating one thread's entry, or its program counter, keeps the type.
LEMMA Update2 ==
  ASSUME NEW T, NEW f \in [Pid -> [Slot -> T]], NEW p \in Pid, NEW s \in Slot, NEW v \in T
  PROVE  [f EXCEPT ![p][s] = v] \in [Pid -> [Slot -> T]]
OBVIOUS

\* Moving one thread to the next line of new_shm or send keeps the type.
LEMMA UpdatePc ==
  ASSUME op \in [Pid -> [Slot -> OpType]], NEW p \in Pid, NEW s \in Slot, NEW l \in Pcs
  PROVE  [op EXCEPT ![p][s] = [@ EXCEPT !.pc = l]] \in [Pid -> [Slot -> OpType]]
<1>1. op[p][s] \in OpType
  OBVIOUS
<1>2. [op[p][s] EXCEPT !.pc = l] \in OpType
  BY <1>1, OpTypes
<1> QED BY <1>2

\* reset_shm_atfork yields cursors within their chunks.
LEMMA ResetType ==
  ASSUME NEW p \in Pid, NEW s \in Slot, ProcTypeOK
  PROVE  reset_shm_atfork(p, s) \in [Slot -> CursorType]
<1>1. ASSUME NEW t \in Slot PROVE reset_shm_atfork(p, s)[t] \in CursorType
  <2>1. cursor[p][t] \in CursorType /\ cursor[p][s] \in CursorType
    BY DEF ProcTypeOK
  <2>2. [cursor[p][s] EXCEPT !.pos = Cap] \in CursorType
    BY <2>1, ConstAssumption DEF CursorType
  <2> QED BY <2>1, <2>2 DEF reset_shm_atfork
<1> QED BY <1>1 DEF reset_shm_atfork

-------------------------------------------------------------------------------
(* Type correctness *)

\* The state in which spawn_impl starts the root process is well typed.
LEMMA TypeInit == Init => TypeOK
<1> SUFFICES ASSUME Init PROVE TypeOK
  OBVIOUS
<1>1. ProcTypeOK
  BY IdleOpType DEF Init, ProcTypeOK
<1>2. ShmTypeOK
  BY CellType, ConstAssumption DEF Init, ShmTypeOK
<1>3. RxTypeOK
  BY DEF Init, RxTypeOK
<1>4. HistTypeOK
  BY DEF Init, HistTypeOK
<1> QED BY <1>1, <1>2, <1>3, <1>4, ConstAssumption DEF Init, TypeOK

\* unwrap() aborting a process keeps the types of the processes.
LEMMA AbortType ==
  ASSUME HistTypeOK, NEW p \in Pid, NEW why \in {"EEXIST", "send_fd", "too big"},
         Abort(p, why), UNCHANGED <<begun, done, last, prev, orphaned>>
  PROVE  HistTypeOK'
<1>1. <<p, why>> \in Pid \X {"EEXIST", "send_fd", "too big"}
  OBVIOUS
<1>2. aborted' \subseteq Pid \X {"EEXIST", "send_fd", "too big"}
  BY <1>1 DEF Abort, HistTypeOK
<1> QED BY <1>2 DEF HistTypeOK

\* A process that exits or is killed keeps the types of the processes.
LEMMA VanishType ==
  ASSUME ProcTypeOK, NEW p \in Pid, Vanish(p)
  PROVE  ProcTypeOK'
BY IdleOpType DEF Vanish, ProcTypeOK

\* Groups of variables that a step leaves alone keep their types.
LEMMA TypeUnchanged ==
  /\ ProcTypeOK /\ UNCHANGED procVars => ProcTypeOK'
  /\ ShmTypeOK /\ UNCHANGED shmVars => ShmTypeOK'
  /\ RxTypeOK /\ UNCHANGED rxVars => RxTypeOK'
  /\ HistTypeOK /\ UNCHANGED histVars => HistTypeOK'
<1>1. ProcTypeOK /\ UNCHANGED procVars => ProcTypeOK'
  BY DEF ProcTypeOK, procVars
<1>2. ShmTypeOK /\ UNCHANGED shmVars => ShmTypeOK'
  BY DEF ShmTypeOK, shmVars
<1>3. RxTypeOK /\ UNCHANGED rxVars => RxTypeOK'
  BY DEF RxTypeOK, rxVars
<1>4. HistTypeOK /\ UNCHANGED histVars => HistTypeOK'
  BY DEF HistTypeOK, histVars
<1> QED BY <1>1, <1>2, <1>3, <1>4

\* new_shm works on a chunk that exists.
LEMMA NewIsChunk ==
  ASSUME FreshInv, ShmTypeOK, NEW p \in Pid, NEW s \in Slot, op[p][s].pc \in Creating
  PROVE  op[p][s].new \in Chunk /\ op[p][s].new \in 1..nchunk
BY ConstAssumption DEF FreshInv, FreshAt, ShmTypeOK, Chunk

\* Each step of the target and of the spawner keeps every type.
LEMMA TypeStep == LayoutInv /\ [Next]_vars => TypeOK'
<1> SUFFICES ASSUME LayoutInv, [Next]_vars PROVE TypeOK'
  OBVIOUS
<1>t. TypeOK /\ ProcTypeOK /\ ShmTypeOK /\ RxTypeOK /\ HistTypeOK
  BY DEF LayoutInv, TypeOK
<1>a. ThreadInv /\ FreshInv /\ ReaderInv
  BY DEF LayoutInv
<1>1. ASSUME NEW p \in Pid, Exit(p) PROVE TypeOK'
  BY <1>1, <1>t, VanishType, TypeUnchanged DEF TypeOK, Exit
<1>2. ASSUME NEW p \in Pid, CloseIpc(p) PROVE TypeOK'
  <2>1. ProcTypeOK'
    BY <1>2, <1>t DEF ProcTypeOK, CloseIpc
  <2> QED BY <1>2, <2>1, <1>t, TypeUnchanged, ConstAssumption DEF TypeOK, CloseIpc, Event
<1>3. ASSUME NEW p \in Pid, NEW s \in Slot, StartThread(p, s) PROVE TypeOK'
  <2>1. ProcTypeOK'
    BY <1>3, <1>t DEF ProcTypeOK, StartThread
  <2> QED BY <1>3, <2>1, <1>t, TypeUnchanged DEF TypeOK, StartThread
<1>4. ASSUME NEW p \in Pid, NEW s \in Slot, EndThread(p, s) PROVE TypeOK'
  <2>1. ProcTypeOK'
    BY <1>4, <1>t DEF ProcTypeOK, EndThread
  <2> QED BY <1>4, <2>1, <1>t, TypeUnchanged, ConstAssumption DEF TypeOK, EndThread, Event
<1>5. ASSUME NEW p \in Pid, NEW s \in Slot, Exec(p, s) PROVE TypeOK'
  <2>1. ProcTypeOK'
    BY <1>5, <1>t, IdleOpType DEF ProcTypeOK, Exec
  <2>2. HistTypeOK'
    BY <1>5, <1>t DEF HistTypeOK, Exec
  <2> QED BY <1>5, <2>1, <2>2, <1>t, TypeUnchanged, ConstAssumption DEF TypeOK, Exec, Event
<1>6. ASSUME NEW p \in Pid, NEW s \in Slot, NEW q \in Pid, Fork(p, s, q) PROVE TypeOK'
  <2>1. reset_shm_atfork(p, s) \in [Slot -> CursorType]
    BY <1>t, ResetType
  <2>2. ProcTypeOK'
    BY <1>6, <2>1, <1>t, IdleOpType DEF ProcTypeOK, Fork
  <2>3. HistTypeOK'
    BY <1>6, <1>t DEF HistTypeOK, Fork, Orphans
  <2> QED BY <1>6, <2>2, <2>3, <1>t, TypeUnchanged, ConstAssumption DEF TypeOK, Fork, Event
<1>7. ASSUME NEW p \in Pid, NEW s \in Slot, NEW a \in Access, Send(p, s, a) PROVE TypeOK'
  <2>1. cursor' \in [Pid -> [Slot -> CursorType]]
    <3>1. CASE cursor[p][s].chunk # 0 /\ Fits(cursor[p][s], RecLen(a))
      <4>1. Advance(cursor[p][s], RecLen(a)) \in CursorType
        BY <3>1, <1>t, RecLenType, AdvanceType DEF ProcTypeOK
      <4>2. cursor' = [cursor EXCEPT ![p][s] = Advance(cursor[p][s], RecLen(a))]
        BY <1>7, <3>1 DEF Send
      <4> QED BY <4>1, <4>2, <1>t, Update2 DEF ProcTypeOK
    <3>2. CASE ~(cursor[p][s].chunk # 0 /\ Fits(cursor[p][s], RecLen(a)))
      BY <1>7, <3>2, <1>t DEF ProcTypeOK, Send
    <3> QED BY <3>1, <3>2
  <2>2. op' \in [Pid -> [Slot -> OpType]]
    <3>1. /\ At("open", a, TRUE, 0, 0) \in OpType
          /\ At("open", a, FALSE, 0, 0) \in OpType
          /\ At("write", a, FALSE, 0, 0) \in OpType
      BY OpTypes
    <3>2. \E o \in OpType : op' = [op EXCEPT ![p][s] = o]
      BY <1>7, <3>1 DEF Send
    <3> QED BY <3>2, <1>t, Update2 DEF ProcTypeOK
  <2>3. ProcTypeOK'
    BY <1>7, <2>1, <2>2, <1>t DEF ProcTypeOK, Send
  <2>4. HistTypeOK'
    BY <1>7, <1>t DEF HistTypeOK, Send
  <2> QED BY <1>7, <2>3, <2>4, <1>t, TypeUnchanged DEF TypeOK, Send
<1>8. ASSUME NEW p \in Pid, NEW s \in Slot, ShmOpen(p, s) PROVE TypeOK'
  <2>1. CASE <<p, shmId[p]>> \notin names
    <3>1. nchunk + 1 \in 0..MaxChunk
      BY <1>8, <2>1, <1>t, ConstAssumption DEF ShmOpen, ShmTypeOK
    <3>2. op' \in [Pid -> [Slot -> OpType]]
      <4>1. op[p][s].acc \in Access \cup {NoAccess} /\ op[p][s].first \in BOOLEAN
        BY <1>t DEF ProcTypeOK, OpType
      <4>2. At("unlink", op[p][s].acc, op[p][s].first, shmId[p], nchunk + 1) \in OpType
        BY <3>1, <4>1, <1>t, OpTypes DEF ProcTypeOK, Pcs
      <4>3. \E o \in OpType : op' = [op EXCEPT ![p][s] = o]
        BY <1>8, <2>1, <4>2 DEF ShmOpen
      <4> QED BY <4>3, <1>t, Update2 DEF ProcTypeOK
    <3>3. ProcTypeOK'
      <4>1. shmId' = [shmId EXCEPT ![p] = shmId[p] + 1] /\ UNCHANGED <<alive, ipc, slot, cursor>>
        BY <1>8, <2>1 DEF ShmOpen
      <4> QED BY <4>1, <3>2, <1>t DEF ProcTypeOK
    <3>4. ShmTypeOK'
      BY <1>8, <2>1, <3>1, <1>t DEF ShmOpen, ProcTypeOK, ShmTypeOK
    <3>5. HistTypeOK'
      BY <1>8, <2>1, <1>t DEF ShmOpen, HistTypeOK
    <3> QED BY <1>8, <3>3, <3>4, <3>5, <1>t, TypeUnchanged DEF TypeOK, ShmOpen
  <2>2. CASE <<p, shmId[p]>> \in names
    <3>1. ProcTypeOK'
      BY <1>8, <2>2, <1>t, VanishType DEF ShmOpen, Abort
    <3>2. HistTypeOK'
      BY <1>8, <2>2, <1>t, AbortType DEF ShmOpen
    <3>3. ShmTypeOK'
      BY <1>8, <2>2, <1>t DEF ShmOpen, ShmTypeOK
    <3> QED BY <1>8, <3>1, <3>2, <3>3, <1>t, TypeUnchanged DEF TypeOK, ShmOpen
  <2> QED BY <2>1, <2>2
<1>9. ASSUME NEW p \in Pid, NEW s \in Slot, ShmUnlink(p, s) PROVE TypeOK'
  <2>1. ProcTypeOK'
    BY <1>9, <1>t, UpdatePc DEF ShmUnlink, ProcTypeOK, Pcs
  <2>2. ShmTypeOK'
    BY <1>9, <1>t DEF ShmUnlink, ShmTypeOK
  <2> QED BY <1>9, <2>1, <2>2, <1>t, TypeUnchanged DEF TypeOK, ShmUnlink
<1>10. ASSUME NEW p \in Pid, NEW s \in Slot, SendFd(p, s) PROVE TypeOK'
  <2>1. CASE ipc[p] /\ phase = "recv"
    <3>1. op[p][s].new \in Chunk
      BY <1>10, <1>a, <1>t, ConstAssumption DEF SendFd, FreshInv, FreshAt, Creating, ShmTypeOK, Chunk
    <3>2. queue' \in Seq(Chunk)
      BY <1>10, <2>1, <3>1, <1>t DEF SendFd, TypeOK
    <3>3. ProcTypeOK'
      <4>1. op' = [op EXCEPT ![p][s] = [@ EXCEPT !.pc = "truncate"]] /\ UNCHANGED <<alive, ipc, slot, cursor, shmId>>
        BY <1>10, <2>1 DEF SendFd
      <4>2. "truncate" \in Pcs
        BY DEF Pcs
      <4> QED BY <4>1, <4>2, <1>t, UpdatePc DEF ProcTypeOK
    <3>4. HistTypeOK'
      BY <1>10, <2>1, <1>t DEF SendFd, HistTypeOK
    <3> QED BY <1>10, <3>2, <3>3, <3>4, <1>t, TypeUnchanged DEF SendFd, TypeOK
  <2>2. CASE ~(ipc[p] /\ phase = "recv")
    <3>1. ProcTypeOK'
      BY <1>10, <2>2, <1>t, VanishType DEF SendFd, Abort
    <3>2. HistTypeOK'
      BY <1>10, <2>2, <1>t, AbortType DEF SendFd
    <3> QED BY <1>10, <2>2, <3>1, <3>2, <1>t, TypeUnchanged DEF TypeOK, SendFd
  <2> QED BY <2>1, <2>2
<1>11. ASSUME NEW p \in Pid, NEW s \in Slot, Truncate(p, s) PROVE TypeOK'
  <2> DEFINE o == op[p][s]
             cur == [chunk |-> o.new, pos |-> 0]
  <2>1. o.new \in Chunk /\ o.acc \in Access
    <3>1. o.pc = "truncate"
      BY <1>11 DEF Truncate
    <3>2. o.new \in 1..nchunk
      BY <3>1, <1>a DEF FreshInv, FreshAt, Creating
    <3>3. o.acc \in Access
      BY <3>1, <1>a DEF ThreadInv, ThreadAt
    <3> QED BY <3>2, <3>3, <1>t, ConstAssumption DEF ShmTypeOK, Chunk
  <2>2. ShmTypeOK'
    BY <1>11, <2>1, <1>t DEF Truncate, ShmTypeOK
  <2>3. cur \in CursorType
    BY <2>1, ConstAssumption DEF CursorType, Chunk
  <2>4. CASE Fits(cur, RecLen(o.acc))
    <3>1. Advance(cur, RecLen(o.acc)) \in CursorType
      BY <2>1, <2>3, <2>4, RecLenType, AdvanceType
    <3>2. At("write", o.acc, FALSE, 0, 0) \in OpType
      BY <2>1, OpTypes
    <3>3. ProcTypeOK'
      <4>1. /\ cursor' = [cursor EXCEPT ![p][s] = Advance(cur, RecLen(o.acc))]
            /\ op' = [op EXCEPT ![p][s] = At("write", o.acc, FALSE, 0, 0)]
            /\ UNCHANGED <<alive, ipc, slot, shmId>>
        BY <1>11, <2>4 DEF Truncate
      <4> QED BY <4>1, <3>1, <3>2, <1>t, Update2 DEF ProcTypeOK
    <3>4. HistTypeOK'
      BY <1>11, <2>4, <1>t DEF Truncate, HistTypeOK
    <3> QED BY <1>11, <2>2, <3>3, <3>4, <1>t, TypeUnchanged DEF Truncate, TypeOK
  <2>5. CASE ~Fits(cur, RecLen(o.acc)) /\ o.first
    <3>1. At("open", o.acc, FALSE, 0, 0) \in OpType
      BY <2>1, OpTypes
    <3>2. ProcTypeOK'
      <4>1. /\ cursor' = [cursor EXCEPT ![p][s] = cur]
            /\ op' = [op EXCEPT ![p][s] = At("open", o.acc, FALSE, 0, 0)]
            /\ UNCHANGED <<alive, ipc, slot, shmId>>
        BY <1>11, <2>5 DEF Truncate
      <4> QED BY <4>1, <2>3, <3>1, <1>t, Update2 DEF ProcTypeOK
    <3>3. HistTypeOK'
      BY <1>11, <2>5, <1>t DEF Truncate, HistTypeOK
    <3> QED BY <1>11, <2>2, <3>2, <3>3, <1>t, TypeUnchanged DEF Truncate, TypeOK
  <2>6. CASE ~Fits(cur, RecLen(o.acc)) /\ ~o.first
    <3>1. ProcTypeOK'
      BY <1>11, <2>6, <1>t, VanishType DEF Truncate, Abort
    <3>2. HistTypeOK'
      BY <1>11, <2>6, <1>t, AbortType DEF Truncate
    <3> QED BY <1>11, <2>2, <3>1, <3>2, <1>t, TypeUnchanged DEF TypeOK, Truncate
  <2> QED BY <2>4, <2>5, <2>6
<1>12. ASSUME NEW p \in Pid, NEW s \in Slot, WriteData(p, s) PROVE TypeOK'
  <2>1. /\ op[p][s].acc \in Access /\ cursor[p][s].chunk \in Chunk
        /\ cursor[p][s].pos \in 0..Cap
        /\ RecLen(op[p][s].acc) <= cursor[p][s].pos
    BY <1>12, <1>a, <1>t DEF WriteData, ThreadInv, ThreadAt, Writing, ProcTypeOK, CursorType
  <2>2. mem' \in [Chunk -> [Offset -> Cell]]
    <3> DEFINE c == cursor[p][s].chunk
               b == RecStart(p, s)
               a == op[p][s].acc
               m == [o \in Offset |->
                       IF b < o /\ o < cursor[p][s].pos THEN Data(a, o - b) ELSE mem[c][o]]
    <3>1. mem' = [mem EXCEPT ![c] = m]
      BY <1>12 DEF WriteData
    <3>2. b \in Nat /\ Cap \in Nat
      BY <2>1, RecLenType, ConstAssumption DEF RecStart
    <3>3. ASSUME NEW o \in Offset PROVE m[o] \in Cell
      <4>1. mem[c][o] \in Cell
        BY <2>1, <1>t DEF ShmTypeOK
      <4>2. b < o => o - b \in 0..Cap
        BY <3>2 DEF Offset
      <4> QED BY <4>1, <4>2, <2>1, CellType
    <3>4. m \in [Offset -> Cell]
      BY <3>3
    <3> QED BY <3>1, <3>4, <1>t DEF ShmTypeOK
  <2>3. ProcTypeOK'
    BY <1>12, <1>t, UpdatePc DEF WriteData, ProcTypeOK, Pcs
  <2>4. ShmTypeOK'
    BY <1>12, <2>2, <1>t DEF WriteData, ShmTypeOK
  <2> QED BY <1>12, <2>3, <2>4, <1>t, TypeUnchanged DEF TypeOK, WriteData
<1>13. ASSUME NEW p \in Pid, NEW s \in Slot, StoreFlag(p, s) PROVE TypeOK'
  <2>1. op[p][s].acc \in Access /\ cursor[p][s].chunk \in Chunk
    BY <1>13, <1>a DEF StoreFlag, ThreadInv, ThreadAt, Writing
  <2>2. ShmTypeOK'
    BY <1>13, <1>t, CellType DEF StoreFlag, ShmTypeOK
  <2>3. ProcTypeOK'
    BY <1>13, <1>t, IdleOpType, Update2 DEF StoreFlag, ProcTypeOK
  <2>4. HistTypeOK'
    <3>1. [acc |-> op[p][s].acc, chunk |-> cursor[p][s].chunk] \in Record
      BY <2>1 DEF Record
    <3>2. /\ done' = done \cup {[acc |-> op[p][s].acc, chunk |-> cursor[p][s].chunk]}
          /\ last' = [last EXCEPT ![p][s] = op[p][s].acc]
          /\ UNCHANGED <<begun, prev, orphaned, aborted>>
      BY <1>13 DEF StoreFlag
    <3> QED BY <3>1, <3>2, <2>1, <1>t, Update2 DEF HistTypeOK
  <2> QED BY <1>13, <2>2, <2>3, <2>4, <1>t, TypeUnchanged DEF TypeOK, StoreFlag
<1>14. CASE DropSender
  BY <1>14, <1>t, TypeUnchanged DEF TypeOK, DropSender
<1>15. CASE DropReceiver
  <2>1. RxTypeOK'
    BY <1>15, <1>t DEF RxTypeOK, DropReceiver
  <2> QED BY <1>15, <2>1, <1>t, TypeUnchanged, ConstAssumption DEF TypeOK, DropReceiver, Event
<1>16. CASE RecvFd
  <2>1. Head(queue) \in Chunk /\ Tail(queue) \in Seq(Chunk)
    BY <1>16, <1>t, TypeUnchanged DEF TypeOK, RecvFd
  <2>2. RxTypeOK'
    BY <1>16, <2>1, <1>t DEF RxTypeOK, RecvFd
  <2> QED BY <1>16, <2>1, <2>2, <1>t, TypeUnchanged DEF TypeOK, RecvFd
<1>17. CASE RecvEof
  <2>1. RxTypeOK'
    BY <1>17, <1>t DEF RxTypeOK, HistTypeOK, RecvEof
  <2> QED BY <1>17, <2>1, <1>t, TypeUnchanged DEF TypeOK, RecvEof
<1>18. CASE MapNext
  <2>1. RxTypeOK'
    <3>1. CASE Len(maplen) < Len(fds)
      <4>1. fds[Len(maplen) + 1] \in Chunk
        BY <3>1, <1>t DEF RxTypeOK
      <4>2. size[fds[Len(maplen) + 1]] \in {0, Cap}
        BY <4>1, <1>t DEF ShmTypeOK
      <4>3. /\ maplen' = Append(maplen, size[fds[Len(maplen) + 1]])
            /\ UNCHANGED <<phase, fds, ri, rpos, out, garbled, sealed>>
        BY <1>18, <3>1, <1>t DEF MapNext, RxTypeOK
      <4> QED BY <4>2, <4>3, <1>t DEF RxTypeOK
    <3>2. CASE Len(maplen) = Len(fds)
      BY <1>18, <3>2, <1>t DEF RxTypeOK, MapNext
    <3> QED BY <1>18, <3>1, <3>2 DEF MapNext
  <2> QED BY <1>18, <2>1, <1>t, TypeUnchanged DEF TypeOK, MapNext
<1>19. ASSUME NEW a \in Access, ReadRecord(a) PROVE TypeOK'
  <2>1. fds[ri] \in Chunk
    BY <1>19, <1>t, <1>a DEF RxTypeOK, ReaderInv, ReadRecord, Reading
  <2>2. RxTypeOK'
    BY <1>19, <2>1, <1>t, RecLenType DEF RxTypeOK, ReadRecord, Record
  <2> QED BY <1>19, <2>2, <1>t, TypeUnchanged DEF TypeOK, ReadRecord
<1>20. CASE ReadStop
  <2>1. RxTypeOK'
    BY <1>20, <1>t DEF RxTypeOK, ReadStop
  <2> QED BY <1>20, <2>1, <1>t, TypeUnchanged DEF TypeOK, ReadStop
<1>21. CASE ReadGarbage
  <2>1. fds[ri] \in Chunk /\ maplen[ri] \in {0, Cap}
    BY <1>21, <1>t, <1>a DEF RxTypeOK, ReaderInv, ReadGarbage, Reading
  <2>2. RxTypeOK'
    BY <1>21, <2>1, <1>t, ConstAssumption DEF RxTypeOK, ReadGarbage
  <2> QED BY <1>21, <2>2, <1>t, TypeUnchanged DEF TypeOK, ReadGarbage
<1>22. CASE Finish
  <2>1. RxTypeOK'
    BY <1>22, <1>t DEF RxTypeOK, Finish
  <2> QED BY <1>22, <2>1, <1>t, TypeUnchanged DEF TypeOK, Finish
<1>23. CASE UNCHANGED vars
  BY <1>23, <1>t, TypeUnchanged DEF TypeOK, vars
<1> QED
  BY <1>1, <1>2, <1>3, <1>4, <1>5, <1>6, <1>7, <1>8, <1>9, <1>10, <1>11, <1>12, <1>13,
     <1>14, <1>15, <1>16, <1>17, <1>18, <1>19, <1>20, <1>21, <1>22, <1>23
     DEF Next, Target, Thread, Receiver, Terminated

-------------------------------------------------------------------------------
(* Threads *)

\* After exit, kill or abort a process has no thread and no cursor, and the
\* other processes are as before.
LEMMA VanishFields ==
  ASSUME ProcTypeOK, NEW p \in Pid, Vanish(p), NEW q \in Pid, NEW t \in Slot
  PROVE  /\ q # p => /\ op'[q][t] = op[q][t]
                     /\ cursor'[q][t] = cursor[q][t]
                     /\ slot'[q][t] = slot[q][t]
                     /\ alive'[q] = alive[q]
         /\ q = p => /\ op'[q][t] = IdleOp
                     /\ cursor'[q][t] = NoCursor
                     /\ slot'[q][t] = "free"
                     /\ alive'[q] = FALSE
BY DEF Vanish, ProcTypeOK

\* The death of a process keeps what is said of threads.
LEMMA ThreadVanish ==
  ASSUME ProcTypeOK, ThreadInv, NEW p \in Pid, Vanish(p)
  PROVE  ThreadInv'
<1> SUFFICES ASSUME NEW q \in Pid, NEW t \in Slot PROVE ThreadAt(q, t)'
  BY DEF ThreadInv
<1>1. ThreadAt(q, t)
  BY DEF ThreadInv
<1>2. CASE q = p
  <2>1. op'[q][t].pc = "idle" /\ slot'[q][t] = "free" /\ cursor'[q][t] = NoCursor
    BY <1>2, VanishFields, IdleOpType
  <2> QED BY <2>1 DEF ThreadAt, Writing
<1>3. CASE q # p
  <2>1. /\ op'[q][t] = op[q][t] /\ cursor'[q][t] = cursor[q][t]
        /\ slot'[q][t] = slot[q][t] /\ alive'[q] = alive[q]
    BY <1>3, VanishFields
  <2> QED BY <1>1, <2>1 DEF ThreadAt
<1> QED BY <1>2, <1>3

\* Steps that leave the target's threads alone keep what is said of them.
LEMMA ThreadUnchanged ==
  ThreadInv /\ UNCHANGED <<alive, slot, op, cursor>> => ThreadInv'
BY DEF ThreadInv, ThreadAt

\* One thread moves, the others stay.
LEMMA ThreadMoves ==
  ASSUME ProcTypeOK, ThreadInv, NEW p \in Pid, NEW s \in Slot, NEW o, NEW cur,
         op' = [op EXCEPT ![p][s] = o], cursor' = [cursor EXCEPT ![p][s] = cur],
         UNCHANGED <<alive, slot>>,
         slot[p][s] = "run", o.acc \in Access,
         o.pc \in Writing => cur.chunk \in Chunk /\ RecLen(o.acc) <= cur.pos
  PROVE  ThreadInv'
<1> SUFFICES ASSUME NEW q \in Pid, NEW t \in Slot PROVE ThreadAt(q, t)'
  BY DEF ThreadInv
<1>1. ThreadAt(q, t) /\ ThreadAt(p, s)
  BY DEF ThreadInv
<1>2. CASE q = p /\ t = s
  <2>1. op'[q][t] = o /\ cursor'[q][t] = cur /\ slot'[q][t] = "run"
    BY <1>2 DEF ProcTypeOK
  <2>2. alive'[q] = TRUE
    BY <1>1, <1>2 DEF ThreadAt, ProcTypeOK
  <2> QED BY <2>1, <2>2 DEF ThreadAt
<1>3. CASE ~(q = p /\ t = s)
  <2>1. op'[q][t] = op[q][t] /\ cursor'[q][t] = cursor[q][t]
    BY <1>3 DEF ProcTypeOK
  <2> QED BY <1>1, <2>1 DEF ThreadAt
<1> QED BY <1>2, <1>3

\* Each step keeps threads inside send running, with room taken for the record
\* they write.
LEMMA ThreadStep == LayoutInv /\ [Next]_vars => ThreadInv'
<1> SUFFICES ASSUME LayoutInv, [Next]_vars PROVE ThreadInv'
  OBVIOUS
<1>t. ProcTypeOK /\ ShmTypeOK /\ ThreadInv /\ FreshInv
  BY DEF LayoutInv, TypeOK
<1>1. ASSUME NEW p \in Pid, Exit(p) PROVE ThreadInv'
  BY <1>1, <1>t, ThreadVanish DEF Exit
<1>2. ASSUME NEW p \in Pid, CloseIpc(p) PROVE ThreadInv'
  BY <1>2, <1>t, ThreadUnchanged DEF CloseIpc
<1>3. ASSUME NEW p \in Pid, NEW s \in Slot, StartThread(p, s) PROVE ThreadInv'
  BY <1>3, <1>t DEF StartThread, ThreadInv, ThreadAt, ProcTypeOK
<1>4. ASSUME NEW p \in Pid, NEW s \in Slot, EndThread(p, s) PROVE ThreadInv'
  BY <1>4, <1>t, IdleOpType DEF EndThread, ThreadInv, ThreadAt, ProcTypeOK
<1>5. ASSUME NEW p \in Pid, NEW s \in Slot, Exec(p, s) PROVE ThreadInv'
  BY <1>5, <1>t, IdleOpType DEF Exec, ThreadInv, ThreadAt, ProcTypeOK, Writing
<1>6. ASSUME NEW p \in Pid, NEW s \in Slot, NEW q \in Pid, Fork(p, s, q) PROVE ThreadInv'
  BY <1>6, <1>t, IdleOpType DEF Fork, ThreadInv, ThreadAt, ProcTypeOK, Writing
<1>7. ASSUME NEW p \in Pid, NEW s \in Slot, NEW a \in Access, Send(p, s, a) PROVE ThreadInv'
  <2>1. slot[p][s] = "run" /\ UNCHANGED <<alive, slot>>
    BY <1>7 DEF Send
  <2>2. cursor = [cursor EXCEPT ![p][s] = cursor[p][s]]
    BY <1>t DEF ProcTypeOK
  <2>3. cursor[p][s].chunk \in 0..MaxChunk /\ cursor[p][s].pos \in 0..Cap
    BY <1>t DEF ProcTypeOK, CursorType
  <2>4. CASE cursor[p][s].chunk # 0 /\ Fits(cursor[p][s], RecLen(a))
    <3> DEFINE cur == Advance(cursor[p][s], RecLen(a))
    <3>1. /\ op' = [op EXCEPT ![p][s] = At("write", a, FALSE, 0, 0)]
          /\ cursor' = [cursor EXCEPT ![p][s] = cur]
      BY <1>7, <2>4 DEF Send
    <3>2. cur.chunk = cursor[p][s].chunk /\ cur.pos = cursor[p][s].pos + RecLen(a)
      BY <1>t DEF Advance, ProcTypeOK, CursorType
    <3>3. cur.chunk \in Chunk /\ RecLen(a) <= cur.pos
      BY <2>3, <2>4, <3>2, RecLenType DEF Chunk
    <3>4. At("write", a, FALSE, 0, 0).acc = a
      BY DEF At
    <3> HIDE DEF cur
    <3> QED BY <2>1, <3>1, <3>3, <3>4, <1>t, ThreadMoves
  <2>5. CASE ~(cursor[p][s].chunk # 0 /\ Fits(cursor[p][s], RecLen(a)))
    <3>1. PICK f \in BOOLEAN : op' = [op EXCEPT ![p][s] = At("open", a, f, 0, 0)]
      BY <1>7, <2>5 DEF Send
    <3>2. cursor' = cursor
      BY <1>7, <2>5 DEF Send
    <3>3. At("open", a, f, 0, 0).acc = a /\ At("open", a, f, 0, 0).pc \notin Writing
      BY DEF At, Writing
    <3> QED BY <2>1, <2>2, <3>1, <3>2, <3>3, <1>t, ThreadMoves
  <2> QED BY <2>4, <2>5
<1>8. ASSUME NEW p \in Pid, NEW s \in Slot, ShmOpen(p, s) PROVE ThreadInv'
  <2>1. CASE <<p, shmId[p]>> \notin names
    <3> DEFINE o == At("unlink", op[p][s].acc, op[p][s].first, shmId[p], nchunk + 1)
    <3>1. op[p][s].pc = "open" /\ op' = [op EXCEPT ![p][s] = o] /\ UNCHANGED <<alive, slot, cursor>>
      BY <1>8, <2>1 DEF ShmOpen
    <3>2. cursor' = [cursor EXCEPT ![p][s] = cursor[p][s]]
      BY <3>1, <1>t DEF ProcTypeOK
    <3>3. slot[p][s] = "run" /\ op[p][s].acc \in Access
      BY <3>1, <1>t DEF ThreadInv, ThreadAt
    <3>4. o.acc = op[p][s].acc /\ o.pc \notin Writing
      BY DEF At, Writing
    <3> HIDE DEF o
    <3> QED BY <3>1, <3>2, <3>3, <3>4, <1>t, ThreadMoves
  <2>2. CASE <<p, shmId[p]>> \in names
    BY <1>8, <2>2, <1>t, ThreadVanish DEF ShmOpen, Abort
  <2> QED BY <2>1, <2>2
<1>9. ASSUME NEW p \in Pid, NEW s \in Slot, ShmUnlink(p, s) PROVE ThreadInv'
  BY <1>9, <1>t DEF ShmUnlink, ThreadInv, ThreadAt, ProcTypeOK, OpType, Writing
<1>10. ASSUME NEW p \in Pid, NEW s \in Slot, SendFd(p, s) PROVE ThreadInv'
  <2>1. CASE ipc[p] /\ phase = "recv"
    <3>1. /\ op[p][s].pc = "send_fd" /\ op' = [op EXCEPT ![p][s] = [@ EXCEPT !.pc = "truncate"]]
          /\ UNCHANGED <<alive, slot, cursor>>
      BY <1>10, <2>1 DEF SendFd
    <3> QED BY <3>1, <1>t DEF ThreadInv, ThreadAt, ProcTypeOK, OpType, Writing
  <2>2. CASE ~(ipc[p] /\ phase = "recv")
    BY <1>10, <2>2, <1>t, ThreadVanish DEF SendFd, Abort
  <2> QED BY <2>1, <2>2
<1>11. ASSUME NEW p \in Pid, NEW s \in Slot, Truncate(p, s) PROVE ThreadInv'
  <2> DEFINE o == op[p][s]
             cur == [chunk |-> o.new, pos |-> 0]
  <2>1. o.pc = "truncate"
    BY <1>11 DEF Truncate
  <2>2. o.new \in Chunk /\ o.acc \in Access /\ slot[p][s] = "run"
    BY <2>1, <1>t, NewIsChunk DEF ThreadInv, ThreadAt, Creating
  <2>3. CASE Fits(cur, RecLen(o.acc))
    <3> DEFINE nxt == Advance(cur, RecLen(o.acc))
    <3>1. /\ op' = [op EXCEPT ![p][s] = At("write", o.acc, FALSE, 0, 0)]
          /\ cursor' = [cursor EXCEPT ![p][s] = nxt]
          /\ UNCHANGED <<alive, slot>>
      BY <1>11, <2>3 DEF Truncate
    <3>2. nxt.chunk = o.new /\ nxt.pos = RecLen(o.acc)
      BY <2>2, RecLenType DEF Advance
    <3>3. At("write", o.acc, FALSE, 0, 0).acc = o.acc /\ RecLen(o.acc) <= nxt.pos
      BY <2>2, <3>2, RecLenType DEF At
    <3> HIDE DEF nxt
    <3> QED BY <2>2, <3>1, <3>2, <3>3, <1>t, ThreadMoves
  <2>4. CASE ~Fits(cur, RecLen(o.acc)) /\ o.first
    <3>1. /\ op' = [op EXCEPT ![p][s] = At("open", o.acc, FALSE, 0, 0)]
          /\ cursor' = [cursor EXCEPT ![p][s] = cur]
          /\ UNCHANGED <<alive, slot>>
      BY <1>11, <2>4 DEF Truncate
    <3>2. /\ At("open", o.acc, FALSE, 0, 0).acc = o.acc
          /\ At("open", o.acc, FALSE, 0, 0).pc \notin Writing
      BY DEF At, Writing
    <3> HIDE DEF cur
    <3> QED BY <2>2, <3>1, <3>2, <1>t, ThreadMoves
  <2>5. CASE ~Fits(cur, RecLen(o.acc)) /\ ~o.first
    BY <1>11, <2>5, <1>t, ThreadVanish DEF Truncate, Abort
  <2> QED BY <2>3, <2>4, <2>5
<1>12. ASSUME NEW p \in Pid, NEW s \in Slot, WriteData(p, s) PROVE ThreadInv'
  BY <1>12, <1>t DEF WriteData, ThreadInv, ThreadAt, ProcTypeOK, OpType, Writing
<1>13. ASSUME NEW p \in Pid, NEW s \in Slot, StoreFlag(p, s) PROVE ThreadInv'
  BY <1>13, <1>t, IdleOpType DEF StoreFlag, ThreadInv, ThreadAt, ProcTypeOK, Writing
<1>14. CASE UNCHANGED <<alive, slot, op, cursor>>
  BY <1>14, <1>t, ThreadUnchanged
<1>15. (\/ DropSender \/ DropReceiver \/ Receiver \/ UNCHANGED vars)
         => UNCHANGED <<alive, slot, op, cursor>>
  BY DEF DropSender, DropReceiver, Receiver, RecvFd, RecvEof, MapNext, ReadRecord, ReadStop,
         ReadGarbage, Finish, procVars, vars
<1> QED
  BY <1>1, <1>2, <1>3, <1>4, <1>5, <1>6, <1>7, <1>8, <1>9, <1>10, <1>11, <1>12, <1>13,
     <1>14, <1>15 DEF Next, Target, Thread, Terminated

-------------------------------------------------------------------------------
(* Chunks: the four invariants that concern their contents and their writers *)

Core == FreshInv /\ SingleWriter /\ IntactRecords /\ WriterInv

\* What a thread may do without touching the contents of a chunk: it takes over
\* no new chunk, and where it may write afterwards it could write before.
Quiet(q, t) ==
  /\ cursor'[q][t].chunk = 0 \/ \E r \in Pid, u \in Slot : cursor'[q][t].chunk = cursor[r][u].chunk
  /\ op'[q][t].pc \in Creating => op[q][t].pc \in Creating /\ op'[q][t].new = op[q][t].new
  /\ \A c \in Chunk \ orphaned' : MayWrite(q, t, c)' => MayWrite(q, t, c) /\ WriterAt(q, t, c)'

Same(q, t) ==
  /\ op'[q][t] = op[q][t]
  /\ cursor'[q][t] = cursor[q][t]
  /\ slot'[q][t] = "leaked" <=> slot[q][t] = "leaked"

\* A thread that does not move is quiet.
LEMMA SameQuiet ==
  ASSUME Core, NEW q \in Pid, NEW t \in Slot, Same(q, t), UNCHANGED mem, orphaned \subseteq orphaned'
  PROVE  Quiet(q, t)
<1>1. ASSUME NEW c \in Chunk \ orphaned', MayWrite(q, t, c)'
      PROVE  MayWrite(q, t, c) /\ WriterAt(q, t, c)'
  <2>1. MayWrite(q, t, c)
    BY <1>1 DEF Same, MayWrite
  <2>2. WriterAt(q, t, c)
    BY DEF Core, WriterInv
  <2> QED BY <2>1, <2>2 DEF Same, WriterAt, RecStart, Decodes
<1> QED BY <1>1 DEF Quiet, Same

\* A step that is quiet for every thread and writes into no chunk keeps the
\* layout of the chunks (thread starts, exits, forks, execs and kills).
LEMMA QuietStep ==
  ASSUME ShmTypeOK, Core, UNCHANGED <<mem, nchunk>>, orphaned \subseteq orphaned',
         \A q \in Pid, t \in Slot : Quiet(q, t)
  PROVE  Core'
<1>1. FreshInv'
  <2>1. (\A c \in Chunk : c > nchunk => Blank(c))'
    BY DEF Core, FreshInv, Blank
  <2>2. ASSUME NEW q \in Pid, NEW t \in Slot PROVE (cursor[q][t].chunk <= nchunk)'
    BY DEF Core, FreshInv, Quiet, ShmTypeOK
  <2>3. ASSUME NEW r \in Pid, NEW u \in Slot PROVE FreshAt(r, u)'
    <3> SUFFICES ASSUME op'[r][u].pc \in Creating PROVE FreshAt(r, u)'
      BY DEF FreshAt
    <3>1. op[r][u].pc \in Creating /\ op'[r][u].new = op[r][u].new
      BY DEF Quiet
    <3>2. FreshAt(r, u)
      BY DEF Core, FreshInv
    <3>3. ASSUME NEW q \in Pid, NEW t \in Slot PROVE cursor'[q][t].chunk # op'[r][u].new
      <4>1. cursor'[q][t].chunk = 0 \/ \E x \in Pid, y \in Slot : cursor'[q][t].chunk = cursor[x][y].chunk
        BY DEF Quiet
      <4>2. op'[r][u].new # 0
        BY <3>1, <3>2 DEF FreshAt
      <4> QED BY <3>1, <3>2, <4>1, <4>2 DEF FreshAt
    <3>4. ASSUME NEW q \in Pid, NEW t \in Slot,
                 op'[q][t].pc \in Creating, op'[q][t].new = op'[r][u].new
          PROVE  q = r /\ t = u
      BY <3>1, <3>2, <3>4 DEF Quiet, FreshAt
    <3> QED BY <3>1, <3>2, <3>3, <3>4 DEF FreshAt, Blank
  <2> QED BY <2>1, <2>2, <2>3 DEF FreshInv
<1>2. SingleWriter'
  BY DEF Core, SingleWriter, Quiet
<1>3. IntactRecords'
  BY DEF Core, IntactRecords, IntactAt, Boundary, Decodes
<1>4. WriterInv'
  <2> SUFFICES ASSUME NEW q \in Pid, NEW t \in Slot, NEW c \in Chunk \ orphaned'
               PROVE  WriterAt(q, t, c)'
    BY DEF WriterInv
  <2>1. CASE MayWrite(q, t, c)'
    BY <2>1 DEF Quiet
  <2>2. CASE ~MayWrite(q, t, c)'
    BY <2>2 DEF WriterAt
  <2> QED BY <2>1, <2>2
<1> QED BY <1>1, <1>2, <1>3, <1>4 DEF Core

\* A thread that ends up with neither a send under way nor room in a chunk.
LEMMA SilentQuiet ==
  ASSUME NEW q \in Pid, NEW t \in Slot, op'[q][t].pc = "idle",
         cursor'[q][t].chunk = 0 \/ \E r \in Pid, u \in Slot : cursor'[q][t].chunk = cursor[r][u].chunk,
         \/ slot'[q][t] = "leaked"
         \/ cursor'[q][t].chunk \notin Chunk \ orphaned'
         \/ ~(cursor'[q][t].pos < Cap)
  PROVE  Quiet(q, t)
BY DEF Quiet, MayWrite, Creating

\* exit, kill or abort of a process at any line of send keeps the layout.
LEMMA CoreVanish ==
  ASSUME ProcTypeOK, ShmTypeOK, Core, NEW p \in Pid, Vanish(p), UNCHANGED <<mem, nchunk, orphaned>>
  PROVE  Core'
<1>1. ASSUME NEW q \in Pid, NEW t \in Slot PROVE Quiet(q, t)
  <2>1. CASE q = p
    <3>1. op'[q][t] = IdleOp /\ cursor'[q][t] = NoCursor
      BY <2>1, VanishFields
    <3>2. op'[q][t].pc = "idle" /\ cursor'[q][t].chunk = 0
      BY <3>1, IdleOpType DEF NoCursor
    <3> QED BY <3>2, SilentQuiet DEF Chunk
  <2>2. CASE q # p
    <3>1. Same(q, t)
      BY <2>2, VanishFields DEF Same
    <3> QED BY <3>1, SameQuiet
  <2> QED BY <2>1, <2>2
<1> QED BY <1>1, QuietStep

\* A thread that moves within its own chunk, the others staying as they are.
LEMMA CoreMove ==
  ASSUME ProcTypeOK, ShmTypeOK, Core, NEW p \in Pid, NEW s \in Slot,
         UNCHANGED <<slot, mem, nchunk, orphaned>>,
         NEW o, NEW cur,
         op' = [op EXCEPT ![p][s] = o], cursor' = [cursor EXCEPT ![p][s] = cur],
         cur.chunk = cursor[p][s].chunk,
         o.pc \in Creating => op[p][s].pc \in Creating /\ o.new = op[p][s].new,
         \A c \in Chunk \ orphaned : MayWrite(p, s, c)' => MayWrite(p, s, c) /\ WriterAt(p, s, c)'
  PROVE  Core'
<1>1. ASSUME NEW q \in Pid, NEW t \in Slot PROVE Quiet(q, t)
  <2>1. CASE q = p /\ t = s
    <3>1. op'[q][t] = o /\ cursor'[q][t] = cur
      BY <2>1 DEF ProcTypeOK
    <3> QED BY <2>1, <3>1 DEF Quiet
  <2>2. CASE ~(q = p /\ t = s)
    <3>1. Same(q, t)
      BY <2>2 DEF Same, ProcTypeOK
    <3> QED BY <3>1, SameQuiet
  <2> QED BY <2>1, <2>2
<1> QED BY <1>1, QuietStep

\* execve, which drops every cursor of the process, keeps the layout.
LEMMA CoreExec ==
  ASSUME ProcTypeOK, ShmTypeOK, Core, NEW p \in Pid, NEW s \in Slot, Exec(p, s)
  PROVE  Core'
<1>1. ASSUME NEW q \in Pid, NEW t \in Slot PROVE Quiet(q, t)
  <2>1. CASE q = p
    <3>1. op'[q][t] = IdleOp /\ cursor'[q][t] = NoCursor
      BY <2>1 DEF Exec, ProcTypeOK
    <3>2. op'[q][t].pc = "idle" /\ cursor'[q][t].chunk = 0
      BY <3>1, IdleOpType DEF NoCursor
    <3> QED BY <3>2, SilentQuiet DEF Chunk
  <2>2. CASE q # p
    <3>1. Same(q, t) /\ UNCHANGED <<mem, orphaned>>
      BY <2>2 DEF Same, Exec, ProcTypeOK, shmVars
    <3> QED BY <3>1, SameQuiet
  <2> QED BY <2>1, <2>2
<1>2. UNCHANGED <<mem, nchunk, orphaned>>
  BY DEF Exec, shmVars
<1> QED BY <1>1, <1>2, QuietStep

\* The heart of reset_shm_atfork: the child inherits room in a chunk only
\* through the cursor of an exited thread.
LEMMA CoreFork ==
  ASSUME ProcTypeOK, ShmTypeOK, ThreadInv, Core,
         NEW p \in Pid, NEW s \in Slot, NEW r \in Pid, Fork(p, s, r)
  PROVE  Core'
<1>0. UNCHANGED <<mem, nchunk>> /\ orphaned' = orphaned \cup Orphans(p)
  BY DEF Fork, shmVars
<1>1. ASSUME NEW q \in Pid, NEW t \in Slot PROVE Quiet(q, t)
  <2>1. CASE q = r
    <3>1. op'[q][t] = IdleOp /\ cursor'[q][t] = reset_shm_atfork(p, s)[t]
      BY <2>1 DEF Fork, ProcTypeOK
    <3>2. op'[q][t].pc = "idle"
      BY <3>1, IdleOpType
    <3>3. slot'[q][t] = IF t # s /\ slot[p][t] = "run" THEN "leaked" ELSE slot[p][t]
      BY <2>1 DEF Fork, ProcTypeOK
    <3>4. CASE t = s /\ cursor[p][s].chunk # 0
      <4>1. cursor'[q][t] = [cursor[p][s] EXCEPT !.pos = Cap]
        BY <3>1, <3>4 DEF reset_shm_atfork
      <4>2. cursor'[q][t].chunk = cursor[p][s].chunk /\ cursor'[q][t].pos = Cap
        BY <4>1 DEF ProcTypeOK, CursorType
      <4> QED BY <3>2, <4>2, SilentQuiet, ConstAssumption
    <3>5. CASE t = s /\ cursor[p][s].chunk = 0
      <4>1. cursor'[q][t].chunk = 0
        BY <3>1, <3>5 DEF reset_shm_atfork
      <4> QED BY <3>2, <4>1, SilentQuiet DEF Chunk
    <3>6. CASE t # s
      <4>1. cursor'[q][t] = cursor[p][t]
        BY <3>1, <3>6 DEF reset_shm_atfork
      <4>2. CASE slot[p][t] = "free"
        <5>1. \/ cursor'[q][t].chunk \notin Chunk \ orphaned'
              \/ ~(cursor'[q][t].pos < Cap)
          BY <4>1, <4>2, <1>0 DEF Orphans
        <5> QED BY <3>2, <4>1, <5>1, SilentQuiet
      <4>3. CASE slot[p][t] # "free"
        <5>1. slot'[q][t] = "leaked"
          BY <3>3, <3>6, <4>3 DEF ProcTypeOK
        <5> QED BY <3>2, <4>1, <5>1, SilentQuiet
      <4> QED BY <4>2, <4>3
    <3> QED BY <3>4, <3>5, <3>6
  <2>2. CASE q # r
    <3>1. Same(q, t)
      BY <2>2 DEF Same, Fork, ProcTypeOK
    <3> QED BY <1>0, <3>1, SameQuiet
  <2> QED BY <2>1, <2>2
<1> QED BY <1>0, <1>1, QuietStep

\* Starting or ending a thread, whose cursor stays behind for the next thread
\* with the same id, keeps the layout.
LEMMA CoreSlot ==
  ASSUME ProcTypeOK, ShmTypeOK, Core, NEW p \in Pid, NEW s \in Slot,
         StartThread(p, s) \/ EndThread(p, s)
  PROVE  Core'
<1>1. UNCHANGED <<mem, nchunk, orphaned>>
  BY DEF StartThread, EndThread, shmVars, histVars
<1>2. ASSUME NEW q \in Pid, NEW t \in Slot PROVE Quiet(q, t)
  <2>1. op' = op /\ cursor' = cursor
    BY DEF StartThread, EndThread
  <2>2. slot'[q][t] = "leaked" <=> slot[q][t] = "leaked"
    BY DEF StartThread, EndThread, ProcTypeOK
  <2> QED BY <1>1, <2>1, <2>2, SameQuiet DEF Same
<1> QED BY <1>1, <1>2, QuietStep

\* Steps that touch neither threads nor chunks keep the layout.
LEMMA CoreUnchanged ==
  ASSUME ShmTypeOK, Core, UNCHANGED <<slot, op, cursor, mem, nchunk, orphaned>>
  PROVE  Core'
<1>1. ASSUME NEW q \in Pid, NEW t \in Slot PROVE Quiet(q, t)
  BY SameQuiet DEF Same
<1> QED BY <1>1, QuietStep

\* Entering send, with or without a successful advance, keeps the layout.
LEMMA CoreSend ==
  ASSUME ProcTypeOK, ShmTypeOK, Core, NEW p \in Pid, NEW s \in Slot, NEW a \in Access, Send(p, s, a)
  PROVE  Core'
<1>1. /\ UNCHANGED <<slot, mem, nchunk, orphaned>> /\ slot[p][s] = "run"
      /\ op[p][s].pc = "idle"
  BY IdleOpType DEF Send, shmVars
<1>2. cursor[p][s].chunk \in 0..MaxChunk /\ cursor[p][s].pos \in 0..Cap
  BY DEF ProcTypeOK, CursorType
<1>3. CASE cursor[p][s].chunk # 0 /\ Fits(cursor[p][s], RecLen(a))
  <2> DEFINE cur == Advance(cursor[p][s], RecLen(a))
             o == At("write", a, FALSE, 0, 0)
  <2>1. op' = [op EXCEPT ![p][s] = o] /\ cursor' = [cursor EXCEPT ![p][s] = cur]
    BY <1>3 DEF Send
  <2>2. cur.chunk = cursor[p][s].chunk /\ cur.pos = cursor[p][s].pos + RecLen(a)
    BY DEF Advance, ProcTypeOK, CursorType
  <2>3. o.pc = "write" /\ o.acc = a
    BY DEF At
  <2>4. op'[p][s] = o /\ cursor'[p][s] = cur
    BY <2>1 DEF ProcTypeOK
  <2>5. cursor[p][s].pos < Cap /\ RecStart(p, s)' = cursor[p][s].pos
        /\ cursor'[p][s].pos > cursor[p][s].pos
    <3>1. RecStart(p, s)' = cur.pos - RecLen(a)
      BY <2>3, <2>4 DEF RecStart
    <3> QED BY <1>2, <1>3, <2>2, <2>4, <3>1, RecLenType, ConstAssumption DEF Fits
  <2>6. ASSUME NEW c \in Chunk \ orphaned, MayWrite(p, s, c)'
        PROVE  MayWrite(p, s, c) /\ WriterAt(p, s, c)'
    <3>1. cursor[p][s].chunk = c
      BY <2>2, <2>4, <2>6 DEF MayWrite
    <3>2. MayWrite(p, s, c)
      BY <1>1, <2>5, <3>1 DEF MayWrite
    <3>3. \A x \in Offset : x >= cursor[p][s].pos => mem[c][x] = Zero
      BY <3>2 DEF Core, WriterInv, WriterAt
    <3>4. cursor[p][s].pos \in Offset
      BY <1>2, <2>5, ConstAssumption DEF Offset
    <3>5. cursor'[p][s].pos \in Nat
      BY <1>2, <2>2, <2>4, RecLenType
    <3>6. op'[p][s].pc = "write"
      BY <2>3, <2>4
    <3>7. \A x \in Offset : x >= cursor'[p][s].pos => x >= cursor[p][s].pos
      BY <1>2, <2>5, <3>5 DEF Offset
    <3>8. mem'[c] = mem[c]
      BY <1>1
    <3>9. /\ \A x \in Offset : x >= cursor'[p][s].pos => mem'[c][x] = Zero
          /\ mem'[c][RecStart(p, s)'] = Zero
          /\ \A x \in Offset : x >= RecStart(p, s)' => mem'[c][x] = Zero
      BY <1>2, <2>5, <3>3, <3>4, <3>7, <3>8
    <3> QED BY <3>2, <3>6, <3>9 DEF WriterAt
  <2>7. o.pc \notin Creating
    BY <2>3 DEF Creating
  <2> HIDE DEF cur, o
  <2> QED BY <1>1, <2>1, <2>2, <2>6, <2>7, CoreMove
<1>4. CASE ~(cursor[p][s].chunk # 0 /\ Fits(cursor[p][s], RecLen(a)))
  <2>1. PICK f \in BOOLEAN : op' = [op EXCEPT ![p][s] = At("open", a, f, 0, 0)]
    BY <1>4 DEF Send
  <2>2. cursor' = cursor /\ cursor = [cursor EXCEPT ![p][s] = cursor[p][s]]
    BY <1>4 DEF Send, ProcTypeOK
  <2>3. At("open", a, f, 0, 0).pc = "open" /\ op'[p][s] = At("open", a, f, 0, 0)
    BY <2>1 DEF At, ProcTypeOK
  <2>4. ASSUME NEW c \in Chunk \ orphaned, MayWrite(p, s, c)'
        PROVE  MayWrite(p, s, c) /\ WriterAt(p, s, c)'
    <3>1. MayWrite(p, s, c)
      BY <1>1, <2>2, <2>3, <2>4 DEF MayWrite
    <3>2. WriterAt(p, s, c)
      BY DEF Core, WriterInv
    <3> QED BY <1>1, <2>2, <2>3, <3>1, <3>2 DEF WriterAt, Writing
  <2>5. At("open", a, f, 0, 0).pc \notin Creating
    BY <2>3 DEF Creating
  <2> QED BY <1>1, <2>1, <2>2, <2>4, <2>5, CoreMove
<1> QED BY <1>3, <1>4

\* Program-counter steps inside new_shm.
LEMMA CorePc ==
  ASSUME ProcTypeOK, ShmTypeOK, Core, NEW p \in Pid, NEW s \in Slot, NEW l \in Creating,
         op[p][s].pc \in Creating, op' = [op EXCEPT ![p][s] = [@ EXCEPT !.pc = l]],
         UNCHANGED <<slot, cursor, mem, nchunk, orphaned>>
  PROVE  Core'
<1> DEFINE o == [op[p][s] EXCEPT !.pc = l]
<1>1. op' = [op EXCEPT ![p][s] = o]
  OBVIOUS
<1>2. o.pc = l /\ o.new = op[p][s].new
  BY DEF ProcTypeOK, OpType
<1>3. op'[p][s].pc = l
  BY <1>2 DEF ProcTypeOK
<1>4. cursor = [cursor EXCEPT ![p][s] = cursor[p][s]]
  BY DEF ProcTypeOK
<1>5. ASSUME NEW c \in Chunk \ orphaned, MayWrite(p, s, c)'
      PROVE  MayWrite(p, s, c) /\ WriterAt(p, s, c)'
  <2>1. op'[p][s].pc = l /\ l \notin Writing
    BY <1>3 DEF Creating, Writing
  <2>2. MayWrite(p, s, c)
    BY <1>5, <2>1 DEF MayWrite, Writing
  <2>3. WriterAt(p, s, c)
    BY DEF Core, WriterInv
  <2> QED BY <2>1, <2>2, <2>3 DEF WriterAt, Writing
<1> HIDE DEF o
<1> QED BY <1>1, <1>2, <1>4, <1>5, CoreMove

\* A chunk is created: nobody knows it yet.
LEMMA CoreOpen ==
  ASSUME ProcTypeOK, ShmTypeOK, Core, NEW p \in Pid, NEW s \in Slot, NEW o,
         op[p][s].pc = "open", nchunk < MaxChunk, nchunk' = nchunk + 1,
         op' = [op EXCEPT ![p][s] = o], o.pc = "unlink", o.new = nchunk + 1,
         UNCHANGED <<slot, cursor, mem, orphaned>>
  PROVE  Core'
<1>1. nchunk \in 0..MaxChunk /\ nchunk + 1 \in Chunk
  BY ConstAssumption DEF ShmTypeOK, Chunk
<1>2. op'[p][s] = o /\ \A q \in Pid, t \in Slot : ~(q = p /\ t = s) => op'[q][t] = op[q][t]
  BY DEF ProcTypeOK
<1>3. \A q \in Pid, t \in Slot : cursor[q][t].chunk \in 0..MaxChunk /\ cursor[q][t].chunk <= nchunk
  BY DEF ProcTypeOK, CursorType, Core, FreshInv
<1>4. FreshInv'
  <2>1. (\A c \in Chunk : c > nchunk => Blank(c))'
    BY <1>1, ConstAssumption DEF Core, FreshInv, Blank, Chunk
  <2>2. (\A q \in Pid, t \in Slot : cursor[q][t].chunk <= nchunk)'
    BY <1>1, <1>3
  <2>3. ASSUME NEW q \in Pid, NEW t \in Slot PROVE FreshAt(q, t)'
    <3>1. \A r \in Pid, u \in Slot : op[r][u].pc \in Creating => op[r][u].new \in 1..nchunk
      BY DEF Core, FreshInv, FreshAt
    <3>2. CASE q = p /\ t = s
      <4>0. PICK n \in Chunk : n = nchunk + 1
        BY <1>1
      <4>1. op'[q][t].new = n /\ n \in 1..nchunk'
        BY <1>1, <1>2, <3>2, <4>0
      <4>2. \A x \in Offset : mem'[n][x] = Zero
        BY <1>1, <4>0 DEF Core, FreshInv, Blank
      <4>3. \A r \in Pid, u \in Slot : cursor'[r][u].chunk # n
        BY <1>1, <1>3, <4>0
      <4>4. ASSUME NEW r \in Pid, NEW u \in Slot, op'[r][u].pc \in Creating,
                   op'[r][u].new = n
            PROVE  r = q /\ u = t
        BY <1>1, <1>2, <3>1, <3>2, <4>0, <4>4
      <4> QED BY <4>1, <4>2, <4>3, <4>4 DEF FreshAt, Blank
    <3>3. CASE ~(q = p /\ t = s)
      <4> SUFFICES ASSUME op[q][t].pc \in Creating PROVE FreshAt(q, t)'
        BY <1>2, <3>3 DEF FreshAt
      <4>1. op'[q][t] = op[q][t] /\ op[q][t].new \in 1..nchunk /\ Blank(op[q][t].new)'
        BY <1>2, <3>1, <3>3 DEF Core, FreshInv, FreshAt, Blank
      <4>2. \A r \in Pid, u \in Slot : cursor'[r][u].chunk # op[q][t].new
        BY DEF Core, FreshInv, FreshAt
      <4>3. ASSUME NEW r \in Pid, NEW u \in Slot, op'[r][u].pc \in Creating,
                   op'[r][u].new = op[q][t].new
            PROVE  r = q /\ u = t
        <5>1. ~(r = p /\ u = s)
          BY <1>1, <1>2, <4>1, <4>3
        <5> QED BY <1>2, <4>3, <5>1 DEF Core, FreshInv, FreshAt
      <4>4. op[q][t].new \in 1..nchunk'
        BY <1>1, <4>1
      <4> QED BY <4>1, <4>2, <4>3, <4>4 DEF FreshAt
    <3> QED BY <3>2, <3>3
  <2> QED BY <2>1, <2>2, <2>3 DEF FreshInv
<1>5. \A q \in Pid, t \in Slot : op'[q][t].pc \in Writing => op'[q][t] = op[q][t]
  BY <1>2 DEF Writing
<1>6. ASSUME NEW q \in Pid, NEW t \in Slot, NEW c \in Chunk, MayWrite(q, t, c)'
      PROVE  MayWrite(q, t, c)
  BY <1>5, <1>6 DEF MayWrite, Writing
<1>7. SingleWriter'
  BY <1>6 DEF Core, SingleWriter
<1>8. IntactRecords'
  BY DEF Core, IntactRecords, IntactAt, Boundary, Decodes
<1>9. WriterInv'
  <2> SUFFICES ASSUME NEW q \in Pid, NEW t \in Slot, NEW c \in Chunk \ orphaned, MayWrite(q, t, c)'
               PROVE  WriterAt(q, t, c)'
    BY DEF WriterInv, WriterAt
  <2>1. MayWrite(q, t, c) /\ WriterAt(q, t, c)
    BY <1>6 DEF Core, WriterInv
  <2>2. CASE op'[q][t].pc \in Writing
    BY <1>5, <2>1, <2>2 DEF WriterAt, RecStart, Decodes
  <2>3. CASE op'[q][t].pc \notin Writing
    BY <2>1, <2>3 DEF WriterAt, Writing
  <2> QED BY <2>2, <2>3
<1> QED BY <1>4, <1>7, <1>8, <1>9 DEF Core

\* The creator maps its chunk and takes it for its cursor.
LEMMA CoreMap ==
  ASSUME ProcTypeOK, ShmTypeOK, Core, NEW p \in Pid, NEW s \in Slot, NEW o, NEW cur,
         op[p][s].pc = "truncate", cur.chunk = op[p][s].new,
         op' = [op EXCEPT ![p][s] = o], cursor' = [cursor EXCEPT ![p][s] = cur],
         o.pc \notin Creating, o.pc # "flag",
         o.pc = "write" => o.acc \in Access /\ cur.pos = RecLen(o.acc),
         UNCHANGED <<slot, nchunk, mem, orphaned>>
  PROVE  Core'
<1> DEFINE n == op[p][s].new
<1>1. op[p][s].pc \in Creating /\ FreshAt(p, s)
  BY DEF Creating, Core, FreshInv
<1>2. n \in Chunk /\ n \in 1..nchunk /\ Blank(n)
  BY <1>1, NewIsChunk DEF Core, FreshAt
<1>3. /\ op'[p][s] = o /\ cursor'[p][s] = cur
      /\ \A q \in Pid, t \in Slot : ~(q = p /\ t = s) =>
           op'[q][t] = op[q][t] /\ cursor'[q][t] = cursor[q][t]
  BY DEF ProcTypeOK
<1>4. \A q \in Pid, t \in Slot : cursor[q][t].chunk # n
  BY <1>1 DEF FreshAt
<1>5. ASSUME NEW q \in Pid, NEW t \in Slot, NEW c \in Chunk, MayWrite(q, t, c)'
      PROVE  \/ q = p /\ t = s /\ c = n
             \/ ~(q = p /\ t = s) /\ c # n /\ MayWrite(q, t, c)
  BY <1>3, <1>4, <1>5 DEF MayWrite
<1>6. FreshInv'
  <2>1. (\A c \in Chunk : c > nchunk => Blank(c))'
    BY DEF Core, FreshInv, Blank
  <2>2. (\A q \in Pid, t \in Slot : cursor[q][t].chunk <= nchunk)'
    BY <1>2, <1>3 DEF Core, FreshInv, ShmTypeOK
  <2>3. ASSUME NEW q \in Pid, NEW t \in Slot PROVE FreshAt(q, t)'
    <3> SUFFICES ASSUME op'[q][t].pc \in Creating PROVE FreshAt(q, t)'
      BY DEF FreshAt
    <3>1. ~(q = p /\ t = s) /\ op'[q][t] = op[q][t]
      BY <1>3
    <3>2. FreshAt(q, t) /\ op[q][t].new # n
      BY <1>1, <3>1 DEF Core, FreshInv, FreshAt
    <3>3. \A r \in Pid, u \in Slot : cursor'[r][u].chunk # op'[q][t].new
      BY <1>3, <3>1, <3>2 DEF FreshAt
    <3>4. \A r \in Pid, u \in Slot :
            op'[r][u].pc \in Creating /\ op'[r][u].new = op'[q][t].new => r = q /\ u = t
      BY <1>3, <3>1, <3>2 DEF FreshAt
    <3> QED BY <3>1, <3>2, <3>3, <3>4 DEF FreshAt, Blank
  <2> QED BY <2>1, <2>2, <2>3 DEF FreshInv
<1>7. SingleWriter'
  BY <1>5 DEF Core, SingleWriter
<1>8. IntactRecords'
  BY DEF Core, IntactRecords, IntactAt, Boundary, Decodes
<1>9. WriterInv'
  <2> SUFFICES ASSUME NEW q \in Pid, NEW t \in Slot, NEW c \in Chunk \ orphaned, MayWrite(q, t, c)'
               PROVE  WriterAt(q, t, c)'
    BY DEF WriterInv, WriterAt
  <2>1. CASE q = p /\ t = s /\ c = n
    <3>1. \A x \in Offset : mem'[c][x] = Zero
      BY <1>2, <2>1 DEF Blank
    <3>2. o.pc = "write" => RecStart(p, s)' = 0 /\ 0 \in Offset
      BY <1>3, RecLenType, ConstAssumption DEF RecStart, Offset
    <3> QED BY <1>3, <2>1, <3>1, <3>2 DEF WriterAt, Writing
  <2>2. CASE ~(q = p /\ t = s) /\ MayWrite(q, t, c)
    <3>1. WriterAt(q, t, c)
      BY DEF Core, WriterInv
    <3> QED BY <1>3, <2>2, <3>1 DEF WriterAt, RecStart, Decodes
  <2> QED BY <1>5, <2>1, <2>2
<1> QED BY <1>6, <1>7, <1>8, <1>9 DEF Core

\* Completed records lie below a cell that is still zero and has no flag above.
LEMMA BelowZero ==
  ASSUME ShmTypeOK, NEW c \in Chunk, NEW b \in Offset, NEW x \in Offset,
         IntactAt(c, x), mem[c][x] = Flag, mem[c][b] = Zero,
         \A y \in Offset : y >= b => mem[c][y] # Flag
  PROVE  x < b /\ \E a \in Access : /\ Decodes(c, x, Cap, a)
                                    /\ Boundary(c, x + RecLen(a))
                                    /\ x + RecLen(a) <= b
<1>1. PICK a \in Access : Decodes(c, x, Cap, a) /\ Boundary(c, x + RecLen(a))
  BY DEF IntactAt
<1>2. x \in Nat /\ b \in Nat /\ x < b
  BY ConstAssumption DEF Offset
<1>3. ASSUME x + RecLen(a) > b PROVE FALSE
  <2>1. b - x \in 1..EncodedSize[a] /\ x + (b - x) = b
    BY <1>2, <1>3, RecLenType
  <2>2. mem[c][b] = Data(a, b - x)
    BY <1>1, <2>1 DEF Decodes
  <2>3. b - x \in 0..Cap
    BY <1>2, ConstAssumption DEF Offset
  <2> QED BY <2>2, <2>3, CellType
<1>4. x + RecLen(a) <= b
  BY <1>2, <1>3, RecLenType
<1> QED BY <1>1, <1>2, <1>4

\* The thread that is writing a record, and the room it has taken for it.
LEMMA WriterFacts ==
  ASSUME ProcTypeOK, ThreadInv, NEW p \in Pid, NEW s \in Slot, op[p][s].pc \in Writing
  PROVE  /\ op[p][s].acc \in Access
         /\ cursor[p][s].chunk \in Chunk
         /\ MayWrite(p, s, cursor[p][s].chunk)
         /\ cursor[p][s].pos \in 0..Cap
         /\ RecStart(p, s) \in Offset
         /\ RecStart(p, s) + RecLen(op[p][s].acc) = cursor[p][s].pos
<1>1. ThreadAt(p, s) /\ op[p][s].pc # "idle"
  BY DEF ThreadInv, Writing
<1>2. cursor[p][s].pos \in 0..Cap
  BY DEF ProcTypeOK, CursorType
<1>3. op[p][s].acc \in Access /\ cursor[p][s].chunk \in Chunk /\ slot[p][s] = "run"
      /\ RecLen(op[p][s].acc) <= cursor[p][s].pos
  BY <1>1 DEF ThreadAt
<1>4. MayWrite(p, s, cursor[p][s].chunk)
  BY <1>3 DEF MayWrite, Writing
<1> QED BY <1>2, <1>3, <1>4, RecLenType, ConstAssumption DEF RecStart, Offset

\* What the two writing steps have in common: only the writer's own chunk
\* changes, and only at offsets from the start of its record on.
LEMMA FreshWrite ==
  ASSUME ProcTypeOK, ShmTypeOK, ThreadInv, Core, NEW p \in Pid, NEW s \in Slot, NEW o, NEW m,
         op[p][s].pc \in Writing, op' = [op EXCEPT ![p][s] = o], o.pc \notin Creating,
         mem' = [mem EXCEPT ![cursor[p][s].chunk] = m],
         UNCHANGED <<slot, cursor, nchunk, orphaned>>
  PROVE  FreshInv'
<1> DEFINE c == cursor[p][s].chunk
<1>1. c \in Chunk /\ c <= nchunk
  BY WriterFacts DEF Core, FreshInv
<1>2. \A d \in Chunk : d # c => mem'[d] = mem[d]
  BY DEF ShmTypeOK
<1>3. /\ op'[p][s] = o
      /\ \A q \in Pid, t \in Slot : ~(q = p /\ t = s) => op'[q][t] = op[q][t]
  BY DEF ProcTypeOK
<1>4. ASSUME NEW d \in Chunk, d > nchunk' PROVE Blank(d)'
  <2>1. Blank(d) /\ d # c
    BY <1>1, <1>4, ConstAssumption DEF Core, FreshInv, Chunk, ShmTypeOK
  <2> QED BY <1>2, <2>1 DEF Blank
<1>5. ASSUME NEW q \in Pid, NEW t \in Slot PROVE FreshAt(q, t)'
  <2> SUFFICES ASSUME op'[q][t].pc \in Creating PROVE FreshAt(q, t)'
    BY DEF FreshAt
  <2>1. op'[q][t] = op[q][t]
    BY <1>3
  <2>2. FreshAt(q, t) /\ op[q][t].new \in Chunk /\ op[q][t].new # c
    BY <2>1, NewIsChunk DEF Core, FreshInv, FreshAt
  <2>3. \A x \in Offset : mem'[op[q][t].new][x] = Zero
    BY <1>2, <2>1, <2>2 DEF FreshAt, Blank
  <2>4. \A r \in Pid, u \in Slot :
          op'[r][u].pc \in Creating /\ op'[r][u].new = op[q][t].new => r = q /\ u = t
    BY <1>3, <2>1, <2>2 DEF FreshAt
  <2> QED BY <2>1, <2>2, <2>3, <2>4 DEF FreshAt, Blank
<1>6. (\A q \in Pid, t \in Slot : cursor[q][t].chunk <= nchunk)'
  BY DEF Core, FreshInv
<1> QED BY <1>4, <1>5, <1>6 DEF FreshInv

\* A chunk nobody touches, and threads that did not move.
LEMMA ElsewhereIntact ==
  ASSUME NEW d \in Chunk, mem'[d] = mem[d], Boundary(d, 0), \A x \in Offset : IntactAt(d, x)
  PROVE  Boundary(d, 0)' /\ \A x \in Offset : IntactAt(d, x)'
BY DEF Boundary, IntactAt, Decodes

\* A thread whose chunk nobody touches keeps what is said of it as a writer.
LEMMA ElsewhereWriter ==
  ASSUME NEW d \in Chunk, mem'[d] = mem[d], NEW q \in Pid, NEW t \in Slot,
         op'[q][t] = op[q][t], UNCHANGED <<cursor, slot>>, WriterAt(q, t, d)
  PROVE  WriterAt(q, t, d)'
BY DEF WriterAt, MayWrite, RecStart, Decodes

\* Encoding the access into the reserved room keeps the layout.
LEMMA CoreWrite ==
  ASSUME ProcTypeOK, ShmTypeOK, ThreadInv, Core, NEW p \in Pid, NEW s \in Slot, WriteData(p, s)
  PROVE  Core'
<1>1. PICK c \in Chunk, b \in Offset, a \in Access, e \in 0..Cap :
        /\ c = cursor[p][s].chunk /\ b = RecStart(p, s) /\ a = op[p][s].acc /\ e = cursor[p][s].pos
        /\ b + RecLen(a) = e /\ MayWrite(p, s, c) /\ op[p][s].pc = "write"
  BY WriterFacts DEF WriteData, Writing
<1> DEFINE o == [op[p][s] EXCEPT !.pc = "flag"]
           m == [x \in Offset |-> IF b < x /\ x < e THEN Data(a, x - b) ELSE mem[c][x]]
<1>2. /\ op' = [op EXCEPT ![p][s] = o] /\ mem' = [mem EXCEPT ![c] = m]
      /\ UNCHANGED <<slot, cursor, nchunk, orphaned>>
  BY <1>1 DEF WriteData, histVars
<1>3. o.pc = "flag" /\ o.acc = a
  BY <1>1 DEF ProcTypeOK, OpType
<1>4. /\ op'[p][s] = o
      /\ \A q \in Pid, t \in Slot : ~(q = p /\ t = s) => op'[q][t] = op[q][t]
  BY <1>2 DEF ProcTypeOK
<1>5. /\ \A d \in Chunk : d # c => mem'[d] = mem[d]
      /\ \A x \in Offset : mem'[c][x] = IF b < x /\ x < e THEN Data(a, x - b) ELSE mem[c][x]
  BY <1>2 DEF ShmTypeOK
<1>6. b \in Nat /\ e \in Nat /\ b < e /\ Cap \in Nat /\ b < Cap /\ e <= Cap
  BY <1>1, RecLenType, ConstAssumption DEF Offset
<1> HIDE DEF o, m
<1>7. FreshInv'
  <2>1. o.pc \notin Creating /\ op[p][s].pc \in Writing
    BY <1>1, <1>3 DEF Creating, Writing
  <2> QED BY <1>1, <1>2, <2>1, FreshWrite
<1>8. ASSUME NEW q \in Pid, NEW t \in Slot, NEW d \in Chunk, MayWrite(q, t, d)'
      PROVE  MayWrite(q, t, d)
  BY <1>1, <1>2, <1>4, <1>8 DEF MayWrite
<1>9. SingleWriter'
  BY <1>2, <1>8 DEF Core, SingleWriter
<1>10. c \notin orphaned => \A x \in Offset : x >= b => mem[c][x] = Zero
  BY <1>1 DEF Core, WriterInv, WriterAt
<1>11. IntactRecords'
  <2> SUFFICES ASSUME NEW d \in Chunk \ orphaned
               PROVE  Boundary(d, 0)' /\ \A x \in Offset : IntactAt(d, x)'
    BY <1>2 DEF IntactRecords
  <2>1. Boundary(d, 0) /\ \A x \in Offset : IntactAt(d, x)
    BY DEF Core, IntactRecords
  <2>2. CASE d # c
    BY <1>5, <2>1, <2>2, ElsewhereIntact
  <2>3. CASE d = c
    <3>1. Boundary(d, 0)'
      BY <1>5, <1>6, <2>1, <2>3 DEF Boundary, Offset
    <3>2. ASSUME NEW x \in Offset, mem'[c][x] = Flag
          PROVE  \E a2 \in Access : Decodes(c, x, Cap, a2)' /\ Boundary(c, x + RecLen(a2))'
      <4>1. mem[c][x] = Flag
        <5>1. b < x => x - b \in 0..Cap
          BY <1>6 DEF Offset
        <5> QED BY <1>1, <1>5, <3>2, <5>1, CellType
      <4>2. mem[c][b] = Zero /\ \A y \in Offset : y >= b => mem[c][y] # Flag
        <5>1. \A y \in Offset : y >= b => mem[c][y] = Zero
          BY <1>10, <2>3
        <5>2. Zero # Flag
          BY CellType
        <5>3. b >= b
          BY <1>6
        <5>4. mem[c][b] = Zero
          BY <5>1, <5>3
        <5>5. \A y \in Offset : y >= b => mem[c][y] # Flag
          BY <5>1, <5>2, Zenon
        <5> QED BY <5>4, <5>5
      <4>3. PICK a2 \in Access : /\ Decodes(c, x, Cap, a2) /\ Boundary(c, x + RecLen(a2))
                                 /\ x + RecLen(a2) <= b
        BY <2>1, <2>3, <4>1, <4>2, BelowZero
      <4>4. Decodes(c, x, Cap, a2)'
        <5>1. \A i \in 1..EncodedSize[a2] : x + i \in Offset /\ x + i < b
          BY <1>6, <4>3, RecLenType DEF Offset
        <5>2. \A i \in 1..EncodedSize[a2] : mem'[c][x + i] = mem[c][x + i]
          BY <1>5, <1>6, <5>1 DEF Offset
        <5> QED BY <4>3, <5>2 DEF Decodes
      <4>5. Boundary(c, x + RecLen(a2))'
        <5>1. x + RecLen(a2) \in Offset
          BY <1>6, <4>3, RecLenType DEF Offset
        <5>2. mem'[c][x + RecLen(a2)] = mem[c][x + RecLen(a2)]
          BY <1>5, <1>6, <4>3, <5>1 DEF Offset
        <5> QED BY <4>3, <5>2 DEF Boundary
      <4> QED BY <4>4, <4>5
    <3> QED BY <2>3, <3>1, <3>2 DEF IntactAt
  <2> QED BY <2>2, <2>3
<1>12. WriterInv'
  <2> SUFFICES ASSUME NEW q \in Pid, NEW t \in Slot, NEW d \in Chunk \ orphaned, MayWrite(q, t, d)'
               PROVE  WriterAt(q, t, d)'
    BY <1>2 DEF WriterInv, WriterAt
  <2>1. MayWrite(q, t, d) /\ WriterAt(q, t, d)
    BY <1>8 DEF Core, WriterInv
  <2>2. CASE d # c
    <3>1. ~(q = p /\ t = s)
      BY <1>1, <2>1, <2>2 DEF MayWrite
    <3> QED BY <1>2, <1>4, <1>5, <2>1, <2>2, <3>1, ElsewhereWriter
  <2>3. CASE d = c
    <3>1. q = p /\ t = s
      BY <1>1, <2>1, <2>3 DEF Core, SingleWriter
    <3>2. RecStart(p, s)' = b /\ cursor'[p][s].pos = e
      BY <1>1, <1>2, <1>3, <1>4 DEF RecStart
    <3>3. \A x \in Offset : x >= e => mem'[c][x] = Zero
      BY <1>5, <1>6, <1>10, <2>3 DEF Offset
    <3>4. mem'[c][b] = Zero
      BY <1>5, <1>6, <1>10, <2>3
    <3>5. Decodes(c, b, Cap, a)'
      <4>1. \A i \in 1..EncodedSize[a] : b + i \in Offset /\ b < b + i /\ b + i < e /\ (b + i) - b = i
        BY <1>1, <1>6, RecLenType DEF Offset
      <4>2. \A i \in 1..EncodedSize[a] : mem'[c][b + i] = Data(a, i)
        BY <1>5, <4>1
      <4> QED BY <1>1, <1>6, <4>2 DEF Decodes
    <3> QED BY <1>3, <1>4, <2>3, <3>1, <3>2, <3>3, <3>4, <3>5 DEF WriterAt
  <2> QED BY <2>2, <2>3
<1> QED BY <1>7, <1>9, <1>11, <1>12 DEF Core

\* Storing the flag last completes a record and keeps the layout.
LEMMA CoreFlag ==
  ASSUME ProcTypeOK, ShmTypeOK, ThreadInv, Core, NEW p \in Pid, NEW s \in Slot, StoreFlag(p, s)
  PROVE  Core'
<1>1. PICK c \in Chunk, b \in Offset, a \in Access, e \in 0..Cap :
        /\ c = cursor[p][s].chunk /\ b = RecStart(p, s) /\ a = op[p][s].acc /\ e = cursor[p][s].pos
        /\ b + RecLen(a) = e /\ MayWrite(p, s, c) /\ op[p][s].pc = "flag"
  BY WriterFacts DEF StoreFlag, Writing
<1> DEFINE m == [mem[c] EXCEPT ![b] = Flag]
<1>2. /\ op' = [op EXCEPT ![p][s] = IdleOp] /\ mem' = [mem EXCEPT ![c] = m]
      /\ UNCHANGED <<slot, cursor, nchunk, orphaned>>
  BY <1>1 DEF StoreFlag
<1>3. /\ op'[p][s] = IdleOp /\ op'[p][s].pc = "idle"
      /\ \A q \in Pid, t \in Slot : ~(q = p /\ t = s) => op'[q][t] = op[q][t]
  BY <1>2, IdleOpType DEF ProcTypeOK
<1>4. /\ \A d \in Chunk : d # c => mem'[d] = mem[d]
      /\ mem'[c][b] = Flag
      /\ \A x \in Offset : x # b => mem'[c][x] = mem[c][x]
  BY <1>2 DEF ShmTypeOK
<1>5. b \in Nat /\ e \in Nat /\ b < e /\ Cap \in Nat /\ b < Cap /\ e <= Cap
  BY <1>1, RecLenType, ConstAssumption DEF Offset
<1> HIDE DEF m
<1>6. FreshInv'
  <2>1. IdleOp.pc \notin Creating /\ op[p][s].pc \in Writing
    BY <1>1, IdleOpType DEF Creating, Writing
  <2> QED BY <1>1, <1>2, <2>1, FreshWrite
<1>7. ASSUME NEW q \in Pid, NEW t \in Slot, NEW d \in Chunk, MayWrite(q, t, d)'
      PROVE  MayWrite(q, t, d)
  BY <1>1, <1>2, <1>3, <1>7 DEF MayWrite
<1>8. SingleWriter'
  BY <1>2, <1>7 DEF Core, SingleWriter
<1>9. c \notin orphaned => /\ \A x \in Offset : x >= e => mem[c][x] = Zero
                           /\ mem[c][b] = Zero
                           /\ Decodes(c, b, Cap, a)
  BY <1>1 DEF Core, WriterInv, WriterAt, Writing
<1>10. c \notin orphaned => \A x \in Offset : x >= b => mem[c][x] # Flag
  <2> SUFFICES ASSUME c \notin orphaned, NEW x \in Offset, x >= b PROVE mem[c][x] # Flag
    OBVIOUS
  <2>1. CASE x = b \/ x >= e
    BY <1>9, <2>1, CellType
  <2>2. CASE x > b /\ x < e
    <3>1. x - b \in 1..EncodedSize[a] /\ b + (x - b) = x /\ x - b \in 0..Cap
      BY <1>1, <1>5, <2>2, RecLenType DEF Offset
    <3>2. mem[c][x] = Data(a, x - b)
      BY <1>9, <3>1 DEF Decodes
    <3> QED BY <3>1, <3>2, CellType
  <2> QED BY <1>5, <2>1, <2>2 DEF Offset
<1>11. IntactRecords'
  <2> SUFFICES ASSUME NEW d \in Chunk \ orphaned
               PROVE  Boundary(d, 0)' /\ \A x \in Offset : IntactAt(d, x)'
    BY <1>2 DEF IntactRecords
  <2>1. Boundary(d, 0) /\ \A x \in Offset : IntactAt(d, x)
    BY DEF Core, IntactRecords
  <2>2. CASE d # c
    BY <1>4, <2>1, <2>2, ElsewhereIntact
  <2>3. CASE d = c
    <3>1. Boundary(d, 0)'
      BY <1>4, <1>5, <2>1, <2>3 DEF Boundary, Offset
    <3>2. ASSUME NEW x \in Offset, mem'[c][x] = Flag
          PROVE  \E a2 \in Access : Decodes(c, x, Cap, a2)' /\ Boundary(c, x + RecLen(a2))'
      <4>1. CASE x = b
        <5>1. \A i \in 1..EncodedSize[a] : b + i \in Offset /\ b + i # b
          BY <1>1, <1>5, RecLenType DEF Offset
        <5>2. \A i \in 1..EncodedSize[a] : mem'[c][b + i] = mem[c][b + i]
          BY <1>4, <5>1
        <5>3. Decodes(c, b, Cap, a)'
          BY <1>9, <2>3, <5>2 DEF Decodes
        <5>4. e < Cap => e \in Offset /\ mem'[c][e] = Zero
          BY <1>4, <1>5, <1>9, <2>3 DEF Offset
        <5>5. Boundary(c, e)'
          BY <1>5, <5>4 DEF Boundary
        <5> QED BY <1>1, <4>1, <5>3, <5>5
      <4>2. CASE x # b
        <5>1. mem[c][x] = Flag
          BY <1>4, <3>2, <4>2
        <5>2. PICK a2 \in Access : /\ Decodes(c, x, Cap, a2) /\ Boundary(c, x + RecLen(a2))
                                   /\ x + RecLen(a2) <= b
          BY <1>9, <1>10, <2>1, <2>3, <5>1, BelowZero
        <5>3. Decodes(c, x, Cap, a2)'
          <6>1. \A i \in 1..EncodedSize[a2] : x + i \in Offset /\ x + i # b
            BY <1>5, <5>2, RecLenType DEF Offset
          <6>2. \A i \in 1..EncodedSize[a2] : mem'[c][x + i] = mem[c][x + i]
            BY <1>4, <6>1
          <6> QED BY <5>2, <6>2 DEF Decodes
        <5>4. Boundary(c, x + RecLen(a2))'
          <6>1. x + RecLen(a2) \in Offset
            BY <1>5, <5>2, RecLenType DEF Offset
          <6>2. mem'[c][x + RecLen(a2)] \in {Flag, mem[c][x + RecLen(a2)]}
            BY <1>4, <6>1
          <6> QED BY <5>2, <6>1, <6>2 DEF Boundary, Offset
        <5> QED BY <5>3, <5>4
      <4> QED BY <4>1, <4>2
    <3> QED BY <2>3, <3>1, <3>2 DEF IntactAt
  <2> QED BY <2>2, <2>3
<1>12. WriterInv'
  <2> SUFFICES ASSUME NEW q \in Pid, NEW t \in Slot, NEW d \in Chunk \ orphaned, MayWrite(q, t, d)'
               PROVE  WriterAt(q, t, d)'
    BY <1>2 DEF WriterInv, WriterAt
  <2>1. MayWrite(q, t, d) /\ WriterAt(q, t, d)
    BY <1>7 DEF Core, WriterInv
  <2>2. CASE d # c
    <3>1. ~(q = p /\ t = s)
      BY <1>1, <2>1, <2>2 DEF MayWrite
    <3> QED BY <1>2, <1>3, <1>4, <2>1, <2>2, <3>1, ElsewhereWriter
  <2>3. CASE d = c
    <3>1. q = p /\ t = s
      BY <1>1, <2>1, <2>3 DEF Core, SingleWriter
    <3>2. \A x \in Offset : x >= e => mem'[c][x] = Zero
      BY <1>4, <1>5, <1>9, <2>3 DEF Offset
    <3> QED BY <1>1, <1>2, <1>3, <2>3, <3>1, <3>2 DEF WriterAt, Writing
  <2> QED BY <2>2, <2>3
<1> QED BY <1>6, <1>8, <1>11, <1>12 DEF Core

\* Each step of the target and of the spawner keeps the layout of the chunks.
LEMMA CoreStep == LayoutInv /\ [Next]_vars => Core'
<1> SUFFICES ASSUME LayoutInv, [Next]_vars PROVE Core'
  OBVIOUS
<1>t. ProcTypeOK /\ ShmTypeOK /\ ThreadInv /\ Core
  BY DEF LayoutInv, TypeOK, Core
<1>1. ASSUME NEW p \in Pid, Exit(p) PROVE Core'
  BY <1>1, <1>t, CoreVanish DEF Exit, shmVars, histVars
<1>2. ASSUME NEW p \in Pid, NEW s \in Slot, StartThread(p, s) \/ EndThread(p, s) PROVE Core'
  BY <1>2, <1>t, CoreSlot
<1>3. ASSUME NEW p \in Pid, NEW s \in Slot, Exec(p, s) PROVE Core'
  BY <1>3, <1>t, CoreExec
<1>4. ASSUME NEW p \in Pid, NEW s \in Slot, NEW q \in Pid, Fork(p, s, q) PROVE Core'
  BY <1>4, <1>t, CoreFork
<1>5. ASSUME NEW p \in Pid, NEW s \in Slot, NEW a \in Access, Send(p, s, a) PROVE Core'
  BY <1>5, <1>t, CoreSend
<1>6. ASSUME NEW p \in Pid, NEW s \in Slot, ShmOpen(p, s) PROVE Core'
  <2>1. CASE <<p, shmId[p]>> \notin names
    <3> DEFINE o == At("unlink", op[p][s].acc, op[p][s].first, shmId[p], nchunk + 1)
    <3>1. /\ op[p][s].pc = "open" /\ nchunk < MaxChunk /\ nchunk' = nchunk + 1
          /\ op' = [op EXCEPT ![p][s] = o] /\ UNCHANGED <<slot, cursor, mem, orphaned>>
      BY <1>6, <2>1 DEF ShmOpen
    <3>2. o.pc = "unlink" /\ o.new = nchunk + 1
      BY DEF At
    <3> HIDE DEF o
    <3> QED BY <3>1, <3>2, <1>t, CoreOpen
  <2>2. CASE <<p, shmId[p]>> \in names
    BY <1>6, <2>2, <1>t, CoreVanish DEF ShmOpen, Abort
  <2> QED BY <2>1, <2>2
<1>7. ASSUME NEW p \in Pid, NEW s \in Slot, ShmUnlink(p, s) PROVE Core'
  <2>1. op[p][s].pc \in Creating /\ "send_fd" \in Creating
    BY <1>7 DEF ShmUnlink, Creating
  <2> QED BY <1>7, <2>1, <1>t, CorePc DEF ShmUnlink, histVars
<1>8. ASSUME NEW p \in Pid, NEW s \in Slot, SendFd(p, s) PROVE Core'
  <2>1. CASE ipc[p] /\ phase = "recv"
    <3>1. op[p][s].pc \in Creating /\ "truncate" \in Creating
      BY <1>8 DEF SendFd, Creating
    <3> QED BY <1>8, <2>1, <3>1, <1>t, CorePc DEF SendFd, shmVars
  <2>2. CASE ~(ipc[p] /\ phase = "recv")
    BY <1>8, <2>2, <1>t, CoreVanish DEF SendFd, Abort, shmVars
  <2> QED BY <2>1, <2>2
<1>9. ASSUME NEW p \in Pid, NEW s \in Slot, Truncate(p, s) PROVE Core'
  <2> DEFINE o == op[p][s]
             cur == [chunk |-> o.new, pos |-> 0]
  <2>1. o.pc = "truncate" /\ UNCHANGED <<nchunk, mem, orphaned>>
    BY <1>9 DEF Truncate
  <2>2. o.acc \in Access
    BY <2>1, <1>t DEF ThreadInv, ThreadAt
  <2>3. CASE Fits(cur, RecLen(o.acc))
    <3> DEFINE nxt == Advance(cur, RecLen(o.acc))
               new == At("write", o.acc, FALSE, 0, 0)
    <3>1. /\ op' = [op EXCEPT ![p][s] = new] /\ cursor' = [cursor EXCEPT ![p][s] = nxt]
          /\ UNCHANGED slot
      BY <1>9, <2>3 DEF Truncate
    <3>2. nxt.chunk = o.new /\ nxt.pos = RecLen(o.acc)
      BY <2>2, RecLenType DEF Advance
    <3>3. new.pc = "write" /\ new.acc = o.acc /\ new.pc \notin Creating
      BY DEF At, Creating
    <3> HIDE DEF nxt, new
    <3> QED BY <2>1, <2>2, <3>1, <3>2, <3>3, <1>t, CoreMap
  <2>4. CASE ~Fits(cur, RecLen(o.acc)) /\ o.first
    <3> DEFINE new == At("open", o.acc, FALSE, 0, 0)
    <3>1. /\ op' = [op EXCEPT ![p][s] = new] /\ cursor' = [cursor EXCEPT ![p][s] = cur]
          /\ UNCHANGED slot
      BY <1>9, <2>4 DEF Truncate
    <3>2. new.pc = "open" /\ new.pc \notin Creating /\ cur.chunk = o.new
      BY DEF At, Creating
    <3> HIDE DEF cur, new
    <3> QED BY <2>1, <3>1, <3>2, <1>t, CoreMap
  <2>5. CASE ~Fits(cur, RecLen(o.acc)) /\ ~o.first
    BY <1>9, <2>1, <2>5, <1>t, CoreVanish DEF Truncate, Abort
  <2> QED BY <2>3, <2>4, <2>5
<1>10. ASSUME NEW p \in Pid, NEW s \in Slot, WriteData(p, s) PROVE Core'
  BY <1>10, <1>t, CoreWrite
<1>11. ASSUME NEW p \in Pid, NEW s \in Slot, StoreFlag(p, s) PROVE Core'
  BY <1>11, <1>t, CoreFlag
<1>12. CASE UNCHANGED <<slot, op, cursor, mem, nchunk, orphaned>>
  BY <1>12, <1>t, CoreUnchanged
<1>13. ASSUME NEW p \in Pid, CloseIpc(p) PROVE UNCHANGED <<slot, op, cursor, mem, nchunk, orphaned>>
  BY <1>13 DEF CloseIpc, shmVars, histVars
<1>14. (\/ DropSender \/ DropReceiver \/ Receiver \/ UNCHANGED vars)
         => UNCHANGED <<slot, op, cursor, mem, nchunk, orphaned>>
  BY DEF DropSender, DropReceiver, Receiver, RecvFd, RecvEof, MapNext, ReadRecord, ReadStop,
         ReadGarbage, Finish, procVars, shmVars, histVars, vars
<1> QED
  BY <1>1, <1>2, <1>3, <1>4, <1>5, <1>6, <1>7, <1>8, <1>9, <1>10, <1>11, <1>12, <1>13, <1>14
     DEF Next, Target, Thread, Terminated

-------------------------------------------------------------------------------
(* Completed records stay *)

\* The bytes after a flag decode to one access only.
LEMMA DecodesUnique ==
  ASSUME NEW c \in Chunk, NEW x \in Offset, NEW a \in Access, NEW a2 \in Access, NEW n, NEW n2,
         Decodes(c, x, n, a), Decodes(c, x, n2, a2)
  PROVE  a = a2
<1>1. 1 \in 1..EncodedSize[a] /\ 1 \in 1..EncodedSize[a2]
  BY RecLenType
<1>2. mem[c][x + 1] = Data(a, 1) /\ mem[c][x + 1] = Data(a2, 1)
  BY <1>1 DEF Decodes
<1> QED BY <1>2, DataInjective

\* A writer changes cells from the start of its own record on.
LEMMA StableWrite ==
  ASSUME ShmTypeOK, NEW c \in Chunk, NEW b \in Offset, mem[c][b] = Zero,
         \A y \in Offset : y >= b => mem[c][y] # Flag,
         \A y \in Offset : y < b => mem'[c][y] = mem[c][y],
         NEW x \in Offset, IntactAt(c, x), mem[c][x] = Flag
  PROVE  mem'[c][x] = Flag /\ \A a \in Access : Decodes(c, x, Cap, a) => Decodes(c, x, Cap, a)'
<1>1. PICK a2 \in Access : Decodes(c, x, Cap, a2) /\ x < b /\ x + RecLen(a2) <= b
  BY BelowZero
<1>2. mem'[c][x] = Flag
  BY <1>1
<1>3. ASSUME NEW a \in Access, Decodes(c, x, Cap, a) PROVE Decodes(c, x, Cap, a)'
  <2>1. a = a2
    BY <1>1, <1>3, DecodesUnique
  <2>2. \A i \in 1..EncodedSize[a] : x + i \in Offset /\ x + i < b
    BY <1>1, <2>1, RecLenType, ConstAssumption DEF Offset
  <2>3. \A i \in 1..EncodedSize[a] : mem'[c][x + i] = mem[c][x + i]
    BY <2>2
  <2> QED BY <1>3, <2>3 DEF Decodes
<1> QED BY <1>2, <1>3

\* While a thread writes, no flag is set from the start of its record on.
LEMMA NoFlagAbove ==
  ASSUME ProcTypeOK, ThreadInv, Core, NEW p \in Pid, NEW s \in Slot, op[p][s].pc \in Writing,
         cursor[p][s].chunk \notin orphaned
  PROVE  /\ mem[cursor[p][s].chunk][RecStart(p, s)] = Zero
         /\ \A y \in Offset : y >= RecStart(p, s) => mem[cursor[p][s].chunk][y] # Flag
<1>1. PICK c \in Chunk, b \in Offset, a \in Access, e \in 0..Cap :
        /\ c = cursor[p][s].chunk /\ b = RecStart(p, s) /\ a = op[p][s].acc /\ e = cursor[p][s].pos
        /\ b + RecLen(a) = e /\ MayWrite(p, s, c)
  BY WriterFacts
<1>2. WriterAt(p, s, c)
  BY <1>1 DEF Core, WriterInv
<1>3. mem[c][b] = Zero /\ \A y \in Offset : y >= e => mem[c][y] = Zero
  BY <1>1, <1>2 DEF WriterAt
<1>4. ASSUME NEW y \in Offset, y >= b PROVE mem[c][y] # Flag
  <2>1. CASE y = b \/ y >= e
    BY <1>3, <2>1, CellType
  <2>2. CASE y > b /\ y < e
    <3>1. y - b \in 1..EncodedSize[a] /\ b + (y - b) = y /\ y - b \in 0..Cap
      BY <1>1, <2>2, RecLenType, ConstAssumption DEF Offset
    <3>2. CASE op[p][s].pc = "write"
      BY <1>1, <1>2, <1>4, <3>2, CellType DEF WriterAt
    <3>3. CASE op[p][s].pc = "flag"
      <4>1. mem[c][y] = Data(a, y - b)
        BY <1>1, <1>2, <3>1, <3>3 DEF WriterAt, Decodes
      <4> QED BY <3>1, <4>1, CellType
    <3> QED BY <3>2, <3>3 DEF Writing
  <2> QED BY <1>1, <1>4, <2>1, <2>2 DEF Offset
<1> QED BY <1>1, <1>3, <1>4

\* No step changes a completed record.
LEMMA StableStep == LayoutInv /\ [Next]_vars => StillThere
<1> SUFFICES ASSUME LayoutInv, [Next]_vars PROVE StillThere
  OBVIOUS
<1>t. ProcTypeOK /\ ShmTypeOK /\ ThreadInv /\ Core
  BY DEF LayoutInv, TypeOK, Core
<1>i. \A c \in Chunk \ orphaned : \A x \in Offset : IntactAt(c, x)
  BY <1>t DEF Core, IntactRecords
<1>1. CASE UNCHANGED mem
  BY <1>1 DEF StillThere, Decodes
<1>2. ASSUME NEW p \in Pid, NEW s \in Slot, NEW m, op[p][s].pc \in Writing,
             mem' = [mem EXCEPT ![cursor[p][s].chunk] = m],
             \A y \in Offset : y < RecStart(p, s) => m[y] = mem[cursor[p][s].chunk][y],
             UNCHANGED orphaned
      PROVE  StillThere
  <2> SUFFICES ASSUME NEW c \in Chunk \ orphaned, NEW x \in Offset, mem[c][x] = Flag
               PROVE  /\ mem'[c][x] = Flag
                      /\ \A a \in Access : Decodes(c, x, Cap, a) => Decodes(c, x, Cap, a)'
    BY <1>2 DEF StillThere
  <2>1. CASE c # cursor[p][s].chunk
    BY <1>2, <1>t, <2>1 DEF Decodes, ShmTypeOK
  <2>2. CASE c = cursor[p][s].chunk
    <3>1. PICK b \in Offset : b = RecStart(p, s)
      BY <1>2, <1>t, WriterFacts
    <3>2. mem[c][b] = Zero /\ \A y \in Offset : y >= b => mem[c][y] # Flag
      BY <1>2, <1>t, <2>2, <3>1, NoFlagAbove
    <3>3. \A y \in Offset : y < b => mem'[c][y] = mem[c][y]
      BY <1>2, <1>t, <2>2, <3>1 DEF ShmTypeOK
    <3> QED BY <1>t, <1>i, <3>2, <3>3, StableWrite
  <2> QED BY <2>1, <2>2
<1>3. ASSUME NEW p \in Pid, NEW s \in Slot, WriteData(p, s) PROVE StillThere
  <2> DEFINE c == cursor[p][s].chunk
             b == RecStart(p, s)
             m == [y \in Offset |-> IF b < y /\ y < cursor[p][s].pos
                                    THEN Data(op[p][s].acc, y - b) ELSE mem[c][y]]
  <2>1. op[p][s].pc \in Writing /\ mem' = [mem EXCEPT ![c] = m] /\ UNCHANGED orphaned
    BY <1>3 DEF WriteData, Writing, histVars
  <2>2. b \in Offset
    BY <2>1, <1>t, WriterFacts
  <2>3. \A y \in Offset : y < b => m[y] = mem[c][y]
    BY <2>2 DEF Offset
  <2> HIDE DEF m
  <2> QED BY <2>1, <2>3, <1>2
<1>4. ASSUME NEW p \in Pid, NEW s \in Slot, StoreFlag(p, s) PROVE StillThere
  <2> DEFINE c == cursor[p][s].chunk
             b == RecStart(p, s)
             m == [mem[c] EXCEPT ![b] = Flag]
  <2>1. op[p][s].pc \in Writing /\ mem' = [mem EXCEPT ![c] = m] /\ UNCHANGED orphaned
    BY <1>4 DEF StoreFlag, Writing
  <2>2. b \in Offset /\ c \in Chunk
    BY <2>1, <1>t, WriterFacts
  <2>3. \A y \in Offset : y < b => m[y] = mem[c][y]
    BY <2>2, <1>t DEF Offset, ShmTypeOK
  <2> HIDE DEF m
  <2> QED BY <2>1, <2>3, <1>2
<1>5. ASSUME NEW p \in Pid, NEW s \in Slot, Thread(p, s)
      PROVE  UNCHANGED mem \/ WriteData(p, s) \/ StoreFlag(p, s)
  BY <1>5 DEF Thread, StartThread, EndThread, Exec, Fork, Send, ShmOpen, ShmUnlink, SendFd,
              Truncate, shmVars
<1>6. ASSUME NEW p \in Pid, Exit(p) \/ CloseIpc(p) PROVE UNCHANGED mem
  BY <1>6 DEF Exit, CloseIpc, shmVars
<1>7. (\/ DropSender \/ DropReceiver \/ Receiver \/ UNCHANGED vars) => UNCHANGED mem
  BY DEF DropSender, DropReceiver, Receiver, RecvFd, RecvEof, MapNext, ReadRecord, ReadStop,
         ReadGarbage, Finish, shmVars, vars
<1> QED BY <1>1, <1>3, <1>4, <1>5, <1>6, <1>7 DEF Next, Target, Terminated

-------------------------------------------------------------------------------
(* The iterator *)

\* Where a completed record ends, the next flag byte or the end of the chunk is.
LEMMA EndIsBoundary ==
  ASSUME NEW c \in Chunk \ orphaned, IntactRecords, NEW r, RecordEnd(c, r)
  PROVE  Boundary(c, r)
<1>1. CASE r = 0
  BY <1>1 DEF IntactRecords
<1>2. CASE r # 0
  <2>1. PICK x \in Offset, a \in Access :
          mem[c][x] = Flag /\ Decodes(c, x, Cap, a) /\ r = x + RecLen(a)
    BY <1>2 DEF RecordEnd
  <2>2. PICK a2 \in Access : Decodes(c, x, Cap, a2) /\ Boundary(c, x + RecLen(a2))
    BY <2>1 DEF IntactRecords, IntactAt
  <2>3. a = a2
    BY <2>1, <2>2, DecodesUnique
  <2> QED BY <2>1, <2>2, <2>3
<1> QED BY <1>1, <1>2

\* What the target does leaves the iterator at the end of a record.
LEMMA ReaderTarget ==
  ASSUME RxTypeOK, ReaderInv, NoGarbage, StillThere, orphaned \subseteq orphaned', UNCHANGED rxVars
  PROVE  ReaderInv' /\ NoGarbage'
<1>1. NoGarbage'
  BY DEF NoGarbage, rxVars
<1>2. ASSUME Reading', fds'[ri'] \notin orphaned' PROVE RecordEnd(fds[ri], rpos)'
  <2>1. PICK c \in Chunk \ orphaned', r \in Nat : c = fds[ri] /\ r = rpos
    BY <1>2 DEF RxTypeOK, ReaderInv, Reading, rxVars
  <2>2. RecordEnd(c, r)
    BY <1>2, <2>1 DEF ReaderInv, Reading, rxVars
  <2>3. RecordEnd(c, r)'
    BY <2>2 DEF RecordEnd, StillThere
  <2> QED BY <2>1, <2>3 DEF rxVars
<1>3. ri' = ri /\ maplen' = maplen /\ fds' = fds /\ phase' = phase /\ rpos' = rpos
  BY DEF rxVars
<1> QED BY <1>1, <1>2, <1>3 DEF ReaderInv

\* Each step leaves iter at the end of a record and without a broken one.
LEMMA ReaderStep == LayoutInv /\ [Next]_vars => ReaderInv' /\ NoGarbage'
<1> SUFFICES ASSUME LayoutInv, [Next]_vars PROVE ReaderInv' /\ NoGarbage'
  OBVIOUS
<1>t. RxTypeOK /\ ShmTypeOK /\ queue \in Seq(Chunk) /\ ReaderInv /\ NoGarbage /\ IntactRecords
  BY DEF LayoutInv, TypeOK
<1>s. StillThere
  BY StableStep
<1>1. ASSUME NEW p \in Pid, Exit(p) \/ CloseIpc(p) PROVE UNCHANGED <<rxVars, orphaned>>
  BY <1>1 DEF Exit, CloseIpc, histVars
<1>2. ASSUME NEW p \in Pid, NEW s \in Slot, Thread(p, s)
      PROVE  UNCHANGED rxVars /\ orphaned \subseteq orphaned'
  BY <1>2 DEF Thread, StartThread, EndThread, Exec, Fork, Send, ShmOpen, ShmUnlink, SendFd,
              Truncate, WriteData, StoreFlag, histVars
<1>3. DropSender \/ UNCHANGED vars => UNCHANGED <<rxVars, orphaned>>
  BY DEF DropSender, vars, histVars
<1>4. CASE UNCHANGED rxVars /\ orphaned \subseteq orphaned'
  BY <1>4, <1>s, <1>t, ReaderTarget
<1>5. CASE DropReceiver
  BY <1>5, <1>t DEF DropReceiver, ReaderInv, NoGarbage, Reading, histVars
<1>6. CASE RecvFd
  <2>1. Len(fds') = Len(fds) + 1
    BY <1>6, <1>t DEF RecvFd, RxTypeOK
  <2> QED BY <1>6, <1>t, <2>1 DEF RecvFd, ReaderInv, NoGarbage, Reading, histVars, RxTypeOK
<1>7. CASE RecvEof
  BY <1>7, <1>t DEF RecvEof, ReaderInv, NoGarbage, Reading, histVars
<1>8. CASE MapNext
  <2>1. CASE Len(maplen) < Len(fds)
    <3>1. /\ fds' = fds /\ ri' = ri /\ rpos' = rpos /\ phase' = "map" /\ phase = "map"
          /\ UNCHANGED <<garbled, orphaned>>
          /\ maplen' = Append(maplen, size[fds[Len(maplen) + 1]])
      BY <1>8, <2>1, <1>t DEF MapNext, histVars, RxTypeOK
    <3>2. size[fds[Len(maplen) + 1]] \in {0, Cap}
      BY <2>1, <1>t DEF RxTypeOK, ShmTypeOK
    <3>3. Len(maplen') = Len(maplen) + 1
      BY <3>1, <3>2, <1>t DEF RxTypeOK
    <3> QED BY <2>1, <3>1, <3>3, <1>t DEF ReaderInv, NoGarbage, Reading, RxTypeOK
  <2>2. CASE Len(maplen) = Len(fds)
    <3>1. /\ phase = "map" /\ phase' = "iter"
          /\ UNCHANGED <<fds, ri, rpos, maplen, garbled, orphaned>>
      BY <1>8, <2>2, <1>t DEF MapNext, histVars, RxTypeOK
    <3> QED BY <2>2, <3>1, <1>t DEF ReaderInv, NoGarbage, RecordEnd
  <2> QED BY <1>8, <2>1, <2>2 DEF MapNext
<1>9. ASSUME NEW a \in Access, ReadRecord(a) PROVE ReaderInv' /\ NoGarbage'
  <2>1. /\ Reading /\ rpos < maplen[ri] /\ mem[fds[ri]][rpos] = Flag
        /\ Decodes(fds[ri], rpos, maplen[ri], a) /\ rpos' = rpos + RecLen(a)
        /\ UNCHANGED <<phase, fds, maplen, ri, garbled, orphaned, mem>>
    BY <1>9 DEF ReadRecord, histVars, shmVars
  <2>2. maplen[ri] \in {0, Cap}
    BY <2>1, <1>t DEF RxTypeOK, ReaderInv, Reading
  <2>3. maplen[ri] = Cap /\ rpos \in Offset
    BY <2>1, <2>2, <1>t, ConstAssumption DEF RxTypeOK, Offset
  <2>4. RecordEnd(fds[ri], rpos)'
    <3>1. Decodes(fds[ri], rpos, Cap, a)
      BY <2>1, <2>3
    <3>2. PICK c \in {fds[ri]}, r \in {rpos} : TRUE
      OBVIOUS
    <3>3. mem'[c][r] = Flag /\ Decodes(c, r, Cap, a)'
      BY <2>1, <3>1, <3>2 DEF Decodes
    <3>4. RecordEnd(c, r + RecLen(a))'
      BY <2>3, <3>2, <3>3 DEF RecordEnd
    <3> QED BY <2>1, <3>2, <3>4
  <2> QED BY <2>1, <2>4, <1>t DEF ReaderInv, NoGarbage, Reading
<1>10. CASE ReadStop
  <2>1. ri' = ri + 1 /\ rpos' = 0 /\ UNCHANGED <<phase, fds, maplen, garbled, orphaned>>
    BY <1>10 DEF ReadStop, histVars
  <2> QED BY <2>1, <1>t DEF ReaderInv, NoGarbage, RecordEnd, RxTypeOK
<1>11. CASE ReadGarbage
  <2>1. /\ Reading /\ rpos < maplen[ri] /\ mem[fds[ri]][rpos] # Zero
        /\ mem[fds[ri]][rpos] = Flag =>
             ~ \E a \in Access : Decodes(fds[ri], rpos, maplen[ri], a)
        /\ garbled' = garbled \cup {fds[ri]}
        /\ UNCHANGED <<fds, maplen, ri, orphaned>>
        /\ phase' = "panicked" \/ (phase' = phase /\ rpos' \in Nat)
    BY <1>11, <1>t DEF ReadGarbage, histVars, RxTypeOK, ReaderInv, Reading
  <2>2. maplen[ri] \in {0, Cap} /\ fds[ri] \in Chunk
    BY <2>1, <1>t DEF RxTypeOK, ReaderInv, Reading
  <2>3. maplen[ri] = Cap /\ rpos \in Offset
    BY <2>1, <2>2, <1>t, ConstAssumption DEF RxTypeOK, Offset
  <2>4. ASSUME fds[ri] \notin orphaned PROVE FALSE
    <3>1. Boundary(fds[ri], rpos)
      BY <2>1, <2>2, <2>4, <1>t, EndIsBoundary DEF ReaderInv
    <3>2. mem[fds[ri]][rpos] = Flag
      BY <2>1, <2>3, <3>1, ConstAssumption DEF Boundary, Offset
    <3>3. IntactAt(fds[ri], rpos)
      BY <2>2, <2>3, <2>4, <1>t DEF IntactRecords
    <3> QED BY <2>1, <2>3, <3>2, <3>3 DEF IntactAt
  <2>5. phase = "iter"
    BY <2>1 DEF Reading
  <2> QED BY <2>1, <2>4, <2>5, <1>t DEF ReaderInv, NoGarbage, Reading
<1>12. CASE Finish
  BY <1>12, <1>t DEF Finish, ReaderInv, NoGarbage, Reading, histVars
<1> QED
  BY <1>1, <1>2, <1>3, <1>4, <1>5, <1>6, <1>7, <1>8, <1>9, <1>10, <1>11, <1>12
     DEF Next, Target, Receiver, Terminated

-------------------------------------------------------------------------------
(* The theorems *)

\* The tree of processes starts with blank chunks and no thread inside send.
LEMMA LayoutInit == Init => LayoutInv
<1> SUFFICES ASSUME Init PROVE LayoutInv
  OBVIOUS
<1>1. TypeOK
  BY TypeInit
<1>2. /\ \A p \in Pid, s \in Slot : op[p][s] = IdleOp /\ cursor[p][s] = NoCursor
                                     /\ slot[p][s] = "free"
      /\ \A c \in Chunk : Blank(c)
      /\ nchunk = 0 /\ garbled = {} /\ fds = <<>> /\ maplen = <<>>
      /\ ri = 1 /\ rpos = 0 /\ phase = "recv"
  BY DEF Init, Blank
<1>3. /\ IdleOp.pc = "idle" /\ NoCursor.chunk = 0 /\ NoCursor.pos = 0
      /\ "idle" \notin Creating /\ "idle" \notin Writing
      /\ Zero # Flag /\ 0 \notin Chunk
  BY DEF IdleOp, At, NoCursor, Zero, Flag, Creating, Writing, Chunk
<1>4. ThreadInv
  BY <1>2, <1>3 DEF ThreadInv, ThreadAt
<1>5. FreshInv
  BY <1>2, <1>3 DEF FreshInv, FreshAt
<1>6. \A p \in Pid, s \in Slot, c \in Chunk : ~MayWrite(p, s, c)
  BY <1>2, <1>3 DEF MayWrite
<1>7. SingleWriter /\ WriterInv
  BY <1>6 DEF SingleWriter, WriterInv, WriterAt
<1>8. IntactRecords
  <2>1. 0 \in Offset /\ 0 < Cap
    BY ConstAssumption DEF Offset
  <2> QED BY <1>2, <1>3, <2>1 DEF IntactRecords, IntactAt, Boundary, Blank
<1>9. ReaderInv /\ NoGarbage
  BY <1>2 DEF ReaderInv, NoGarbage, Reading
<1> QED BY <1>1, <1>4, <1>5, <1>7, <1>8, <1>9 DEF LayoutInv

\* LayoutInv is inductive.
LEMMA LayoutStep == LayoutInv /\ [Next]_vars => LayoutInv'
BY TypeStep, ThreadStep, CoreStep, ReaderStep DEF LayoutInv, Core

\* The chunk layout that Client::send maintains and PathAccessIterable::iter
\* relies on holds in every reachable state, for any number of processes,
\* threads, chunks and accesses of any size.
THEOREM LayoutInvariant == Spec => []LayoutInv
<1>1. Init => LayoutInv
  BY LayoutInit
<1>2. LayoutInv /\ [Next]_vars => LayoutInv'
  BY LayoutStep
<1> QED BY <1>1, <1>2, PTL DEF Spec

\* Every variable keeps its type; a cursor never passes the end of its chunk
\* (ShmCursor::advance).
THEOREM TypeCorrect == Spec => []TypeOK
<1>1. LayoutInv => TypeOK
  BY DEF LayoutInv
<1> QED BY <1>1, LayoutInvariant, PTL

\* Two threads never share a chunk they may still write, in one process or
\* across a fork, except the chunks of exited threads that a fork duplicated.
THEOREM WritersDisjoint == Spec => []SingleWriter
<1>1. LayoutInv => SingleWriter
  BY DEF LayoutInv
<1> QED BY <1>1, LayoutInvariant, PTL

\* Wherever send is interrupted, each set flag is followed by a whole record.
THEOREM RecordsIntact == Spec => []IntactRecords
<1>1. LayoutInv => IntactRecords
  BY DEF LayoutInv
<1> QED BY <1>1, LayoutInvariant, PTL

\* iter never decodes a broken record, so its unwrap() cannot panic.
THEOREM IteratorClean == Spec => []NoGarbage
<1>1. LayoutInv => NoGarbage
  BY DEF LayoutInv
<1> QED BY <1>1, LayoutInvariant, PTL

\* A record whose flag was stored is never written again by any process.
THEOREM RecordsStable == Spec => NeverOverwritten
<1>1. LayoutInv /\ [Next]_vars => [StillThere]_vars
  BY StableStep
<1> QED BY <1>1, LayoutInvariant, PTL DEF Spec, NeverOverwritten

===============================================================================
