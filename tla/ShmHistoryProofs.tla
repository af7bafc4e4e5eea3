---------------------------- MODULE ShmHistoryProofs ----------------------------
(***************************************************************************)
(* What the receiver of the shared-memory channel yields (ShmChannel), for *)
(* every number of processes, threads, chunks and accesses: what was sent, *)
(* once, completely up to end of file and in program order; so that the    *)
(* channel implements AccessLog.                                           *)
(***************************************************************************)
EXTENDS ShmChannelProofs, ShmRefinement, SequenceTheorems

-------------------------------------------------------------------------------
(* The inductive invariant: the history of accesses, chunks and the iterator *)

Rec(a, c) == [acc |-> a, chunk |-> c]

\* A completed record of access a starts at x.
RecordAt(c, x, a) == x \in Offset /\ mem[c][x] = Flag /\ Decodes(c, x, Cap, a)

\* The chunks in the order in which their fds were sent
Order == fds \o queue
Sent(c) == \E i \in DOMAIN Order : Order[i] = c
Before(c, e) == \E i, j \in DOMAIN Order : i < j /\ Order[i] = c /\ Order[j] = e

\* Each access is sent by one thread, once; what precedes it is complete.
SendingAt(p, s) ==
  op[p][s].pc # "idle" =>
    /\ op[p][s].acc \in begun
    /\ prev[op[p][s].acc] = last[p][s]
    /\ \A d \in done : d.acc # op[p][s].acc
    /\ \A q \in Pid, t \in Slot : op[q][t].pc # "idle" /\ op[q][t].acc = op[p][s].acc => q = p /\ t = s
Known(a) == a = NoAccess \/ \E d \in done : d.acc = a
AccInv ==
  /\ \A p \in Pid, s \in Slot : SendingAt(p, s)
  /\ \A d \in done : d.acc \in begun
  /\ \A d, e \in done : d.acc = e.acc => d = e
  /\ \A p \in Pid, s \in Slot : Known(last[p][s])
  /\ \A a \in Access : Known(prev[a])

\* Before a chunk is used its fd was sent, once.  (Until the receiver is dropped.)
SentBy(p, s) ==
  /\ op[p][s].pc \in {"unlink", "send_fd"} => ~Sent(op[p][s].new)
  /\ op[p][s].pc = "truncate" => Sent(op[p][s].new)
  /\ cursor[p][s].chunk # 0 => Sent(cursor[p][s].chunk)
SentInv ==
  /\ \A i, j \in DOMAIN Order : Order[i] = Order[j] => i = j
  /\ \A i \in DOMAIN Order : Order[i] <= nchunk
  /\ \A p \in Pid, s \in Slot : SentBy(p, s)
  /\ \A d \in done : Sent(d.chunk)

\* A chunk that is written to has its full size.
SizeInv ==
  /\ \A p \in Pid, s \in Slot : cursor[p][s].chunk # 0 => size[cursor[p][s].chunk] = Cap
  /\ \A d \in done : size[d.chunk] = Cap

\* The completed sends are the records in memory.
MemAt(c) ==
  /\ \A x \in Offset, a \in Access : RecordAt(c, x, a) => Rec(a, c) \in done
  /\ \A x, y \in Offset, a \in Access : RecordAt(c, x, a) /\ RecordAt(c, y, a) => x = y
  /\ \A d \in done : d.chunk = c => \E x \in Offset : RecordAt(c, x, d.acc)
\* They follow each other without a gap, and the writer goes on at the last one's end.
NoGap(c) ==
  \A x, r \in Offset, a \in Access : RecordAt(c, x, a) /\ RecordEnd(c, r) /\ r <= x =>
    \E e \in Access : RecordAt(c, r, e)
Base(p, s) == IF op[p][s].pc \in Writing THEN RecStart(p, s) ELSE cursor[p][s].pos
RecordsInv ==
  /\ \A c \in Chunk \ orphaned : MemAt(c) /\ NoGap(c)
  /\ \A p \in Pid, s \in Slot, c \in Chunk \ orphaned : MayWrite(p, s, c) => RecordEnd(c, Base(p, s))

\* What the iterator has yielded, and what it has passed.
Yielded == {out[j] : j \in DOMAIN out}
YieldedFrom(d, k) ==
  /\ k <= ri /\ fds[k] = d.chunk
  /\ \E x \in Offset : RecordAt(d.chunk, x, d.acc) /\ (k = ri => x < rpos)
OutInv ==
  /\ phase \in {"recv", "map", "dropped"} => out = <<>> /\ ri = 1 /\ rpos = 0
  /\ phase = "recv" => sealed = {} /\ maplen = <<>>
  /\ phase # "recv" => queue = <<>>
  /\ phase = "done" => ri = Len(fds) + 1
  /\ \A j \in DOMAIN out : out[j].chunk \notin orphaned => \E k \in DOMAIN fds : YieldedFrom(out[j], k)
PassedInv ==
  /\ sealed \subseteq done
  /\ \A d \in sealed : \E k \in DOMAIN fds : fds[k] = d.chunk
  /\ \A d \in sealed : \A k \in DOMAIN maplen : fds[k] = d.chunk => maplen[k] = Cap
  /\ \A d \in sealed : \A k \in DOMAIN fds : k < ri /\ fds[k] = d.chunk /\ d.chunk \notin orphaned => d \in Yielded
  /\ Reading /\ fds[ri] \notin orphaned =>
       \A x \in Offset, a \in Access : RecordAt(fds[ri], x, a) /\ x < rpos => Rec(a, fds[ri]) \in Yielded

\* d was complete before the fd of chunk c was sent.
Earlier(d, c) == Before(d.chunk, c) /\ (phase = "recv" \/ d \in sealed)
\* The next record of a thread goes behind its last one, or into a chunk sent after it.
CauseAt(p, s) ==
  \A d \in done : d.acc = last[p][s] =>
    /\ op[p][s].pc = "truncate" => Earlier(d, op[p][s].new)
    /\ d.chunk \notin orphaned =>
         \A c \in Chunk \ orphaned : MayWrite(p, s, c) => d.chunk = c \/ Earlier(d, c)
Follows(r, d) ==
  \/ Earlier(d, r.chunk)
  \/ d.chunk = r.chunk /\ \E x, y \in Offset : x < y /\ RecordAt(d.chunk, x, d.acc) /\ RecordAt(r.chunk, y, r.acc)
CauseInv ==
  /\ \A p \in Pid, s \in Slot : CauseAt(p, s)
  /\ \A r, d \in done : prev[r.acc] = d.acc /\ r.chunk \notin orphaned /\ d.chunk \notin orphaned => Follows(r, d)

HistoryInv ==
  /\ AccInv
  /\ phase # "dropped" => SentInv /\ CauseInv
  /\ SizeInv
  /\ RecordsInv
  /\ OutInv
  /\ PassedInv
  /\ ReportedOnce
  /\ CausalOrder

-------------------------------------------------------------------------------
(* What a step does to the threads *)

\* The other threads stay where they are.
Only(p, s) ==
  \A q \in Pid, t \in Slot : ~(q = p /\ t = s) =>
    op'[q][t] = op[q][t] /\ cursor'[q][t] = cursor[q][t] /\ last'[q][t] = last[q][t]

\* A thread stays where it is, or it ends with its image or comes from a fork.
CalmAt(q, t) ==
  \/ /\ op'[q][t] = op[q][t] /\ cursor'[q][t] = cursor[q][t] /\ last'[q][t] = last[q][t]
     /\ slot'[q][t] = "leaked" <=> slot[q][t] = "leaked"
  \/ /\ op'[q][t].pc = "idle"
     /\ \A c \in Chunk \ orphaned' : ~MayWrite(q, t, c)'
     /\ cursor'[q][t].chunk = 0 \/ \E r \in Pid, u \in Slot : cursor'[q][t].chunk = cursor[r][u].chunk
     /\ \E r \in Pid, u \in Slot : last'[q][t] = last[r][u]
Calm ==
  /\ UNCHANGED <<mem, nchunk, begun, done, prev, queue>> /\ UNCHANGED rxVars
  /\ orphaned \subseteq orphaned'
  /\ \A c \in Chunk : size[c] = Cap => size'[c] = Cap
  /\ \A q \in Pid, t \in Slot : CalmAt(q, t)

\* A thread takes a step inside send.
Opens(p, s)     == /\ op[p][s].pc = "open" /\ op'[p][s].pc = "unlink" /\ op'[p][s].new = nchunk + 1
                   /\ nchunk' = nchunk + 1 /\ cursor' = cursor /\ UNCHANGED <<size, queue, mem>>
Unlinks(p, s)   == /\ op[p][s].pc = "unlink" /\ op'[p][s].pc = "send_fd" /\ op'[p][s].new = op[p][s].new
                   /\ cursor' = cursor /\ UNCHANGED <<size, queue, mem, nchunk>>
SendsFd(p, s)   == /\ op[p][s].pc = "send_fd" /\ op'[p][s].pc = "truncate" /\ op'[p][s].new = op[p][s].new
                   /\ phase = "recv" /\ queue' = Append(queue, op[p][s].new)
                   /\ cursor' = cursor /\ UNCHANGED <<size, mem, nchunk>>
Truncates(p, s) == /\ op[p][s].pc = "truncate" /\ cursor'[p][s].chunk = op[p][s].new
                   /\ \/ op'[p][s].pc = "write" /\ cursor'[p][s].pos = RecLen(op[p][s].acc)
                      \/ op'[p][s].pc = "open" /\ cursor'[p][s].pos = 0
                   /\ size' = [size EXCEPT ![op[p][s].new] = Cap] /\ UNCHANGED <<queue, mem, nchunk>>
Writes(p, s)    == /\ op[p][s].pc = "write" /\ op'[p][s].pc = "flag" /\ WriteData(p, s)
                   /\ cursor' = cursor /\ UNCHANGED <<size, queue, nchunk>>
Progress(p, s) ==
  /\ Only(p, s)
  /\ op'[p][s].acc = op[p][s].acc
  /\ UNCHANGED <<slot, begun, done, prev, last, orphaned>> /\ UNCHANGED rxVars
  /\ Opens(p, s) \/ Unlinks(p, s) \/ SendsFd(p, s) \/ Truncates(p, s) \/ Writes(p, s)

\* Send, with the cursor it leaves.
Starts(p, s, a) ==
  /\ Only(p, s)
  /\ slot[p][s] = "run" /\ op[p][s].pc = "idle" /\ a \notin begun /\ op'[p][s].acc = a
  /\ begun' = begun \cup {a} /\ prev' = [prev EXCEPT ![a] = last[p][s]]
  /\ cursor'[p][s].chunk = cursor[p][s].chunk
  /\ \/ op'[p][s].pc = "open" /\ cursor'[p][s] = cursor[p][s]
     \/ op'[p][s].pc = "write" /\ cursor[p][s].chunk # 0 /\ cursor'[p][s].pos = cursor[p][s].pos + RecLen(a)
  /\ UNCHANGED <<slot, done, last, orphaned, size, queue, mem, nchunk>> /\ UNCHANGED rxVars

\* StoreFlag: the record is complete.
Completes(p, s) ==
  /\ Only(p, s)
  /\ StoreFlag(p, s)
  /\ op[p][s].pc = "flag" /\ op'[p][s].pc = "idle" /\ last'[p][s] = op[p][s].acc
  /\ done' = done \cup {Rec(op[p][s].acc, cursor[p][s].chunk)}
  /\ cursor' = cursor /\ UNCHANGED <<slot, begun, prev, orphaned, size, queue, nchunk>> /\ UNCHANGED rxVars

\* The receiver leaves the threads alone, and the caller does.
Receives ==
  /\ UNCHANGED <<slot, op, cursor, last, orphaned, mem, nchunk, size, begun, done, prev>>
  /\ DropReceiver \/ Receiver

\* Other steps that leave threads and receiver alone.
LEMMA CalmOutside ==
  ASSUME UNCHANGED <<slot, op, cursor, last, orphaned, mem, nchunk, size, begun, done, prev, queue>>, UNCHANGED rxVars
  PROVE  Calm
  BY DEF Calm, CalmAt

\* The end of an image.
LEMMA CalmVanish ==
  ASSUME ProcTypeOK, NEW p \in Pid, Vanish(p),
         UNCHANGED <<mem, nchunk, begun, done, prev, orphaned, last, queue>>, UNCHANGED rxVars,
         \A c \in Chunk : size[c] = Cap => size'[c] = Cap
  PROVE  Calm
<1>1. ASSUME NEW q \in Pid, NEW t \in Slot PROVE CalmAt(q, t)
  <2>1. CASE q # p
    BY <2>1, VanishFields DEF CalmAt
  <2>2. CASE q = p
    <3>1. op'[q][t] = IdleOp /\ cursor'[q][t] = NoCursor
      BY <2>2, VanishFields
    <3>2. op'[q][t].pc = "idle" /\ cursor'[q][t].chunk = 0 /\ 0 \notin Chunk
      BY <3>1, IdleOpType DEF NoCursor, Chunk
    <3>3. \A c \in Chunk : ~MayWrite(q, t, c)'
      BY <3>2 DEF MayWrite
    <3> QED
      BY <3>2, <3>3 DEF CalmAt
  <2> QED
    BY <2>1, <2>2
<1> QED
  BY <1>1 DEF Calm

\* execve leaves the other processes' threads where they are; its own start over.
LEMMA CalmExec ==
  ASSUME ProcTypeOK, HistTypeOK, NEW p \in Pid, NEW s \in Slot, Exec(p, s)
  PROVE  Calm
<1>1. ASSUME NEW q \in Pid, NEW t \in Slot PROVE CalmAt(q, t)
  <2>1. CASE q # p
    BY <2>1 DEF CalmAt, Exec, ProcTypeOK, HistTypeOK
  <2>2. CASE q = p
    <3>1. op'[q][t] = IdleOp /\ cursor'[q][t] = NoCursor /\ last'[q][t] = last[p][s]
      BY <2>2 DEF Exec, ProcTypeOK, HistTypeOK
    <3>2. op'[q][t].pc = "idle" /\ cursor'[q][t].chunk = 0 /\ 0 \notin Chunk
      BY <3>1, IdleOpType DEF NoCursor, Chunk
    <3>3. \A c \in Chunk : ~MayWrite(q, t, c)'
      BY <3>2 DEF MayWrite
    <3> QED
      BY <3>1, <3>2, <3>3 DEF CalmAt
  <2> QED
    BY <2>1, <2>2
<1> QED
  BY <1>1 DEF Calm, Exec, shmVars

\* A fork's child writes to no chunk of its parent, but to orphaned ones.
LEMMA CalmFork ==
  ASSUME ProcTypeOK, ShmTypeOK, ThreadInv, HistTypeOK, NEW p \in Pid, NEW s \in Slot, NEW r \in Pid, Fork(p, s, r)
  PROVE  Calm
<1>0. /\ UNCHANGED <<mem, nchunk, size, begun, done, prev, queue>> /\ UNCHANGED rxVars
      /\ orphaned' = orphaned \cup Orphans(p)
  BY DEF Fork, shmVars
<1>1. ASSUME NEW t \in Slot PROVE CalmAt(r, t)
  <2>1. /\ op'[r][t] = IdleOp /\ cursor'[r][t] = reset_shm_atfork(p, s)[t] /\ last'[r][t] = last[p][s]
        /\ slot'[r][t] = IF t # s /\ slot[p][t] = "run" THEN "leaked" ELSE slot[p][t]
    BY DEF Fork, ProcTypeOK, HistTypeOK
  <2>2. op'[r][t].pc = "idle"
    BY <2>1, IdleOpType
  <2>3. cursor'[r][t].chunk = cursor[p][t].chunk
    BY <2>1 DEF reset_shm_atfork, ProcTypeOK, CursorType
  <2>4. ASSUME NEW c \in Chunk \ orphaned', MayWrite(r, t, c)' PROVE FALSE
    <3>1. slot'[r][t] # "leaked" /\ cursor'[r][t].chunk = c /\ cursor'[r][t].pos < Cap
      BY <2>2, <2>4 DEF MayWrite
    <3>2. CASE t = s
      <4>1. cursor'[r][t] = [cursor[p][s] EXCEPT !.pos = Cap]
        BY <2>1, <2>3, <3>1, <3>2 DEF reset_shm_atfork, Chunk
      <4>2. cursor'[r][t].pos = Cap
        BY <4>1 DEF ProcTypeOK, CursorType
      <4> QED
        BY <3>1, <4>2, ConstAssumption
    <3>3. CASE t # s
      <4>1. cursor'[r][t] = cursor[p][t]
        BY <2>1, <3>3 DEF reset_shm_atfork
      <4>2. slot[p][t] = "free"
        BY <2>1, <3>1, <3>3 DEF ProcTypeOK
      <4>3. c \in Orphans(p)
        BY <3>1, <4>1, <4>2 DEF Orphans
      <4> QED
        BY <1>0, <2>4, <4>3
    <3> QED
      BY <3>2, <3>3
  <2> QED
    BY <2>1, <2>2, <2>3, <2>4 DEF CalmAt
<1>2. ASSUME NEW q \in Pid, NEW t \in Slot, q # r PROVE CalmAt(q, t)
  BY <1>2 DEF CalmAt, Fork, ProcTypeOK, HistTypeOK
<1> QED
  BY <1>0, <1>1, <1>2 DEF Calm

\* Every step is of one of the kinds above.
LEMMA Steps ==
  ASSUME LayoutInv, [Next]_vars
  PROVE  \/ Calm
         \/ Receives
         \/ \E p \in Pid, s \in Slot : Progress(p, s) \/ Completes(p, s) \/ \E a \in Access : Starts(p, s, a)
<1>t. ProcTypeOK /\ ShmTypeOK /\ HistTypeOK /\ ThreadInv /\ FreshInv
  BY DEF LayoutInv, TypeOK
<1>1. ASSUME NEW p \in Pid, Exit(p) PROVE Calm
  BY <1>t, <1>1, CalmVanish DEF Exit, shmVars, histVars
<1>2. ASSUME NEW p \in Pid, CloseIpc(p) PROVE Calm
  BY <1>2, CalmOutside DEF CloseIpc, shmVars, histVars
<1>3. ASSUME NEW p \in Pid, NEW s \in Slot, StartThread(p, s) \/ EndThread(p, s) PROVE Calm
  <2>1. \A q \in Pid, t \in Slot : CalmAt(q, t)
    <3>1. op' = op /\ cursor' = cursor /\ last' = last
      BY <1>3 DEF StartThread, EndThread, histVars
    <3>2. ASSUME NEW q \in Pid, NEW t \in Slot PROVE slot'[q][t] = "leaked" <=> slot[q][t] = "leaked"
      BY <1>t, <1>3 DEF StartThread, EndThread, ProcTypeOK
    <3> QED
      BY <3>1, <3>2 DEF CalmAt
  <2> QED
    BY <1>3, <2>1 DEF Calm, StartThread, EndThread, shmVars, histVars
<1>4. ASSUME NEW p \in Pid, NEW s \in Slot, NEW why, Abort(p, why),
             UNCHANGED <<mem, nchunk, begun, done, prev, orphaned, last, queue>>, UNCHANGED rxVars,
             size' = size \/ size' = [size EXCEPT ![op[p][s].new] = Cap]
      PROVE  Calm
  <2>1. \A c \in Chunk : size[c] = Cap => size'[c] = Cap
    BY <1>t, <1>4 DEF ShmTypeOK
  <2> QED
    BY <1>t, <1>4, <2>1, CalmVanish DEF Abort
<1>5. ASSUME NEW p \in Pid, NEW s \in Slot, NEW a \in Access, Send(p, s, a) PROVE Starts(p, s, a)
  <2>1. /\ UNCHANGED <<slot, done, last, orphaned, size, queue, mem, nchunk>> /\ UNCHANGED rxVars
        /\ slot[p][s] = "run" /\ op[p][s] = IdleOp /\ a \notin begun
        /\ begun' = begun \cup {a} /\ prev' = [prev EXCEPT ![a] = last[p][s]]
    BY <1>5 DEF Send, shmVars
  <2>2. op[p][s].pc = "idle"
    BY <2>1, IdleOpType
  <2>3. \E o, cur : /\ op' = [op EXCEPT ![p][s] = o] /\ cursor' = [cursor EXCEPT ![p][s] = cur]
                    /\ o.acc = a /\ cur.chunk = cursor[p][s].chunk
                    /\ \/ o.pc = "open" /\ cur = cursor[p][s]
                       \/ o.pc = "write" /\ cursor[p][s].chunk # 0 /\ cur.pos = cursor[p][s].pos + RecLen(a)
    <3>1. ASSUME cursor[p][s].chunk # 0, cursor' = [cursor EXCEPT ![p][s] = Advance(@, RecLen(a))],
                 op' = [op EXCEPT ![p][s] = At("write", a, FALSE, 0, 0)]
          PROVE  \E o, cur : /\ op' = [op EXCEPT ![p][s] = o] /\ cursor' = [cursor EXCEPT ![p][s] = cur]
                             /\ o.acc = a /\ cur.chunk = cursor[p][s].chunk /\ o.pc = "write"
                             /\ cursor[p][s].chunk # 0 /\ cur.pos = cursor[p][s].pos + RecLen(a)
      <4> DEFINE o == At("write", a, FALSE, 0, 0)
                 cur == Advance(cursor[p][s], RecLen(a))
      <4>1. o.acc = a /\ o.pc = "write"
        BY DEF At
      <4>2. cur.chunk = cursor[p][s].chunk /\ cur.pos = cursor[p][s].pos + RecLen(a)
        BY <1>t DEF Advance, ProcTypeOK, CursorType
      <4>3. op' = [op EXCEPT ![p][s] = o] /\ cursor' = [cursor EXCEPT ![p][s] = cur]
        BY <3>1
      <4> HIDE DEF o, cur
      <4> QED
        BY <3>1, <4>1, <4>2, <4>3
    <3>2. ASSUME NEW f, cursor' = cursor, op' = [op EXCEPT ![p][s] = At("open", a, f, 0, 0)]
          PROVE  \E o, cur : /\ op' = [op EXCEPT ![p][s] = o] /\ cursor' = [cursor EXCEPT ![p][s] = cur]
                             /\ o.acc = a /\ cur.chunk = cursor[p][s].chunk /\ o.pc = "open" /\ cur = cursor[p][s]
      <4>1. At("open", a, f, 0, 0).acc = a /\ At("open", a, f, 0, 0).pc = "open"
        BY DEF At
      <4>2. cursor' = [cursor EXCEPT ![p][s] = cursor[p][s]]
        BY <1>t, <3>2 DEF ProcTypeOK
      <4> QED
        BY <3>2, <4>1, <4>2
    <3>3. \/ cursor[p][s].chunk # 0 /\ cursor' = [cursor EXCEPT ![p][s] = Advance(@, RecLen(a))]
             /\ op' = [op EXCEPT ![p][s] = At("write", a, FALSE, 0, 0)]
          \/ \E f : cursor' = cursor /\ op' = [op EXCEPT ![p][s] = At("open", a, f, 0, 0)]
      BY <1>5 DEF Send
    <3>4. CASE cursor[p][s].chunk # 0 /\ cursor' = [cursor EXCEPT ![p][s] = Advance(@, RecLen(a))]
               /\ op' = [op EXCEPT ![p][s] = At("write", a, FALSE, 0, 0)]
      BY <3>1, <3>4
    <3>5. CASE \E f : cursor' = cursor /\ op' = [op EXCEPT ![p][s] = At("open", a, f, 0, 0)]
      BY <3>2, <3>5
    <3> QED
      BY <3>3, <3>4, <3>5
  <2>4. PICK o, cur : /\ op' = [op EXCEPT ![p][s] = o] /\ cursor' = [cursor EXCEPT ![p][s] = cur]
                      /\ o.acc = a /\ cur.chunk = cursor[p][s].chunk
                      /\ \/ o.pc = "open" /\ cur = cursor[p][s]
                         \/ o.pc = "write" /\ cursor[p][s].chunk # 0 /\ cur.pos = cursor[p][s].pos + RecLen(a)
    BY <2>3
  <2>5. Only(p, s) /\ op'[p][s] = o /\ cursor'[p][s] = cur
    <3>1. op' = [op EXCEPT ![p][s] = o] /\ cursor' = [cursor EXCEPT ![p][s] = cur] /\ last' = last
      BY <2>1, <2>4
    <3> QED
      BY <1>t, <3>1 DEF Only, ProcTypeOK
  <2> QED
    BY <2>1, <2>2, <2>4, <2>5 DEF Starts
<1>7. ASSUME NEW p \in Pid, NEW s \in Slot, ShmOpen(p, s) PROVE Calm \/ Progress(p, s)
  <2>1. CASE Abort(p, "EEXIST") /\ UNCHANGED <<nchunk, names>>
    BY <1>4, <1>7, <2>1 DEF ShmOpen
  <2>2. CASE nchunk' = nchunk + 1 /\ op' = [op EXCEPT ![p][s] = At("unlink", @.acc, @.first, shmId[p], nchunk + 1)]
             /\ UNCHANGED <<slot, cursor>>
    <3> DEFINE o == At("unlink", op[p][s].acc, op[p][s].first, shmId[p], nchunk + 1)
    <3>1. op' = [op EXCEPT ![p][s] = o]
      BY <2>2
    <3>2. o.pc = "unlink" /\ o.acc = op[p][s].acc /\ o.new = nchunk + 1
      BY DEF At
    <3>3. op[p][s].pc = "open" /\ UNCHANGED <<size, queue, mem, begun, done, prev, last, orphaned>> /\ UNCHANGED rxVars
      BY <1>7 DEF ShmOpen
    <3> HIDE DEF o
    <3>4. PICK ov : ov = o
      OBVIOUS
    <3>5. Only(p, s) /\ op'[p][s] = ov
      <4>1. op' = [op EXCEPT ![p][s] = ov] /\ cursor' = cursor /\ last' = last
        BY <2>2, <3>1, <3>3, <3>4
      <4> QED
        BY <1>t, <4>1 DEF Only, ProcTypeOK
    <3> QED
      BY <2>2, <3>2, <3>3, <3>4, <3>5 DEF Progress, Opens
  <2> QED
    BY <1>7, <2>1, <2>2 DEF ShmOpen
<1>9. ASSUME NEW p \in Pid, NEW s \in Slot, ShmUnlink(p, s) PROVE Progress(p, s)
  <2>1. /\ op' = [op EXCEPT ![p][s] = [@ EXCEPT !.pc = "send_fd"]] /\ op[p][s].pc = "unlink"
        /\ UNCHANGED <<slot, cursor, size, queue, mem, nchunk, begun, done, prev, last, orphaned>> /\ UNCHANGED rxVars
    BY <1>9 DEF ShmUnlink, histVars
  <2> QED
    <3>1. cursor' = cursor /\ last' = last
      BY <2>1
    <3>2. Only(p, s) /\ op'[p][s].pc = "send_fd" /\ op'[p][s].acc = op[p][s].acc /\ op'[p][s].new = op[p][s].new
      <4>1. PICK o : o = [op[p][s] EXCEPT !.pc = "send_fd"]
        OBVIOUS
      <4>2. op' = [op EXCEPT ![p][s] = o]
        BY <2>1, <4>1
      <4>3. Only(p, s) /\ op'[p][s] = o
        BY <1>t, <3>1, <4>2 DEF Only, ProcTypeOK
      <4>4. o.pc = "send_fd" /\ o.acc = op[p][s].acc /\ o.new = op[p][s].new
        BY <1>t, <4>1 DEF ProcTypeOK, OpType
      <4> QED
        BY <4>3, <4>4
    <3> QED
      BY <2>1, <3>1, <3>2 DEF Progress, Unlinks
<1>10. ASSUME NEW p \in Pid, NEW s \in Slot, SendFd(p, s) PROVE Calm \/ Progress(p, s)
  <2>1. CASE Abort(p, "send_fd") /\ queue' = queue
    BY <1>4, <1>10, <2>1 DEF SendFd, shmVars
  <2>2. CASE op' = [op EXCEPT ![p][s] = [@ EXCEPT !.pc = "truncate"]] /\ UNCHANGED <<slot, cursor>>
             /\ phase = "recv" /\ queue' = Append(queue, op[p][s].new)
    <3>1. op[p][s].pc = "send_fd" /\ UNCHANGED <<size, mem, nchunk, begun, done, prev, last, orphaned>> /\ UNCHANGED rxVars
      BY <1>10 DEF SendFd, shmVars
    <3>2. cursor' = cursor /\ last' = last
      BY <2>2, <3>1
    <3>3. Only(p, s) /\ op'[p][s].pc = "truncate" /\ op'[p][s].acc = op[p][s].acc /\ op'[p][s].new = op[p][s].new
      <4>1. PICK o : o = [op[p][s] EXCEPT !.pc = "truncate"]
        OBVIOUS
      <4>2. op' = [op EXCEPT ![p][s] = o]
        BY <2>2, <4>1
      <4>3. Only(p, s) /\ op'[p][s] = o
        BY <1>t, <3>2, <4>2 DEF Only, ProcTypeOK
      <4>4. o.pc = "truncate" /\ o.acc = op[p][s].acc /\ o.new = op[p][s].new
        BY <1>t, <4>1 DEF ProcTypeOK, OpType
      <4> QED
        BY <4>3, <4>4
    <3> QED
      BY <2>2, <3>1, <3>2, <3>3 DEF Progress, SendsFd
  <2> QED
    BY <1>10, <2>1, <2>2 DEF SendFd
<1>11. ASSUME NEW p \in Pid, NEW s \in Slot, Truncate(p, s) PROVE Calm \/ Progress(p, s)
  <2>1. /\ op[p][s].pc = "truncate" /\ size' = [size EXCEPT ![op[p][s].new] = Cap]
        /\ UNCHANGED <<mem, nchunk, queue, begun, done, prev, last, orphaned>> /\ UNCHANGED rxVars
    BY <1>11 DEF Truncate
  <2>2. CASE Abort(p, "too big")
    BY <1>4, <2>1, <2>2
  <2>3. ASSUME NEW o, NEW cur, op' = [op EXCEPT ![p][s] = o], cursor' = [cursor EXCEPT ![p][s] = cur], slot' = slot,
               o.acc = op[p][s].acc, cur.chunk = op[p][s].new,
               \/ o.pc = "write" /\ cur.pos = RecLen(op[p][s].acc)
               \/ o.pc = "open" /\ cur.pos = 0
        PROVE  Progress(p, s)
    <3>1. Only(p, s) /\ op'[p][s] = o /\ cursor'[p][s] = cur
      <4>1. op' = [op EXCEPT ![p][s] = o] /\ cursor' = [cursor EXCEPT ![p][s] = cur] /\ last' = last
        BY <2>1, <2>3
      <4> QED
        BY <1>t, <4>1 DEF Only, ProcTypeOK
    <3> QED
      BY <2>1, <2>3, <3>1 DEF Progress, Truncates
  <2> DEFINE new == [chunk |-> op[p][s].new, pos |-> 0]
  <2>4. CASE /\ cursor' = [cursor EXCEPT ![p][s] = Advance(new, RecLen(op[p][s].acc))] /\ slot' = slot
             /\ op' = [op EXCEPT ![p][s] = At("write", op[p][s].acc, FALSE, 0, 0)]
    <3> DEFINE o == At("write", op[p][s].acc, FALSE, 0, 0)
               cur == Advance(new, RecLen(op[p][s].acc))
    <3>0. op[p][s].acc \in Access
      BY <1>t, <2>1 DEF ThreadInv, ThreadAt
    <3>1. o.acc = op[p][s].acc /\ o.pc = "write"
      BY DEF At
    <3>2. cur.chunk = op[p][s].new /\ cur.pos = 0 + RecLen(op[p][s].acc)
      BY DEF Advance
    <3>3. cur.pos = RecLen(op[p][s].acc)
      BY <3>0, <3>2, RecLenType
    <3>4. op' = [op EXCEPT ![p][s] = o] /\ cursor' = [cursor EXCEPT ![p][s] = cur]
      BY <2>4
    <3> HIDE DEF o, cur
    <3> QED
      BY <2>3, <2>4, <3>1, <3>2, <3>3, <3>4
  <2>5. CASE /\ cursor' = [cursor EXCEPT ![p][s] = new] /\ slot' = slot
             /\ op' = [op EXCEPT ![p][s] = At("open", op[p][s].acc, FALSE, 0, 0)]
    <3> DEFINE o == At("open", op[p][s].acc, FALSE, 0, 0)
    <3>1. o.acc = op[p][s].acc /\ o.pc = "open"
      BY DEF At
    <3>2. new.chunk = op[p][s].new /\ new.pos = 0
      OBVIOUS
    <3> HIDE DEF o, new
    <3>3. op' = [op EXCEPT ![p][s] = o] /\ cursor' = [cursor EXCEPT ![p][s] = new]
      BY <2>5 DEF o
    <3> QED
      BY <2>3, <2>5, <3>1, <3>2, <3>3
  <2> QED
    BY <1>11, <2>2, <2>4, <2>5 DEF Truncate
<1>12. ASSUME NEW p \in Pid, NEW s \in Slot, WriteData(p, s) PROVE Progress(p, s)
  <2>1. /\ op' = [op EXCEPT ![p][s] = [@ EXCEPT !.pc = "flag"]] /\ op[p][s].pc = "write"
        /\ UNCHANGED <<slot, cursor, size, queue, nchunk, begun, done, prev, last, orphaned>> /\ UNCHANGED rxVars
    BY <1>12 DEF WriteData, histVars
  <2> QED
    <3>1. cursor' = cursor /\ last' = last
      BY <2>1
    <3>2. Only(p, s) /\ op'[p][s].pc = "flag" /\ op'[p][s].acc = op[p][s].acc
      <4>1. PICK o : o = [op[p][s] EXCEPT !.pc = "flag"]
        OBVIOUS
      <4>2. op' = [op EXCEPT ![p][s] = o]
        BY <2>1, <4>1
      <4>3. Only(p, s) /\ op'[p][s] = o
        BY <1>t, <3>1, <4>2 DEF Only, ProcTypeOK
      <4>4. o.pc = "flag" /\ o.acc = op[p][s].acc /\ o.new = op[p][s].new
        BY <1>t, <4>1 DEF ProcTypeOK, OpType
      <4> QED
        BY <4>3, <4>4
    <3> QED
      BY <1>12, <2>1, <3>1, <3>2 DEF Progress, Writes
<1>13. ASSUME NEW p \in Pid, NEW s \in Slot, StoreFlag(p, s) PROVE Completes(p, s)
  <2>1. /\ op' = [op EXCEPT ![p][s] = IdleOp] /\ op[p][s].pc = "flag" /\ last' = [last EXCEPT ![p][s] = op[p][s].acc]
        /\ done' = done \cup {Rec(op[p][s].acc, cursor[p][s].chunk)}
        /\ UNCHANGED <<slot, cursor, size, queue, nchunk, begun, prev, orphaned>> /\ UNCHANGED rxVars
    BY <1>13 DEF StoreFlag, Rec
  <2>2. Only(p, s) /\ op'[p][s] = IdleOp /\ last'[p][s] = op[p][s].acc
    BY <1>t, <2>1 DEF Only, ProcTypeOK, HistTypeOK
  <2> QED
    BY <1>13, <2>1, <2>2, IdleOpType DEF Completes
<1>14. ASSUME DropSender \/ UNCHANGED vars PROVE Calm
  <2>1. UNCHANGED <<slot, op, cursor, last, orphaned, mem, nchunk, size, begun, done, prev, queue>> /\ UNCHANGED rxVars
    BY <1>14 DEF DropSender, shmVars, procVars, histVars, rxVars, vars
  <2> QED
    BY <2>1, CalmOutside
<1>17. ASSUME DropReceiver \/ Receiver PROVE Receives
  <2>1. UNCHANGED <<slot, op, cursor, last, orphaned, mem, nchunk, size, begun, done, prev>>
    BY <1>17 DEF DropReceiver, Receiver, RecvFd, RecvEof, MapNext, ReadRecord, ReadStop,
         ReadGarbage, Finish, shmVars, procVars, histVars
  <2> QED
    BY <1>17, <2>1 DEF Receives
<1>15. ASSUME NEW p \in Pid, NEW s \in Slot, Exec(p, s) PROVE Calm
  BY <1>t, <1>15, CalmExec
<1>16. ASSUME NEW p \in Pid, NEW s \in Slot, NEW q \in Pid, Fork(p, s, q) PROVE Calm
  BY <1>t, <1>16, CalmFork
<1> QED
  BY <1>1, <1>2, <1>3, <1>5, <1>7, <1>9, <1>10, <1>11, <1>12, <1>13, <1>14, <1>15, <1>16, <1>17
     DEF Next, Target, Thread, Terminated

-------------------------------------------------------------------------------
(* What a step does to the records *)

\* The end of a record, in terms of records.
LEMMA EndOfRecord ==
  ASSUME NEW c, NEW r
  PROVE  /\ RecordEnd(c, r) <=> r = 0 \/ \E x \in Offset, a \in Access : RecordAt(c, x, a) /\ r = x + RecLen(a)
         /\ RecordEnd(c, r)' <=> r = 0 \/ \E x \in Offset, a \in Access : RecordAt(c, x, a)' /\ r = x + RecLen(a)
  BY DEF RecordEnd, RecordAt

\* A record stays, and one that is new was completed by StoreFlag.
Added(p, s, c, x, a) == c = cursor[p][s].chunk /\ x = RecStart(p, s) /\ a = op[p][s].acc

\* A step keeps the records of a chunk that is not lost.
LEMMA RecordsStay ==
  ASSUME LayoutInv, [Next]_vars, NEW c \in Chunk, c \notin orphaned', NEW x, NEW a \in Access, RecordAt(c, x, a)
  PROVE  RecordAt(c, x, a)'
  BY StableStep DEF RecordAt, StillThere

\* A flag that was there before starts the same record as after.
LEMMA OldRecord ==
  ASSUME LayoutInv, [Next]_vars, NEW c \in Chunk, c \notin orphaned, c \notin orphaned',
         NEW x, NEW a \in Access, RecordAt(c, x, a)', mem[c][x] = Flag
  PROVE  RecordAt(c, x, a)
<1>1. x \in Offset
  BY DEF RecordAt
<1>2. PICK e \in Access : Decodes(c, x, Cap, e)
  BY <1>1 DEF LayoutInv, IntactRecords, IntactAt
<1>3. RecordAt(c, x, e) /\ RecordAt(c, x, e)'
  BY <1>1, <1>2, RecordsStay DEF RecordAt
<1>4. \A i \in 1..EncodedSize[a] : mem'[c][x + i] = Data(a, i)
  BY DEF RecordAt, Decodes
<1>5. \A i \in 1..EncodedSize[e] : mem'[c][x + i] = Data(e, i)
  BY <1>3 DEF RecordAt, Decodes
<1>6. 1 \in 1..EncodedSize[a] /\ 1 \in 1..EncodedSize[e]
  BY RecLenType
<1>7. Data(a, 1) = Data(e, 1)
  BY <1>4, <1>5, <1>6
<1>8. a = e
  BY <1>7, DataInjective
<1> QED
  BY <1>3, <1>8

\* Steps that write nothing add no record.
LEMMA RecordsCalm ==
  ASSUME LayoutInv, [Next]_vars, NEW c \in Chunk, c \notin orphaned, c \notin orphaned', NEW x, NEW a \in Access,
         \/ UNCHANGED mem
         \/ \E p \in Pid, s \in Slot : WriteData(p, s)
  PROVE  RecordAt(c, x, a)' <=> RecordAt(c, x, a)
<1>1. CASE UNCHANGED mem
  BY <1>1 DEF RecordAt, Decodes
<1>2. ASSUME NEW p \in Pid, NEW s \in Slot, WriteData(p, s) PROVE RecordAt(c, x, a)' <=> RecordAt(c, x, a)
  <2>t. ProcTypeOK /\ ShmTypeOK /\ ThreadInv
    BY DEF LayoutInv, TypeOK
  <2>1. PICK k \in Chunk, b \in Offset, v \in Access, e \in 0..Cap :
          /\ k = cursor[p][s].chunk /\ b = RecStart(p, s) /\ v = op[p][s].acc /\ e = cursor[p][s].pos
          /\ b + RecLen(v) = e
    BY <1>2, <2>t, WriterFacts DEF WriteData, Writing
  <2>2. mem' = [mem EXCEPT ![k] = [o \in Offset |-> IF b < o /\ o < e THEN Data(v, o - b) ELSE mem[k][o]]]
    BY <1>2, <2>1 DEF WriteData
  <2>3. ASSUME RecordAt(c, x, a)' PROVE mem[c][x] = Flag
    <3>1. x \in Offset /\ mem'[c][x] = Flag
      BY <2>3 DEF RecordAt
    <3>2. CASE c = k /\ b < x /\ x < e
      <4>1. mem'[c][x] = Data(v, x - b)
        BY <2>t, <2>2, <3>1, <3>2 DEF ShmTypeOK
      <4>2. x - b \in 0..Cap
        BY <2>1, <3>1, <3>2, ConstAssumption DEF Offset
      <4> QED
        BY <3>1, <4>1, <4>2, CellType
    <3>3. CASE ~(c = k /\ b < x /\ x < e)
      BY <2>t, <2>2, <3>1, <3>3 DEF ShmTypeOK
    <3> QED
      BY <3>2, <3>3
  <2> QED
    BY <2>3, OldRecord, RecordsStay
<1> QED
  BY <1>1, <1>2

\* The record that StoreFlag completes lies behind all others.
LEMMA RecordsComplete ==
  ASSUME LayoutInv, [Next]_vars, NEW p \in Pid, NEW s \in Slot, StoreFlag(p, s), NEW c \in Chunk, c \notin orphaned
  PROVE  /\ \A x \in Offset, a \in Access : RecordAt(c, x, a)' <=> RecordAt(c, x, a) \/ Added(p, s, c, x, a)
         /\ c = cursor[p][s].chunk =>
              \A x \in Offset, a \in Access : RecordAt(c, x, a) => x < RecStart(p, s) /\ x + RecLen(a) <= RecStart(p, s)
<1>t. ProcTypeOK /\ ShmTypeOK /\ ThreadInv /\ Core /\ IntactRecords /\ orphaned' = orphaned
  BY DEF LayoutInv, TypeOK, Core, StoreFlag
<1>1. PICK k \in Chunk, b \in Offset, v \in Access, e \in 0..Cap :
        /\ k = cursor[p][s].chunk /\ b = RecStart(p, s) /\ v = op[p][s].acc /\ e = cursor[p][s].pos
        /\ b + RecLen(v) = e /\ op[p][s].pc = "flag" /\ MayWrite(p, s, k)
  BY <1>t, WriterFacts DEF StoreFlag, Writing
<1>2. mem' = [mem EXCEPT ![k] = [mem[k] EXCEPT ![b] = Flag]]
  BY <1>1 DEF StoreFlag
<1>3. ASSUME NEW x, NEW a \in Access, RecordAt(c, x, a)', ~(c = k /\ x = b) PROVE RecordAt(c, x, a)
  <2>1. x \in Offset /\ mem'[c][x] = Flag
    BY <1>3 DEF RecordAt
  <2>2. mem[c][x] = Flag
    BY <1>t, <1>2, <1>3, <2>1 DEF ShmTypeOK
  <2> QED
    BY <1>t, <1>3, <2>2, OldRecord
<1>4. ASSUME c = k PROVE Decodes(c, b, Cap, v) /\ Decodes(c, b, Cap, v)'
  <2>1. Decodes(c, b, Cap, v)
    BY <1>1, <1>4 DEF LayoutInv, WriterInv, WriterAt
  <2>2. \A i \in 1..EncodedSize[v] : b + i \in Offset /\ b + i # b
    BY <1>1, RecLenType, ConstAssumption DEF Offset
  <2>3. \A i \in 1..EncodedSize[v] : mem'[c][b + i] = mem[c][b + i]
    BY <1>t, <1>2, <2>2 DEF ShmTypeOK
  <2> QED
    BY <2>1, <2>3 DEF Decodes
<1>5. ASSUME c = k PROVE RecordAt(c, b, v)'
  BY <1>t, <1>2, <1>4, <1>5 DEF RecordAt, ShmTypeOK
<1>6. ASSUME c = k, NEW a \in Access, RecordAt(c, b, a)' PROVE a = v
  <2>1. Decodes(c, b, Cap, a)' /\ Decodes(c, b, Cap, v)'
    BY <1>4, <1>6 DEF RecordAt
  <2>2. 1 \in 1..EncodedSize[a] /\ 1 \in 1..EncodedSize[v]
    BY RecLenType
  <2>3. Data(a, 1) = Data(v, 1)
    BY <2>1, <2>2 DEF Decodes
  <2> QED
    BY <2>3, DataInjective
<1>7. ASSUME NEW x, NEW a \in Access, RecordAt(c, x, a) PROVE RecordAt(c, x, a)'
  BY <1>t, <1>7, RecordsStay
<1>8. ASSUME c = k, NEW x \in Offset, NEW a \in Access, RecordAt(c, x, a) PROVE x < b /\ x + RecLen(a) <= b
  <2>1. mem[c][b] = Zero /\ \A y \in Offset : y >= b => mem[c][y] # Flag
    BY <1>t, <1>1, <1>8, NoFlagAbove DEF Writing
  <2>2. mem[c][x] = Flag /\ IntactAt(c, x)
    BY <1>t, <1>8 DEF RecordAt, IntactRecords
  <2>3. x < b /\ \E z \in Access : Decodes(c, x, Cap, z) /\ x + RecLen(z) <= b
    BY <1>t, <2>1, <2>2, BelowZero
  <2>4. PICK z \in Access : Decodes(c, x, Cap, z) /\ x + RecLen(z) <= b
    BY <2>3
  <2>5. a = z
    BY <1>8, <2>4, DecodesUnique DEF RecordAt
  <2> QED
    BY <2>3, <2>4, <2>5
<1>9. ASSUME NEW x, NEW a \in Access
      PROVE  RecordAt(c, x, a)' <=> RecordAt(c, x, a) \/ Added(p, s, c, x, a)
  <2>1. Added(p, s, c, x, a) <=> c = k /\ x = b /\ a = v
    BY <1>1 DEF Added
  <2> QED
    BY <1>3, <1>5, <1>6, <1>7, <2>1
<1> QED
  BY <1>1, <1>8, <1>9

\* All other steps leave the records as they are.
Keeps == \A c \in Chunk \ orphaned', x \in Offset, a \in Access : RecordAt(c, x, a)' <=> RecordAt(c, x, a)

\* No step takes a record away.
LEMMA RecordsKept ==
  ASSUME LayoutInv, [Next]_vars,
         \/ Calm \/ Receives
         \/ \E p \in Pid, s \in Slot : Progress(p, s) \/ \E a \in Access : Starts(p, s, a)
  PROVE  Keeps
<1>1. \/ UNCHANGED mem
      \/ \E p \in Pid, s \in Slot : WriteData(p, s)
  BY DEF Calm, Receives, Progress, Starts, Opens, Unlinks, SendsFd, Truncates, Writes
<1>2. orphaned \subseteq orphaned'
  BY DEF Calm, Receives, Progress, Starts
<1>3. ASSUME NEW c \in Chunk, c \notin orphaned', NEW x \in Offset, NEW a \in Access
      PROVE  RecordAt(c, x, a)' <=> RecordAt(c, x, a)
  <2>1. c \notin orphaned
    BY <1>2, <1>3
  <2> QED
    BY <1>1, <1>3, <2>1, RecordsCalm
<1> QED
  BY <1>3 DEF Keeps

-------------------------------------------------------------------------------
(* Each access is sent once *)

\* AccInv, step kind by step kind.
LEMMA AccCalm ==
  ASSUME HistTypeOK, AccInv, UNCHANGED <<begun, done, prev>>, \A q \in Pid, t \in Slot : CalmAt(q, t)
  PROVE  AccInv'
<1>1. ASSUME NEW q \in Pid, NEW t \in Slot, op'[q][t].pc # "idle"
      PROVE  op'[q][t] = op[q][t] /\ last'[q][t] = last[q][t]
  BY <1>1 DEF CalmAt
<1>2. ASSUME NEW q \in Pid, NEW t \in Slot PROVE SendingAt(q, t)'
  <2> SUFFICES ASSUME op'[q][t].pc # "idle" PROVE SendingAt(q, t)'
    BY DEF SendingAt
  <2>1. SendingAt(q, t) /\ op'[q][t] = op[q][t] /\ last'[q][t] = last[q][t]
    BY <1>1 DEF AccInv
  <2>2. ASSUME NEW r \in Pid, NEW u \in Slot, op'[r][u].pc # "idle", op'[r][u].acc = op'[q][t].acc
        PROVE  r = q /\ u = t
    <3>1. op'[r][u] = op[r][u]
      BY <1>1, <2>2
    <3> QED
      BY <2>1, <2>2, <3>1 DEF SendingAt
  <2> QED
    BY <2>1, <2>2 DEF SendingAt
<1>3. ASSUME NEW q \in Pid, NEW t \in Slot PROVE Known(last[q][t])'
  <2>1. \E r \in Pid, u \in Slot : last'[q][t] = last[r][u]
    BY DEF CalmAt
  <2> QED
    BY <2>1 DEF AccInv, Known
<1>4. \A a \in Access : Known(prev[a])'
  BY DEF AccInv, Known
<1> QED
  BY <1>2, <1>3, <1>4 DEF AccInv

\* A thread inside send goes on with its access.
LEMMA AccProgress ==
  ASSUME AccInv, NEW p \in Pid, NEW s \in Slot, Progress(p, s)
  PROVE  AccInv'
<1>1. UNCHANGED <<begun, done, prev, last>> /\ op[p][s].pc # "idle" /\ op'[p][s].acc = op[p][s].acc
  BY DEF Progress, Opens, Unlinks, SendsFd, Truncates, Writes
<1>2. ASSUME NEW q \in Pid, NEW t \in Slot, op'[q][t].pc # "idle"
      PROVE  op[q][t].pc # "idle" /\ op'[q][t].acc = op[q][t].acc
  <2>1. CASE q = p /\ t = s
    BY <1>1, <2>1
  <2>2. CASE ~(q = p /\ t = s)
    BY <1>2, <2>2 DEF Progress, Only
  <2> QED
    BY <2>1, <2>2
<1>3. ASSUME NEW q \in Pid, NEW t \in Slot PROVE SendingAt(q, t)'
  <2> SUFFICES ASSUME op'[q][t].pc # "idle" PROVE SendingAt(q, t)'
    BY DEF SendingAt
  <2>1. SendingAt(q, t) /\ op[q][t].pc # "idle" /\ op'[q][t].acc = op[q][t].acc
    BY <1>2 DEF AccInv
  <2>2. ASSUME NEW r \in Pid, NEW u \in Slot, op'[r][u].pc # "idle", op'[r][u].acc = op'[q][t].acc
        PROVE  r = q /\ u = t
    BY <1>2, <2>1, <2>2 DEF SendingAt
  <2> QED
    BY <1>1, <2>1, <2>2 DEF SendingAt
<1> QED
  BY <1>1, <1>3 DEF AccInv, Known

\* send begins with an access nobody has begun.
LEMMA AccStarts ==
  ASSUME HistTypeOK, AccInv, NEW p \in Pid, NEW s \in Slot, NEW a \in Access, Starts(p, s, a)
  PROVE  AccInv'
<1>1. /\ UNCHANGED <<done, last>> /\ a \notin begun /\ op'[p][s].acc = a
      /\ begun' = begun \cup {a} /\ prev' = [prev EXCEPT ![a] = last[p][s]] /\ Only(p, s)
  BY DEF Starts
<1>2. ASSUME NEW q \in Pid, NEW t \in Slot, ~(q = p /\ t = s) PROVE op'[q][t] = op[q][t] /\ last'[q][t] = last[q][t]
  BY <1>1, <1>2 DEF Only
<1>3. ASSUME NEW q \in Pid, NEW t \in Slot PROVE op[q][t].pc # "idle" => op[q][t].acc \in begun /\ op[q][t].acc # a
  BY <1>1 DEF AccInv, SendingAt
<1>4. prev'[a] = last[p][s] /\ \A e \in Access : e # a => prev'[e] = prev[e]
  BY <1>1 DEF HistTypeOK
<1>5. \A d \in done : d.acc \in begun /\ d.acc # a
  BY <1>1 DEF AccInv
<1>6. ASSUME NEW q \in Pid, NEW t \in Slot PROVE SendingAt(q, t)'
  <2> SUFFICES ASSUME op'[q][t].pc # "idle" PROVE SendingAt(q, t)'
    BY DEF SendingAt
  <2>1. CASE q = p /\ t = s
    <3>1. ASSUME NEW r \in Pid, NEW u \in Slot, op'[r][u].pc # "idle", op'[r][u].acc = a PROVE r = p /\ u = s
      BY <1>2, <1>3, <3>1
    <3>2. prev'[op'[q][t].acc] = last'[q][t] /\ op'[q][t].acc \in begun'
      BY <1>1, <1>4, <2>1
    <3>3. \A d \in done' : d.acc # op'[q][t].acc
      BY <1>1, <1>5, <2>1
    <3> QED
      BY <1>1, <2>1, <3>1, <3>2, <3>3 DEF SendingAt
  <2>2. CASE ~(q = p /\ t = s)
    <3>1. op'[q][t] = op[q][t] /\ op[q][t].acc # a /\ SendingAt(q, t)
      BY <1>2, <1>3, <2>2 DEF AccInv
    <3>2. op[q][t].acc \in Access /\ op[q][t].acc \in begun
      BY <3>1 DEF SendingAt, HistTypeOK
    <3>3. prev'[op'[q][t].acc] = last'[q][t] /\ op'[q][t].acc \in begun'
      BY <1>1, <1>2, <1>4, <2>2, <3>1, <3>2 DEF SendingAt
    <3>4. ASSUME NEW r \in Pid, NEW u \in Slot, op'[r][u].pc # "idle", op'[r][u].acc = op'[q][t].acc PROVE r = q /\ u = t
      <4>1. ~(r = p /\ u = s)
        BY <1>1, <3>1, <3>4
      <4> QED
        BY <1>2, <3>1, <3>4, <4>1 DEF SendingAt
    <3>5. \A d \in done' : d.acc # op'[q][t].acc
      BY <1>1, <3>1 DEF SendingAt
    <3> QED
      BY <3>3, <3>4, <3>5 DEF SendingAt
  <2> QED
    BY <2>1, <2>2
<1>7. ASSUME NEW e \in Access PROVE Known(prev[e])'
  <2>1. Known(prev[e]) /\ Known(last[p][s])
    BY DEF AccInv
  <2> QED
    BY <1>1, <1>4, <2>1 DEF Known
<1>8. \A q \in Pid, t \in Slot : Known(last[q][t])'
  BY <1>1 DEF AccInv, Known
<1>9. /\ \A d \in done' : d.acc \in begun'
      /\ \A d, e \in done' : d.acc = e.acc => d = e
  BY <1>1 DEF AccInv
<1> QED
  BY <1>6, <1>7, <1>8, <1>9 DEF AccInv

\* A completed access was not complete before.
LEMMA AccCompletes ==
  ASSUME HistTypeOK, AccInv, NEW p \in Pid, NEW s \in Slot, Completes(p, s)
  PROVE  AccInv'
<1>0. PICK n : n = Rec(op[p][s].acc, cursor[p][s].chunk)
  OBVIOUS
<1>1. /\ UNCHANGED <<begun, prev>> /\ op[p][s].pc = "flag" /\ op'[p][s].pc = "idle" /\ last'[p][s] = op[p][s].acc
      /\ done' = done \cup {n} /\ n.acc = op[p][s].acc /\ Only(p, s)
  BY <1>0 DEF Completes, Rec
<1>2. ASSUME NEW q \in Pid, NEW t \in Slot, ~(q = p /\ t = s) PROVE op'[q][t] = op[q][t] /\ last'[q][t] = last[q][t]
  BY <1>1, <1>2 DEF Only
<1>3. SendingAt(p, s)
  BY DEF AccInv
<1>4. n.acc \in begun /\ \A d \in done : d.acc # n.acc
  BY <1>1, <1>3 DEF SendingAt
<1>5. ASSUME NEW q \in Pid, NEW t \in Slot PROVE SendingAt(q, t)'
  <2> SUFFICES ASSUME op'[q][t].pc # "idle" PROVE SendingAt(q, t)'
    BY DEF SendingAt
  <2>1. ~(q = p /\ t = s)
    BY <1>1
  <2>2. op'[q][t] = op[q][t] /\ last'[q][t] = last[q][t] /\ SendingAt(q, t)
    BY <1>2, <2>1 DEF AccInv
  <2>3. op[q][t].acc # n.acc
    BY <1>1, <2>1, <2>2 DEF SendingAt
  <2>4. ASSUME NEW r \in Pid, NEW u \in Slot, op'[r][u].pc # "idle", op'[r][u].acc = op'[q][t].acc PROVE r = q /\ u = t
    <3>1. ~(r = p /\ u = s)
      BY <1>1, <2>4
    <3> QED
      BY <1>2, <2>2, <2>4, <3>1 DEF SendingAt
  <2>5. \A d \in done' : d.acc # op'[q][t].acc
    BY <1>1, <2>2, <2>3 DEF SendingAt
  <2> QED
    BY <1>1, <2>2, <2>4, <2>5 DEF SendingAt
<1>6. ASSUME NEW a, Known(a) PROVE Known(a)'
  BY <1>1, <1>6 DEF Known
<1>7. ASSUME NEW q \in Pid, NEW t \in Slot PROVE Known(last[q][t])'
  <2>1. CASE q = p /\ t = s
    BY <1>1, <2>1 DEF Known
  <2>2. CASE ~(q = p /\ t = s)
    <3>1. Known(last[q][t]) /\ last'[q][t] = last[q][t]
      BY <1>2, <2>2 DEF AccInv
    <3> QED
      BY <1>1, <3>1 DEF Known
  <2> QED
    BY <2>1, <2>2
<1>8. \A a \in Access : Known(prev[a])'
  BY <1>1 DEF AccInv, Known
<1>9. /\ \A d \in done' : d.acc \in begun'
      /\ \A d, e \in done' : d.acc = e.acc => d = e
  BY <1>1, <1>4 DEF AccInv
<1> QED
  BY <1>5, <1>7, <1>8, <1>9 DEF AccInv

\* Each access is sent once, over every step.
LEMMA AccStep ==
  ASSUME LayoutInv, AccInv, [Next]_vars
  PROVE  AccInv'
<1>t. HistTypeOK
  BY DEF LayoutInv, TypeOK
<1>1. CASE Calm
  BY <1>t, <1>1, AccCalm DEF Calm
<1>2. CASE Receives
  <2>1. UNCHANGED <<begun, done, prev>> /\ \A q \in Pid, t \in Slot : CalmAt(q, t)
    BY <1>2 DEF Receives, CalmAt
  <2> QED
    BY <1>t, <2>1, AccCalm
<1> QED
  BY <1>t, <1>1, <1>2, Steps, AccProgress, AccStarts, AccCompletes

-------------------------------------------------------------------------------
(* Each chunk is sent once, before it is used *)

\* recv_fd moves the oldest fd in flight to the end of shm_fds: the order stays.
LEMMA MoveHead ==
  ASSUME NEW s \in Seq(Chunk), NEW t \in Seq(Chunk), t # <<>>
  PROVE  Append(s, Head(t)) \o Tail(t) = s \o t
<1>1. PICK h \in Chunk, u \in Seq(Chunk) : h = Head(t) /\ u = Tail(t)
  BY HeadTailProperties
<1>2. h = t[1] /\ Len(t) >= 1 /\ Len(u) = Len(t) - 1 /\ \A i \in 1..Len(u) : u[i] = t[i + 1]
  BY <1>1, HeadTailProperties
<1>3. PICK v \in Seq(Chunk) : v = Append(s, h)
  BY <1>1, AppendProperties
<1>4. Len(v) = Len(s) + 1 /\ \A i \in 1..Len(v) : v[i] = IF i <= Len(s) THEN s[i] ELSE h
  BY <1>1, <1>3, AppendProperties
<1>5. /\ v \o u \in Seq(Chunk) /\ Len(v \o u) = Len(v) + Len(u)
      /\ \A i \in 1..(Len(v) + Len(u)) : (v \o u)[i] = IF i <= Len(v) THEN v[i] ELSE u[i - Len(v)]
  BY <1>1, <1>3, ConcatProperties
<1>6. /\ s \o t \in Seq(Chunk) /\ Len(s \o t) = Len(s) + Len(t)
      /\ \A i \in 1..(Len(s) + Len(t)) : (s \o t)[i] = IF i <= Len(s) THEN s[i] ELSE t[i - Len(s)]
  BY ConcatProperties
<1>7. Len(s) \in Nat /\ Len(t) \in Nat /\ Len(u) \in Nat
  BY <1>1
<1>8. Len(v \o u) = Len(s \o t)
  BY <1>2, <1>4, <1>5, <1>6, <1>7
<1>9. ASSUME NEW i \in 1..Len(v \o u) PROVE (v \o u)[i] = (s \o t)[i]
  <2>0. i \in Nat /\ i \in 1..(Len(s) + Len(t)) /\ i \in 1..(Len(v) + Len(u))
    BY <1>5, <1>6, <1>7, <1>8
  <2>1. CASE i <= Len(s)
    BY <1>4, <1>5, <1>6, <1>7, <1>8, <2>1
  <2>2. CASE i = Len(s) + 1
    BY <1>2, <1>4, <1>5, <1>6, <1>7, <1>8, <2>2
  <2>3. CASE i > Len(s) + 1
    <3>1. i - Len(v) \in 1..Len(u) /\ (i - Len(v)) + 1 = i - Len(s)
      BY <1>2, <1>4, <1>5, <1>7, <2>3
    <3>2. (v \o u)[i] = u[i - Len(v)]
      BY <1>4, <1>5, <1>7, <2>0, <2>3
    <3>3. u[i - Len(v)] = t[(i - Len(v)) + 1]
      BY <1>2, <3>1
    <3>4. (s \o t)[i] = t[i - Len(s)]
      BY <1>6, <1>7, <2>0, <2>3
    <3> QED
      BY <3>1, <3>2, <3>3, <3>4
  <2>4. i <= Len(s) \/ i = Len(s) + 1 \/ i > Len(s) + 1
    BY <1>7, <2>0
  <2> QED
    BY <2>1, <2>2, <2>3, <2>4, Zenon
<1> QED
  BY <1>1, <1>3, <1>5, <1>6, <1>8, <1>9, SeqEqual

\* send_fd adds its fd at the end of the order.
LEMMA AppendRight ==
  ASSUME NEW s \in Seq(Chunk), NEW t \in Seq(Chunk), NEW e \in Chunk
  PROVE  s \o Append(t, e) = Append(s \o t, e)
<1>1. PICK u \in Seq(Chunk), v \in Seq(Chunk) : u = Append(t, e) /\ v = s \o t
  BY AppendProperties, ConcatProperties
<1>2. Len(u) = Len(t) + 1 /\ \A i \in 1..Len(u) : u[i] = IF i <= Len(t) THEN t[i] ELSE e
  BY <1>1, AppendProperties
<1>3. Len(v) = Len(s) + Len(t) /\ \A i \in 1..(Len(s) + Len(t)) : v[i] = IF i <= Len(s) THEN s[i] ELSE t[i - Len(s)]
  BY <1>1, ConcatProperties
<1>4. /\ s \o u \in Seq(Chunk) /\ Len(s \o u) = Len(s) + Len(u)
      /\ \A i \in 1..(Len(s) + Len(u)) : (s \o u)[i] = IF i <= Len(s) THEN s[i] ELSE u[i - Len(s)]
  BY <1>1, ConcatProperties
<1>5. /\ Append(v, e) \in Seq(Chunk) /\ Len(Append(v, e)) = Len(v) + 1
      /\ \A i \in 1..Len(v) : Append(v, e)[i] = v[i]
      /\ Append(v, e)[Len(v) + 1] = e
  <2>1. v \in Seq(Chunk) /\ Len(v) \in Nat
    OBVIOUS
  <2> QED
    BY <2>1, AppendProperties
<1>6. Len(s) \in Nat /\ Len(t) \in Nat
  OBVIOUS
<1>7. Len(s \o u) = Len(Append(v, e))
  BY <1>2, <1>3, <1>4, <1>5, <1>6
<1>8. ASSUME NEW i \in 1..Len(s \o u) PROVE (s \o u)[i] = Append(v, e)[i]
  <2>0. i \in Nat /\ i \in 1..(Len(s) + Len(u)) /\ Len(v) = Len(s) + Len(t) /\ Len(u) = Len(t) + 1
    BY <1>2, <1>3, <1>4, <1>6
  <2>1. CASE i <= Len(s)
    <3>1. i \in 1..Len(v) /\ (s \o u)[i] = s[i] /\ v[i] = s[i]
      BY <1>3, <1>4, <1>6, <2>0, <2>1
    <3> QED
      BY <1>5, <3>1
  <2>2. CASE i > Len(s) /\ i <= Len(v)
    <3>1. i - Len(s) \in 1..Len(u) /\ i - Len(s) <= Len(t)
      BY <1>6, <2>0, <2>2
    <3>2. (s \o u)[i] = u[i - Len(s)] /\ v[i] = t[i - Len(s)] /\ i \in 1..Len(v)
      BY <1>3, <1>4, <1>6, <2>0, <2>2
    <3>3. u[i - Len(s)] = t[i - Len(s)]
      BY <1>2, <3>1
    <3> QED
      BY <1>5, <3>2, <3>3
  <2>3. CASE i = Len(v) + 1
    <3>1. i - Len(s) = Len(u) /\ Len(u) \in 1..Len(u) /\ ~(Len(u) <= Len(t)) /\ ~(i <= Len(s))
      BY <1>6, <2>0, <2>3
    <3>2. (s \o u)[i] = u[i - Len(s)] /\ u[Len(u)] = e
      BY <1>2, <1>4, <2>0, <3>1
    <3> QED
      BY <1>5, <2>3, <3>1, <3>2
  <2>4. i <= Len(s) \/ (i > Len(s) /\ i <= Len(v)) \/ i = Len(v) + 1
    BY <1>6, <2>0
  <2> QED
    BY <2>1, <2>2, <2>3, <2>4, Zenon
<1> QED
  BY <1>1, <1>4, <1>5, <1>7, <1>8, SeqEqual

\* The order is a sequence of chunks.
LEMMA OrderType ==
  ASSUME LayoutInv
  PROVE  Order \in Seq(Chunk) /\ Len(Order) \in Nat /\ DOMAIN Order = 1..Len(Order) /\ \A i \in DOMAIN Order : Order[i] \in Chunk
<1>1. fds \in Seq(Chunk) /\ queue \in Seq(Chunk)
  BY DEF LayoutInv, TypeOK, RxTypeOK
<1>2. Order \in Seq(Chunk)
  BY <1>1, ConcatProperties DEF Order
<1> QED
  BY <1>2

\* Receiving moves a chunk from the socket to shm_fds; only send_fd adds one.
LEMMA OrderStep ==
  ASSUME LayoutInv, [Next]_vars, phase' # "dropped"
  PROVE  \/ Order' = Order
         \/ \E p \in Pid, s \in Slot : Progress(p, s) /\ SendsFd(p, s) /\ Order' = Append(Order, op[p][s].new)
<1>t. fds \in Seq(Chunk) /\ queue \in Seq(Chunk) /\ FreshInv /\ ShmTypeOK
  BY DEF LayoutInv, TypeOK, RxTypeOK
<1>1. CASE fds' = fds /\ queue' = queue
  BY <1>1 DEF Order
<1>2. CASE RecvFd
  <2>1. fds' = Append(fds, Head(queue)) /\ queue' = Tail(queue) /\ queue # <<>>
    BY <1>2 DEF RecvFd
  <2>2. PICK f \in Seq(Chunk), q \in Seq(Chunk) : f = fds /\ q = queue
    BY <1>t
  <2>3. Append(f, Head(q)) \o Tail(q) = f \o q
    BY <2>1, <2>2, MoveHead
  <2> QED
    BY <2>1, <2>2, <2>3 DEF Order
<1>3. ASSUME NEW p \in Pid, NEW s \in Slot, Progress(p, s), SendsFd(p, s)
      PROVE  Order' = Append(Order, op[p][s].new)
  <2>1. fds' = fds /\ queue' = Append(queue, op[p][s].new) /\ op[p][s].new \in Chunk
    BY <1>t, <1>3, NewIsChunk DEF Progress, SendsFd, rxVars, Creating
  <2>2. PICK f \in Seq(Chunk), q \in Seq(Chunk), n \in Chunk : f = fds /\ q = queue /\ n = op[p][s].new
    BY <1>t, <2>1
  <2>3. f \o Append(q, n) = Append(f \o q, n)
    BY AppendRight
  <2> QED
    BY <2>1, <2>2, <2>3 DEF Order
<1>4. CASE Receives
  <2>1. RecvFd \/ (fds' = fds /\ queue' = queue)
    BY <1>4 DEF Receives, Receiver, DropReceiver, RecvEof, MapNext, ReadRecord, ReadStop, ReadGarbage, Finish
  <2> QED
    BY <1>1, <1>2, <2>1
<1>5. CASE Calm
  BY <1>1, <1>5 DEF Calm, rxVars
<1>6. ASSUME NEW p \in Pid, NEW s \in Slot, Progress(p, s) PROVE SendsFd(p, s) \/ (fds' = fds /\ queue' = queue)
  BY <1>6 DEF Progress, Opens, Unlinks, Truncates, Writes, rxVars
<1>7. ASSUME NEW p \in Pid, NEW s \in Slot, Completes(p, s) \/ \E a \in Access : Starts(p, s, a) PROVE fds' = fds /\ queue' = queue
  BY <1>7 DEF Completes, Starts, rxVars
<1> QED
  BY <1>1, <1>3, <1>4, <1>5, <1>6, <1>7, Steps

\* Chunks keep their place in the order.
LEMMA OrderGrows ==
  ASSUME LayoutInv, NEW n \in Chunk, Order' = Append(Order, n)
  PROVE  /\ DOMAIN Order' = 1..(Len(Order) + 1) /\ DOMAIN Order = 1..Len(Order) /\ Len(Order) \in Nat
         /\ \A i \in 1..Len(Order) : Order'[i] = Order[i]
         /\ Order'[Len(Order) + 1] = n
<1>1. Order \in Seq(Chunk) /\ Len(Order) \in Nat /\ DOMAIN Order = 1..Len(Order)
  BY OrderType
<1>2. PICK o \in Seq(Chunk), u \in Seq(Chunk) : o = Order /\ u = Append(o, n) /\ Len(o) \in Nat /\ DOMAIN o = 1..Len(o)
  BY <1>1, AppendProperties
<1>3. Len(u) = Len(o) + 1 /\ DOMAIN u = 1..Len(u) /\ (\A i \in 1..Len(o) : u[i] = o[i]) /\ u[Len(o) + 1] = n
  BY <1>2, AppendProperties
<1> QED
  BY <1>2, <1>3

\* Chunks stay sent, in the order in which they were.
LEMMA SentGrows ==
  ASSUME LayoutInv, [Next]_vars, phase' # "dropped"
  PROVE  /\ \A c : Sent(c) => Sent(c)'
         /\ \A c, e : Before(c, e) => Before(c, e)'
<1>1. CASE Order' = Order
  BY <1>1 DEF Sent, Before
<1>2. ASSUME NEW p \in Pid, NEW s \in Slot, Order' = Append(Order, op[p][s].new), SendsFd(p, s)
      PROVE  \A i \in DOMAIN Order : i \in DOMAIN Order' /\ Order'[i] = Order[i]
  <2>1. op[p][s].new \in Chunk
    BY <1>2, NewIsChunk DEF LayoutInv, TypeOK, SendsFd, Creating
  <2>2. PICK n \in Chunk : n = op[p][s].new
    BY <2>1
  <2>3. Order' = Append(Order, n)
    BY <1>2, <2>2
  <2> QED
    BY <2>3, OrderGrows
<1>3. CASE \A i \in DOMAIN Order : i \in DOMAIN Order' /\ Order'[i] = Order[i]
  <2>1. ASSUME NEW c, Sent(c) PROVE Sent(c)'
    BY <1>3, <2>1 DEF Sent
  <2>2. ASSUME NEW c, NEW e, Before(c, e) PROVE Before(c, e)'
    BY <1>3, <2>2 DEF Before
  <2> QED
    BY <2>1, <2>2
<1> QED
  BY <1>1, <1>2, <1>3, OrderStep

\* Steps that send no fd.
LEMMA SentSame ==
  ASSUME SentInv, Order' = Order, nchunk <= nchunk', nchunk \in Nat, nchunk' \in Nat,
         \A i \in DOMAIN Order : Order[i] \in Nat,
         \A q \in Pid, t \in Slot : SentBy(q, t)', \A d \in done' : Sent(d.chunk)
  PROVE  SentInv'
<1>1. \A c : Sent(c)' <=> Sent(c)
  BY DEF Sent
<1>2. \A i \in DOMAIN Order' : Order'[i] <= nchunk'
  BY DEF SentInv
<1>3. \A i, j \in DOMAIN Order' : Order'[i] = Order'[j] => i = j
  BY DEF SentInv
<1> QED
  BY <1>1, <1>2, <1>3 DEF SentInv

\* The fd of a chunk is sent once and before the chunk is used, over every step.
LEMMA SentStep ==
  ASSUME LayoutInv, LayoutInv', SentInv, [Next]_vars, phase' # "dropped"
  PROVE  SentInv'
<1>t. nchunk \in Nat /\ nchunk' \in Nat /\ (\A i \in DOMAIN Order : Order[i] \in Nat) /\ FreshInv /\ ShmTypeOK /\ ThreadInv
  BY OrderType, ConstAssumption DEF LayoutInv, TypeOK, ShmTypeOK, Chunk
<1>g. \A c : Sent(c) => Sent(c)'
  BY SentGrows
<1>b. \A q \in Pid, t \in Slot : SentBy(q, t)
  BY DEF SentInv
<1>1. ASSUME UNCHANGED <<nchunk, done>>, \A q \in Pid, t \in Slot : CalmAt(q, t), Order' = Order PROVE SentInv'
  <2>1. ASSUME NEW q \in Pid, NEW t \in Slot PROVE SentBy(q, t)'
    <3>1. \A c : Sent(c)' <=> Sent(c)
      BY <1>1 DEF Sent
    <3>2. CASE op'[q][t] = op[q][t] /\ cursor'[q][t] = cursor[q][t]
      BY <1>b, <3>1, <3>2 DEF SentBy
    <3>3. CASE op'[q][t].pc = "idle" /\ (cursor'[q][t].chunk = 0 \/ \E r \in Pid, u \in Slot : cursor'[q][t].chunk = cursor[r][u].chunk)
      BY <1>b, <3>1, <3>3 DEF SentBy
    <3> QED
      BY <1>1, <3>2, <3>3 DEF CalmAt
  <2>2. \A d \in done' : Sent(d.chunk)
    BY <1>1 DEF SentInv
  <2>3. nchunk <= nchunk'
    BY <1>t, <1>1
  <2> QED
    BY <1>t, <1>1, <2>1, <2>2, <2>3, SentSame
<1>2. CASE Calm
  <2>1. Order' = Order
    BY <1>2 DEF Calm, Order, rxVars
  <2> QED
    BY <1>1, <1>2, <2>1 DEF Calm
<1>3. CASE Receives
  <2>1. UNCHANGED <<nchunk, done, op, cursor>> /\ \A q \in Pid, t \in Slot : CalmAt(q, t)
    BY <1>3 DEF Receives, CalmAt
  <2>2. ASSUME NEW p \in Pid, NEW s \in Slot, SendsFd(p, s) PROVE FALSE
    BY <2>1, <2>2 DEF SendsFd
  <2>3. Order' = Order
    BY <2>2, OrderStep
  <2> QED
    BY <1>1, <2>1, <2>3
<1>4. ASSUME NEW p \in Pid, NEW s \in Slot, Completes(p, s) \/ \E a \in Access : Starts(p, s, a) PROVE SentInv'
  <2>1. /\ Order' = Order /\ nchunk' = nchunk /\ Only(p, s)
        /\ op'[p][s].pc \in {"idle", "open", "write"} /\ cursor'[p][s].chunk = cursor[p][s].chunk
    BY <1>4 DEF Completes, Starts, Order, rxVars
  <2>2. \A c : Sent(c)' <=> Sent(c)
    BY <2>1 DEF Sent
  <2>3. ASSUME NEW q \in Pid, NEW t \in Slot PROVE SentBy(q, t)'
    <3>1. CASE q = p /\ t = s
      BY <1>b, <2>1, <2>2, <3>1 DEF SentBy
    <3>2. CASE ~(q = p /\ t = s)
      <4>1. op'[q][t] = op[q][t] /\ cursor'[q][t] = cursor[q][t]
        BY <2>1, <3>2 DEF Only
      <4> QED
        BY <1>b, <2>2, <4>1 DEF SentBy
    <3> QED
      BY <3>1, <3>2
  <2>4. ASSUME NEW d \in done' PROVE Sent(d.chunk)
    <3>1. CASE d \in done
      BY <3>1 DEF SentInv
    <3>2. CASE d \notin done
      <4>1. d = Rec(op[p][s].acc, cursor[p][s].chunk) /\ op[p][s].pc = "flag"
        BY <1>4, <3>2 DEF Completes, Starts
      <4>2. d.chunk = cursor[p][s].chunk
        BY <4>1 DEF Rec
      <4>3. cursor[p][s].chunk # 0
        BY <1>t, <4>1 DEF ThreadInv, ThreadAt, Writing, Chunk
      <4> QED
        BY <1>b, <4>2, <4>3 DEF SentBy
    <3> QED
      BY <3>1, <3>2
  <2> QED
    BY <1>t, <2>1, <2>3, <2>4, SentSame
<1>5. ASSUME NEW p \in Pid, NEW s \in Slot, Progress(p, s), ~SendsFd(p, s) PROVE SentInv'
  <2>1. Order' = Order /\ done' = done /\ Only(p, s) /\ (Opens(p, s) \/ Unlinks(p, s) \/ Truncates(p, s) \/ Writes(p, s))
    BY <1>5 DEF Progress, Order, rxVars, Opens, Unlinks, Truncates, Writes
  <2>2. \A c : Sent(c)' <=> Sent(c)
    BY <2>1 DEF Sent
  <2>3. SentBy(p, s)'
    <3>1. CASE Opens(p, s)
      <4>1. ~Sent(nchunk + 1)
        BY <1>t DEF SentInv, Sent
      <4> QED
        BY <1>b, <2>2, <3>1, <4>1 DEF Opens, SentBy
    <3>2. CASE Unlinks(p, s)
      BY <1>b, <2>2, <3>2 DEF Unlinks, SentBy
    <3>3. CASE Truncates(p, s)
      BY <1>b, <2>2, <3>3 DEF Truncates, SentBy
    <3>4. CASE Writes(p, s)
      BY <1>b, <2>2, <3>4 DEF Writes, SentBy
    <3> QED
      BY <2>1, <3>1, <3>2, <3>3, <3>4
  <2>4. ASSUME NEW q \in Pid, NEW t \in Slot PROVE SentBy(q, t)'
    <3>1. CASE q = p /\ t = s
      BY <2>3, <3>1
    <3>2. CASE ~(q = p /\ t = s)
      <4>1. op'[q][t] = op[q][t] /\ cursor'[q][t] = cursor[q][t]
        BY <2>1, <3>2 DEF Only
      <4> QED
        BY <1>b, <2>2, <4>1 DEF SentBy
    <3> QED
      BY <3>1, <3>2
  <2>5. nchunk <= nchunk'
    BY <1>t, <2>1 DEF Opens, Unlinks, Truncates, Writes
  <2>6. \A d \in done' : Sent(d.chunk)
    BY <2>1 DEF SentInv
  <2> QED
    BY <1>t, <2>1, <2>4, <2>5, <2>6, SentSame
<1>6. ASSUME NEW p \in Pid, NEW s \in Slot, Progress(p, s), SendsFd(p, s) PROVE SentInv'
  <2>1. /\ op[p][s].pc = "send_fd" /\ op'[p][s].pc = "truncate" /\ op'[p][s].new = op[p][s].new
        /\ cursor' = cursor /\ nchunk' = nchunk /\ done' = done /\ Only(p, s)
    BY <1>6 DEF Progress, SendsFd
  <2>2. PICK n \in Chunk : n = op[p][s].new /\ n <= nchunk
    BY <1>t, <2>1, NewIsChunk DEF Creating
  <2>3. Order' = Append(Order, n)
    <3>1. ASSUME NEW q \in Pid, NEW t \in Slot, Progress(q, t), SendsFd(q, t) PROVE q = p /\ t = s
      BY <2>1, <3>1 DEF SendsFd, Only
    <3>2. Order' # Order
      <4>1. queue' = Append(queue, n) /\ fds' = fds /\ queue \in Seq(Chunk) /\ fds \in Seq(Chunk)
        BY <1>6, <2>2 DEF SendsFd, Progress, rxVars, LayoutInv, TypeOK, RxTypeOK
      <4>2. PICK f \in Seq(Chunk), q \in Seq(Chunk), u \in Seq(Chunk) : f = fds /\ q = queue /\ u = Append(q, n)
        BY <4>1, AppendProperties
      <4>3. Len(u) = Len(q) + 1
        BY <4>2, AppendProperties
      <4>4. Len(f \o u) = Len(f) + Len(u) /\ Len(f \o q) = Len(f) + Len(q)
        BY ConcatProperties
      <4>5. f \o u # f \o q
        BY <4>3, <4>4
      <4> QED
        BY <4>1, <4>2, <4>5 DEF Order
    <3> QED
      BY <2>2, <3>1, <3>2, OrderStep
  <2>4. /\ DOMAIN Order' = 1..(Len(Order) + 1) /\ DOMAIN Order = 1..Len(Order) /\ Len(Order) \in Nat
        /\ \A i \in 1..Len(Order) : Order'[i] = Order[i]
        /\ Order'[Len(Order) + 1] = n
    BY <2>3, OrderGrows
  <2>5. ~Sent(n)
    BY <1>b, <2>1, <2>2 DEF SentBy
  <2>6. ASSUME NEW c PROVE Sent(c)' <=> Sent(c) \/ c = n
    BY <2>4 DEF Sent
  <2>7. ASSUME NEW q \in Pid, NEW t \in Slot PROVE SentBy(q, t)'
    <3>1. CASE q = p /\ t = s
      BY <1>b, <2>1, <2>2, <2>6, <3>1 DEF SentBy
    <3>2. CASE ~(q = p /\ t = s)
      <4>1. op'[q][t] = op[q][t] /\ cursor'[q][t] = cursor[q][t]
        BY <2>1, <3>2 DEF Only
      <4>2. op[q][t].pc \in {"unlink", "send_fd"} => op[q][t].new # n
        BY <1>t, <2>1, <2>2, <3>2 DEF FreshInv, FreshAt, Creating
      <4> QED
        BY <1>b, <2>6, <4>1, <4>2 DEF SentBy
    <3> QED
      BY <3>1, <3>2
  <2>8. \A i, j \in DOMAIN Order' : Order'[i] = Order'[j] => i = j
    BY <2>4, <2>5 DEF SentInv, Sent
  <2>9. \A i \in DOMAIN Order' : Order'[i] <= nchunk'
    BY <2>1, <2>2, <2>4 DEF SentInv
  <2>10. \A d \in done' : Sent(d.chunk)'
    BY <1>g, <2>1 DEF SentInv
  <2> QED
    BY <2>7, <2>8, <2>9, <2>10 DEF SentInv
<1> QED
  BY <1>2, <1>3, <1>4, <1>5, <1>6, Steps

-------------------------------------------------------------------------------
(* A chunk in use has its size *)

\* ftruncate precedes every write, over every step.
LEMMA SizeStep ==
  ASSUME LayoutInv, SizeInv, [Next]_vars
  PROVE  SizeInv'
<1>t. ThreadInv /\ FreshInv /\ ShmTypeOK /\ ProcTypeOK /\ HistTypeOK
  BY DEF LayoutInv, TypeOK
<1>1. \A c \in Chunk : size[c] = Cap => size'[c] = Cap
  <2>1. ASSUME NEW p \in Pid, NEW s \in Slot, Truncates(p, s) PROVE \A c \in Chunk : size[c] = Cap => size'[c] = Cap
    BY <1>t, <2>1 DEF Truncates, ShmTypeOK
  <2>2. ASSUME NEW p \in Pid, NEW s \in Slot, Progress(p, s) PROVE Truncates(p, s) \/ size' = size
    BY <2>2 DEF Progress, Opens, Unlinks, SendsFd, Writes
  <2> QED
    BY <2>1, <2>2, Steps DEF Calm, Receives, Starts, Completes
<1>2. ASSUME NEW q \in Pid, NEW t \in Slot, cursor'[q][t].chunk # 0 PROVE size'[cursor'[q][t].chunk] = Cap
  <2>1. ASSUME NEW r \in Pid, NEW u \in Slot, cursor'[q][t].chunk = cursor[r][u].chunk
        PROVE  size'[cursor'[q][t].chunk] = Cap
    <3>1. cursor[r][u].chunk \in Chunk
      BY <1>t, <1>2, <2>1 DEF ProcTypeOK, CursorType, Chunk
    <3> QED
      BY <1>1, <1>2, <2>1, <3>1 DEF SizeInv
  <2>2. CASE Calm
    BY <1>2, <2>1, <2>2 DEF Calm, CalmAt
  <2>3. CASE Receives
    BY <2>1, <2>3 DEF Receives
  <2>4. ASSUME NEW p \in Pid, NEW s \in Slot, Only(p, s), cursor'[p][s].chunk = cursor[p][s].chunk
        PROVE  size'[cursor'[q][t].chunk] = Cap
    BY <2>1, <2>4 DEF Only
  <2>5. ASSUME NEW p \in Pid, NEW s \in Slot, Progress(p, s), Truncates(p, s)
        PROVE  size'[cursor'[q][t].chunk] = Cap
    <3>1. CASE q = p /\ t = s
      <4>1. cursor'[q][t].chunk = op[p][s].new /\ op[p][s].new \in Chunk /\ size' = [size EXCEPT ![op[p][s].new] = Cap]
        BY <1>t, <2>5, <3>1, NewIsChunk DEF Truncates, Creating
      <4> QED
        BY <1>t, <4>1 DEF ShmTypeOK
    <3>2. CASE ~(q = p /\ t = s)
      BY <2>1, <2>5, <3>2 DEF Progress, Only
    <3> QED
      BY <3>1, <3>2
  <2>6. ASSUME NEW p \in Pid, NEW s \in Slot, Progress(p, s)
        PROVE  Truncates(p, s) \/ (Only(p, s) /\ cursor'[p][s].chunk = cursor[p][s].chunk)
    BY <2>6 DEF Progress, Opens, Unlinks, SendsFd, Writes
  <2>7. ASSUME NEW p \in Pid, NEW s \in Slot, Completes(p, s) \/ \E a \in Access : Starts(p, s, a)
        PROVE  Only(p, s) /\ cursor'[p][s].chunk = cursor[p][s].chunk
    BY <2>7 DEF Completes, Starts
  <2> QED
    BY <2>2, <2>3, <2>4, <2>5, <2>6, <2>7, Steps
<1>3. ASSUME NEW d \in done' PROVE size'[d.chunk] = Cap
  <2>1. CASE d \in done
    <3>1. d.chunk \in Chunk /\ size[d.chunk] = Cap
      BY <1>t, <2>1 DEF SizeInv, HistTypeOK, Record
    <3> QED
      BY <1>1, <3>1
  <2>2. CASE d \notin done
    <3>1. PICK p \in Pid, s \in Slot : Completes(p, s)
      BY <2>2, Steps DEF Calm, Receives, Progress, Starts
    <3>2. d = Rec(op[p][s].acc, cursor[p][s].chunk) /\ op[p][s].pc = "flag"
      BY <2>2, <3>1 DEF Completes
    <3>3. d.chunk = cursor[p][s].chunk
      BY <3>2 DEF Rec
    <3>4. cursor[p][s].chunk \in Chunk /\ cursor[p][s].chunk # 0
      BY <1>t, <3>2 DEF ThreadInv, ThreadAt, Writing, Chunk
    <3> QED
      BY <1>1, <3>3, <3>4 DEF SizeInv
  <2> QED
    BY <2>1, <2>2
<1> QED
  BY <1>2, <1>3 DEF SizeInv

-------------------------------------------------------------------------------
(* The records in memory are the completed sends, without a gap *)

\* A cell inside a record is no boundary.
LEMMA InsideRecord ==
  ASSUME NEW c \in Chunk, NEW y \in Offset, NEW e \in Access, RecordAt(c, y, e), NEW r \in Offset, y < r, r < y + RecLen(e)
  PROVE  mem[c][r] # Flag /\ ~Boundary(c, r)
<1>1. EncodedSize[e] \in Nat /\ RecLen(e) = EncodedSize[e] + 1 /\ y \in Nat /\ r \in Nat /\ Cap \in Nat /\ y < Cap /\ r < Cap
  BY RecLenType, ConstAssumption DEF Offset
<1>2. r - y \in 1..EncodedSize[e] /\ y + (r - y) = r
  BY <1>1
<1>3. mem[c][r] = Data(e, r - y)
  BY <1>2 DEF RecordAt, Decodes
<1>4. r - y \in 0..Cap
  BY <1>1
<1>5. mem[c][r] # Flag /\ mem[c][r] # Zero
  BY <1>3, <1>4, CellType
<1> QED
  BY <1>1, <1>5 DEF Boundary

\* Unless a record is completed, what is said of records carries over.
LEMMA RecordsSame ==
  ASSUME HistTypeOK, RecordsInv, Keeps, NEW c \in Chunk, c \notin orphaned, c \notin orphaned', done' = done
  PROVE  MemAt(c)' /\ NoGap(c)' /\ \A r : RecordEnd(c, r)' <=> RecordEnd(c, r)
<1>1. \A x \in Offset, a \in Access : RecordAt(c, x, a)' <=> RecordAt(c, x, a)
  BY DEF Keeps
<1>2. ASSUME NEW r PROVE RecordEnd(c, r)' <=> RecordEnd(c, r)
  BY <1>1, EndOfRecord
<1>3. MemAt(c) /\ NoGap(c)
  BY DEF RecordsInv
<1>4. MemAt(c)'
  <2>1. ASSUME NEW d \in done', d.chunk = c PROVE \E x \in Offset : RecordAt(c, x, d.acc)'
    <3>1. PICK x \in Offset : RecordAt(c, x, d.acc)
      BY <1>3, <2>1 DEF MemAt
    <3>2. d.acc \in Access
      BY <2>1 DEF HistTypeOK, Record
    <3> QED
      BY <1>1, <3>1, <3>2
  <2> QED
    BY <1>1, <1>3, <2>1 DEF MemAt
<1>5. NoGap(c)'
  BY <1>1, <1>2, <1>3 DEF NoGap
<1> QED
  BY <1>2, <1>4, <1>5

\* Where the next record of a writer will start stays, but for a completed record.
LEMMA BaseStep ==
  ASSUME LayoutInv, LayoutInv', [Next]_vars, NEW q \in Pid, NEW t \in Slot, NEW c \in Chunk, MayWrite(q, t, c)',
         c \notin orphaned', ~Completes(q, t)
  PROVE  Base(q, t)' = 0 \/ (MayWrite(q, t, c) /\ Base(q, t)' = Base(q, t))
<1>t. ProcTypeOK /\ ProcTypeOK' /\ ThreadInv /\ ThreadInv'
  BY DEF LayoutInv, TypeOK
<1>1. CASE op'[q][t] = op[q][t] /\ cursor'[q][t] = cursor[q][t] /\ (slot'[q][t] = "leaked" <=> slot[q][t] = "leaked")
  BY <1>1 DEF Base, RecStart, MayWrite
<1>2. CASE Calm
  BY <1>1, <1>2 DEF Calm, CalmAt
<1>3. CASE Receives
  BY <1>1, <1>3 DEF Receives
<1>4. ASSUME NEW p \in Pid, NEW s \in Slot, Only(p, s), slot' = slot, ~(q = p /\ t = s)
      PROVE  MayWrite(q, t, c) /\ Base(q, t)' = Base(q, t)
  BY <1>1, <1>4 DEF Only, Base, RecStart, MayWrite
<1>5. ASSUME slot' = slot, cursor' = cursor, op'[q][t].acc = op[q][t].acc,
             op[q][t].pc \in Writing <=> op'[q][t].pc \in Writing
      PROVE  MayWrite(q, t, c) /\ Base(q, t)' = Base(q, t)
  BY <1>5 DEF Base, RecStart, MayWrite, Writing
<1>6. ASSUME Progress(q, t) PROVE Base(q, t)' = 0 \/ (MayWrite(q, t, c) /\ Base(q, t)' = Base(q, t))
  <2>1. slot' = slot /\ op'[q][t].acc = op[q][t].acc
    BY <1>6 DEF Progress
  <2>2. CASE Truncates(q, t)
    <3>1. CASE op'[q][t].pc = "open" /\ cursor'[q][t].pos = 0
      BY <3>1 DEF Base, Writing
    <3>2. CASE op'[q][t].pc = "write" /\ cursor'[q][t].pos = RecLen(op[q][t].acc)
      <4>1. op[q][t].acc \in Access
        BY <1>t, <2>2 DEF Truncates, ThreadInv, ThreadAt
      <4>2. RecLen(op'[q][t].acc) = RecLen(op[q][t].acc) /\ RecLen(op[q][t].acc) \in Nat
        BY <2>1, <4>1, RecLenType
      <4>3. RecStart(q, t)' = 0
        BY <3>2, <4>2 DEF RecStart, RecLen
      <4> QED
        BY <3>2, <4>3 DEF Base, Writing
    <3> QED
      BY <2>2, <3>1, <3>2 DEF Truncates
  <2>3. CASE ~Truncates(q, t)
    <3>1. cursor' = cursor /\ (op[q][t].pc \in Writing <=> op'[q][t].pc \in Writing)
      BY <1>6, <2>3 DEF Progress, Opens, Unlinks, SendsFd, Writes, Writing
    <3> QED
      BY <1>5, <2>1, <3>1
  <2> QED
    BY <2>2, <2>3
<1>7. ASSUME NEW a \in Access, Starts(q, t, a) PROVE MayWrite(q, t, c) /\ Base(q, t)' = Base(q, t)
  <2>1. /\ slot' = slot /\ op[q][t].pc = "idle" /\ op'[q][t].acc = a
        /\ cursor'[q][t].chunk = cursor[q][t].chunk
        /\ \/ op'[q][t].pc = "open" /\ cursor'[q][t] = cursor[q][t]
           \/ op'[q][t].pc = "write" /\ cursor'[q][t].pos = cursor[q][t].pos + RecLen(a)
    BY <1>7 DEF Starts
  <2>2. CASE op'[q][t].pc = "open" /\ cursor'[q][t] = cursor[q][t]
    BY <2>1, <2>2 DEF MayWrite, Base, Writing
  <2>3. CASE op'[q][t].pc = "write" /\ cursor'[q][t].pos = cursor[q][t].pos + RecLen(a)
    <3>1. cursor[q][t].pos \in Nat /\ cursor'[q][t].pos <= Cap /\ RecLen(a) \in Nat /\ RecLen(a) >= 2 /\ Cap \in Nat
      BY <1>t, RecLenType, ConstAssumption DEF ProcTypeOK, CursorType
    <3>2. cursor[q][t].pos < Cap
      BY <2>3, <3>1
    <3>3. MayWrite(q, t, c)
      BY <2>1, <3>2 DEF MayWrite
    <3>4. RecStart(q, t)' = cursor[q][t].pos
      BY <2>1, <2>3, <3>1 DEF RecStart, RecLen
    <3>5. Base(q, t)' = cursor[q][t].pos
      BY <2>3, <3>4 DEF Base, Writing
    <3>6. Base(q, t) = cursor[q][t].pos
      BY <2>1 DEF Base, Writing
    <3> QED
      BY <3>3, <3>5, <3>6
  <2> QED
    BY <2>1, <2>2, <2>3
<1>8. ASSUME NEW p \in Pid, NEW s \in Slot, Progress(p, s) \/ Completes(p, s) \/ \E a \in Access : Starts(p, s, a)
      PROVE  Only(p, s) /\ slot' = slot
  BY <1>8 DEF Progress, Completes, Starts
<1>9. ASSUME NEW p \in Pid, NEW s \in Slot, Progress(p, s) \/ Completes(p, s) \/ \E a \in Access : Starts(p, s, a)
      PROVE  Base(q, t)' = 0 \/ (MayWrite(q, t, c) /\ Base(q, t)' = Base(q, t))
  <2>1. CASE q = p /\ t = s
    BY <1>6, <1>7, <1>9, <2>1
  <2>2. CASE ~(q = p /\ t = s)
    BY <1>4, <1>8, <1>9, <2>2
  <2> QED
    BY <2>1, <2>2
<1> QED
  BY <1>2, <1>3, <1>9, Steps

\* What is lost stays lost, what is complete stays complete.
LEMMA OrphansGrow ==
  ASSUME LayoutInv, [Next]_vars
  PROVE  orphaned \subseteq orphaned' /\ done \subseteq done'
  BY Steps DEF Calm, Receives, Progress, Starts, Completes

\* No step but StoreFlag.
LEMMA RecordsQuiet ==
  ASSUME LayoutInv, LayoutInv', RecordsInv, [Next]_vars, Keeps, done' = done,
         \A p \in Pid, s \in Slot : ~Completes(p, s)
  PROVE  RecordsInv'
<1>1. ASSUME NEW c \in Chunk, c \notin orphaned'
      PROVE  c \notin orphaned /\ MemAt(c)' /\ NoGap(c)' /\ \A r : RecordEnd(c, r)' <=> RecordEnd(c, r)
  <2>1. c \notin orphaned
    BY <1>1, OrphansGrow
  <2> QED
    BY <1>1, <2>1, RecordsSame DEF LayoutInv, TypeOK
<1>2. ASSUME NEW q \in Pid, NEW t \in Slot, NEW c \in Chunk, c \notin orphaned', MayWrite(q, t, c)'
      PROVE  RecordEnd(c, Base(q, t))'
  <2>1. PICK r : r = Base(q, t)'
    OBVIOUS
  <2>2. r = 0 \/ (MayWrite(q, t, c) /\ r = Base(q, t))
    BY <1>2, <2>1, BaseStep
  <2>3. RecordEnd(c, r)
    BY <1>1, <1>2, <2>2 DEF RecordsInv, RecordEnd
  <2>4. RecordEnd(c, r)'
    BY <1>1, <1>2, <2>3
  <2> QED
    BY <2>1, <2>4 DEF RecordEnd
<1> QED
  BY <1>1, <1>2 DEF RecordsInv

\* StoreFlag: the new record follows the last one of its chunk.
LEMMA RecordsAdd ==
  ASSUME LayoutInv, LayoutInv', AccInv, RecordsInv, [Next]_vars, NEW p \in Pid, NEW s \in Slot, Completes(p, s)
  PROVE  RecordsInv'
<1>t. ProcTypeOK /\ ThreadInv /\ HistTypeOK /\ IntactRecords /\ SingleWriter
  BY DEF LayoutInv, TypeOK
<1>0. PICK n : n = Rec(op[p][s].acc, cursor[p][s].chunk)
  OBVIOUS
<1>1. PICK k \in Chunk, b \in Offset, v \in Access :
        /\ k = cursor[p][s].chunk /\ b = RecStart(p, s) /\ v = op[p][s].acc /\ n = Rec(v, k)
        /\ MayWrite(p, s, k) /\ cursor[p][s].pos = b + RecLen(v)
  BY <1>t, <1>0, WriterFacts DEF Completes, Writing
<1>2. /\ op[p][s].pc = "flag" /\ op'[p][s].pc = "idle" /\ done' = done \cup {n} /\ cursor' = cursor
      /\ slot' = slot /\ orphaned' = orphaned /\ StoreFlag(p, s) /\ Only(p, s)
  BY <1>1 DEF Completes
<1>3. n.acc = v /\ n.chunk = k /\ \A d \in done : d.acc # v
  BY <1>1, <1>2 DEF Rec, AccInv, SendingAt
<1>4. ASSUME NEW c \in Chunk, c \notin orphaned, NEW x \in Offset, NEW a \in Access
      PROVE  RecordAt(c, x, a)' <=> RecordAt(c, x, a) \/ (c = k /\ x = b /\ a = v)
  BY <1>1, <1>2, <1>4, RecordsComplete DEF Added
<1>5. ASSUME k \notin orphaned, NEW x \in Offset, NEW a \in Access, RecordAt(k, x, a)
      PROVE  x < b /\ x + RecLen(a) <= b
  BY <1>1, <1>2, <1>5, RecordsComplete
<1>6. ASSUME NEW c \in Chunk, c \notin orphaned PROVE MemAt(c) /\ NoGap(c)
  BY <1>6 DEF RecordsInv
<1>7. ASSUME NEW c \in Chunk, c \notin orphaned PROVE MemAt(c)'
  <2>1. ASSUME NEW x \in Offset, NEW a \in Access, RecordAt(c, x, a)' PROVE Rec(a, c) \in done'
    BY <1>1, <1>2, <1>4, <1>6, <1>7, <2>1 DEF MemAt
  <2>2. ASSUME NEW x \in Offset, NEW y \in Offset, NEW a \in Access, RecordAt(c, x, a)', RecordAt(c, y, a)' PROVE x = y
    <3>1. ASSUME NEW z \in Offset, RecordAt(c, z, v) PROVE FALSE
      <4>1. Rec(v, c) \in done
        BY <1>6, <1>7, <3>1 DEF MemAt
      <4> QED
        BY <1>3, <4>1 DEF Rec
    <3>2. RecordAt(c, x, a) \/ (c = k /\ x = b /\ a = v)
      BY <1>4, <1>7, <2>2
    <3>3. RecordAt(c, y, a) \/ (c = k /\ y = b /\ a = v)
      BY <1>4, <1>7, <2>2
    <3>4. CASE RecordAt(c, x, a) /\ RecordAt(c, y, a)
      BY <1>6, <1>7, <3>4 DEF MemAt
    <3> QED
      BY <3>1, <3>2, <3>3, <3>4
  <2>3. ASSUME NEW d \in done', d.chunk = c PROVE \E x \in Offset : RecordAt(c, x, d.acc)'
    <3>1. CASE d = n
      <4>1. d.acc = v /\ c = k
        BY <1>3, <2>3, <3>1
      <4> QED
        BY <1>4, <1>7, <4>1
    <3>2. CASE d \in done
      <4>1. PICK x \in Offset : RecordAt(c, x, d.acc)
        BY <1>6, <1>7, <2>3, <3>2 DEF MemAt
      <4>2. d.acc \in Access
        BY <1>t, <3>2 DEF HistTypeOK, Record
      <4> QED
        BY <1>4, <1>7, <4>1, <4>2
    <3> QED
      BY <1>2, <3>1, <3>2
  <2> QED
    BY <2>1, <2>2, <2>3 DEF MemAt
<1>8. ASSUME NEW c \in Chunk, c \notin orphaned, NEW r PROVE RecordEnd(c, r)' <=> RecordEnd(c, r) \/ (c = k /\ r = b + RecLen(v))
  BY <1>4, <1>8, EndOfRecord
<1>9. ASSUME k \notin orphaned, NEW r \in Offset, RecordEnd(k, r), r < b PROVE \E e \in Access : RecordAt(k, r, e)
  <2>1. RecordEnd(k, b)
    <3>1. Base(p, s) = b
      BY <1>1, <1>2 DEF Base, Writing
    <3> QED
      BY <1>1, <1>9, <3>1 DEF RecordsInv
  <2>2. b # 0 /\ r \in Nat /\ b \in Nat
    BY <1>1, <1>9, ConstAssumption DEF Offset
  <2>3. PICK y \in Offset, e \in Access : RecordAt(k, y, e) /\ b = y + RecLen(e)
    BY <2>1, <2>2, EndOfRecord
  <2>4. CASE r <= y
    BY <1>6, <1>9, <2>3, <2>4 DEF NoGap
  <2>5. CASE y < r
    <3>1. Boundary(k, r)
      BY <1>t, <1>9, EndIsBoundary
    <3> QED
      BY <1>9, <2>3, <2>5, <3>1, InsideRecord
  <2> QED
    BY <2>2, <2>4, <2>5 DEF Offset
<1>10. ASSUME NEW c \in Chunk, c \notin orphaned PROVE NoGap(c)'
  <2> SUFFICES ASSUME NEW x \in Offset, NEW r \in Offset, NEW a \in Access, RecordAt(c, x, a)', RecordEnd(c, r)', r <= x
               PROVE  \E e \in Access : RecordAt(c, r, e)'
    BY DEF NoGap
  <2>0. x \in Nat /\ r \in Nat /\ b \in Nat /\ RecLen(v) \in Nat /\ RecLen(v) >= 2
    BY <1>1, RecLenType DEF Offset
  <2>1. RecordAt(c, x, a) \/ (c = k /\ x = b /\ a = v)
    BY <1>4, <1>10
  <2>2. RecordEnd(c, r) \/ (c = k /\ r = b + RecLen(v))
    BY <1>8, <1>10
  <2>3. CASE RecordAt(c, x, a) /\ RecordEnd(c, r)
    <3>1. \E e \in Access : RecordAt(c, r, e)
      BY <1>6, <1>10, <2>3 DEF NoGap
    <3> QED
      BY <1>4, <1>10, <3>1
  <2>4. CASE c = k /\ r = b + RecLen(v)
    <3>1. x <= b
      BY <1>5, <1>10, <2>0, <2>1, <2>4
    <3> QED
      BY <2>0, <2>4, <3>1
  <2>5. CASE c = k /\ x = b /\ a = v /\ RecordEnd(c, r)
    <3>1. CASE r = b
      BY <1>4, <1>10, <2>5, <3>1
    <3>2. CASE r < b
      BY <1>4, <1>9, <1>10, <2>5, <3>2
    <3> QED
      BY <2>0, <2>5, <3>1, <3>2
  <2> QED
    BY <2>1, <2>2, <2>3, <2>4, <2>5
<1>11. ASSUME NEW q \in Pid, NEW t \in Slot, NEW c \in Chunk, c \notin orphaned, MayWrite(q, t, c)'
       PROVE  RecordEnd(c, Base(q, t))'
  <2>1. PICK r : r = Base(q, t)'
    OBVIOUS
  <2>2. CASE q = p /\ t = s
    <3>1. r = b + RecLen(v) /\ c = k
      BY <1>1, <1>2, <1>11, <2>1, <2>2 DEF Base, Writing, MayWrite
    <3>2. RecordEnd(c, r)'
      BY <1>8, <1>11, <3>1
    <3> QED
      BY <2>1, <3>2 DEF RecordEnd
  <2>3. CASE ~(q = p /\ t = s)
    <3>1. MayWrite(q, t, c) /\ r = Base(q, t)
      BY <1>2, <1>11, <2>1, <2>3 DEF Only, MayWrite, Base, RecStart
    <3>2. RecordEnd(c, r)
      BY <1>11, <3>1 DEF RecordsInv
    <3>3. RecordEnd(c, r)'
      BY <1>8, <1>11, <3>2
    <3> QED
      BY <2>1, <3>3 DEF RecordEnd
  <2> QED
    BY <2>2, <2>3
<1> QED
  BY <1>2, <1>7, <1>10, <1>11 DEF RecordsInv

\* Completed sends and records in memory agree, over every step.
LEMMA RecordsStep ==
  ASSUME LayoutInv, LayoutInv', AccInv, RecordsInv, [Next]_vars
  PROVE  RecordsInv'
<1>1. CASE \E p \in Pid, s \in Slot : Completes(p, s)
  BY <1>1, RecordsAdd
<1>2. CASE ~ \E p \in Pid, s \in Slot : Completes(p, s)
  <2>1. \/ Calm \/ Receives
        \/ \E p \in Pid, s \in Slot : Progress(p, s) \/ \E a \in Access : Starts(p, s, a)
    BY <1>2, Steps
  <2>2. done' = done
    BY <2>1 DEF Calm, Receives, Progress, Starts
  <2>3. Keeps
    BY <2>1, RecordsKept
  <2> QED
    BY <1>2, <2>2, <2>3, RecordsQuiet
<1> QED
  BY <1>1, <1>2

-------------------------------------------------------------------------------
(* What the iterator has yielded *)

\* A step of the target, or of the spawner beside the receiver.
Aside == UNCHANGED rxVars /\ (queue' = queue \/ phase = "recv")

\* A step is the receiver's, or leaves it alone.
LEMMA ReadOrAside ==
  ASSUME LayoutInv, [Next]_vars
  PROVE  Receives \/ Aside
<1>1. ASSUME NEW p \in Pid, NEW s \in Slot, Progress(p, s) PROVE Aside
  BY <1>1 DEF Aside, Progress, Opens, Unlinks, SendsFd, Truncates, Writes
<1> QED
  BY <1>1, Steps DEF Calm, Completes, Starts, Aside

\* The record that iter decodes.
LEMMA ReadsRecord ==
  ASSUME LayoutInv, NEW a \in Access, ReadRecord(a)
  PROVE  /\ ri \in DOMAIN fds /\ fds[ri] \in Chunk /\ rpos \in Offset /\ maplen[ri] = Cap
         /\ RecordAt(fds[ri], rpos, a)
<1>1. RxTypeOK /\ ReaderInv /\ Reading /\ rpos < maplen[ri] /\ mem[fds[ri]][rpos] = Flag /\ Decodes(fds[ri], rpos, maplen[ri], a)
  BY DEF LayoutInv, TypeOK, ReadRecord
<1>2. ri \in 1..Len(fds) /\ DOMAIN fds = 1..Len(fds) /\ fds[ri] \in Chunk /\ ri \in 1..Len(maplen) /\ maplen[ri] \in {0, Cap}
  BY <1>1 DEF RxTypeOK, ReaderInv, Reading
<1>3. rpos \in Offset /\ maplen[ri] = Cap
  BY <1>1, <1>2, ConstAssumption DEF RxTypeOK, Offset
<1> QED
  BY <1>1, <1>2, <1>3 DEF RecordAt

\* Unread chunks and positions are ahead of the iterator.
LEMMA OutStep ==
  ASSUME LayoutInv, LayoutInv', OutInv, [Next]_vars
  PROVE  OutInv'
<1>t. RxTypeOK /\ ReaderInv
  BY DEF LayoutInv, TypeOK
<1>o. orphaned \subseteq orphaned'
  BY OrphansGrow
<1>1. /\ phase' \in {"recv", "map", "dropped"} => out' = <<>> /\ ri' = 1 /\ rpos' = 0
      /\ phase' = "recv" => sealed' = {} /\ maplen' = <<>>
      /\ phase' # "recv" => queue' = <<>>
      /\ phase' = "done" => ri' = Len(fds') + 1
  <2>1. CASE Aside
    BY <2>1 DEF Aside, OutInv, rxVars
  <2>2. CASE DropReceiver \/ RecvFd \/ RecvEof
    BY <2>2 DEF DropReceiver, RecvFd, RecvEof, OutInv
  <2>3. CASE MapNext \/ ReadStop \/ ReadGarbage \/ Finish
    BY <2>3 DEF MapNext, ReadStop, ReadGarbage, Finish, Reading, OutInv
  <2>4. CASE \E a \in Access : ReadRecord(a)
    BY <2>4 DEF ReadRecord, Reading, OutInv
  <2> QED
    BY <2>1, <2>2, <2>3, <2>4, ReadOrAside DEF Receives, Receiver
<1>2. ASSUME fds' = fds, ri' \in Nat, ri <= ri', ri' = ri => rpos <= rpos', rpos' \in Nat,
             NEW d \in Record, d.chunk \notin orphaned', NEW k \in DOMAIN fds, YieldedFrom(d, k)
      PROVE  YieldedFrom(d, k)'
  <2>1. PICK x \in Offset : RecordAt(d.chunk, x, d.acc) /\ (k = ri => x < rpos)
    BY <1>2 DEF YieldedFrom
  <2>2. d.chunk \in Chunk /\ d.acc \in Access
    BY DEF Record
  <2>3. RecordAt(d.chunk, x, d.acc)'
    BY <1>2, <2>1, <2>2, RecordsStay
  <2>4. k <= ri' /\ (k = ri' => x < rpos')
    BY <1>t, <1>2, <2>1 DEF YieldedFrom, RxTypeOK, Offset
  <2> QED
    BY <1>2, <2>1, <2>3, <2>4 DEF YieldedFrom
<1>3. ASSUME fds' = fds, ri' \in Nat, ri <= ri', ri' = ri => rpos <= rpos', rpos' \in Nat,
             NEW j \in DOMAIN out, NEW d \in Record, d = out[j], d.chunk \notin orphaned'
      PROVE  \E k \in DOMAIN fds' : YieldedFrom(d, k)'
  <2>1. PICK k \in DOMAIN fds : YieldedFrom(d, k)
    BY <1>o, <1>3 DEF OutInv
  <2>2. YieldedFrom(d, k)'
    BY <1>2, <1>3, <2>1
  <2> QED
    BY <1>3, <2>2
<1>4. ASSUME NEW j \in DOMAIN out', NEW d \in Record, d = out'[j], d.chunk \notin orphaned'
      PROVE  \E k \in DOMAIN fds' : YieldedFrom(d, k)'
  <2>n. ri \in Nat /\ rpos \in Nat /\ ri' \in Nat /\ rpos' \in Nat
    BY DEF LayoutInv, TypeOK, RxTypeOK
  <2>1. CASE Aside
    <3>1. UNCHANGED <<fds, ri, rpos, out>>
      BY <2>1 DEF Aside, rxVars
    <3> QED
      BY <1>3, <1>4, <2>n, <3>1
  <2>2. CASE DropReceiver \/ RecvFd \/ RecvEof \/ MapNext
    <3>1. out' = <<>>
      BY <2>2 DEF DropReceiver, RecvFd, RecvEof, MapNext, OutInv
    <3> QED
      BY <1>4, <3>1
  <2>3. CASE ReadStop \/ Finish
    <3>1. UNCHANGED <<fds, out>> /\ ri <= ri' /\ (ri' = ri => rpos <= rpos')
      BY <2>3, <2>n DEF ReadStop, Finish
    <3> QED
      BY <1>3, <1>4, <2>n, <3>1
  <2>4. CASE ReadGarbage
    <3>1. UNCHANGED <<fds, out, ri>> /\ rpos <= rpos'
      BY <2>4, <2>n DEF ReadGarbage
    <3> QED
      BY <1>3, <1>4, <2>n, <3>1
  <2>5. ASSUME NEW a \in Access, ReadRecord(a) PROVE \E k \in DOMAIN fds' : YieldedFrom(d, k)'
    <3>1. /\ out' = Append(out, Rec(a, fds[ri])) /\ UNCHANGED <<fds, ri>> /\ rpos' = rpos + RecLen(a)
          /\ RecLen(a) \in Nat /\ RecLen(a) >= 2
      BY <2>5, RecLenType DEF ReadRecord, Rec
    <3>2. ri \in DOMAIN fds /\ fds[ri] \in Chunk /\ rpos \in Offset /\ RecordAt(fds[ri], rpos, a)
      BY <2>5, ReadsRecord
    <3>3. rpos <= rpos' /\ rpos < rpos'
      BY <2>n, <3>1
    <3>4. CASE j \in DOMAIN out /\ out'[j] = out[j]
      BY <1>3, <1>4, <2>n, <3>1, <3>3, <3>4
    <3>5. CASE d = Rec(a, fds[ri])
      <4>1. d.acc = a /\ d.chunk = fds[ri]
        BY <3>5 DEF Rec
      <4>2. RecordAt(d.chunk, rpos, d.acc)
        BY <3>2, <4>1
      <4>3. PICK x \in Offset, k \in DOMAIN fds : x = rpos /\ k = ri
        BY <3>2
      <4>4. RecordAt(d.chunk, x, d.acc)'
        BY <1>4, <3>2, <4>1, <4>2, <4>3, RecordsStay
      <4>5. k <= ri' /\ fds'[k] = d.chunk /\ x < rpos' /\ k \in DOMAIN fds'
        BY <2>n, <3>1, <3>3, <4>1, <4>3
      <4> QED
        BY <4>4, <4>5 DEF YieldedFrom
    <3>6. (j \in DOMAIN out /\ out'[j] = out[j]) \/ d = Rec(a, fds[ri])
      <4>1. out \in Seq(Record) /\ Rec(a, fds[ri]) \in Record
        BY <1>t, <3>2 DEF RxTypeOK, Rec, Record
      <4>2. DOMAIN out' = 1..(Len(out) + 1) /\ Len(out) \in Nat /\ DOMAIN out = 1..Len(out)
        BY <3>1, <4>1
      <4>3. j \in 1..Len(out) \/ j = Len(out) + 1
        BY <1>4, <4>2
      <4>4. (\A i \in 1..Len(out) : out'[i] = out[i]) /\ out'[Len(out) + 1] = Rec(a, fds[ri])
        BY <3>1, <4>1
      <4> QED
        BY <1>4, <4>2, <4>3, <4>4
    <3> QED
      BY <3>4, <3>5, <3>6
  <2> QED
    BY <2>1, <2>2, <2>3, <2>4, <2>5, ReadOrAside DEF Receives, Receiver
<1>5. ASSUME NEW j \in DOMAIN out', out'[j].chunk \notin orphaned' PROVE \E k \in DOMAIN fds' : YieldedFrom(out[j], k)'
  <2>1. PICK d \in Record : d = out'[j]
    BY <1>5 DEF LayoutInv, TypeOK, RxTypeOK
  <2>2. \E k \in DOMAIN fds' : YieldedFrom(d, k)'
    BY <1>4, <1>5, <2>1
  <2> QED
    BY <2>1, <2>2 DEF YieldedFrom, RecordAt, Decodes
<1> QED
  BY <1>1, <1>5 DEF OutInv

-------------------------------------------------------------------------------
(* What the iterator has passed *)

\* Where a record comes from.
LEMMA NewRecords ==
  ASSUME LayoutInv, [Next]_vars, NEW c \in Chunk, c \notin orphaned', NEW x \in Offset, NEW a \in Access, RecordAt(c, x, a)'
  PROVE  RecordAt(c, x, a) \/ \E p \in Pid, s \in Slot : Completes(p, s) /\ Added(p, s, c, x, a)
<1>1. c \notin orphaned
  BY OrphansGrow
<1>2. ASSUME NEW p \in Pid, NEW s \in Slot, Completes(p, s) PROVE RecordAt(c, x, a) \/ Added(p, s, c, x, a)
  BY <1>1, <1>2, RecordsComplete DEF Completes
<1>3. CASE ~ \E p \in Pid, s \in Slot : Completes(p, s)
  BY <1>3, Steps, RecordsKept DEF Keeps
<1> QED
  BY <1>2, <1>3

\* A record that is completed lies behind every end of a record.
LEMMA AddedBehind ==
  ASSUME LayoutInv, [Next]_vars, NEW p \in Pid, NEW s \in Slot, Completes(p, s), NEW c \in Chunk, c \notin orphaned,
         NEW x \in Offset, NEW a \in Access, Added(p, s, c, x, a), NEW r, RecordEnd(c, r)
  PROVE  r <= x
<1>1. c = cursor[p][s].chunk /\ x = RecStart(p, s) /\ StoreFlag(p, s)
  BY DEF Added, Completes
<1>2. ASSUME NEW y \in Offset, NEW e \in Access, RecordAt(c, y, e) PROVE y + RecLen(e) <= x
  BY <1>1, <1>2, RecordsComplete
<1>3. 0 <= x
  BY DEF Offset
<1> QED
  BY <1>2, <1>3, EndOfRecord

\* ReadRecord appends to what was yielded.
LEMMA YieldsOne ==
  ASSUME LayoutInv, NEW a \in Access, ReadRecord(a)
  PROVE  /\ Len(out) \in Nat /\ DOMAIN out = 1..Len(out) /\ DOMAIN out' = 1..(Len(out) + 1)
         /\ \A i \in 1..Len(out) : out'[i] = out[i]
         /\ out'[Len(out) + 1] = Rec(a, fds[ri])
         /\ Yielded' = Yielded \cup {Rec(a, fds[ri])}
<1>1. out' = Append(out, Rec(a, fds[ri])) /\ out \in Seq(Record) /\ Rec(a, fds[ri]) \in Record
  BY ReadsRecord DEF ReadRecord, Rec, Record, LayoutInv, TypeOK, RxTypeOK
<1>2. Len(out) \in Nat /\ DOMAIN out = 1..Len(out) /\ DOMAIN out' = 1..(Len(out) + 1)
  BY <1>1
<1>3. (\A i \in 1..Len(out) : out'[i] = out[i]) /\ out'[Len(out) + 1] = Rec(a, fds[ri])
  BY <1>1
<1>4. ASSUME NEW d PROVE d \in Yielded' <=> d \in Yielded \/ d = Rec(a, fds[ri])
  BY <1>2, <1>3 DEF Yielded
<1> QED
  BY <1>2, <1>3, <1>4

\* What lies behind the iterator has been yielded, over every step.
LEMMA PassedStep ==
  ASSUME LayoutInv, LayoutInv', phase # "dropped" => SentInv, SizeInv, RecordsInv, OutInv, OutInv', PassedInv, [Next]_vars
  PROVE  PassedInv'
<1>t. RxTypeOK /\ ReaderInv /\ RxTypeOK' /\ ReaderInv' /\ HistTypeOK
  BY DEF LayoutInv, TypeOK
<1>o. orphaned \subseteq orphaned' /\ done \subseteq done'
  BY OrphansGrow
<1>n. ri \in Nat /\ ri >= 1 /\ rpos \in Nat
  BY <1>t DEF RxTypeOK, ReaderInv
<1>1. CASE Aside
  <2>1. UNCHANGED <<phase, fds, maplen, ri, rpos, out, sealed>>
    BY <1>1 DEF Aside, rxVars
  <2>2. Yielded' = Yielded
    BY <2>1 DEF Yielded
  <2>3. ASSUME Reading', fds[ri] \notin orphaned', NEW x \in Offset, NEW a \in Access, RecordAt(fds[ri], x, a)', x < rpos
        PROVE  Rec(a, fds[ri]) \in Yielded
    <3>1. PICK c \in Chunk : c = fds[ri]
      BY <1>t, <2>1, <2>3 DEF RxTypeOK, Reading, ReaderInv
    <3>2. Reading /\ c \notin orphaned
      BY <1>o, <2>1, <2>3, <3>1 DEF Reading
    <3>3. RecordAt(c, x, a)'
      BY <2>1, <2>3, <3>1 DEF RecordAt, Decodes
    <3>4. RecordEnd(c, rpos)
      BY <1>t, <3>1, <3>2 DEF ReaderInv
    <3>5. ASSUME NEW p \in Pid, NEW s \in Slot, Completes(p, s), Added(p, s, c, x, a) PROVE FALSE
      <4>1. rpos <= x
        BY <3>2, <3>4, <3>5, AddedBehind
      <4> QED
        BY <1>n, <2>3, <4>1 DEF Offset
    <3>6. RecordAt(c, x, a)
      BY <2>3, <3>1, <3>3, <3>5, NewRecords
    <3> QED
      BY <2>3, <3>1, <3>2, <3>6 DEF PassedInv
  <2>4. /\ sealed' \subseteq done'
        /\ \A d \in sealed' : \E k \in DOMAIN fds' : fds'[k] = d.chunk
        /\ \A d \in sealed' : \A k \in DOMAIN maplen' : fds'[k] = d.chunk => maplen'[k] = Cap
    BY <1>o, <2>1 DEF PassedInv
  <2>5. \A d \in sealed' : \A k \in DOMAIN fds' : k < ri' /\ fds'[k] = d.chunk /\ d.chunk \notin orphaned' => d \in Yielded'
    BY <1>o, <2>1, <2>2 DEF PassedInv
  <2>6. Reading' /\ fds'[ri'] \notin orphaned' =>
          \A x \in Offset, a \in Access : RecordAt(fds[ri], x, a)' /\ x < rpos' => Rec(a, fds'[ri']) \in Yielded'
    BY <2>1, <2>2, <2>3
  <2> QED
    BY <2>4, <2>5, <2>6 DEF PassedInv, Rec
<1>2. CASE RecvFd
  <2>1. sealed' = {} /\ phase' # "iter"
    BY <1>2 DEF RecvFd, OutInv
  <2> QED
    BY <2>1 DEF PassedInv, Reading
<1>9. CASE DropReceiver
  <2>1. UNCHANGED <<fds, maplen, ri, out, sealed, done, orphaned>> /\ phase' # "iter"
    BY <1>9 DEF DropReceiver, histVars
  <2>2. Yielded' = Yielded
    BY <2>1 DEF Yielded
  <2> QED
    BY <2>1, <2>2 DEF PassedInv, Reading
<1>3. CASE RecvEof
  <2>1. /\ phase = "recv" /\ phase' = "map" /\ queue = <<>> /\ sealed' = done /\ done' = done /\ fds' = fds
        /\ maplen' = <<>> /\ ri' = 1
    BY <1>3 DEF RecvEof, OutInv, histVars
  <2>2. Order = fds
    BY <1>t, <2>1, ConcatEmptySeq DEF Order, RxTypeOK
  <2>3. \A d \in sealed' : \E k \in DOMAIN fds' : fds'[k] = d.chunk
    BY <2>1, <2>2 DEF SentInv, Sent
  <2>4. ASSUME NEW k \in DOMAIN fds', k < ri' PROVE FALSE
    BY <1>t, <2>1, <2>4 DEF RxTypeOK
  <2>5. DOMAIN maplen' = {} /\ ~Reading'
    BY <2>1 DEF Reading
  <2> QED
    BY <2>1, <2>3, <2>4, <2>5 DEF PassedInv
<1>4. CASE MapNext
  <2>1. /\ phase = "map" /\ UNCHANGED <<fds, ri, rpos, out, sealed, done, orphaned>> /\ ri = 1 /\ rpos = 0
    BY <1>4 DEF MapNext, OutInv, histVars
  <2>2. ASSUME NEW d \in sealed', NEW k \in DOMAIN maplen', fds'[k] = d.chunk PROVE maplen'[k] = Cap
    <3>1. CASE maplen' = maplen
      BY <2>1, <2>2, <3>1 DEF PassedInv
    <3>2. CASE maplen' = Append(maplen, size[fds[Len(maplen) + 1]]) /\ Len(maplen) < Len(fds)
      <4>0. maplen \in Seq({0, Cap}) /\ fds \in Seq(Chunk) /\ size \in [Chunk -> {0, Cap}]
        BY DEF LayoutInv, TypeOK, RxTypeOK, ShmTypeOK
      <4>1. PICK z \in {0, Cap} : z = size[fds[Len(maplen) + 1]]
        <5>1. Len(maplen) + 1 \in 1..Len(fds)
          BY <3>2, <4>0
        <5> QED
          BY <4>0, <5>1
      <4>2. maplen' = Append(maplen, z)
        BY <3>2, <4>1
      <4>3. /\ Len(maplen) \in Nat /\ DOMAIN maplen' = 1..(Len(maplen) + 1) /\ DOMAIN maplen = 1..Len(maplen)
            /\ (\A i \in 1..Len(maplen) : maplen'[i] = maplen[i]) /\ maplen'[Len(maplen) + 1] = z
        BY <4>0, <4>2
      <4>4. CASE k \in 1..Len(maplen)
        BY <2>1, <2>2, <4>3, <4>4 DEF PassedInv
      <4>5. CASE k = Len(maplen) + 1
        <5>1. d \in done /\ size[d.chunk] = Cap
          BY <2>1, <2>2 DEF PassedInv, SizeInv
        <5> QED
          BY <2>1, <2>2, <4>1, <4>3, <4>5, <5>1
      <4> QED
        BY <2>2, <4>3, <4>4, <4>5
    <3> QED
      BY <1>4, <3>1, <3>2 DEF MapNext
  <2>3. ASSUME NEW k \in DOMAIN fds', k < ri' PROVE FALSE
    BY <1>t, <2>1, <2>3 DEF RxTypeOK
  <2>4. ASSUME NEW x \in Offset, x < rpos' PROVE FALSE
    BY <2>1, <2>4 DEF Offset
  <2>5. /\ sealed' \subseteq done'
        /\ \A d \in sealed' : \E k \in DOMAIN fds' : fds'[k] = d.chunk
    BY <2>1 DEF PassedInv
  <2> QED
    BY <2>2, <2>3, <2>4, <2>5 DEF PassedInv
<1>5. ASSUME UNCHANGED <<fds, maplen, sealed, done, orphaned, mem>>
      PROVE  /\ sealed' \subseteq done'
             /\ \A d \in sealed' : \E k \in DOMAIN fds' : fds'[k] = d.chunk
             /\ \A d \in sealed' : \A k \in DOMAIN maplen' : fds'[k] = d.chunk => maplen'[k] = Cap
  BY <1>5 DEF PassedInv
<1>6. CASE ReadStop
  <2>1. UNCHANGED <<fds, maplen, sealed, done, orphaned, mem, out>> /\ ri' = ri + 1 /\ rpos' = 0 /\ Reading
        /\ (rpos < maplen[ri] => mem[fds[ri]][rpos] # Flag)
    BY <1>6 DEF ReadStop, histVars, shmVars
  <2>2. Yielded' = Yielded
    BY <2>1 DEF Yielded
  <2>3. ASSUME NEW d \in sealed, d.chunk = fds[ri], d.chunk \notin orphaned PROVE d \in Yielded
    <3>1. PICK c \in Chunk, a \in Access : c = d.chunk /\ a = d.acc /\ d = Rec(a, c) /\ d \in done
      BY <1>t, <2>3 DEF PassedInv, HistTypeOK, Record, Rec
    <3>2. PICK x \in Offset : RecordAt(c, x, a)
      BY <2>3, <3>1 DEF RecordsInv, MemAt
    <3>3. maplen[ri] = Cap
      <4>1. ri \in DOMAIN maplen
        BY <1>t, <2>1 DEF Reading, RxTypeOK, ReaderInv
      <4> QED
        BY <2>3, <4>1 DEF PassedInv
    <3>4. CASE rpos <= x
      <4>1. rpos \in Offset /\ rpos < Cap
        BY <1>n, <3>4, ConstAssumption DEF Offset
      <4>2. RecordEnd(c, rpos)
        BY <1>t, <2>1, <2>3, <3>1 DEF ReaderInv
      <4>3. \E e \in Access : RecordAt(c, rpos, e)
        BY <2>3, <3>1, <3>2, <3>4, <4>1, <4>2 DEF RecordsInv, NoGap
      <4>4. mem[c][rpos] = Flag
        BY <4>3 DEF RecordAt
      <4> QED
        BY <2>1, <2>3, <3>1, <3>3, <4>1, <4>4
    <3>5. CASE x < rpos
      BY <2>1, <2>3, <3>1, <3>2, <3>5 DEF PassedInv
    <3> QED
      BY <1>n, <3>4, <3>5 DEF Offset
  <2>4. ASSUME NEW d \in sealed', NEW k \in DOMAIN fds', k < ri', fds'[k] = d.chunk, d.chunk \notin orphaned' PROVE d \in Yielded'
    <3>1. k \in DOMAIN fds /\ k \in Nat /\ fds[k] = d.chunk /\ d \in sealed /\ d.chunk \notin orphaned
      BY <1>t, <2>1, <2>4 DEF RxTypeOK
    <3>2. k < ri \/ k = ri
      BY <1>n, <2>1, <2>4, <3>1
    <3> QED
      BY <2>2, <2>3, <3>1, <3>2 DEF PassedInv
  <2>5. ASSUME NEW x \in Offset, x < rpos' PROVE FALSE
    BY <2>1, <2>5 DEF Offset
  <2> QED
    BY <1>5, <2>1, <2>4, <2>5 DEF PassedInv
<1>7. CASE ReadGarbage \/ Finish
  <2>1. UNCHANGED <<fds, maplen, sealed, done, orphaned, mem, out, ri>> /\ (Reading' => fds[ri] \in orphaned)
    <3>1. CASE Finish
      BY <3>1 DEF Finish, Reading, histVars, shmVars
    <3>2. CASE ReadGarbage
      <4>1. UNCHANGED <<fds, maplen, sealed, done, orphaned, mem, out, ri>> /\ fds[ri] \in garbled'
        BY <3>2 DEF ReadGarbage, histVars, shmVars
      <4> QED
        BY <4>1 DEF LayoutInv, NoGarbage
    <3> QED
      BY <1>7, <3>1, <3>2
  <2>2. Yielded' = Yielded
    BY <2>1 DEF Yielded
  <2>3. \A d \in sealed' : \A k \in DOMAIN fds' : k < ri' /\ fds'[k] = d.chunk /\ d.chunk \notin orphaned' => d \in Yielded'
    BY <2>1, <2>2 DEF PassedInv
  <2>4. ~(Reading' /\ fds'[ri'] \notin orphaned')
    BY <2>1
  <2> QED
    BY <1>5, <2>1, <2>3, <2>4 DEF PassedInv
<1>8. ASSUME NEW a \in Access, ReadRecord(a) PROVE PassedInv'
  <2>1. UNCHANGED <<fds, maplen, sealed, done, orphaned, mem, ri, phase>> /\ rpos' = rpos + RecLen(a) /\ Reading
    BY <1>8 DEF ReadRecord, histVars, shmVars
  <2>2. Yielded' = Yielded \cup {Rec(a, fds[ri])}
    BY <1>8, YieldsOne
  <2>3. \A d \in sealed' : \A k \in DOMAIN fds' : k < ri' /\ fds'[k] = d.chunk /\ d.chunk \notin orphaned' => d \in Yielded'
    BY <2>1, <2>2 DEF PassedInv
  <2>4. ASSUME fds[ri] \notin orphaned, NEW x \in Offset, NEW e \in Access, RecordAt(fds[ri], x, e), x < rpos + RecLen(a)
        PROVE  Rec(e, fds[ri]) \in Yielded \cup {Rec(a, fds[ri])}
    <3>1. fds[ri] \in Chunk /\ rpos \in Offset /\ RecordAt(fds[ri], rpos, a)
      BY <1>8, ReadsRecord
    <3>2. CASE x < rpos
      BY <2>1, <2>4, <3>2 DEF PassedInv
    <3>3. CASE x = rpos
      <4>1. e = a
        BY <2>4, <3>1, <3>3, DecodesUnique DEF RecordAt
      <4> QED
        BY <4>1
    <3>4. CASE rpos < x
      <4>1. mem[fds[ri]][x] # Flag
        BY <2>4, <3>1, <3>4, InsideRecord
      <4> QED
        BY <2>4, <4>1 DEF RecordAt
    <3> QED
      BY <1>n, <3>2, <3>3, <3>4 DEF Offset
  <2>5. Reading' /\ fds'[ri'] \notin orphaned' =>
          \A x \in Offset, e \in Access : RecordAt(fds[ri], x, e)' /\ x < rpos' => Rec(e, fds'[ri']) \in Yielded'
    BY <2>1, <2>2, <2>4 DEF RecordAt, Decodes
  <2> QED
    BY <1>5, <2>1, <2>3, <2>5 DEF PassedInv, Rec
<1> QED
  BY <1>1, <1>2, <1>3, <1>4, <1>6, <1>7, <1>8, <1>9, ReadOrAside DEF Receives, Receiver

-------------------------------------------------------------------------------
(* Records come after the ones that precede them in their thread *)

\* What was complete before a chunk was sent stays so.
LEMMA EarlierStays ==
  ASSUME LayoutInv, [Next]_vars, phase' # "dropped", NEW d \in done, NEW c, Earlier(d, c)
  PROVE  Earlier(d, c)'
<1>1. Before(d.chunk, c)'
  BY SentGrows DEF Earlier
<1>2. phase' = "recv" \/ d \in sealed'
  <2>1. CASE Aside
    BY <2>1 DEF Aside, rxVars, Earlier
  <2>2. CASE Receives
    BY <2>2 DEF Receives, Receiver, DropReceiver, RecvFd, RecvEof, MapNext, ReadRecord, ReadStop, ReadGarbage, Finish, Earlier, Reading
  <2> QED
    BY <2>1, <2>2, ReadOrAside
<1> QED
  BY <1>1, <1>2 DEF Earlier

\* Records that follow each other go on doing so.
LEMMA FollowsStays ==
  ASSUME LayoutInv, [Next]_vars, phase' # "dropped", NEW d \in done, NEW r \in done, Follows(r, d), d.chunk \notin orphaned'
  PROVE  Follows(r, d)'
<1>1. CASE Earlier(d, r.chunk)
  <2>1. PICK c : c = r.chunk
    OBVIOUS
  <2>2. Earlier(d, c)'
    BY <1>1, <2>1, EarlierStays
  <2> QED
    BY <2>1, <2>2 DEF Follows
<1>2. CASE d.chunk = r.chunk /\ \E x, y \in Offset : x < y /\ RecordAt(d.chunk, x, d.acc) /\ RecordAt(r.chunk, y, r.acc)
  <2>1. PICK x \in Offset, y \in Offset : x < y /\ RecordAt(d.chunk, x, d.acc) /\ RecordAt(r.chunk, y, r.acc)
    BY <1>2
  <2>2. d.chunk \in Chunk /\ d.acc \in Access /\ r.acc \in Access
    BY DEF LayoutInv, TypeOK, HistTypeOK, Record
  <2>3. RecordAt(d.chunk, x, d.acc)' /\ RecordAt(r.chunk, y, r.acc)'
    BY <1>2, <2>1, <2>2, RecordsStay
  <2> QED
    BY <1>2, <2>1, <2>3 DEF Follows
<1> QED
  BY <1>1, <1>2 DEF Follows

\* The same thread may go on writing where it could before, unless Truncate gave it a chunk.
LEMMA WritesOn ==
  ASSUME LayoutInv, LayoutInv', [Next]_vars, NEW q \in Pid, NEW t \in Slot, NEW c \in Chunk, c \notin orphaned', MayWrite(q, t, c)'
  PROVE  \/ MayWrite(q, t, c) /\ c = cursor[q][t].chunk
         \/ op[q][t].pc = "truncate" /\ c = op[q][t].new /\ Progress(q, t)
<1>t. ProcTypeOK /\ ProcTypeOK' /\ ThreadInv
  BY DEF LayoutInv, TypeOK
<1>1. CASE op'[q][t] = op[q][t] /\ cursor'[q][t] = cursor[q][t] /\ (slot'[q][t] = "leaked" <=> slot[q][t] = "leaked")
  BY <1>1 DEF MayWrite
<1>2. CASE Calm
  BY <1>1, <1>2 DEF Calm, CalmAt
<1>3. CASE Receives
  BY <1>1, <1>3 DEF Receives
<1>4. ASSUME NEW p \in Pid, NEW s \in Slot, Progress(p, s) \/ Completes(p, s) \/ \E a \in Access : Starts(p, s, a), ~(q = p /\ t = s)
      PROVE  MayWrite(q, t, c) /\ c = cursor[q][t].chunk
  <2>1. Only(p, s) /\ slot' = slot
    BY <1>4 DEF Progress, Completes, Starts
  <2> QED
    BY <1>1, <1>4, <2>1 DEF Only, MayWrite
<1>5. CASE Progress(q, t)
  <2>1. slot' = slot
    BY <1>5 DEF Progress
  <2>2. CASE Truncates(q, t)
    BY <1>5, <2>2 DEF Truncates, MayWrite
  <2>3. CASE ~Truncates(q, t)
    <3>1. cursor' = cursor /\ (op[q][t].pc \in Writing <=> op'[q][t].pc \in Writing)
      BY <1>5, <2>3 DEF Progress, Opens, Unlinks, SendsFd, Writes, Writing
    <3> QED
      BY <2>1, <3>1 DEF MayWrite, Writing
  <2> QED
    BY <2>2, <2>3
<1>6. CASE Completes(q, t)
  BY <1>6 DEF Completes, MayWrite
<1>7. ASSUME NEW a \in Access, Starts(q, t, a) PROVE MayWrite(q, t, c) /\ c = cursor[q][t].chunk
  <2>1. /\ slot' = slot /\ op[q][t].pc = "idle" /\ op'[q][t].acc = a
        /\ cursor'[q][t].chunk = cursor[q][t].chunk
        /\ \/ op'[q][t].pc = "open" /\ cursor'[q][t] = cursor[q][t]
           \/ op'[q][t].pc = "write" /\ cursor'[q][t].pos = cursor[q][t].pos + RecLen(a)
    BY <1>7 DEF Starts
  <2>2. cursor[q][t].pos < Cap
    BY <1>t, <2>1, RecLenType, ConstAssumption DEF ProcTypeOK, CursorType, MayWrite
  <2> QED
    BY <2>1, <2>2 DEF MayWrite
<1> QED
  BY <1>2, <1>3, <1>4, <1>5, <1>6, <1>7, Steps

\* Unless the thread completes a record itself.
LEMMA CauseThread ==
  ASSUME LayoutInv, LayoutInv', AccInv, SentInv, CauseInv, [Next]_vars, phase' # "dropped",
         NEW q \in Pid, NEW t \in Slot, ~Completes(q, t), NEW d \in done, d.acc = last'[q][t]
  PROVE  /\ op'[q][t].pc = "truncate" => Earlier(d, op[q][t].new)'
         /\ d.chunk \notin orphaned' =>
              \A c \in Chunk : c \notin orphaned' /\ MayWrite(q, t, c)' => d.chunk = c \/ Earlier(d, c)'
<1>o. orphaned \subseteq orphaned'
  BY OrphansGrow
<1>1. CASE /\ op'[q][t].pc # "truncate"
           /\ \A c \in Chunk : c \notin orphaned' => ~MayWrite(q, t, c)'
  BY <1>1
<1>2. CASE last'[q][t] = last[q][t]
  <2>c. CauseAt(q, t)
    BY DEF CauseInv
  <2>1. ASSUME d.chunk \notin orphaned', NEW c \in Chunk, c \notin orphaned', MayWrite(q, t, c)' PROVE d.chunk = c \/ Earlier(d, c)'
    <3>1. d.chunk = c \/ Earlier(d, c)
      <4>1. CASE MayWrite(q, t, c)
        BY <1>o, <1>2, <2>c, <2>1, <4>1 DEF CauseAt
      <4>2. CASE op[q][t].pc = "truncate" /\ c = op[q][t].new
        BY <1>2, <2>c, <4>2 DEF CauseAt
      <4> QED
        BY <2>1, <4>1, <4>2, WritesOn
    <3> QED
      BY <3>1, EarlierStays
  <2>2. ASSUME op'[q][t].pc = "truncate" PROVE Earlier(d, op[q][t].new)'
    <3>1. CASE op'[q][t] = op[q][t]
      <4>1. PICK c : c = op[q][t].new
        OBVIOUS
      <4>2. Earlier(d, c)'
        BY <1>2, <2>c, <2>2, <3>1, <4>1, EarlierStays DEF CauseAt
      <4> QED
        BY <3>1, <4>1, <4>2 DEF Earlier, Before, Order
    <3>2. CASE Progress(q, t) /\ SendsFd(q, t)
      <4>1. PICK n \in Chunk : n = op[q][t].new
        BY <3>2, NewIsChunk DEF LayoutInv, TypeOK, SendsFd, Creating
      <4>2. ~Sent(n) /\ Sent(d.chunk) /\ op'[q][t].new = n /\ phase' = "recv"
        BY <3>2, <4>1 DEF SentInv, SentBy, SendsFd, Progress, rxVars
      <4>3. SentInv'
        BY SentStep
      <4>4. Sent(n)'
        BY <2>2, <4>2, <4>3 DEF SentInv, SentBy
      <4>5. PICK i \in DOMAIN Order : Order[i] = d.chunk
        BY <4>2 DEF Sent
      <4>6. PICK j \in DOMAIN Order' : Order'[j] = n
        BY <4>4 DEF Sent
      <4>7. Order' # Order
        BY <4>2, <4>4 DEF Sent
      <4>8. PICK m \in Chunk : Order' = Append(Order, m)
        <5>1. ASSUME NEW p \in Pid, NEW s \in Slot, SendsFd(p, s) PROVE op[p][s].new \in Chunk
          BY <5>1, NewIsChunk DEF LayoutInv, TypeOK, SendsFd, Creating
        <5> QED
          BY <4>7, <5>1, OrderStep
      <4>9. /\ DOMAIN Order' = 1..(Len(Order) + 1) /\ DOMAIN Order = 1..Len(Order) /\ Len(Order) \in Nat
            /\ \A l \in 1..Len(Order) : Order'[l] = Order[l]
        BY <4>8, OrderGrows
      <4>10. j = Len(Order) + 1
        BY <4>2, <4>6, <4>9 DEF Sent
      <4>11. i \in DOMAIN Order' /\ Order'[i] = d.chunk /\ i < j
        BY <4>5, <4>9, <4>10
      <4>12. Before(d.chunk, n)'
        BY <4>6, <4>11 DEF Before
      <4>13. Earlier(d, n)'
        BY <4>2, <4>12 DEF Earlier
      <4> QED
        BY <4>2, <4>13 DEF Earlier, Before, Order
    <3>3. op'[q][t] = op[q][t] \/ (Progress(q, t) /\ SendsFd(q, t))
      <4>1. ASSUME NEW p \in Pid, NEW s \in Slot, Progress(p, s) \/ Completes(p, s) \/ \E a \in Access : Starts(p, s, a), ~(q = p /\ t = s)
            PROVE  op'[q][t] = op[q][t]
        BY <4>1 DEF Progress, Completes, Starts, Only
      <4>2. ASSUME Progress(q, t) PROVE SendsFd(q, t)
        BY <2>2, <4>2 DEF Progress, Opens, Unlinks, Truncates, Writes
      <4>3. ~ \E a \in Access : Starts(q, t, a)
        BY <2>2 DEF Starts
      <4>4. Calm \/ Receives => op'[q][t] = op[q][t]
        BY <2>2 DEF Calm, CalmAt, Receives
      <4> QED
        BY <4>1, <4>2, <4>3, <4>4, Steps
    <3> QED
      BY <3>1, <3>2, <3>3
  <2> QED
    BY <2>1, <2>2
<1>3. last'[q][t] = last[q][t] \/ (op'[q][t].pc # "truncate" /\ \A c \in Chunk : c \notin orphaned' => ~MayWrite(q, t, c)')
  <2>1. ASSUME NEW p \in Pid, NEW s \in Slot, Progress(p, s) \/ \E a \in Access : Starts(p, s, a)
        PROVE  last' = last
    BY <2>1 DEF Progress, Starts
  <2>2. ASSUME NEW p \in Pid, NEW s \in Slot, Completes(p, s) PROVE last'[q][t] = last[q][t]
    <3>1. ~(q = p /\ t = s)
      BY <2>2
    <3> QED
      BY <2>2, <3>1 DEF Completes, Only
  <2>3. Receives => last' = last
    BY DEF Receives
  <2>4. Calm => last'[q][t] = last[q][t] \/ (op'[q][t].pc # "truncate" /\ \A c \in Chunk : c \notin orphaned' => ~MayWrite(q, t, c)')
    BY DEF Calm, CalmAt
  <2> QED
    BY <2>1, <2>2, <2>3, <2>4, Steps
<1> QED
  BY <1>1, <1>2, <1>3

\* What completes is not known before.
LEMMA NewUnknown ==
  ASSUME LayoutInv, AccInv, NEW p \in Pid, NEW s \in Slot, Completes(p, s)
  PROVE  /\ op[p][s].acc \in Access /\ cursor[p][s].chunk \in Chunk /\ MayWrite(p, s, cursor[p][s].chunk)
         /\ RecStart(p, s) \in Offset /\ prev[op[p][s].acc] = last[p][s]
         /\ \A a : Known(a) => a # op[p][s].acc
<1>1. op[p][s].pc = "flag" /\ SendingAt(p, s) /\ ProcTypeOK /\ ThreadInv
  BY DEF Completes, AccInv, LayoutInv, TypeOK
<1>2. /\ op[p][s].acc \in Access /\ cursor[p][s].chunk \in Chunk /\ MayWrite(p, s, cursor[p][s].chunk)
      /\ RecStart(p, s) \in Offset
  BY <1>1, WriterFacts DEF Writing
<1> QED
  BY <1>1, <1>2, ConstAssumption DEF SendingAt, Known

\* A thread's records follow each other, over every step.
LEMMA CauseStep ==
  ASSUME LayoutInv, LayoutInv', AccInv, SentInv, RecordsInv, RecordsInv', CauseInv, [Next]_vars, phase' # "dropped"
  PROVE  CauseInv'
<1>t. HistTypeOK /\ HistTypeOK'
  BY DEF LayoutInv, TypeOK
<1>o. orphaned \subseteq orphaned' /\ done \subseteq done'
  BY OrphansGrow
<1>1. ASSUME NEW d \in done', d \notin done
      PROVE  \E p \in Pid, s \in Slot : Completes(p, s) /\ d = Rec(op[p][s].acc, cursor[p][s].chunk)
  BY <1>1, Steps DEF Calm, Receives, Progress, Starts, Completes
<1>2. ASSUME NEW q \in Pid, NEW t \in Slot PROVE CauseAt(q, t)'
  <2> SUFFICES ASSUME NEW d \in done', d.acc = last'[q][t]
               PROVE  /\ op'[q][t].pc = "truncate" => Earlier(d, op[q][t].new)'
                      /\ d.chunk \notin orphaned' =>
                           \A c \in Chunk : c \notin orphaned' /\ MayWrite(q, t, c)' => d.chunk = c \/ Earlier(d, c)'
    BY DEF CauseAt
  <2>1. CASE Completes(q, t)
    <3>1. op'[q][t].pc = "idle" /\ cursor' = cursor /\ last'[q][t] = op[q][t].acc
      BY <2>1 DEF Completes
    <3>2. \A e \in done : e.acc # op[q][t].acc
      BY <2>1, NewUnknown DEF Known
    <3>3. d = Rec(op[q][t].acc, cursor[q][t].chunk)
      BY <2>1, <3>1, <3>2 DEF Completes
    <3>4. d.chunk = cursor[q][t].chunk
      BY <3>3 DEF Rec
    <3>5. \A c \in Chunk : MayWrite(q, t, c)' => c = d.chunk
      BY <3>1, <3>4 DEF MayWrite
    <3> QED
      BY <3>1, <3>5
  <2>2. CASE ~Completes(q, t) /\ d \in done
    BY <2>2, CauseThread
  <2>3. CASE ~Completes(q, t) /\ d \notin done
    <3>1. PICK p \in Pid, s \in Slot : Completes(p, s) /\ d = Rec(op[p][s].acc, cursor[p][s].chunk)
      BY <1>1, <2>3
    <3>2. ~(q = p /\ t = s) /\ d.acc = op[p][s].acc
      BY <2>3, <3>1 DEF Rec
    <3>3. last'[q][t] = last[q][t]
      BY <3>1, <3>2 DEF Completes, Only
    <3>4. Known(last[q][t])
      BY DEF AccInv
    <3> QED
      BY <3>1, <3>2, <3>3, <3>4, NewUnknown
  <2> QED
    BY <2>1, <2>2, <2>3
<1>3. ASSUME NEW r \in done', NEW d \in done', prev'[r.acc] = d.acc, r.chunk \notin orphaned', d.chunk \notin orphaned'
      PROVE  Follows(r, d)'
  <2>1. r.acc \in Access /\ d.acc \in Access /\ r.chunk \in Chunk /\ d.chunk \in Chunk
    BY <1>t DEF HistTypeOK, Record
  <2>2. CASE r \in done /\ d \in done
    <3>1. prev'[r.acc] = prev[r.acc]
      <4>1. ASSUME NEW p \in Pid, NEW s \in Slot, NEW a \in Access, Starts(p, s, a) PROVE prev'[r.acc] = prev[r.acc]
        <5>1. r.acc # a
          BY <2>2, <4>1 DEF Starts, AccInv
        <5> QED
          BY <1>t, <2>1, <4>1, <5>1 DEF Starts, HistTypeOK
      <4> QED
        BY <4>1, Steps DEF Calm, Receives, Progress, Completes
    <3>2. Follows(r, d)
      BY <1>o, <1>3, <2>2, <3>1 DEF CauseInv
    <3> QED
      BY <1>3, <2>2, <3>2, FollowsStays
  <2>3. ASSUME NEW p \in Pid, NEW s \in Slot, Completes(p, s)
        PROVE  Follows(r, d)'
    <3>0. PICK k \in Chunk, b \in Offset, v \in Access : k = cursor[p][s].chunk /\ b = RecStart(p, s) /\ v = op[p][s].acc
      BY <2>3, NewUnknown
    <3>1. done' = done \cup {Rec(v, k)} /\ prev' = prev /\ orphaned' = orphaned /\ StoreFlag(p, s) /\ MayWrite(p, s, k)
      BY <2>3, <3>0, NewUnknown DEF Completes
    <3>2. prev[v] = last[p][s] /\ \A a : Known(a) => a # v
      BY <2>3, <3>0, NewUnknown
    <3>3. d \in done
      <4>1. Known(prev[r.acc])
        BY <2>1 DEF AccInv
      <4>2. d.acc # v
        BY <1>3, <3>1, <3>2, <4>1
      <4> QED
        BY <3>1, <4>2 DEF Rec
    <3>4. CASE r \in done
      BY <2>2, <3>3, <3>4
    <3>5. CASE r \notin done
      <4>1. r = Rec(v, k) /\ r.acc = v /\ r.chunk = k
        BY <3>1, <3>5 DEF Rec
      <4>2. d.acc = last[p][s]
        BY <1>3, <3>1, <3>2, <4>1
      <4>3. CauseAt(p, s)
        BY DEF CauseInv
      <4>4. d.chunk = k \/ Earlier(d, k)
        BY <1>3, <3>1, <3>3, <4>1, <4>2, <4>3 DEF CauseAt
      <4>5. CASE Earlier(d, k)
        <5>1. Earlier(d, k)'
          BY <3>3, <4>5, EarlierStays
        <5> QED
          BY <4>1, <5>1 DEF Follows
      <4>6. CASE d.chunk = k
        <5>1. PICK x \in Offset : RecordAt(k, x, d.acc)
          BY <1>3, <3>1, <3>3, <4>1, <4>6 DEF RecordsInv, MemAt
        <5>2. x < b
          BY <1>3, <2>1, <3>0, <3>1, <4>1, <5>1, RecordsComplete
        <5>3. RecordAt(k, x, d.acc)'
          BY <1>3, <2>1, <4>1, <5>1, RecordsStay
        <5>4. RecordAt(k, b, v)'
          BY <1>3, <3>0, <3>1, <4>1, RecordsComplete DEF Added
        <5> QED
          BY <4>1, <4>6, <5>2, <5>3, <5>4 DEF Follows
      <4> QED
        BY <4>4, <4>5, <4>6
    <3> QED
      BY <3>4, <3>5
  <2> QED
    BY <1>1, <2>2, <2>3
<1> QED
  BY <1>2, <1>3 DEF CauseInv

-------------------------------------------------------------------------------
(* The properties *)

\* The iterator yields completed records, each once, over every step.
LEMMA ReportedStep ==
  ASSUME LayoutInv, LayoutInv', phase # "dropped" => SentInv, RecordsInv, OutInv, OutInv', ReportedOnce, [Next]_vars
  PROVE  ReportedOnce'
<1>o. orphaned \subseteq orphaned' /\ done \subseteq done'
  BY OrphansGrow
<1>1. CASE out' = out
  BY <1>o, <1>1 DEF ReportedOnce
<1>2. ASSUME NEW a \in Access, ReadRecord(a) PROVE ReportedOnce'
  <2>1. /\ Len(out) \in Nat /\ DOMAIN out = 1..Len(out) /\ DOMAIN out' = 1..(Len(out) + 1)
        /\ \A i \in 1..Len(out) : out'[i] = out[i]
        /\ out'[Len(out) + 1] = Rec(a, fds[ri])
    BY <1>2, YieldsOne
  <2>2. PICK c \in Chunk, k \in DOMAIN fds, z \in Offset : c = fds[ri] /\ k = ri /\ z = rpos /\ RecordAt(c, z, a)
    BY <1>2, ReadsRecord
  <2>3. UNCHANGED <<orphaned, done>> /\ phase = "iter"
    BY <1>2 DEF ReadRecord, Reading, histVars
  <2>n. PICK n : n = Rec(a, c)
    OBVIOUS
  <2>4. n = Rec(a, c) /\ n.acc = a /\ n.chunk = c
    BY <2>n DEF Rec
  <2>5. ASSUME c \notin orphaned PROVE n \in done
    BY <2>2, <2>4, <2>5 DEF RecordsInv, MemAt
  <2>6. ASSUME c \notin orphaned, NEW i \in 1..Len(out), out[i] = n PROVE FALSE
    <3>1. PICK l \in DOMAIN fds : YieldedFrom(n, l)
      BY <2>1, <2>4, <2>6 DEF OutInv
    <3>2. PICK x \in Offset : l <= ri /\ fds[l] = c /\ RecordAt(c, x, a) /\ (l = ri => x < rpos)
      BY <2>4, <3>1 DEF YieldedFrom
    <3>3. Order = fds
      <4>1. queue = <<>> /\ fds \in Seq(Chunk)
        BY <2>3 DEF OutInv, LayoutInv, TypeOK, RxTypeOK
      <4> QED
        BY <4>1, ConcatEmptySeq DEF Order
    <3>4. l = k
      BY <2>2, <2>3, <3>2, <3>3 DEF SentInv
    <3>5. x = z
      BY <2>2, <2>6, <3>2 DEF RecordsInv, MemAt
    <3> QED
      BY <2>2, <3>2, <3>4, <3>5 DEF Offset
  <2>7. ASSUME NEW j \in DOMAIN out', out'[j].chunk \notin orphaned'
        PROVE  out'[j] \in done' /\ \A i \in DOMAIN out' : out'[i] = out'[j] => i = j
    <3>1. CASE j \in 1..Len(out)
      <4>1. out[j] \in done /\ \A i \in 1..Len(out) : out[i] = out[j] => i = j
        BY <2>1, <2>3, <2>7, <3>1 DEF ReportedOnce
      <4>2. out'[j] = out[j] /\ out'[Len(out) + 1] = n
        BY <2>1, <2>2, <2>4, <3>1
      <4>3. out[j] # n
        <5>1. ASSUME out[j] = n PROVE FALSE
          <6>1. c \notin orphaned
            BY <2>3, <2>4, <2>7, <4>2, <5>1
          <6> QED
            BY <2>6, <3>1, <5>1, <6>1
        <5> QED
          BY <5>1
      <4>4. ASSUME NEW i \in DOMAIN out', out'[i] = out'[j] PROVE i = j
        <5>1. i \in 1..Len(out) \/ i = Len(out) + 1
          BY <2>1, <4>4
        <5> QED
          BY <2>1, <4>1, <4>2, <4>3, <4>4, <5>1
      <4> QED
        BY <2>3, <4>1, <4>2, <4>4
    <3>2. CASE j = Len(out) + 1
      <4>1. out'[j] = n /\ c \notin orphaned
        BY <2>1, <2>2, <2>3, <2>4, <2>7, <3>2
      <4>2. ASSUME NEW i \in DOMAIN out', out'[i] = n PROVE i = j
        <5>1. i \in 1..Len(out) \/ i = Len(out) + 1
          BY <2>1, <4>2
        <5> QED
          BY <2>1, <2>6, <3>2, <4>1, <4>2, <5>1
      <4> QED
        BY <2>3, <2>5, <4>1, <4>2
    <3> QED
      BY <2>1, <2>7, <3>1, <3>2
  <2> QED
    BY <2>7 DEF ReportedOnce
<1>3. out' = out \/ \E a \in Access : ReadRecord(a)
  <2>1. Aside => out' = out
    BY DEF Aside, rxVars
  <2>2. Receives => out' = out \/ \E a \in Access : ReadRecord(a)
    BY DEF Receives, Receiver, DropReceiver, RecvFd, RecvEof, MapNext, ReadStop, ReadGarbage, Finish
  <2> QED
    BY <2>1, <2>2, ReadOrAside
<1> QED
  BY <1>1, <1>2, <1>3

\* ReadRecord yields a record after the one that precedes it in its thread.
LEMMA CausalRead ==
  ASSUME LayoutInv, SentInv, RecordsInv, OutInv, PassedInv, CauseInv, NEW a \in Access, ReadRecord(a),
         NEW d \in done, d.chunk \notin orphaned, fds[ri] \notin orphaned, prev[a] = d.acc
  PROVE  d \in Yielded
<1>1. PICK c \in Chunk, k \in DOMAIN fds, z \in Offset : c = fds[ri] /\ k = ri /\ z = rpos /\ RecordAt(c, z, a)
  BY ReadsRecord
<1>n. PICK n : n = Rec(a, c)
  OBVIOUS
<1>2. n.acc = a /\ n.chunk = c /\ Reading /\ phase = "iter"
  BY <1>n DEF Rec, ReadRecord, Reading
<1>3. n \in done
  BY <1>1, <1>n DEF RecordsInv, MemAt
<1>4. Follows(n, d)
  BY <1>1, <1>2, <1>3 DEF CauseInv
<1>5. Order = fds
  <2>1. queue = <<>> /\ fds \in Seq(Chunk)
    BY <1>2 DEF OutInv, LayoutInv, TypeOK, RxTypeOK
  <2> QED
    BY <2>1, ConcatEmptySeq DEF Order
<1>6. CASE Earlier(d, c)
  <2>1. PICK i \in DOMAIN fds, j \in DOMAIN fds : i < j /\ fds[i] = d.chunk /\ fds[j] = c
    BY <1>5, <1>6 DEF Earlier, Before
  <2>2. j = k
    BY <1>1, <1>5, <2>1 DEF SentInv
  <2>3. d \in sealed
    BY <1>2, <1>6 DEF Earlier
  <2> QED
    BY <1>1, <2>1, <2>2, <2>3 DEF PassedInv
<1>7. CASE d.chunk = c /\ \E x, y \in Offset : x < y /\ RecordAt(c, x, d.acc) /\ RecordAt(c, y, a)
  <2>1. PICK x \in Offset, y \in Offset : x < y /\ RecordAt(c, x, d.acc) /\ RecordAt(c, y, a)
    BY <1>7
  <2>2. y = z
    BY <1>1, <2>1 DEF RecordsInv, MemAt
  <2>3. d.acc \in Access /\ d = Rec(d.acc, c)
    BY <1>7 DEF LayoutInv, TypeOK, HistTypeOK, Record, Rec
  <2> QED
    BY <1>1, <1>2, <2>1, <2>2, <2>3 DEF PassedInv
<1> QED
  BY <1>2, <1>4, <1>6, <1>7 DEF Follows

\* The iterator respects program order, over every step.
LEMMA CausalStep ==
  ASSUME LayoutInv, LayoutInv', AccInv, phase # "dropped" => SentInv /\ CauseInv, RecordsInv, OutInv, PassedInv,
         ReportedOnce, CausalOrder, [Next]_vars
  PROVE  CausalOrder'
<1>t. HistTypeOK /\ RxTypeOK
  BY DEF LayoutInv, TypeOK
<1>o. orphaned \subseteq orphaned' /\ done \subseteq done'
  BY OrphansGrow
<1>1. ASSUME NEW j \in DOMAIN out, out[j].chunk \notin orphaned', NEW d \in done', d.chunk \notin orphaned', prev'[out[j].acc] = d.acc
      PROVE  \E i \in 1..(j - 1) : out[i] = d
  <2>1. PICK r \in done : r = out[j]
    BY <1>o, <1>1 DEF ReportedOnce
  <2>2. r.acc \in Access
    BY <1>t DEF HistTypeOK, Record
  <2>3. prev'[r.acc] = prev[r.acc]
    <3>1. ASSUME NEW p \in Pid, NEW s \in Slot, NEW a \in Access, Starts(p, s, a) PROVE prev'[r.acc] = prev[r.acc]
      <4>1. r.acc # a
        BY <3>1 DEF Starts, AccInv
      <4> QED
        BY <1>t, <2>2, <3>1, <4>1 DEF Starts, HistTypeOK
    <3> QED
      BY <3>1, Steps DEF Calm, Receives, Progress, Completes
  <2>4. d \in done
    <3>1. ASSUME NEW p \in Pid, NEW s \in Slot, Completes(p, s), d \notin done PROVE FALSE
      <4>1. d = Rec(op[p][s].acc, cursor[p][s].chunk)
        BY <3>1 DEF Completes
      <4>2. d.acc = op[p][s].acc
        BY <4>1 DEF Rec
      <4>3. Known(prev[r.acc])
        BY <2>2 DEF AccInv
      <4>4. prev[r.acc] = op[p][s].acc
        BY <1>1, <2>1, <2>3, <4>2
      <4>5. \A x : Known(x) => x # op[p][s].acc
        BY <3>1, NewUnknown
      <4> QED
        BY <4>3, <4>4, <4>5
    <3> QED
      BY <3>1, Steps DEF Calm, Receives, Progress, Starts
  <2>5. out[j].chunk \notin orphaned /\ d.chunk \notin orphaned /\ prev[out[j].acc] = d.acc
    BY <1>o, <1>1, <2>1, <2>3
  <2> QED
    BY <2>4, <2>5 DEF CausalOrder
<1>2. CASE out' = out
  BY <1>1, <1>2 DEF CausalOrder
<1>3. ASSUME NEW a \in Access, ReadRecord(a) PROVE CausalOrder'
  <2>1. /\ Len(out) \in Nat /\ DOMAIN out = 1..Len(out) /\ DOMAIN out' = 1..(Len(out) + 1)
        /\ \A i \in 1..Len(out) : out'[i] = out[i]
        /\ out'[Len(out) + 1] = Rec(a, fds[ri])
    BY <1>3, YieldsOne
  <2>2. UNCHANGED <<orphaned, done, prev>> /\ phase = "iter"
    BY <1>3 DEF ReadRecord, Reading, histVars
  <2>3. Rec(a, fds[ri]).acc = a /\ Rec(a, fds[ri]).chunk = fds[ri]
    BY DEF Rec
  <2>4. ASSUME NEW j \in DOMAIN out', NEW d \in done', out'[j].chunk \notin orphaned', d.chunk \notin orphaned', prev'[out'[j].acc] = d.acc
        PROVE  \E i \in 1..(j - 1) : out'[i] = d
    <3>1. CASE j \in 1..Len(out)
      <4>1. PICK i \in 1..(j - 1) : out[i] = d
        BY <1>1, <2>1, <2>4, <3>1
      <4>2. i \in 1..Len(out)
        BY <2>1, <3>1
      <4> QED
        BY <2>1, <4>1, <4>2
    <3>2. CASE j = Len(out) + 1
      <4>1. fds[ri] \notin orphaned /\ prev[a] = d.acc /\ d \in done /\ d.chunk \notin orphaned
        BY <2>1, <2>2, <2>3, <2>4, <3>2
      <4>2. d \in Yielded
        BY <1>3, <2>2, <4>1, CausalRead
      <4>3. PICK i \in 1..Len(out) : out[i] = d
        BY <2>1, <4>2 DEF Yielded
      <4>4. i \in 1..(j - 1)
        BY <2>1, <3>2
      <4> QED
        BY <2>1, <4>3, <4>4
    <3> QED
      BY <2>1, <2>4, <3>1, <3>2
  <2> QED
    BY <2>4 DEF CausalOrder
<1>4. out' = out \/ \E a \in Access : ReadRecord(a)
  <2>1. Aside => out' = out
    BY DEF Aside, rxVars
  <2>2. Receives => out' = out \/ \E a \in Access : ReadRecord(a)
    BY DEF Receives, Receiver, DropReceiver, RecvFd, RecvEof, MapNext, ReadStop, ReadGarbage, Finish
  <2> QED
    BY <2>1, <2>2, ReadOrAside
<1> QED
  BY <1>2, <1>3, <1>4

\* Once every chunk is passed, nothing that was sealed is missing.
LEMMA PassedAll ==
  ASSUME LayoutInv, OutInv, PassedInv
  PROVE  Complete
<1> SUFFICES ASSUME phase = "done", NEW d \in sealed, d.chunk \notin orphaned PROVE \E j \in DOMAIN out : out[j] = d
  BY DEF Complete
<1>1. PICK k \in DOMAIN fds : fds[k] = d.chunk
  BY DEF PassedInv
<1>2. k < ri
  BY <1>1 DEF OutInv, LayoutInv, TypeOK, RxTypeOK
<1>3. d \in Yielded
  BY <1>1, <1>2 DEF PassedInv
<1> QED
  BY <1>3 DEF Yielded

\* The invariant holds at the start,
LEMMA HistoryInit == Init => HistoryInv
<1> SUFFICES ASSUME Init PROVE HistoryInv
  OBVIOUS
<1>1. ASSUME NEW p \in Pid, NEW s \in Slot
      PROVE  op[p][s].pc = "idle" /\ cursor[p][s].chunk = 0 /\ cursor[p][s].pos = 0 /\ last[p][s] = NoAccess
  BY <1>1, IdleOpType DEF Init, NoCursor
<1>2. /\ fds = <<>> /\ queue = <<>> /\ maplen = <<>> /\ out = <<>> /\ done = {} /\ sealed = {} /\ begun = {}
      /\ phase = "recv" /\ ri = 1 /\ rpos = 0
      /\ \A a \in Access : prev[a] = NoAccess
      /\ \A c \in Chunk, x \in Offset : mem[c][x] = Zero
  BY DEF Init
<1>3. AccInv
  BY <1>1, <1>2 DEF AccInv, SendingAt, Known
<1>4. DOMAIN Order = {}
  BY <1>2 DEF Order
<1>5. SentInv /\ SizeInv
  BY <1>1, <1>2, <1>4 DEF SentInv, SentBy, SizeInv
<1>6. ASSUME NEW c \in Chunk, NEW x, NEW a, RecordAt(c, x, a) PROVE FALSE
  BY <1>2, <1>6, CellType DEF RecordAt
<1>7. RecordsInv
  <2>1. \A c \in Chunk : MemAt(c) /\ NoGap(c)
    BY <1>2, <1>6 DEF MemAt, NoGap
  <2>2. ASSUME NEW p \in Pid, NEW s \in Slot, NEW c \in Chunk, MayWrite(p, s, c) PROVE FALSE
    BY <1>1, <2>2 DEF MayWrite, Chunk
  <2> QED
    BY <2>1, <2>2 DEF RecordsInv
<1>8. OutInv /\ PassedInv /\ ReportedOnce /\ CausalOrder
  BY <1>2 DEF OutInv, PassedInv, Reading, ReportedOnce, CausalOrder
<1>9. CauseInv
  BY <1>2 DEF CauseInv, CauseAt
<1> QED
  BY <1>3, <1>5, <1>7, <1>8, <1>9 DEF HistoryInv

\* and every step keeps it.
LEMMA HistoryStep == LayoutInv /\ LayoutInv' /\ HistoryInv /\ [Next]_vars => HistoryInv'
<1> SUFFICES ASSUME LayoutInv, LayoutInv', HistoryInv, [Next]_vars PROVE HistoryInv'
  OBVIOUS
<1>1. AccInv /\ SizeInv /\ RecordsInv /\ OutInv /\ PassedInv /\ ReportedOnce /\ CausalOrder /\ (phase # "dropped" => SentInv /\ CauseInv)
  BY DEF HistoryInv
<1>2. AccInv' /\ SizeInv'
  BY <1>1, AccStep, SizeStep
<1>3. RecordsInv'
  BY <1>1, RecordsStep
<1>4. OutInv'
  BY <1>1, OutStep
<1>5. PassedInv'
  BY <1>1, <1>4, PassedStep
<1>6. ReportedOnce' /\ CausalOrder'
  BY <1>1, <1>4, ReportedStep, CausalStep
<1>7. phase = "dropped" => phase' = "dropped"
  BY ReadOrAside DEF Aside, rxVars, Receives, Receiver, DropReceiver, RecvFd, RecvEof, MapNext, ReadRecord, ReadStop,
     ReadGarbage, Finish, Reading
<1>8. phase' # "dropped" => SentInv' /\ CauseInv'
  BY <1>1, <1>3, <1>7, SentStep, CauseStep
<1> QED
  BY <1>2, <1>3, <1>4, <1>5, <1>6, <1>8 DEF HistoryInv

\* The history of accesses, chunks and the iterator, as Client::send, shm_future and
\* PathAccessIterable::iter make it.
THEOREM HistoryInvariant == Spec => [](LayoutInv /\ HistoryInv)
<1>1. Init => HistoryInv
  BY HistoryInit
<1>2. LayoutInv /\ LayoutInv' /\ HistoryInv /\ [Next]_vars => HistoryInv'
  BY HistoryStep
<1>3. Spec => []LayoutInv
  BY LayoutInvariant
<1> QED
  BY <1>1, <1>2, <1>3, PTL DEF Spec

\* What PathAccessIterable::iter yields was completed by a send, and is yielded once.
THEOREM YieldedOnce == Spec => []ReportedOnce
<1>1. LayoutInv /\ HistoryInv => ReportedOnce
  BY DEF HistoryInv
<1> QED
  BY <1>1, HistoryInvariant, PTL

\* All that was complete when shm_future saw end of file is yielded before iter ends.
THEOREM NothingMissed == Spec => []Complete
<1>1. LayoutInv /\ HistoryInv => Complete
  BY PassedAll DEF HistoryInv
<1> QED
  BY <1>1, HistoryInvariant, PTL

\* iter yields an access after the one that precedes it in its thread, across chunks,
\* forks and execs.
THEOREM ProgramOrder == Spec => []CausalOrder
<1>1. LayoutInv /\ HistoryInv => CausalOrder
  BY DEF HistoryInv
<1> QED
  BY <1>1, HistoryInvariant, PTL

-------------------------------------------------------------------------------
(* The channel implements AccessLog *)

\* Where the log stands, for each phase of accesses_future and iter.
LEMMA LogStates ==
  /\ phase = "recv" => LogState = "open"
  /\ phase = "map" => LogState = "sealed"
  /\ phase = "iter" => LogState = "sealed"
  /\ phase = "done" => LogState = "read"
  /\ phase = "dropped" => LogState = "ended"
  /\ phase = "panicked" => LogState = "ended"
BY DEF LogState

\* The same after a step.
LEMMA LogStatesPrimed ==
  /\ phase' = "recv" => LogState' = "open"
  /\ phase' = "map" => LogState' = "sealed"
  /\ phase' = "iter" => LogState' = "sealed"
  /\ phase' = "done" => LogState' = "read"
  /\ phase' = "dropped" => LogState' = "ended"
  /\ phase' = "panicked" => LogState' = "ended"
BY DEF LogState

\* The log's state depends on the phase alone.
LEMMA LogStateSame ==
  ASSUME phase' = phase
  PROVE  LogState' = LogState
BY DEF LogState

\* The log's order depends on what is complete alone.
LEMMA LogBeforeSame ==
  ASSUME done' = done, \A d \in done : prev'[d.acc] = prev[d.acc]
  PROVE  LogBefore' = LogBefore
BY DEF LogBefore

\* A send that begins precedes nothing that is complete.
LEMMA LogStarts ==
  ASSUME LayoutInv, AccInv, NEW p \in Pid, NEW s \in Slot, NEW a \in Access, Starts(p, s, a)
  PROVE  LogBefore' = LogBefore
<1>1. HistTypeOK /\ done' = done
  BY DEF LayoutInv, TypeOK, Starts
<1>2. ASSUME NEW d \in done PROVE prev'[d.acc] = prev[d.acc]
  <2>1. d.acc # a /\ d.acc \in Access
    BY <1>1 DEF Starts, AccInv, HistTypeOK, Record
  <2> QED
    BY <1>1, <2>1 DEF Starts, HistTypeOK
<1> QED
  BY <1>1, <1>2, LogBeforeSame

\* StoreFlag completes a record of the log, behind what its thread completed last.
LEMMA LogCompletes ==
  ASSUME LayoutInv, AccInv, NEW p \in Pid, NEW s \in Slot, Completes(p, s)
  PROVE  Log!Next
<1> DEFINE d == Rec(op[p][s].acc, cursor[p][s].chunk)
           past == {e \in done : prev[d.acc] = e.acc}
<1>1. /\ op[p][s].acc \in Access /\ cursor[p][s].chunk \in Chunk
      /\ \A a : Known(a) => a # op[p][s].acc
  BY NewUnknown
<1>2. d \in Log!Record /\ d.acc = op[p][s].acc
  BY <1>1 DEF Rec, Log!Record
<1>3. HistTypeOK /\ done' = done \cup {d} /\ prev' = prev /\ phase' = phase /\ sealed' = sealed /\ out' = out /\ orphaned' = orphaned
  BY DEF LayoutInv, TypeOK, Completes, rxVars
<1>4. d \notin done
  BY <1>1, <1>2 DEF Known
<1>5. ASSUME NEW e \in done PROVE prev[e.acc] # d.acc
  <2>1. e.acc \in Access
    BY <1>3 DEF HistTypeOK, Record
  <2>2. Known(prev[e.acc])
    BY <2>1 DEF AccInv
  <2> QED
    BY <1>1, <1>2, <2>2
<1>6. prev[d.acc] # d.acc
  <2>1. Known(prev[d.acc])
    BY <1>1, <1>2 DEF AccInv
  <2> QED
    BY <1>1, <1>2, <2>1
<1> HIDE DEF d
<1>7. LogBefore' = LogBefore \cup (past \X {d})
  BY <1>3, <1>5, <1>6 DEF LogBefore
<1>8. past \in SUBSET done
  OBVIOUS
<1> HIDE DEF past
<1>9. Log!Complete(d, past)
  BY <1>3, <1>4, <1>7, LogStateSame DEF Log!Complete
<1> QED
  BY <1>2, <1>8, <1>9 DEF Log!Next

\* Each step of the receiver is one of the log's user, or none.
LEMMA LogReceives ==
  ASSUME LayoutInv, LayoutInv', HistoryInv, HistoryInv', Complete', Receives
  PROVE  Log!Next \/ UNCHANGED Log!vars
<1>1. /\ done' = done /\ prev' = prev /\ orphaned' = orphaned /\ LogBefore' = LogBefore
      /\ HistTypeOK /\ RxTypeOK
  BY DEF Receives, LogBefore, LayoutInv, TypeOK
<1>2. CASE RecvEof
  <2>1. LogState = "open" /\ LogState' = "sealed" /\ sealed' = done /\ out' = out
    BY <1>2, LogStates, LogStatesPrimed DEF RecvEof
  <2> QED
    BY <1>1, <2>1 DEF Log!Seal, Log!Next
<1>3. CASE DropReceiver
  <2>1. LogState \in {"open", "sealed"} /\ LogState' = "ended" /\ sealed' = sealed /\ out' = out
    BY <1>3, LogStates, LogStatesPrimed DEF DropReceiver
  <2>2. out = <<>>
    BY <1>3 DEF DropReceiver, HistoryInv, OutInv
  <2> QED
    BY <1>1, <2>1, <2>2 DEF Log!End, Log!Next
<1>4. CASE RecvFd \/ MapNext \/ ReadStop
  <2>1. LogState' = LogState /\ sealed' = sealed /\ out' = out
    BY <1>4, LogStates, LogStatesPrimed, LogStateSame DEF RecvFd, MapNext, ReadStop
  <2> QED
    BY <1>1, <2>1 DEF Log!vars
<1>5. CASE Finish
  <2>1. LogState = "sealed" /\ LogState' = "read" /\ sealed' = sealed /\ out' = out /\ phase' = "done"
    BY <1>5, LogStates, LogStatesPrimed DEF Finish
  <2>2. ASSUME NEW d \in sealed, Log!Kept(d) PROVE d \in Log!Yielded
    BY <1>1, <2>1, <2>2 DEF Complete, Log!Kept, Log!Yielded
  <2> QED
    BY <1>1, <2>1, <2>2 DEF Log!Finish, Log!Next
<1>6. CASE ReadGarbage
  <2>1. fds[ri] \in orphaned /\ sealed' = sealed /\ out' = out /\ phase = "iter" /\ phase' \in {"iter", "panicked"}
    BY <1>1, <1>6 DEF ReadGarbage, Reading, LayoutInv, NoGarbage
  <2>2. CASE phase' = "iter"
    BY <1>1, <2>1, <2>2, LogStateSame DEF Log!vars
  <2>3. CASE phase' = "panicked"
    <3>1. LogState = "sealed" /\ LogState' = "ended" /\ orphaned # {}
      BY <2>1, <2>3, LogStates, LogStatesPrimed
    <3> QED
      BY <1>1, <2>1, <3>1 DEF Log!End, Log!Next
  <2> QED
    BY <2>1, <2>2, <2>3
<1>7. ASSUME NEW a \in Access, ReadRecord(a) PROVE Log!Next
  <2> DEFINE d == Rec(a, fds[ri])
  <2>1. /\ Len(out) \in Nat /\ DOMAIN out = 1..Len(out) /\ DOMAIN out' = 1..(Len(out) + 1)
        /\ \A i \in 1..Len(out) : out'[i] = out[i]
        /\ out'[Len(out) + 1] = d
    BY <1>7, YieldsOne
  <2>2. d \in Log!Record /\ d.acc = a
    BY <1>7, ReadsRecord DEF Rec, Log!Record
  <2>3. phase = "iter" /\ phase' = phase /\ sealed' = sealed /\ out' = Append(out, d)
    BY <1>7 DEF ReadRecord, Reading, Rec
  <2> HIDE DEF d
  <2>4. Len(out) + 1 \in DOMAIN out'
    BY <2>1
  <2>5. ASSUME Log!Kept(d) PROVE d \in done \ Log!Yielded
    <3>1. d \in done /\ \A i \in DOMAIN out' : out'[i] = d => i = Len(out) + 1
      BY <1>1, <2>1, <2>4, <2>5 DEF HistoryInv, ReportedOnce, Log!Kept
    <3> QED
      BY <2>1, <3>1 DEF Log!Yielded
  <2>6. ASSUME Log!Kept(d), NEW e \in done, Log!Kept(e), <<e, d>> \in LogBefore PROVE e \in Log!Yielded
    <3>1. prev[d.acc] = e.acc
      BY <2>6 DEF LogBefore
    <3>2. PICK i \in 1..((Len(out) + 1) - 1) : out'[i] = e
      BY <1>1, <2>1, <2>4, <2>6, <3>1 DEF HistoryInv, CausalOrder, Log!Kept
    <3> QED
      BY <2>1, <3>2 DEF Log!Yielded
  <2>7. Log!Yield(d)
    BY <1>1, <2>3, <2>5, <2>6, LogStates, LogStateSame DEF Log!Yield
  <2> QED
    BY <2>2, <2>7 DEF Log!Next
<1> QED
  BY <1>2, <1>3, <1>4, <1>5, <1>6, <1>7 DEF Receives, Receiver

\* A fork that duplicates a cursor loses its chunk; other steps of the target that
\* complete nothing are invisible.
LEMMA LogStep ==
  ASSUME LayoutInv, LayoutInv', HistoryInv, HistoryInv', Complete', [Next]_vars
  PROVE  Log!Next \/ UNCHANGED Log!vars
<1>1. CASE Calm
  <2>1. done' = done /\ LogBefore' = LogBefore /\ LogState' = LogState /\ sealed' = sealed /\ out' = out
    BY <1>1, LogStateSame DEF Calm, rxVars, LogBefore
  <2>2. orphaned \subseteq orphaned' /\ orphaned' \subseteq Chunk
    BY <1>1 DEF Calm, LayoutInv, TypeOK, HistTypeOK
  <2> QED
    BY <2>1, <2>2 DEF Log!Lose, Log!Next
<1>2. CASE Receives
  BY <1>2, LogReceives
<1>3. ASSUME NEW p \in Pid, NEW s \in Slot, Progress(p, s) PROVE UNCHANGED Log!vars
  <2>1. done' = done /\ LogBefore' = LogBefore /\ LogState' = LogState /\ sealed' = sealed /\ out' = out /\ orphaned' = orphaned
    BY <1>3, LogStateSame DEF Progress, rxVars, LogBefore
  <2> QED
    BY <2>1 DEF Log!vars
<1>4. ASSUME NEW p \in Pid, NEW s \in Slot, NEW a \in Access, Starts(p, s, a) PROVE UNCHANGED Log!vars
  <2>1. LogBefore' = LogBefore
    BY <1>4, LogStarts DEF HistoryInv
  <2>2. done' = done /\ LogState' = LogState /\ sealed' = sealed /\ out' = out /\ orphaned' = orphaned
    BY <1>4, LogStateSame DEF Starts, rxVars
  <2> QED
    BY <2>1, <2>2 DEF Log!vars
<1>5. ASSUME NEW p \in Pid, NEW s \in Slot, Completes(p, s) PROVE Log!Next
  BY <1>5, LogCompletes DEF HistoryInv
<1> QED
  BY <1>1, <1>2, <1>3, <1>4, <1>5, Steps

\* Client::send in all processes and threads, the socket, accesses_future and
\* PathAccessIterable::iter together behave as the one log AccessLog describes.
THEOREM Refinement == Spec => ImplementsLog
<1>1. Init => Log!Init
  BY LogStates DEF Init, Log!Init, LogBefore
<1>2. /\ LayoutInv /\ HistoryInv /\ LayoutInv' /\ HistoryInv' /\ Complete' /\ [Next]_vars
      => [Log!Next]_(Log!vars)
  BY LogStep
<1> QED
  BY <1>1, <1>2, HistoryInvariant, NothingMissed, PTL DEF Spec, Log!Spec, ImplementsLog

-------------------------------------------------------------------------------
(* Names of shared memory objects *)

\* A thread that has drawn a number holds one below the counter.
NumberAt(p, s) == op[p][s].pc = "unlink" => op[p][s].id < shmId[p]
NumbersInv == \A p \in Pid, s \in Slot : NumberAt(p, s)

\* A process that ends, aborts or is replaced holds no number.
LEMMA NumbersGone ==
  ASSUME ProcTypeOK, NumbersInv, NEW p \in Pid,
         op' = [op EXCEPT ![p] = [t \in Slot |-> IdleOp]], NEW n, shmId' = [shmId EXCEPT ![p] = n]
  PROVE  NumbersInv'
<1> SUFFICES ASSUME NEW q \in Pid, NEW t \in Slot PROVE NumberAt(q, t)'
  BY DEF NumbersInv
<1>1. CASE q = p
  <2>1. op'[q][t].pc = "idle"
    BY <1>1 DEF ProcTypeOK, IdleOp, At
  <2> QED
    BY <2>1 DEF NumberAt
<1>2. CASE q # p
  BY <1>2 DEF ProcTypeOK, NumbersInv, NumberAt
<1> QED
  BY <1>1, <1>2

\* A step of one thread within send that draws no number.
LEMMA NumbersKept ==
  ASSUME ProcTypeOK, NumbersInv, NEW p \in Pid, NEW s \in Slot, NEW o,
         op' = [op EXCEPT ![p][s] = o], o.pc # "unlink", shmId' = shmId
  PROVE  NumbersInv'
<1> SUFFICES ASSUME NEW q \in Pid, NEW t \in Slot PROVE NumberAt(q, t)'
  BY DEF NumbersInv
<1>1. CASE q = p /\ t = s
  <2>1. op'[q][t].pc # "unlink"
    BY <1>1 DEF ProcTypeOK
  <2> QED
    BY <2>1 DEF NumberAt
<1>2. CASE ~(q = p /\ t = s)
  <2>1. op'[q][t] = op[q][t] /\ shmId'[q] = shmId[q]
    BY <1>2 DEF ProcTypeOK
  <2> QED
    BY <2>1 DEF NumbersInv, NumberAt
<1> QED
  BY <1>1, <1>2

\* fetch_add hands out the counter and raises it.
LEMMA NumberDrawn ==
  ASSUME ProcTypeOK, NumbersInv, NEW p \in Pid, NEW s \in Slot, ShmOpen(p, s)
  PROVE  NumbersInv'
<1>1. CASE Abort(p, "EEXIST")
  BY <1>1, NumbersGone DEF Abort, Vanish
<1>2. ASSUME shmId' = [shmId EXCEPT ![p] = @ + 1],
             op' = [op EXCEPT ![p][s] = At("unlink", @.acc, @.first, shmId[p], nchunk + 1)]
      PROVE  NumbersInv'
  <2> SUFFICES ASSUME NEW q \in Pid, NEW t \in Slot PROVE NumberAt(q, t)'
    BY DEF NumbersInv
  <2>1. /\ shmId[q] \in Nat
        /\ shmId'[q] = IF q = p THEN shmId[q] + 1 ELSE shmId[q]
    BY <1>2 DEF ProcTypeOK
  <2>2. CASE q = p /\ t = s
    <3>1. op'[q][t].id = shmId[p]
      BY <1>2, <2>2 DEF ProcTypeOK, At
    <3> QED
      BY <2>1, <2>2, <3>1 DEF NumberAt
  <2>3. CASE ~(q = p /\ t = s)
    <3>1. op'[q][t] = op[q][t] /\ op[q][t].id \in Nat
      BY <1>2, <2>3 DEF ProcTypeOK, OpType
    <3>2. NumberAt(q, t)
      BY DEF NumbersInv
    <3> QED
      BY <2>1, <3>1, <3>2 DEF NumberAt
  <2> QED
    BY <2>2, <2>3
<1> QED
  BY <1>1, <1>2 DEF ShmOpen

\* The steps inside Client::send and new_shm.
LEMMA NumbersSend ==
  ASSUME ProcTypeOK, NumbersInv, NEW p \in Pid, NEW s \in Slot,
         \/ \E a \in Access : Send(p, s, a)
         \/ ShmUnlink(p, s) \/ SendFd(p, s) \/ Truncate(p, s) \/ WriteData(p, s) \/ StoreFlag(p, s)
  PROVE  NumbersInv'
<1>1. ASSUME NEW why, Abort(p, why) PROVE NumbersInv'
  BY <1>1, NumbersGone DEF Abort, Vanish
<1>2. ASSUME NEW o, op' = [op EXCEPT ![p][s] = o], o.pc # "unlink", shmId' = shmId PROVE NumbersInv'
  BY <1>2, NumbersKept
<1>3. op[p][s] \in OpType
  BY DEF ProcTypeOK
<1>4. ASSUME NEW l, l # "unlink", op' = [op EXCEPT ![p][s] = [@ EXCEPT !.pc = l]], shmId' = shmId PROVE NumbersInv'
  <2>1. PICK o : o = [op[p][s] EXCEPT !.pc = l]
    OBVIOUS
  <2>2. o.pc # "unlink"
    BY <1>3, <1>4, <2>1 DEF OpType
  <2>3. op' = [op EXCEPT ![p][s] = o]
    BY <1>4, <2>1
  <2> QED
    BY <1>2, <1>4, <2>2, <2>3
<1>5. ASSUME NEW l, l # "unlink", NEW a, NEW f, NEW i, NEW n, op' = [op EXCEPT ![p][s] = At(l, a, f, i, n)], shmId' = shmId
      PROVE  NumbersInv'
  <2>1. At(l, a, f, i, n).pc # "unlink"
    BY <1>5 DEF At
  <2> QED
    BY <1>2, <1>5, <2>1
<1>6. ASSUME NEW a \in Access, Send(p, s, a) PROVE NumbersInv'
  <2>1. /\ shmId' = shmId
        /\ \/ op' = [op EXCEPT ![p][s] = At("open", a, TRUE, 0, 0)]
           \/ op' = [op EXCEPT ![p][s] = At("open", a, FALSE, 0, 0)]
           \/ op' = [op EXCEPT ![p][s] = At("write", a, FALSE, 0, 0)]
    BY <1>6 DEF Send
  <2>2. "open" # "unlink" /\ "write" # "unlink"
    OBVIOUS
  <2> QED
    BY ONLY <2>1, <2>2, <1>5
<1>7. CASE ShmUnlink(p, s)
  BY <1>4, <1>7 DEF ShmUnlink
<1>8. CASE SendFd(p, s)
  BY <1>1, <1>4, <1>8 DEF SendFd
<1>9. CASE Truncate(p, s)
  <2>1. PICK a : a = op[p][s].acc
    OBVIOUS
  <2>2. \/ Abort(p, "too big")
        \/ /\ shmId' = shmId
           /\ \/ op' = [op EXCEPT ![p][s] = At("open", a, FALSE, 0, 0)]
              \/ op' = [op EXCEPT ![p][s] = At("write", a, FALSE, 0, 0)]
    BY <1>9, <2>1 DEF Truncate
  <2>3. "open" # "unlink" /\ "write" # "unlink"
    OBVIOUS
  <2> QED
    BY ONLY <2>2, <2>3, <1>1, <1>5
<1>10. CASE WriteData(p, s)
  BY <1>4, <1>10 DEF WriteData
<1>11. CASE StoreFlag(p, s)
  BY <1>5, <1>11 DEF StoreFlag, IdleOp
<1> QED
  BY <1>6, <1>7, <1>8, <1>9, <1>10, <1>11

\* The counter and the numbers drawn from it, over every step.
LEMMA NumbersStep ==
  ASSUME ProcTypeOK, NumbersInv, [Next]_vars
  PROVE  NumbersInv'
<1>1. ASSUME op' = op, shmId' = shmId PROVE NumbersInv'
  BY <1>1 DEF NumbersInv, NumberAt
<1>2. ASSUME NEW p \in Pid, Exit(p) PROVE NumbersInv'
  BY <1>2, NumbersGone DEF Exit, Vanish
<1>3. ASSUME NEW p \in Pid, NEW s \in Slot, Exec(p, s) PROVE NumbersInv'
  BY <1>3, NumbersGone DEF Exec
<1>4. ASSUME NEW p \in Pid, NEW s \in Slot, NEW q \in Pid, Fork(p, s, q) PROVE NumbersInv'
  <2>1. PICK n : n = shmId[p]
    OBVIOUS
  <2> QED
    BY <1>4, <2>1, NumbersGone DEF Fork
<1>5. ASSUME NEW p \in Pid, NEW s \in Slot, Thread(p, s) PROVE NumbersInv'
  BY <1>1, <1>3, <1>4, <1>5, NumbersSend, NumberDrawn DEF Thread, StartThread, EndThread
<1>6. ASSUME NEW p \in Pid, CloseIpc(p) PROVE NumbersInv'
  BY <1>1, <1>6 DEF CloseIpc
<1>7. CASE Receiver \/ DropReceiver \/ DropSender \/ Terminated \/ UNCHANGED vars
  <2>1. op' = op /\ shmId' = shmId
    BY <1>7 DEF Receiver, RecvFd, RecvEof, MapNext, ReadStop, ReadGarbage, Finish, ReadRecord, DropReceiver, DropSender,
       Terminated, vars, procVars
  <2> QED
    BY <1>1, <2>1
<1> QED
  BY <1>2, <1>5, <1>6, <1>7 DEF Next, Target

\* shm_id.fetch_add: when new_shm finds its name taken, no thread of its process is
\* between shm_open and shm_unlink of that name.
THEOREM NumbersUnique == Spec => NamesUnique
<1>1. Init => NumbersInv
  BY DEF Init, NumbersInv, NumberAt, IdleOp, At
<1>2. LayoutInv /\ NumbersInv /\ [Next]_vars => NumbersInv'
  BY NumbersStep DEF LayoutInv, TypeOK
<1>3. LayoutInv /\ NumbersInv =>
        [\A p \in Pid : <<p, "EEXIST">> \in aborted' \ aborted =>
           \A s \in Slot : op[p][s].pc = "unlink" => op[p][s].id # shmId[p]]_vars
  BY DEF NumbersInv, NumberAt, LayoutInv, TypeOK, ProcTypeOK, OpType
<1> QED
  BY <1>1, <1>2, <1>3, LayoutInvariant, PTL DEF Spec, NamesUnique

================================================================================
