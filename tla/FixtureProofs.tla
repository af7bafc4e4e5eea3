---------------------------- MODULE FixtureProofs ----------------------------
(* Proofs about Fixture: for any number of writers, fixtures, names and files. *)
EXTENDS Fixture, TLAPS

\* write_to: a file under construction is not the file of another writer, and
\* is not reachable under a final path.
LEMMA OwnedApart ==
  ASSUME FileInv, NEW w \in Writer, pc[w] \in Owning
  PROVE  /\ \A v \in Writer : pc[v] \in Owning /\ ino[v] = ino[w] => v = w
         /\ \A f \in Fix : names[f] # ino[w]
         /\ tmp[w] \in Tmp /\ tmp[w] \notin Fix /\ tmp[w] \in Name
         /\ ino[w] \in Inode /\ ino[w] # NoInode
         /\ names[tmp[w]] = ino[w]
         /\ names \in [Name -> Inode \cup {NoInode}]
<1>1. OwnerAt(w) /\ NamesApart /\ TmpApart /\ TypeOK
  BY DEF FileInv
<1>2. /\ tmp[w] \in Tmp /\ tmp[w] \notin Fix /\ tmp[w] \in Name
      /\ ino[w] \in Inode /\ ino[w] # NoInode
      /\ names[tmp[w]] = ino[w]
  BY <1>1, ConstAssumption DEF OwnerAt, Name
<1>3. ASSUME NEW v \in Writer, pc[v] \in Owning, ino[v] = ino[w]
      PROVE  v = w
  <2>1. OwnerAt(v)
    BY DEF FileInv
  <2>2. names[tmp[v]] = names[tmp[w]] /\ tmp[v] \in Name
    BY <2>1, <1>2, <1>3 DEF OwnerAt, Name
  <2>3. tmp[v] = tmp[w]
    BY <2>2, <1>1, <1>2 DEF NamesApart
  <2> QED
    BY <2>3, <1>1, <1>3 DEF TmpApart
<1>4. ASSUME NEW f \in Fix, names[f] = ino[w]
      PROVE  FALSE
  <2>1. f \in Name
    BY DEF Name
  <2>2. f = tmp[w]
    BY <2>1, <1>1, <1>2, <1>4 DEF NamesApart
  <2> QED
    BY <2>2, <1>2
<1> QED
  BY <1>1, <1>2, <1>3, <1>4 DEF TypeOK

\* Nothing exists at the start.
LEMMA InitFileInv == Init => FileInv
<1> SUFFICES ASSUME Init PROVE FileInv
  OBVIOUS
<1>1. TypeOK
  <2>1. dir \in BOOLEAN /\ dirty \in BOOLEAN
    BY Zenon DEF Init
  <2>2. 1 \in Fix /\ 1 \in Name /\ 0 \in 0..Blocks /\ 0 \in 0..MaxEvents
    BY ConstAssumption DEF Fix, Name
  <2> QED
    BY <2>1, <2>2 DEF Init, TypeOK, Pcs
<1>2. \A n \in Name : names[n] = NoInode
  BY DEF Init
<1>3. \A w \in Writer : pc[w] \notin Owning
  BY DEF Init, Owning
<1> QED
  BY <1>1, <1>2, <1>3 DEF FileInv, OwnerAt, NamesApart, TmpApart, WholeOrAbsent, Name

\* A step that changes no file and no name, and under which no writer comes to
\* own a temporary file or moves within its ownership except forward.
LEMMA Bookkeeping ==
  ASSUME FileInv, TypeOK', UNCHANGED <<names, content, tmp>>, NEW w \in Writer,
         \A v \in Writer : v # w => pc'[v] = pc[v] /\ ino'[v] = ino[v],
         pc'[w] \in Owning => pc[w] \in Owning /\ ino'[w] = ino[w]
                              /\ (pc'[w] = "write" <=> pc[w] = "write")
  PROVE  FileInv'
<1>1. ASSUME NEW v \in Writer PROVE OwnerAt(v)'
  <2>1. OwnerAt(v)
    BY DEF FileInv
  <2>2. CASE v = w
    BY <2>1, <2>2 DEF OwnerAt
  <2>3. CASE v # w
    BY <2>1, <2>3 DEF OwnerAt
  <2> QED
    BY <2>2, <2>3
<1>2. NamesApart'
  BY DEF FileInv, NamesApart
<1>3. TmpApart'
  BY DEF FileInv, TmpApart
<1>4. WholeOrAbsent'
  BY DEF FileInv, WholeOrAbsent
<1> QED
  BY <1>1, <1>2, <1>3, <1>4 DEF FileInv

\* Every step of every process keeps the invariant of write_to.
LEMMA StepFileInv == FileInv /\ [Next]_vars => FileInv'
<1> SUFFICES ASSUME FileInv, [Next]_vars PROVE FileInv'
  OBVIOUS
<1> USE ConstAssumption
<1>t. TypeOK
  BY DEF FileInv
<1>1. CASE UNCHANGED vars
  BY <1>1 DEF FileInv, vars, TypeOK, OwnerAt, NamesApart, TmpApart, WholeOrAbsent
<1>2. ASSUME NEW w \in Writer, CreateDir(w) PROVE FileInv'
  <2>1. TypeOK'
    <3>1. dir' \in BOOLEAN
      BY <1>t, <1>2, Zenon DEF TypeOK, CreateDir
    <3> QED
      BY <3>1, <1>t, <1>2 DEF TypeOK, CreateDir, Goto, Event, Pcs
  <2> QED
    BY <2>1, <1>2, <1>t, Bookkeeping DEF CreateDir, Goto, TypeOK, Owning
<1>3. ASSUME NEW w \in Writer, Exists(w) PROVE FileInv'
  <2>1. TypeOK'
    BY <1>t, <1>3 DEF TypeOK, Exists, Goto, Returns, Pcs, Fix
  <2> QED
    BY <2>1, <1>3, <1>t, Bookkeeping DEF Exists, Goto, Returns, TypeOK, Owning
<1>4. ASSUME NEW w \in Writer, NEW t \in Tmp, OpenTmp(w, t) PROVE FileInv'
  <2> DEFINE i == NewInode
  <2>1. i \in Inode /\ (\A n \in Name : names[n] # i) /\ (\A v \in Writer : ino[v] # i)
    BY <1>4 DEF OpenTmp, Unnamed, NewInode
  <2> HIDE DEF i
  <2>2. /\ names' = [names EXCEPT ![t] = i]
        /\ content' = [content EXCEPT ![i] = 0]
        /\ tmp' = [tmp EXCEPT ![w] = t]
        /\ ino' = [ino EXCEPT ![w] = i]
        /\ pc' = [pc EXCEPT ![w] = "write"]
        /\ names[t] = NoInode /\ pc[w] = "open"
        /\ UNCHANGED <<dir, fix, cleaned, dirty, events>>
    BY <1>4 DEF OpenTmp, Goto, i
  <2>3. t \in Name /\ t \notin Fix
    BY DEF Name
  <2>4. TypeOK'
    BY <2>1, <2>2, <2>3, <1>t DEF TypeOK, Pcs
  <2>5. ASSUME NEW v \in Writer, v # w, pc[v] \in Owning PROVE tmp[v] # t /\ ino[v] # i /\ ino[v] \in Inode
    BY <2>1, <2>2, <2>5, OwnedApart
  <2>6. ASSUME NEW v \in Writer PROVE OwnerAt(v)'
    <3>1. CASE v = w
      BY <3>1, <2>1, <2>2, <2>3, <1>t DEF OwnerAt, TypeOK
    <3>2. CASE v # w
      <4>1. OwnerAt(v)
        BY DEF FileInv
      <4>2. pc'[v] = pc[v] /\ tmp'[v] = tmp[v] /\ ino'[v] = ino[v]
        BY <3>2, <2>2, <1>t DEF TypeOK
      <4>3. CASE pc[v] \in Owning
        <5>1. tmp[v] # t /\ ino[v] # i /\ ino[v] \in Inode /\ tmp[v] \in Name
          BY <2>5, <3>2, <4>3, <4>1 DEF OwnerAt, Name
        <5>2. names'[tmp[v]] = names[tmp[v]] /\ content'[ino[v]] = content[ino[v]]
          BY <5>1, <2>2, <1>t DEF TypeOK
        <5> QED
          BY <4>1, <4>2, <5>2 DEF OwnerAt
      <4> QED
        BY <4>2, <4>3 DEF OwnerAt
    <3> QED
      BY <3>1, <3>2
  <2>7. NamesApart'
    <3> SUFFICES ASSUME NEW n \in Name, NEW m \in Name, names'[n] = names'[m], names'[n] # NoInode
                 PROVE  n = m
      BY DEF NamesApart
    <3>1. names'[n] = (IF n = t THEN i ELSE names[n]) /\ names'[m] = (IF m = t THEN i ELSE names[m])
      BY <2>2, <1>t DEF TypeOK
    <3> QED
      BY <3>1, <2>1 DEF FileInv, NamesApart
  <2>8. TmpApart'
    <3> SUFFICES ASSUME NEW u \in Writer, NEW v \in Writer, pc'[u] \in Owning, pc'[v] \in Owning,
                        tmp'[u] = tmp'[v], u # v
                 PROVE  FALSE
      BY DEF TmpApart
    <3>1. \A x \in Writer : x # w => pc'[x] = pc[x] /\ tmp'[x] = tmp[x]
      BY <2>2, <1>t DEF TypeOK
    <3>2. tmp'[w] = t
      BY <2>2, <1>t DEF TypeOK
    <3>3. CASE u = w
      BY <3>1, <3>2, <3>3, <2>5
    <3>4. CASE v = w
      BY <3>1, <3>2, <3>4, <2>5
    <3>5. CASE u # w /\ v # w
      BY <3>1, <3>5 DEF FileInv, TmpApart
    <3> QED
      BY <3>3, <3>4, <3>5
  <2>9. WholeOrAbsent'
    <3> SUFFICES ASSUME NEW f \in Fix, names'[f] # NoInode PROVE content'[names'[f]] = Blocks
      BY DEF WholeOrAbsent
    <3>1. names'[f] = names[f] /\ f \in Name
      BY <2>2, <2>3, <1>t DEF TypeOK, Name
    <3>2. names[f] # i /\ names[f] \in Inode
      BY <3>1, <2>1, <1>t DEF TypeOK
    <3>3. content'[names[f]] = content[names[f]]
      BY <3>2, <2>2, <1>t DEF TypeOK
    <3> QED
      BY <3>1, <3>3 DEF FileInv, WholeOrAbsent
  <2> QED
    BY <2>4, <2>6, <2>7, <2>8, <2>9 DEF FileInv
<1>5. ASSUME NEW w \in Writer, Fails(w) PROVE FileInv'
  <2>1. TypeOK'
    BY <1>t, <1>5 DEF TypeOK, Fails, Goto, Event, Pcs
  <2> QED
    BY <2>1, <1>5, <1>t, Bookkeeping DEF Fails, Goto, TypeOK, Owning
<1>6. ASSUME NEW w \in Writer, Write(w) PROVE FileInv'
  <2> DEFINE i == ino[w]
  <2>1. /\ pc[w] = "write" /\ pc[w] \in Owning
        /\ content' = [content EXCEPT ![i] = content[i] + 1]
        /\ pc' = IF content[i] + 1 = Blocks THEN [pc EXCEPT ![w] = "rename"] ELSE pc
        /\ UNCHANGED <<dir, names, fix, tmp, ino, cleaned, dirty, events>>
    BY <1>6 DEF Write, Goto, Filled, Owning
  <2>2. OwnerAt(w)
    BY DEF FileInv
  <2>3. i \in Inode /\ content[i] < Blocks /\ content[i] \in 0..Blocks
    BY <2>1, <2>2, <1>t DEF OwnerAt, TypeOK
  <2>4. TypeOK'
    BY <2>1, <2>3, <1>t DEF TypeOK, Pcs
  <2>5. ASSUME NEW v \in Writer PROVE OwnerAt(v)'
    <3>1. OwnerAt(v)
      BY DEF FileInv
    <3>2. CASE v = w
      <4>1. content'[i] = content[i] + 1
        BY <2>1, <2>3, <1>t DEF TypeOK
      <4>2. pc'[w] = IF content[i] + 1 = Blocks THEN "rename" ELSE "write"
        BY <2>1, <1>t DEF TypeOK
      <4> QED
        BY <4>1, <4>2, <3>2, <2>1, <2>2, <2>3 DEF OwnerAt
    <3>3. CASE v # w
      <4>1. pc'[v] = pc[v]
        BY <3>3, <2>1, <1>t DEF TypeOK
      <4>2. CASE pc[v] \in Owning
        <5>1. ino[v] # i
          BY <4>2, <3>3, <2>1, OwnedApart
        <5>2. content'[ino[v]] = content[ino[v]]
          BY <5>1, <3>1, <4>2, <2>1, <1>t DEF TypeOK, OwnerAt
        <5> QED
          BY <5>2, <4>1, <3>1, <2>1 DEF OwnerAt
      <4> QED
        BY <4>1, <4>2 DEF OwnerAt
    <3> QED
      BY <3>2, <3>3
  <2>6. NamesApart'
    BY <2>1 DEF FileInv, NamesApart
  <2>7. TmpApart'
    <3>1. \A v \in Writer : pc'[v] \in Owning => pc[v] \in Owning
      BY <2>1, <1>t DEF TypeOK
    <3> QED
      BY <3>1, <2>1 DEF FileInv, TmpApart
  <2>8. WholeOrAbsent'
    <3> SUFFICES ASSUME NEW f \in Fix, names[f] # NoInode PROVE content'[names[f]] = Blocks
      BY <2>1 DEF WholeOrAbsent
    <3>1. names[f] # i
      BY <2>1, OwnedApart
    <3>2. names[f] \in Inode
      BY <1>t DEF TypeOK, Name
    <3>3. content'[names[f]] = content[names[f]]
      BY <3>1, <3>2, <2>1, <1>t DEF TypeOK
    <3> QED
      BY <3>3 DEF FileInv, WholeOrAbsent
  <2> QED
    BY <2>4, <2>5, <2>6, <2>7, <2>8 DEF FileInv
<1>7. ASSUME NEW w \in Writer, FailsWithTmp(w) PROVE FileInv'
  <2>1. TypeOK'
    BY <1>t, <1>7 DEF TypeOK, FailsWithTmp, Goto, Event, Pcs
  <2> QED
    BY <2>1, <1>7, <1>t, Bookkeeping DEF FailsWithTmp, Goto, TypeOK, Owning
<1>8. ASSUME NEW w \in Writer, Rename(w) PROVE FileInv'
  <2> DEFINE g == fix[w]
             t == tmp[w]
             i == ino[w]
  <2>1. /\ pc[w] = "rename" /\ pc[w] \in Owning
        /\ names' = [names EXCEPT ![g] = i, ![t] = NoInode]
        /\ ino' = [ino EXCEPT ![w] = NoInode]
        /\ pc' = [pc EXCEPT ![w] = IF fix[w] = NFixture THEN "ok" ELSE "exists"]
        /\ fix' = [fix EXCEPT ![w] = IF fix[w] = NFixture THEN fix[w] ELSE fix[w] + 1]
        /\ UNCHANGED <<dir, content, tmp, cleaned, dirty, events>>
    BY <1>8 DEF Rename, Returns, Owning
  <2>2. /\ g \in Fix /\ g \in Name /\ t \in Name /\ t \notin Fix
        /\ i \in Inode /\ i # NoInode /\ names[t] = i /\ content[i] = Blocks
    <3>1. OwnerAt(w)
      BY DEF FileInv
    <3> QED
      BY <3>1, <2>1, <1>t, OwnedApart DEF OwnerAt, TypeOK, Name
  <2>3. \A n \in Name : names'[n] = IF n = t THEN NoInode ELSE IF n = g THEN i ELSE names[n]
    BY <2>1, <2>2, <1>t DEF TypeOK
  <2>4. TypeOK'
    <3>1. fix' \in [Writer -> Fix]
      BY <2>1, <1>t DEF TypeOK, Fix
    <3>2. names' \in [Name -> Inode \cup {NoInode}]
      BY <2>1, <2>2, <1>t DEF TypeOK
    <3> QED
      BY <3>1, <3>2, <2>1, <1>t DEF TypeOK, Pcs
  <2>5. pc'[w] \notin Owning
    BY <2>1, <1>t DEF TypeOK, Owning
  <2>6. ASSUME NEW v \in Writer, v # w PROVE pc'[v] = pc[v] /\ ino'[v] = ino[v]
    BY <2>1, <2>6, <1>t DEF TypeOK
  <2>7. ASSUME NEW v \in Writer PROVE OwnerAt(v)'
    <3>1. CASE v = w
      BY <3>1, <2>5 DEF OwnerAt
    <3>2. CASE v # w /\ pc[v] \in Owning
      <4>1. OwnerAt(v)
        BY DEF FileInv
      <4>2. tmp[v] # t /\ tmp[v] # g /\ tmp[v] \in Name
        BY <3>2, <2>1, <2>2, OwnedApart DEF FileInv, TmpApart
      <4>3. names'[tmp[v]] = names[tmp[v]]
        BY <4>2, <2>3
      <4> QED
        BY <4>1, <4>3, <3>2, <2>1, <2>6 DEF OwnerAt
    <3>3. CASE v # w /\ pc[v] \notin Owning
      BY <3>3, <2>6 DEF OwnerAt
    <3> QED
      BY <3>1, <3>2, <3>3
  <2>8. NamesApart'
    <3> SUFFICES ASSUME NEW n \in Name, NEW m \in Name, names'[n] = names'[m], names'[n] # NoInode
                 PROVE  n = m
      BY DEF NamesApart
    <3> QED
      BY <2>2, <2>3 DEF FileInv, NamesApart
  <2>9. TmpApart'
    BY <2>1, <2>5, <2>6 DEF FileInv, TmpApart
  <2>10. WholeOrAbsent'
    <3> SUFFICES ASSUME NEW f \in Fix, names'[f] # NoInode PROVE content[names'[f]] = Blocks
      BY <2>1 DEF WholeOrAbsent
    <3>1. names'[f] = IF f = g THEN i ELSE names[f]
      BY <2>2, <2>3 DEF Name
    <3> QED
      BY <3>1, <2>2 DEF FileInv, WholeOrAbsent
  <2> QED
    BY <2>4, <2>7, <2>8, <2>9, <2>10 DEF FileInv
<1>9. ASSUME NEW w \in Writer, RenameFails(w) PROVE FileInv'
  <2>1. TypeOK'
    BY <1>t, <1>9 DEF TypeOK, RenameFails, Goto, Pcs
  <2> QED
    BY <2>1, <1>9, <1>t, Bookkeeping DEF RenameFails, Goto, TypeOK, Owning
<1>10. ASSUME NEW w \in Writer, Recheck(w) PROVE FileInv'
  <2>1. TypeOK'
    BY <1>t, <1>10 DEF TypeOK, Recheck, Goto, Pcs
  <2> QED
    BY <2>1, <1>10, <1>t, Bookkeeping DEF Recheck, Goto, TypeOK, Owning
<1>11. ASSUME NEW w \in Writer, Remove(w) PROVE FileInv'
  <2> DEFINE t == tmp[w]
  <2>1. /\ pc[w] = "remove" /\ pc[w] \in Owning
        /\ names' = [names EXCEPT ![t] = NoInode]
        /\ ino' = [ino EXCEPT ![w] = NoInode]
        /\ pc' = [pc EXCEPT ![w] = IF fix[w] = NFixture THEN "ok" ELSE "exists"]
        /\ fix' = [fix EXCEPT ![w] = IF fix[w] = NFixture THEN fix[w] ELSE fix[w] + 1]
        /\ UNCHANGED <<dir, content, tmp, cleaned, dirty, events>>
    BY <1>11 DEF Remove, AfterRemove, Returns, Owning
  <2>2. t \in Name
    BY <2>1, OwnedApart
  <2>3. \A n \in Name : names'[n] = IF n = t THEN NoInode ELSE names[n]
    BY <2>1, <2>2, <1>t DEF TypeOK
  <2>4. TypeOK'
    <3>1. fix' \in [Writer -> Fix]
      BY <2>1, <1>t DEF TypeOK, Fix
    <3>2. names' \in [Name -> Inode \cup {NoInode}]
      BY <2>1, <2>2, <1>t DEF TypeOK
    <3> QED
      BY <3>1, <3>2, <2>1, <1>t DEF TypeOK, Pcs
  <2>5. pc'[w] \notin Owning
    BY <2>1, <1>t DEF TypeOK, Owning
  <2>6. ASSUME NEW v \in Writer, v # w PROVE pc'[v] = pc[v] /\ ino'[v] = ino[v]
    BY <2>1, <2>6, <1>t DEF TypeOK
  <2>7. ASSUME NEW v \in Writer PROVE OwnerAt(v)'
    <3>1. CASE v = w
      BY <3>1, <2>5 DEF OwnerAt
    <3>2. CASE v # w /\ pc[v] \in Owning
      <4>1. OwnerAt(v)
        BY DEF FileInv
      <4>2. tmp[v] # t /\ tmp[v] \in Name
        BY <3>2, <2>1, OwnedApart DEF FileInv, TmpApart
      <4>3. names'[tmp[v]] = names[tmp[v]]
        BY <4>2, <2>3
      <4> QED
        BY <4>1, <4>3, <3>2, <2>1, <2>6 DEF OwnerAt
    <3>3. CASE v # w /\ pc[v] \notin Owning
      BY <3>3, <2>6 DEF OwnerAt
    <3> QED
      BY <3>1, <3>2, <3>3
  <2>8. NamesApart'
    BY <2>3 DEF FileInv, NamesApart
  <2>9. TmpApart'
    BY <2>1, <2>5, <2>6 DEF FileInv, TmpApart
  <2>10. WholeOrAbsent'
    BY <2>1, <2>3 DEF FileInv, WholeOrAbsent, Name
  <2> QED
    BY <2>4, <2>7, <2>8, <2>9, <2>10 DEF FileInv
<1>12. ASSUME NEW w \in Writer, Retry(w) PROVE FileInv'
  <2>1. TypeOK'
    BY <1>t, <1>12 DEF TypeOK, Retry, Goto, Event, Pcs, Fix
  <2> QED
    BY <2>1, <1>12, <1>t, Bookkeeping DEF Retry, Goto, TypeOK, Owning
<1>13. ASSUME NEW w \in Writer, Die(w) PROVE FileInv'
  <2>1. TypeOK'
    BY <1>t, <1>13 DEF TypeOK, Die, Goto, Event, Pcs
  <2> QED
    BY <2>1, <1>13, <1>t, Bookkeeping DEF Die, Goto, TypeOK, Owning
<1>14. ASSUME NEW n \in Name, Clean(n) PROVE FileInv'
  <2>1. \A m \in Name : names'[m] = IF m = n THEN NoInode ELSE names[m]
    BY <1>14, <1>t DEF Clean, TypeOK
  <2>2. UNCHANGED <<content, pc, tmp, ino>>
    BY <1>14 DEF Clean
  <2>3. TypeOK'
    BY <1>14, <1>t DEF Clean, TypeOK, Event
  <2>4. ASSUME NEW v \in Writer PROVE OwnerAt(v)'
    <3>1. OwnerAt(v)
      BY DEF FileInv
    <3>2. CASE pc[v] \in Owning
      <4>1. tmp[v] \in Name /\ tmp[v] # n
        BY <3>1, <3>2, <1>14 DEF OwnerAt, Name, Clean
      <4> QED
        BY <4>1, <3>1, <2>1, <2>2 DEF OwnerAt
    <3> QED
      BY <3>2, <2>2 DEF OwnerAt
  <2>5. NamesApart'
    BY <2>1 DEF FileInv, NamesApart
  <2>6. TmpApart'
    BY <2>2 DEF FileInv, TmpApart
  <2>7. WholeOrAbsent'
    BY <2>1, <2>2 DEF FileInv, WholeOrAbsent, Name
  <2> QED
    BY <2>3, <2>4, <2>5, <2>6, <2>7 DEF FileInv
<1> QED
  BY <1>1, <1>2, <1>3, <1>4, <1>5, <1>6, <1>7, <1>8, <1>9, <1>10, <1>11, <1>12, <1>13, <1>14
  DEF Next, Step, AllEnded

\* Between any two system calls of any number of processes the invariant of
\* Fixture::write_to holds.
THEOREM FilesSafe == Spec => []FileInv
  BY InitFileInv, StepFileInv, PTL DEF Spec

\* The final path of a fixture never names an incomplete file, however many
\* processes extract it, die or fail.
THEOREM NeverPartial == Spec => []WholeOrAbsent
<1>1. FileInv => WholeOrAbsent
  BY DEF FileInv
<1> QED
  BY <1>1, FilesSafe, PTL

\* write_to never writes to a file that is reachable under a final path.
THEOREM PublishedUnmodified == Spec => Unmodified
<1> DEFINE Same == \A f \in Fix : names[f] # NoInode => content'[names[f]] = content[names[f]]
<1>1. FileInv /\ [Next]_vars => [Same]_vars
  <2> SUFFICES ASSUME FileInv, Next, NEW f \in Fix, names[f] # NoInode
               PROVE  content'[names[f]] = content[names[f]]
    BY DEF vars
  <2>1. TypeOK /\ f \in Name
    BY DEF FileInv, Name
  <2>2. names[f] \in Inode
    BY <2>1 DEF TypeOK
  <2>3. ASSUME NEW w \in Writer, NEW t \in Tmp, OpenTmp(w, t) PROVE content'[names[f]] = content[names[f]]
    <3>1. NewInode \in Unnamed
      BY <2>3 DEF OpenTmp, NewInode
    <3>2. names[f] # NewInode
      BY <3>1, <2>1 DEF Unnamed
    <3> QED
      BY <3>2, <2>1, <2>2, <2>3 DEF OpenTmp, TypeOK
  <2>4. ASSUME NEW w \in Writer, Write(w) PROVE content'[names[f]] = content[names[f]]
    <3>1. pc[w] \in Owning
      BY <2>4 DEF Write, Owning
    <3>2. names[f] # ino[w]
      BY <3>1, OwnedApart
    <3> QED
      BY <3>2, <2>1, <2>2, <2>4 DEF Write, TypeOK
  <2>5. ASSUME NEW w \in Writer,
               \/ CreateDir(w) \/ Exists(w) \/ Fails(w) \/ FailsWithTmp(w) \/ Rename(w)
               \/ RenameFails(w) \/ Recheck(w) \/ Remove(w) \/ Retry(w) \/ Die(w)
        PROVE  content'[names[f]] = content[names[f]]
    BY <2>5 DEF CreateDir, Exists, Fails, FailsWithTmp, Rename, RenameFails, Recheck, Remove,
                Retry, Die
  <2>6. ASSUME NEW n \in Name, Clean(n) PROVE content'[names[f]] = content[names[f]]
    BY <2>6 DEF Clean
  <2>7. CASE AllEnded
    BY <2>7 DEF AllEnded, vars
  <2> QED
    BY <2>3, <2>4, <2>5, <2>6, <2>7 DEF Next, Step
<1> QED
  BY <1>1, FilesSafe, PTL DEF Spec, Unmodified

-------------------------------------------------------------------------------
(* What init_in leaves behind *)

There(f) == names[f] # NoInode \/ f \in cleaned

\* The fixtures that init_in is done with are there, and so is the one for which rename
\* was refused.
PassedInv(w) ==
  /\ \A f \in Fix : f < fix[w] => There(f)
  /\ pc[w] = "ok" => \A f \in Fix : There(f)
  /\ pc[w] = "remove" => There(fix[w])

\* Every temporary file has a writer that is at work on it.
OwnedTmp(t) == names[t] # NoInode => \E w \in Writer : pc[w] \in Owning /\ tmp[w] = t

LeftInv == (\A w \in Writer : PassedInv(w)) /\ (~dirty => \A t \in Tmp : OwnedTmp(t))

LEMMA InitLeft == Init => LeftInv
<1> SUFFICES ASSUME Init PROVE LeftInv
  OBVIOUS
<1>1. \A w \in Writer : pc[w] = "mkdir" /\ fix[w] = 1
  BY DEF Init
<1>2. \A t \in Tmp : names[t] = NoInode
  BY DEF Init, Name
<1>3. \A f \in Fix : ~(f < 1)
  BY ConstAssumption DEF Fix
<1> QED
  BY <1>1, <1>2, <1>3 DEF LeftInv, PassedInv, OwnedTmp

\* Only a cleaner takes a fixture away.
LEMMA ThereStays ==
  ASSUME FileInv, [Next]_vars, NEW f \in Fix, There(f)
  PROVE  There(f)'
<1>1. TypeOK /\ f \in Name /\ cleaned \subseteq Fix
  BY DEF FileInv, Name, TypeOK
<1>2. ASSUME UNCHANGED <<names, cleaned>> PROVE There(f)'
  BY <1>2 DEF There
<1>3. ASSUME NEW w \in Writer, NEW t \in Tmp, OpenTmp(w, t) PROVE There(f)'
  <2>1. f # t
    BY ConstAssumption
  <2>2. names'[f] = names[f] /\ cleaned' = cleaned
    BY <1>1, <1>3, <2>1 DEF OpenTmp, TypeOK
  <2> QED
    BY <2>2 DEF There
<1>4. ASSUME NEW w \in Writer, Rename(w) PROVE There(f)'
  <2>1. pc[w] \in Owning
    BY <1>4 DEF Rename, Owning
  <2>2. tmp[w] # f /\ ino[w] # NoInode
    BY <2>1, OwnedApart
  <2>3. (names'[f] = names[f] \/ names'[f] = ino[w]) /\ cleaned' = cleaned
    BY <1>1, <1>4, <2>2 DEF Rename, TypeOK
  <2> QED
    BY <2>2, <2>3 DEF There
<1>5. ASSUME NEW w \in Writer, Remove(w) PROVE There(f)'
  <2>1. pc[w] \in Owning
    BY <1>5 DEF Remove, Owning
  <2>2. tmp[w] # f
    BY <2>1, OwnedApart
  <2>3. names'[f] = names[f] /\ cleaned' = cleaned
    BY <1>1, <1>5, <2>2 DEF Remove, AfterRemove, TypeOK
  <2> QED
    BY <2>3 DEF There
<1>6. ASSUME NEW n \in Name, Clean(n) PROVE There(f)'
  <2>1. names' = [names EXCEPT ![n] = NoInode] /\ cleaned' = cleaned \cup ({n} \cap Fix)
    BY <1>6 DEF Clean
  <2>2. CASE n = f
    BY <2>1, <2>2 DEF There
  <2>3. CASE n # f
    BY <1>1, <2>1, <2>3 DEF There, TypeOK
  <2> QED
    BY <2>2, <2>3
<1>7. ASSUME NEW w \in Writer, CreateDir(w) \/ Exists(w) \/ Fails(w) \/ Write(w) \/ FailsWithTmp(w)
                                \/ RenameFails(w) \/ Recheck(w) \/ Retry(w) \/ Die(w)
      PROVE  There(f)'
  BY <1>2, <1>7 DEF CreateDir, Exists, Fails, Write, FailsWithTmp, RenameFails, Recheck, Retry, Die
<1>8. CASE AllEnded \/ UNCHANGED vars
  BY <1>2, <1>8 DEF AllEnded, vars
<1> QED
  BY <1>3, <1>4, <1>5, <1>6, <1>7, <1>8 DEF Next, Step

\* write_to returns with its fixture in place, and init_in goes on to the next one.
LEMMA StepPassed ==
  ASSUME FileInv, [Next]_vars, NEW w \in Writer, PassedInv(w)
  PROVE  PassedInv(w)'
<1>1. TypeOK /\ fix[w] \in Fix
  BY DEF FileInv, TypeOK
<1>2. \A f \in Fix : There(f) => There(f)'
  BY ThereStays
\* nothing new is claimed
<1>3. ASSUME fix'[w] \in {fix[w], 1}, pc'[w] = "ok" => pc[w] = "ok",
             pc'[w] = "remove" => There(fix[w]) /\ fix'[w] = fix[w]
      PROVE  PassedInv(w)'
  <2>1. \A f \in Fix : f < fix'[w] => f < fix[w]
    BY <1>1, <1>3 DEF Fix
  <2> QED
    BY <1>1, <1>2, <1>3, <2>1 DEF PassedInv
\* write_to returns
<1>4. ASSUME Returns(w), names'[fix[w]] # NoInode \/ fix[w] \in cleaned' PROVE PassedInv(w)'
  <2>1. fix[w] \in 1..NFixture /\ NFixture \in Nat
    BY <1>1, ConstAssumption DEF Fix
  <2>2. CASE fix[w] = NFixture
    <3>1. fix'[w] = fix[w] /\ pc'[w] = "ok"
      BY <1>1, <1>4, <2>2 DEF Returns, TypeOK
    <3>2. \A f \in Fix : f < fix[w] \/ f = fix[w]
      BY <2>1, <2>2 DEF Fix
    <3>3. \A f \in Fix : There(f)'
      BY <1>2, <1>4, <3>2 DEF PassedInv, There
    <3> QED
      BY <3>1, <3>3 DEF PassedInv
  <2>3. CASE fix[w] # NFixture
    <3>1. fix'[w] = fix[w] + 1 /\ pc'[w] = "exists"
      BY <1>1, <1>4, <2>3 DEF Returns, TypeOK
    <3>2. \A f \in Fix : f < fix'[w] => f < fix[w] \/ f = fix[w]
      BY <2>1, <3>1 DEF Fix
    <3>3. \A f \in Fix : f < fix'[w] => There(f)'
      BY <1>2, <1>4, <3>2 DEF PassedInv, There
    <3> QED
      BY <3>1, <3>3 DEF PassedInv
  <2> QED
    BY <2>2, <2>3
<1>5. ASSUME NEW v \in Writer, v # w, Step(v) \/ Retry(v) \/ Die(v) PROVE PassedInv(w)'
  <2>1. fix'[w] = fix[w] /\ pc'[w] = pc[w]
    BY <1>1, <1>5 DEF Step, CreateDir, Exists, OpenTmp, Fails, Write, FailsWithTmp, Rename, RenameFails,
                      Recheck, Remove, Retry, Die, Goto, Returns, TypeOK
  <2> QED
    BY <1>3, <2>1 DEF PassedInv
<1>6. CASE (\E n \in Name : Clean(n)) \/ AllEnded \/ UNCHANGED vars
  <2>1. fix'[w] = fix[w] /\ pc'[w] = pc[w]
    BY <1>6 DEF Clean, AllEnded, vars
  <2> QED
    BY <1>3, <2>1 DEF PassedInv
<1>7. CASE CreateDir(w) \/ (\E t \in Tmp : OpenTmp(w, t)) \/ Fails(w) \/ Write(w) \/ FailsWithTmp(w)
           \/ RenameFails(w) \/ Retry(w) \/ Die(w)
  <2>1. fix'[w] \in {fix[w], 1} /\ pc'[w] # "ok" /\ pc'[w] # "remove"
    BY <1>1, <1>7 DEF CreateDir, OpenTmp, Fails, Write, FailsWithTmp, RenameFails, Retry, Die, Goto, TypeOK
  <2> QED
    BY <1>3, <2>1
<1>8. CASE Recheck(w)
  <2>1. fix'[w] = fix[w] /\ pc'[w] # "ok" /\ (pc'[w] = "remove" => There(fix[w]))
    BY <1>1, <1>8 DEF Recheck, Accepts, There, Goto, TypeOK
  <2> QED
    BY <1>3, <2>1
<1>9. CASE Exists(w)
  <2>1. CASE Returns(w) /\ names[fix[w]] # NoInode
    BY <1>4, <1>9, <2>1 DEF Exists
  <2>2. CASE Goto(w, "open") /\ UNCHANGED fix
    BY <1>1, <1>3, <2>2 DEF Goto, TypeOK
  <2> QED
    BY <1>9, <2>1, <2>2 DEF Exists
<1>10. CASE Rename(w)
  <2>1. pc[w] \in Owning
    BY <1>10 DEF Rename, Owning
  <2>2. tmp[w] # fix[w] /\ ino[w] # NoInode /\ fix[w] \in Name
    BY <1>1, <2>1, OwnedApart DEF Name
  <2>3. names'[fix[w]] = ino[w]
    BY <1>1, <1>10, <2>2 DEF Rename, TypeOK
  <2> QED
    BY <1>4, <1>10, <2>2, <2>3 DEF Rename
<1>11. CASE Remove(w)
  <2>1. There(fix[w])
    BY <1>11 DEF PassedInv, Remove
  <2>2. names'[fix[w]] # NoInode \/ fix[w] \in cleaned'
    BY <1>1, <1>2, <2>1 DEF There
  <2> QED
    BY <1>4, <1>11, <2>2 DEF Remove
<1>12. ASSUME NEW v \in Writer, Step(v) \/ Retry(v) \/ Die(v) PROVE PassedInv(w)'
  <2>1. CASE v = w
    BY <1>7, <1>8, <1>9, <1>10, <1>11, <1>12, <2>1 DEF Step
  <2> QED
    BY <1>5, <1>12, <2>1
<1> QED
  BY <1>6, <1>12 DEF Next

\* A writer that neither dies nor fails renames its temporary file or removes it.
LEMMA StepOwned ==
  ASSUME FileInv, [Next]_vars, ~dirty', ~dirty => \A t \in Tmp : OwnedTmp(t)
  PROVE  \A t \in Tmp : OwnedTmp(t)'
<1> SUFFICES ASSUME NEW t \in Tmp, names'[t] # NoInode
             PROVE  \E w \in Writer : pc'[w] \in Owning /\ tmp'[w] = t
  BY DEF OwnedTmp
<1>1. TypeOK /\ t \in Name /\ t \notin Fix
  BY ConstAssumption DEF FileInv, Name
<1>2. ~dirty
  <2>1. ASSUME dirty PROVE dirty'
    BY <2>1 DEF Next, Step, CreateDir, Exists, OpenTmp, Fails, Write, FailsWithTmp, Rename, RenameFails, Recheck,
                Remove, Retry, Die, Clean, AllEnded, vars
  <2> QED
    BY <2>1
<1>3. names[t] # NoInode => \E w \in Writer : pc[w] \in Owning /\ tmp[w] = t
  BY <1>2 DEF OwnedTmp
\* the owner stays the owner unless it is the one that moves
<1>4. ASSUME NEW v \in Writer, names'[t] = names[t],
             \A u \in Writer : u # v => pc'[u] = pc[u] /\ tmp'[u] = tmp[u],
             pc[v] \in Owning => pc'[v] \in Owning /\ tmp'[v] = tmp[v]
      PROVE  \E w \in Writer : pc'[w] \in Owning /\ tmp'[w] = t
  BY <1>3, <1>4
<1>5. ASSUME NEW v \in Writer, CreateDir(v) \/ Exists(v) \/ Fails(v) \/ Retry(v)
      PROVE  \E w \in Writer : pc'[w] \in Owning /\ tmp'[w] = t
  <2>1. /\ UNCHANGED <<names, tmp>> /\ pc[v] \notin Owning
        /\ \A u \in Writer : u # v => pc'[u] = pc[u]
    BY <1>1, <1>5 DEF CreateDir, Exists, Fails, Retry, Goto, Returns, Owning, TypeOK
  <2> QED
    BY <1>4, <2>1
<1>6. ASSUME NEW v \in Writer, Write(v) \/ RenameFails(v) \/ Recheck(v)
      PROVE  \E w \in Writer : pc'[w] \in Owning /\ tmp'[w] = t
  <2>1. UNCHANGED <<names, tmp>> /\ \A u \in Writer : u # v => pc'[u] = pc[u]
    BY <1>1, <1>6 DEF Write, RenameFails, Recheck, Goto, TypeOK
  <2>2. pc'[v] \in Owning
    <3>1. CASE Write(v)
      BY <1>1, <3>1 DEF Write, Goto, Owning, TypeOK
    <3>2. CASE RenameFails(v)
      BY <1>1, <3>2 DEF RenameFails, Goto, Owning, TypeOK
    <3>3. CASE Recheck(v)
      BY <1>1, <3>3 DEF Recheck, Goto, Owning, TypeOK
    <3> QED
      BY <1>6, <3>1, <3>2, <3>3
  <2> QED
    BY <1>4, <2>1, <2>2
<1>7. ASSUME NEW v \in Writer, FailsWithTmp(v) PROVE FALSE
  BY <1>7 DEF FailsWithTmp
<1>8. ASSUME NEW v \in Writer, Die(v) PROVE \E w \in Writer : pc'[w] \in Owning /\ tmp'[w] = t
  <2>1. UNCHANGED <<names, tmp>> /\ \A u \in Writer : u # v => pc'[u] = pc[u]
    BY <1>1, <1>8 DEF Die, Goto, TypeOK
  <2>2. pc[v] \notin Owning
    BY <1>8 DEF Die
  <2> QED
    BY <1>4, <2>1, <2>2
<1>9. ASSUME NEW v \in Writer, NEW s \in Tmp, OpenTmp(v, s)
      PROVE  \E w \in Writer : pc'[w] \in Owning /\ tmp'[w] = t
  <2>1. /\ pc[v] = "open" /\ pc'[v] = "write" /\ tmp'[v] = s
        /\ \A u \in Writer : u # v => pc'[u] = pc[u] /\ tmp'[u] = tmp[u]
        /\ s # t => names'[t] = names[t]
    BY <1>1, <1>9 DEF OpenTmp, Goto, TypeOK
  <2>2. CASE s = t
    BY <2>1, <2>2 DEF Owning
  <2>3. CASE s # t
    BY <1>4, <2>1, <2>3 DEF Owning
  <2> QED
    BY <2>2, <2>3
\* the name that goes was the mover's own
<1>10. ASSUME NEW v \in Writer, Rename(v) \/ Remove(v)
       PROVE  \E w \in Writer : pc'[w] \in Owning /\ tmp'[w] = t
  <2>1. pc[v] \in Owning
    BY <1>10 DEF Rename, Remove, Owning
  <2>2. tmp[v] \in Name /\ fix[v] \in Name /\ fix[v] # t /\ fix[v] # tmp[v]
    BY <1>1, <2>1, OwnedApart DEF TypeOK, Name
  <2>3. UNCHANGED tmp /\ \A u \in Writer : u # v => pc'[u] = pc[u]
    BY <1>1, <1>10 DEF Rename, Remove, Returns, TypeOK
  <2>4. names'[tmp[v]] = NoInode /\ (t # tmp[v] => names'[t] = names[t])
    BY <1>1, <1>10, <2>2 DEF Rename, Remove, AfterRemove, TypeOK
  <2>5. PICK w \in Writer : pc[w] \in Owning /\ tmp[w] = t
    BY <1>3, <2>4
  <2> QED
    BY <2>3, <2>4, <2>5
<1>11. ASSUME NEW n \in Name, Clean(n) PROVE \E w \in Writer : pc'[w] \in Owning /\ tmp'[w] = t
  <2>1. UNCHANGED <<pc, tmp>> /\ names[t] # NoInode
    BY <1>1, <1>11 DEF Clean, TypeOK
  <2> QED
    BY <1>3, <2>1
<1>12. CASE AllEnded \/ UNCHANGED vars
  BY <1>3, <1>12 DEF AllEnded, vars
<1> QED
  BY <1>5, <1>6, <1>7, <1>8, <1>9, <1>10, <1>11, <1>12 DEF Next, Step

\* When init_in has succeeded, every fixture is there unless somebody removed it, also
\* those that were there before or for which rename was refused; and no temporary file
\* outlives writers that neither die nor fail.
THEOREM InitLeavesFixtures == Spec => []OkMeansThere
<1>1. LeftInv => OkMeansThere
  <2> SUFFICES ASSUME LeftInv PROVE OkMeansThere
    OBVIOUS
  <2>1. \A w \in Writer : pc[w] = "ok" => \A f \in Fix : names[f] # NoInode \/ f \in cleaned
    BY DEF LeftInv, PassedInv, There
  <2>2. ASSUME \A w \in Writer : Ended(w), ~dirty, NEW t \in Tmp PROVE names[t] = NoInode
    BY <2>2 DEF LeftInv, OwnedTmp, Ended, Owning
  <2> QED
    BY <2>1, <2>2 DEF OkMeansThere
<1>2. FileInv /\ LeftInv /\ [Next]_vars => LeftInv'
  BY StepPassed, StepOwned DEF LeftInv
<1> QED
  BY <1>1, <1>2, InitLeft, FilesSafe, PTL DEF Spec

===============================================================================
