----------------------------- MODULE WinPipeProofs -----------------------------
(* Proofs about WinPipe: for any number of processes, accesses and any pipe. *)
EXTENDS WinPipe, SequenceTheorems, TLAPS

-------------------------------------------------------------------------------
(* The inductive invariant *)

\* What RunsPrepared and CompleteOnce need to be inductive.  The child of a creation
\* is suspended, has what the steps before put into it and is no one else's.
CreationInv ==
  \A c \in Creator : cp[c].step # 0 =>
    /\ cp[c].child \in Proc
    /\ st[cp[c].child] \in {"suspended", "gone"}
    /\ st[cp[c].child] = "suspended" =>
         \A i \in 1..3 : i < cp[c].step => Steps(c)[i] \in has[cp[c].child]
    /\ \A d \in Creator : cp[d].step # 0 /\ cp[d].child = cp[c].child => d = c

\* A process has all it needs once it was resumed, or held for its program.
HasKit == \A p \in Proc : st[p] \in {"run", "held", "exit"} => has[p] = Kit

\* Only a process in finish has anything to write; what is in the pipe or was read
\* comes from one that is or was there, and will not be written again.
Written(s) ==
  \A r \in Range(s) : st[r.from] \in {"exit", "gone"} /\ r.acc \notin flush[r.from]

WrittenOnce ==
  /\ \A p \in Proc : flush[p] # {} => st[p] = "exit"
  /\ \A p \in clean : st[p] = "gone"
  /\ Written(pipe) /\ Written(arena)
  /\ IsInjective(pipe) /\ IsInjective(arena)
  /\ Range(pipe) \cap Range(arena) = {}

\* While the reader is there no access of a process in finish is lost.
NoneLost ==
  /\ phase = "done" => pipe = <<>>
  /\ phase # "failed" =>
       \A p \in Proc : st[p] = "exit" \/ p \in clean =>
         \A a \in messages[p] :
           a \in flush[p] \/ [from |-> p, acc |-> a] \in Range(pipe) \cup Range(arena)

-------------------------------------------------------------------------------
(* What one message does to the pipe and to the arena *)

LEMMA EmptyRange == Range(<<>>) = {} /\ IsInjective(<<>>)
BY DEF Range, IsInjective

LEMMA AppendRange ==
  ASSUME NEW S, NEW s \in Seq(S), NEW e \in S
  PROVE  /\ Range(Append(s, e)) = Range(s) \cup {e}
         /\ IsInjective(s) /\ e \notin Range(s) => IsInjective(Append(s, e))
<1>1. /\ Append(s, e) \in Seq(S) /\ Len(Append(s, e)) = Len(s) + 1 /\ Len(s) \in Nat
      /\ \A i \in 1..Len(s) : Append(s, e)[i] = s[i]
      /\ Append(s, e)[Len(s) + 1] = e
  BY AppendProperties, LenProperties
<1>2. DOMAIN s = 1..Len(s) /\ DOMAIN Append(s, e) = 1..(Len(s) + 1)
  BY <1>1, LenProperties
<1> QED
  BY <1>1, <1>2 DEF Range, IsInjective

LEMMA TailRange ==
  ASSUME NEW S, NEW s \in Seq(S), s # <<>>
  PROVE  /\ Range(s) = Range(Tail(s)) \cup {Head(s)}
         /\ IsInjective(s) => IsInjective(Tail(s)) /\ Head(s) \notin Range(Tail(s))
<1>1. /\ Tail(s) \in Seq(S) /\ Len(Tail(s)) = Len(s) - 1
      /\ \A i \in 1..Len(Tail(s)) : Tail(s)[i] = s[i + 1]
      /\ Len(s) \in Nat \ {0} /\ Head(s) = s[1]
  <2>1. Len(s) \in Nat \ {0}
    BY EmptySeq
  <2>2. Head(s) = s[1]
    BY <2>1
  <2> QED
    BY <2>1, <2>2, HeadTailProperties
<1>2. DOMAIN s = 1..Len(s) /\ DOMAIN Tail(s) = 1..(Len(s) - 1)
  BY <1>1, LenProperties
<1>3. ASSUME NEW i \in 1..Len(s)
      PROVE  i = 1 \/ (i - 1 \in 1..(Len(s) - 1) /\ Tail(s)[i - 1] = s[i])
  BY <1>1
<1>4. \A i \in 1..(Len(s) - 1) : i + 1 \in 1..Len(s) /\ Tail(s)[i] = s[i + 1]
  BY <1>1
<1>5. Range(s) = Range(Tail(s)) \cup {Head(s)}
  <2>1. 1 \in 1..Len(s)
    BY <1>1
  <2>2. Range(s) \subseteq Range(Tail(s)) \cup {Head(s)}
    <3>1. ASSUME NEW r \in Range(s), r # Head(s)
          PROVE  r \in Range(Tail(s))
      <4>1. PICK i \in 1..Len(s) : r = s[i]
        BY <1>2 DEF Range
      <4>2. i - 1 \in DOMAIN Tail(s) /\ Tail(s)[i - 1] = r
        BY <4>1, <3>1, <1>1, <1>2, <1>3
      <4> QED
        BY <4>2 DEF Range
    <3> QED
      BY <3>1
  <2>3. Range(Tail(s)) \subseteq Range(s) /\ Head(s) \in Range(s)
    BY <1>1, <1>2, <1>4, <2>1 DEF Range
  <2> QED
    BY <2>2, <2>3
<1>6. ASSUME IsInjective(s)
      PROVE  IsInjective(Tail(s)) /\ Head(s) \notin Range(Tail(s))
  <2>1. 1 \in 1..Len(s)
    BY <1>1
  <2> QED
    BY <1>1, <1>2, <1>4, <1>6, <2>1 DEF Range, IsInjective
<1> QED
  BY <1>5, <1>6

-------------------------------------------------------------------------------
(* Types *)

\* The type of the messages.
Rec == [from : Proc, acc : Access]

\* The type of the creations.
CpType == [child : Proc \cup {None}, step : 0..4, susp : BOOLEAN]

LEMMA NoCpType == NoCp \in CpType /\ NoCp.step = 0
BY DEF NoCp, CpType

\* Advance moves a creation to its next step, or ends it.
LEMMA AdvanceType ==
  ASSUME NEW k \in CpType
  PROVE  /\ Advance(k) \in CpType
         /\ \/ k.step = 4 /\ Advance(k).step = 0
            \/ /\ k.step < 4 /\ Advance(k).step = k.step + 1
               /\ Advance(k).child = k.child
<1>1. CASE k.step = 4
  BY <1>1, NoCpType DEF Advance
<1>2. CASE k.step # 4
  <2>1. Advance(k) = [k EXCEPT !.step = @ + 1]
    BY <1>2 DEF Advance
  <2>2. k.step + 1 \in 0..4 /\ k.step < 4
    BY <1>2 DEF CpType
  <2> QED
    BY <2>1, <2>2 DEF CpType
<1> QED
  BY <1>1, <1>2

LEMMA InitType == Init => TypeOK
<1> SUFFICES ASSUME Init PROVE TypeOK
  OBVIOUS
<1>1. cp \in [Creator -> CpType]
  <2>1. [child |-> Root, step |-> 1, susp |-> FALSE] \in CpType
    BY ConstAssumption DEF CpType
  <2> QED
    BY <2>1, NoCpType DEF Init
<1>2. sender \in BOOLEAN
  BY Zenon DEF Init
<1> QED
  BY <1>1, <1>2, ConstAssumption DEF Init, TypeOK, CpType

LEMMA NextType ==
  ASSUME TypeOK, [Next]_vars
  PROVE  TypeOK'
<1>0. cp \in [Creator -> CpType] /\ Spawner \in Creator /\ Proc \subseteq Creator
  BY DEF TypeOK, CpType, Creator
<1>v. ASSUME NEW p \in Proc, Vanish(p)
      PROVE  /\ st' \in [Proc -> {"none", "suspended", "held", "run", "exit", "gone"}]
             /\ has' \in [Proc -> SUBSET Kit] /\ cp' \in [Creator -> CpType]
             /\ flush' \in [Proc -> SUBSET Access]
  BY <1>v, <1>0, NoCpType DEF Vanish, TypeOK
<1>1. CASE UNCHANGED vars
  BY <1>1 DEF vars, TypeOK
<1>2. ASSUME NEW p \in Proc, Terminate(p)
      PROVE  TypeOK'
  BY <1>2, <1>v DEF Terminate, TypeOK, CpType
<1>3. ASSUME NEW p \in Proc, EndInsert(p)
      PROVE  TypeOK'
  BY <1>3 DEF EndInsert, TypeOK
<1>4. ASSUME NEW p \in Proc, ResumeLater(p)
      PROVE  TypeOK'
  BY <1>4 DEF ResumeLater, TypeOK
<1>5. ASSUME NEW p \in Proc, ExitProcess(p)
      PROVE  TypeOK'
  <2>1. cp' \in [Creator -> CpType]
    BY <1>5, <1>0, NoCpType DEF ExitProcess
  <2> QED
    BY <1>5, <2>1 DEF ExitProcess, TypeOK, CpType
<1>6. ASSUME NEW p \in Proc, NEW a \in Access, BeginInsert(p, a)
      PROVE  TypeOK'
  BY <1>6 DEF BeginInsert, TypeOK
<1>7. ASSUME NEW p \in Proc, NEW q \in Proc, NEW a \in Access \cup {None},
             NEW susp \in BOOLEAN, CreateProcess(p, q, a, susp)
      PROVE  TypeOK'
  <2>1. [child |-> q, step |-> 1, susp |-> susp] \in CpType
    BY DEF CpType
  <2>2. cp' \in [Creator -> CpType]
    BY <1>7, <1>0, <2>1 DEF CreateProcess
  <2>3. messages' \in [Proc -> SUBSET Access]
    BY <1>7 DEF CreateProcess, TypeOK
  <2> QED
    BY <1>7, <2>2, <2>3 DEF CreateProcess, TypeOK, CpType
<1>8. ASSUME NEW p \in Proc, EndDetach(p)
      PROVE  TypeOK'
  BY <1>8, <1>v DEF EndDetach, TypeOK, CpType
<1>9. ASSUME NEW p \in Proc, NEW a \in Access, write_pipe_message(p, a)
      PROVE  TypeOK'
  <2>1. CASE phase = "failed"
    BY <2>1, <1>9, <1>v DEF write_pipe_message, TypeOK, CpType
  <2>2. CASE phase # "failed"
    <3>1. /\ pipe' = Append(pipe, [from |-> p, acc |-> a]) /\ Len(pipe) < PipeCap
          /\ flush' = [flush EXCEPT ![p] = @ \ {a}]
          /\ UNCHANGED <<st, has, cp, ins, messages, sender, phase, arena, clean>>
      BY <2>2, <1>9 DEF write_pipe_message
    <3>2. [from |-> p, acc |-> a] \in Rec /\ pipe \in Seq(Rec)
      BY DEF Rec, TypeOK
    <3>3. pipe' \in Seq(Rec) /\ Len(pipe') <= PipeCap
      BY <3>1, <3>2, AppendProperties, LenProperties, ConstAssumption
    <3>4. flush' \in [Proc -> SUBSET Access]
      BY <3>1 DEF TypeOK
    <3> QED
      BY <3>1, <3>3, <3>4 DEF TypeOK, Rec
  <2> QED
    BY <2>1, <2>2
<1>10. ASSUME NEW c \in Creator, CreateStep(c)
       PROVE  TypeOK'
  <2>1. cp' \in [Creator -> CpType]
    BY <1>10, <1>0, AdvanceType DEF CreateStep
  <2>2. st' \in [Proc -> {"none", "suspended", "held", "run", "exit", "gone"}]
    BY <1>10 DEF CreateStep, AfterStep, TypeOK
  <2>3. has' \in [Proc -> SUBSET Kit]
    BY <1>10 DEF CreateStep, TypeOK
  <2> QED
    BY <1>10, <2>1, <2>2, <2>3 DEF CreateStep, TypeOK, CpType
<1>11. ASSUME NEW c \in Creator, CreateFails(c)
       PROVE  TypeOK'
  <2>1. cp' \in [Creator -> CpType]
    BY <1>11, <1>0, NoCpType DEF CreateFails
  <2>2. st' \in [Proc -> {"none", "suspended", "held", "run", "exit", "gone"}]
    BY <1>11 DEF CreateFails, TypeOK
  <2>3. has' \in [Proc -> SUBSET Kit]
    BY <1>11 DEF CreateFails, TypeOK
  <2>4. /\ phase' \in {"read", "done", "failed"}
        /\ pipe' \in Seq(Rec) /\ Len(pipe') <= PipeCap
    <3>1. CASE UNCHANGED <<phase, pipe, sender>>
      BY <3>1 DEF TypeOK, Rec
    <3>2. CASE phase' = "failed" /\ pipe' = <<>>
      BY <3>2, EmptySeq, ConstAssumption
    <3> QED
      BY <1>11, <3>1, <3>2 DEF CreateFails
  <2>5. sender' \in BOOLEAN
    BY <1>11, Zenon DEF CreateFails, TypeOK
  <2> QED
    BY <1>11, <2>1, <2>2, <2>3, <2>4, <2>5 DEF CreateFails, TypeOK, CpType, Rec
<1>12. CASE DropSender
  <2>1. sender' \in BOOLEAN
    BY <1>12, Zenon DEF DropSender
  <2> QED
    BY <1>12, <2>1 DEF DropSender, TypeOK
<1>13. CASE Read
  <2>0. pipe \in Seq(Rec) /\ Len(pipe) <= PipeCap /\ arena \in Seq(Rec) /\ pipe # <<>>
    BY <1>13 DEF Read, TypeOK, Rec
  <2>1. Head(pipe) \in Rec /\ Tail(pipe) \in Seq(Rec) /\ Len(Tail(pipe)) = Len(pipe) - 1
    BY <2>0, HeadTailProperties
  <2>2. Append(arena, Head(pipe)) \in Seq(Rec) /\ <<>> \in Seq(Rec) /\ Len(<<>>) = 0
    BY <2>0, <2>1, AppendProperties, EmptySeq
  <2>3. Len(Tail(pipe)) <= PipeCap /\ 0 <= PipeCap
    BY <2>0, <2>1, LenProperties, ConstAssumption
  <2>4. /\ pipe' \in Seq(Rec) /\ Len(pipe') <= PipeCap /\ arena' \in Seq(Rec)
        /\ phase' \in {"read", "done", "failed"}
    BY <1>13, <2>0, <2>1, <2>2, <2>3 DEF Read
  <2> QED
    BY <1>13, <2>4 DEF Read, TypeOK, Rec
<1>14. CASE ReadEof
  BY <1>14 DEF ReadEof, TypeOK
<1>15. CASE Cancel
  BY <1>15, ConstAssumption DEF Cancel, TypeOK
<1> QED
  BY <1>1, <1>2, <1>3, <1>4, <1>5, <1>6, <1>7, <1>8, <1>9, <1>10, <1>11, <1>12, <1>13,
     <1>14, <1>15 DEF Next, Target, DetachStep, Terminated

\* Every variable has its type, however many processes there are.
THEOREM TypeCorrect == Spec => []TypeOK
<1> QED
  BY InitType, NextType, PTL DEF Spec

-------------------------------------------------------------------------------
(* RunsPrepared *)

LEMMA InitPrepared == Init => CreationInv /\ HasKit
<1> SUFFICES ASSUME Init PROVE CreationInv /\ HasKit
  OBVIOUS
<1>1. \A c \in Creator : cp[c].step # 0 => c = Spawner
  BY NoCpType DEF Init
<1>2. Spawner \in Creator => cp[Spawner].step = 1 /\ cp[Spawner].child = Root
  BY DEF Init
<1>3. st[Root] = "suspended"
  BY ConstAssumption DEF Init
<1> QED
  BY <1>1, <1>2, <1>3, ConstAssumption DEF Init, CreationInv, HasKit

\* A step that takes nothing from a suspended process, starts no creation and
\* leaves no child neither suspended nor gone keeps CreationInv.
LEMMA CreationKept ==
  ASSUME TypeOK, CreationInv,
         \A c \in Creator : cp'[c].step # 0 => cp'[c] = cp[c],
         \A p \in Proc : st[p] \in {"suspended", "gone"} => st'[p] \in {st[p], "gone"},
         \A p \in Proc : st'[p] = "suspended" => has[p] \subseteq has'[p]
  PROVE  CreationInv'
<1> SUFFICES ASSUME NEW c \in Creator, cp'[c].step # 0
             PROVE  /\ cp'[c].child \in Proc
                    /\ st'[cp'[c].child] \in {"suspended", "gone"}
                    /\ st'[cp'[c].child] = "suspended" =>
                         \A i \in 1..3 : i < cp'[c].step => Steps(c)[i] \in has'[cp'[c].child]
                    /\ \A d \in Creator :
                         cp'[d].step # 0 /\ cp'[d].child = cp'[c].child => d = c
  BY DEF CreationInv, Steps
<1>1. cp'[c] = cp[c] /\ cp[c].step # 0
  OBVIOUS
<1>2. /\ cp[c].child \in Proc
      /\ st[cp[c].child] \in {"suspended", "gone"}
      /\ st[cp[c].child] = "suspended" =>
           \A i \in 1..3 : i < cp[c].step => Steps(c)[i] \in has[cp[c].child]
      /\ \A d \in Creator : cp[d].step # 0 /\ cp[d].child = cp[c].child => d = c
  BY <1>1 DEF CreationInv
<1>3. st'[cp[c].child] = "suspended" => st[cp[c].child] = "suspended"
  BY <1>2
<1> QED
  BY <1>1, <1>2, <1>3

\* The process that vanishes keeps nothing that is asked for.
LEMMA VanishPrepared ==
  ASSUME TypeOK, CreationInv, HasKit, NEW p \in Proc, Vanish(p)
  PROVE  CreationInv' /\ HasKit'
<1>1. CreationInv'
  <2>1. \A c \in Creator : cp'[c].step # 0 => cp'[c] = cp[c]
    BY NoCpType DEF Vanish, TypeOK
  <2>2. \A q \in Proc : st'[q] = (IF q = p THEN "gone" ELSE st[q])
    BY DEF Vanish, TypeOK
  <2>3. \A q \in Proc : st'[q] = "suspended" => has[q] \subseteq has'[q]
    BY <2>2 DEF Vanish, TypeOK
  <2> QED
    BY <2>1, <2>2, <2>3, CreationKept
<1>2. HasKit'
  BY DEF Vanish, TypeOK, HasKit
<1> QED
  BY <1>1, <1>2

\* The four steps put the whole Kit into the child before they resume it.
LEMMA StepsKit ==
  ASSUME NEW c \in Creator
  PROVE  /\ Steps(c)[4] = "resume"
         /\ Kit = {Steps(c)[1], Steps(c)[2], Steps(c)[3]}
         /\ \A i \in 1..3 : Steps(c)[i] \in Kit /\ Steps(c)[i] # "resume"
         /\ \A i \in 1..4 : Steps(c)[i] # "none"
<1>1. CASE c = Spawner
  BY <1>1 DEF Steps, Kit
<1>2. CASE c # Spawner
  BY <1>2 DEF Steps, Kit
<1> QED
  BY <1>1, <1>2

\* One step of a creation, in the terms of the child.
LEMMA CreateStepPrepared ==
  ASSUME TypeOK, CreationInv, HasKit, NEW c \in Creator, CreateStep(c)
  PROVE  CreationInv' /\ HasKit'
<1> DEFINE q == cp[c].child
           n == cp[c].step
<1>0. cp \in [Creator -> CpType]
  BY DEF TypeOK, CpType
<1>1. n \in 1..4 /\ StepOf(c) = Steps(c)[n]
  BY <1>0 DEF CreateStep, StepOf, CpType
<1>2. /\ q \in Proc /\ st[q] = "suspended"
      /\ \A i \in 1..3 : i < n => Steps(c)[i] \in has[q]
      /\ \A d \in Creator : cp[d].step # 0 /\ cp[d].child = q => d = c
  BY <1>1 DEF CreationInv, CreateStep
<1>3. /\ has' = [has EXCEPT ![q] = @ \cup ({Steps(c)[n]} \cap Kit)]
      /\ st' = [st EXCEPT ![q] = AfterStep(c, @)]
      /\ cp' = [cp EXCEPT ![c] = Advance(@)]
  BY <1>1 DEF CreateStep
<1>4. cp[c] \in CpType /\ cp'[c] = Advance(cp[c])
  BY <1>0, <1>3
<1>5. \A d \in Creator \ {c} : cp'[d] = cp[d]
  BY <1>0, <1>3
<1>6. \A p \in Proc \ {q} : st'[p] = st[p] /\ has'[p] = has[p]
  BY <1>3 DEF TypeOK
<1>7. /\ st'[q] = AfterStep(c, "suspended")
      /\ has'[q] = has[q] \cup ({Steps(c)[n]} \cap Kit)
  BY <1>2, <1>3 DEF TypeOK
<1> HIDE DEF q, n
<1>8. CASE n = 4
  <2>1. has'[q] = Kit
    <3>1. {Steps(c)[1], Steps(c)[2], Steps(c)[3]} \subseteq has[q] /\ has[q] \subseteq Kit
      BY <1>2, <1>8 DEF TypeOK
    <3> QED
      BY <3>1, <1>7, StepsKit
  <2>2. cp'[c].step = 0
    BY <1>4, <1>8, AdvanceType DEF n
  <2>3. ASSUME NEW d \in Creator, cp'[d].step # 0
        PROVE  d # c /\ cp'[d] = cp[d] /\ cp[d].child # q /\ cp[d].child \in Proc
    <3>1. d # c /\ cp'[d] = cp[d]
      BY <2>2, <2>3, <1>5
    <3> QED
      BY <3>1, <2>3, <1>2 DEF CreationInv
  <2>4. CreationInv'
    <3> SUFFICES ASSUME NEW d \in Creator, cp'[d].step # 0
                 PROVE  /\ cp'[d].child \in Proc
                        /\ st'[cp'[d].child] \in {"suspended", "gone"}
                        /\ st'[cp'[d].child] = "suspended" =>
                             \A i \in 1..3 : i < cp'[d].step =>
                               Steps(d)[i] \in has'[cp'[d].child]
                        /\ \A e \in Creator :
                             cp'[e].step # 0 /\ cp'[e].child = cp'[d].child => e = d
      BY DEF CreationInv, Steps
    <3>1. cp'[d] = cp[d] /\ cp[d].child # q /\ cp[d].child \in Proc /\ cp[d].step # 0
      BY <2>3
    <3>2. st'[cp[d].child] = st[cp[d].child] /\ has'[cp[d].child] = has[cp[d].child]
      BY <3>1, <1>6
    <3> QED
      BY <3>1, <3>2, <2>3 DEF CreationInv
  <2>5. HasKit'
    BY <2>1, <1>6 DEF HasKit
  <2> QED
    BY <2>4, <2>5
<1>9. CASE n # 4
  <2>1. n \in 1..3 /\ cp'[c].step = n + 1 /\ cp'[c].child = q
    BY <1>1, <1>4, <1>9, AdvanceType DEF n, q
  <2>2. st'[q] = "suspended"
    BY <1>7, <2>1, <1>1, StepsKit DEF AfterStep, Resumes
  <2>3. \A i \in 1..3 : i < n + 1 => Steps(c)[i] \in has'[q]
    BY <1>2, <1>7, <2>1, StepsKit
  <2>4. CreationInv'
    <3> SUFFICES ASSUME NEW d \in Creator, cp'[d].step # 0
                 PROVE  /\ cp'[d].child \in Proc
                        /\ st'[cp'[d].child] \in {"suspended", "gone"}
                        /\ st'[cp'[d].child] = "suspended" =>
                             \A i \in 1..3 : i < cp'[d].step =>
                               Steps(d)[i] \in has'[cp'[d].child]
                        /\ \A e \in Creator :
                             cp'[e].step # 0 /\ cp'[e].child = cp'[d].child => e = d
      BY DEF CreationInv, Steps
    <3>1. \A e \in Creator : cp'[e].step # 0 => cp[e].step # 0 /\ cp'[e].child = cp[e].child
      BY <1>1, <1>5, <2>1 DEF n, q
    <3>2. CASE d = c
      BY <3>1, <3>2, <2>1, <2>2, <2>3, <1>2
    <3>3. CASE d # c
      <4>1. cp'[d] = cp[d] /\ cp[d].child # q /\ cp[d].child \in Proc /\ cp[d].step # 0
        BY <3>3, <1>5, <1>2 DEF CreationInv
      <4>2. st'[cp[d].child] = st[cp[d].child] /\ has'[cp[d].child] = has[cp[d].child]
        BY <4>1, <1>6
      <4> QED
        BY <4>1, <4>2, <3>1 DEF CreationInv
    <3> QED
      BY <3>2, <3>3
  <2>5. HasKit'
    BY <2>2, <1>6 DEF HasKit
  <2> QED
    BY <2>4, <2>5
<1> QED
  BY <1>8, <1>9

LEMMA NextPrepared ==
  ASSUME TypeOK, CreationInv, HasKit, [Next]_vars
  PROVE  CreationInv' /\ HasKit'
<1>0. cp \in [Creator -> CpType] /\ Spawner \in Creator /\ Proc \subseteq Creator
  BY DEF TypeOK, CpType, Creator
<1>1. CASE UNCHANGED <<st, has, cp>>
  BY <1>1 DEF CreationInv, HasKit, Steps
<1>2. ASSUME NEW p \in Proc, Vanish(p)
      PROVE  CreationInv' /\ HasKit'
  BY <1>2, VanishPrepared
<1>3. ASSUME NEW p \in Proc, ExitProcess(p)
      PROVE  CreationInv' /\ HasKit'
  <2>1. \A c \in Creator : cp'[c].step # 0 => cp'[c] = cp[c]
    BY <1>3, <1>0, NoCpType DEF ExitProcess
  <2>2. \A q \in Proc : st'[q] = (IF q = p THEN "exit" ELSE st[q])
    BY <1>3 DEF ExitProcess, TypeOK
  <2>3. st[p] = "run" /\ has' = has
    BY <1>3 DEF ExitProcess
  <2>4. CreationInv'
    BY <2>1, <2>2, <2>3, CreationKept
  <2> QED
    BY <2>2, <2>3, <2>4 DEF HasKit
<1>4. ASSUME NEW p \in Proc, ResumeLater(p)
      PROVE  CreationInv' /\ HasKit'
  <2>1. \A q \in Proc : st'[q] = (IF q = p THEN "run" ELSE st[q])
    BY <1>4 DEF ResumeLater, TypeOK
  <2>2. st[p] = "held" /\ has' = has /\ cp' = cp
    BY <1>4 DEF ResumeLater
  <2>3. CreationInv'
    BY <2>1, <2>2, CreationKept
  <2> QED
    BY <2>1, <2>2, <2>3 DEF HasKit
<1>5. ASSUME NEW p \in Proc, NEW q \in Proc, NEW a \in Access \cup {None},
             NEW susp \in BOOLEAN, CreateProcess(p, q, a, susp)
      PROVE  CreationInv' /\ HasKit'
  <2>1. /\ st[q] = "none" /\ p \in Creator /\ has' = has
        /\ \A r \in Proc : st'[r] = (IF r = q THEN "suspended" ELSE st[r])
    BY <1>5, <1>0 DEF CreateProcess, TypeOK
  <2>2. cp'[p].step = 1 /\ cp'[p].child = q /\ \A c \in Creator \ {p} : cp'[c] = cp[c]
    BY <1>5, <1>0 DEF CreateProcess
  <2>3. \A c \in Creator : cp[c].step # 0 => cp[c].child # q
    BY <2>1 DEF CreationInv
  <2>4. CreationInv'
    <3> SUFFICES ASSUME NEW d \in Creator, cp'[d].step # 0
                 PROVE  /\ cp'[d].child \in Proc
                        /\ st'[cp'[d].child] \in {"suspended", "gone"}
                        /\ st'[cp'[d].child] = "suspended" =>
                             \A i \in 1..3 : i < cp'[d].step =>
                               Steps(d)[i] \in has'[cp'[d].child]
                        /\ \A e \in Creator :
                             cp'[e].step # 0 /\ cp'[e].child = cp'[d].child => e = d
      BY DEF CreationInv, Steps
    <3>1. CASE d = p
      BY <3>1, <2>1, <2>2, <2>3
    <3>2. CASE d # p
      <4>1. cp'[d] = cp[d] /\ cp[d].step # 0 /\ cp[d].child # q /\ cp[d].child \in Proc
        BY <3>2, <2>2, <2>3 DEF CreationInv
      <4>2. st'[cp[d].child] = st[cp[d].child]
        BY <4>1, <2>1
      <4> QED
        BY <4>1, <4>2, <2>1, <2>2 DEF CreationInv
    <3> QED
      BY <3>1, <3>2
  <2> QED
    BY <2>1, <2>4 DEF HasKit
<1>6. ASSUME NEW c \in Creator, CreateFails(c)
      PROVE  CreationInv' /\ HasKit'
  <2>1. \A d \in Creator : cp'[d].step # 0 => cp'[d] = cp[d]
    BY <1>6, <1>0, NoCpType DEF CreateFails
  <2>2. cp[c].step # 0
    BY <1>6 DEF CreateFails, StepOf
  <2>3. cp[c].child \in Proc /\ st[cp[c].child] \in {"suspended", "gone"}
    BY <2>2 DEF CreationInv
  <2>4. \A p \in Proc : st'[p] = st[p] \/ st'[p] = "gone"
    BY <1>6 DEF CreateFails, TypeOK
  <2>5. \A p \in Proc : st'[p] # "gone" => has'[p] = has[p]
    BY <1>6, <2>3 DEF CreateFails, TypeOK
  <2>6. CreationInv'
    BY <2>1, <2>4, <2>5, CreationKept
  <2> QED
    BY <2>4, <2>5, <2>6 DEF HasKit
<1>7. ASSUME NEW c \in Creator, CreateStep(c)
      PROVE  CreationInv' /\ HasKit'
  BY <1>7, CreateStepPrepared
<1>8. ASSUME NEW p \in Proc, DetachStep(p)
      PROVE  Vanish(p) \/ UNCHANGED <<st, has, cp>>
  BY <1>8 DEF DetachStep, EndDetach, write_pipe_message
<1>9. ASSUME NEW p \in Proc, Target(p)
      PROVE  CreationInv' /\ HasKit'
  BY <1>9, <1>1, <1>2, <1>3, <1>4, <1>5 DEF Target, Terminate, EndInsert, BeginInsert
<1>10. CASE DropSender \/ Read \/ ReadEof \/ Cancel \/ Terminated \/ UNCHANGED vars
  BY <1>10, <1>1 DEF DropSender, Read, ReadEof, Cancel, Terminated, vars
<1> QED
  BY <1>1, <1>2, <1>6, <1>7, <1>8, <1>9, <1>10 DEF Next

\* No process runs code before the DLL, the payload and the pipe are in place,
\* whoever creates it and whatever fails.
THEOREM Prepared == Spec => []RunsPrepared
<1>1. Init => TypeOK /\ CreationInv /\ HasKit
  BY InitType, InitPrepared
<1>2. TypeOK /\ CreationInv /\ HasKit /\ [Next]_vars => (TypeOK /\ CreationInv /\ HasKit)'
  BY NextType, NextPrepared
<1>3. HasKit => RunsPrepared
  BY DEF HasKit, RunsPrepared
<1> QED
  BY <1>1, <1>2, <1>3, PTL DEF Spec

-------------------------------------------------------------------------------
(* CompleteOnce *)

FlowInv == WrittenOnce /\ NoneLost

LEMMA InitFlow == Init => FlowInv
<1> SUFFICES ASSUME Init PROVE FlowInv
  OBVIOUS
<1>1. Range(pipe) = {} /\ Range(arena) = {} /\ IsInjective(pipe) /\ IsInjective(arena)
  BY EmptyRange DEF Init
<1> QED
  BY <1>1 DEF Init, FlowInv, WrittenOnce, NoneLost, Written

\* The process of a message is a process.
LEMMA RangeType ==
  ASSUME TypeOK
  PROVE  /\ \A r \in Range(pipe) : r \in Rec /\ r.from \in Proc
         /\ \A r \in Range(arena) : r \in Rec /\ r.from \in Proc
<1>1. pipe \in Seq(Rec) /\ arena \in Seq(Rec)
  BY DEF TypeOK, Rec
<1>2. \A r \in Range(pipe) : r \in Rec
  BY <1>1, LenProperties, ElementOfSeq DEF Range
<1>3. \A r \in Range(arena) : r \in Rec
  BY <1>1, LenProperties, ElementOfSeq DEF Range
<1>4. \A r \in Rec : r.from \in Proc
  BY DEF Rec
<1> QED
  BY <1>2, <1>3, <1>4

\* Messages stay where they are; processes only move on towards "gone", and one
\* that comes to "gone" has written all it had, unless it was killed.
LEMMA FlowKept ==
  ASSUME TypeOK, FlowInv, UNCHANGED <<arena, phase, messages>>,
         pipe' = pipe, clean' = clean,
         \A p \in Proc : flush'[p] \in {flush[p], {}},
         \A p \in Proc : flush'[p] # {} => st'[p] = "exit",
         \A p \in Proc : st[p] \in {"exit", "gone"} => st'[p] \in {st[p], "gone"},
         \A p \in Proc : st'[p] = "exit" => st[p] = "exit" /\ flush'[p] = flush[p]
  PROVE  FlowInv'
<1>1. WrittenOnce'
  <2>1. \A p \in clean' : st'[p] = "gone"
    BY DEF FlowInv, WrittenOnce, TypeOK
  <2>2. Written(pipe)' /\ Written(arena)'
    <3>1. ASSUME NEW r, r.from \in Proc, st[r.from] \in {"exit", "gone"},
                 r.acc \notin flush[r.from]
          PROVE  st'[r.from] \in {"exit", "gone"} /\ r.acc \notin flush'[r.from]
      BY <3>1
    <3> QED
      BY <3>1, RangeType DEF FlowInv, WrittenOnce, Written
  <2> QED
    BY <2>1, <2>2 DEF FlowInv, WrittenOnce
<1>2. NoneLost'
  <2>1. phase' = "done" => pipe' = <<>>
    BY DEF FlowInv, NoneLost
  <2>2. ASSUME phase' # "failed", NEW p \in Proc, st'[p] = "exit" \/ p \in clean',
               NEW a \in messages'[p]
        PROVE  a \in flush'[p] \/ [from |-> p, acc |-> a] \in Range(pipe') \cup Range(arena')
    <3>1. st[p] = "exit" \/ p \in clean
      BY <2>2
    <3>2. a \in flush[p] \/ [from |-> p, acc |-> a] \in Range(pipe) \cup Range(arena)
      BY <3>1, <2>2 DEF FlowInv, NoneLost
    <3>3. p \in clean => flush[p] = {}
      BY DEF FlowInv, WrittenOnce
    <3> QED
      BY <2>2, <3>1, <3>2, <3>3
  <2> QED
    BY <2>1, <2>2 DEF NoneLost
<1> QED
  BY <1>1, <1>2 DEF FlowInv

\* The reader is gone: nothing is owed any more.
LEMMA FlowFailed ==
  ASSUME TypeOK, FlowInv, phase' = "failed", pipe' = <<>> \/ pipe' = pipe,
         UNCHANGED <<arena, clean>>,
         \A p \in Proc : flush'[p] \in {flush[p], {}},
         \A p \in Proc : flush'[p] # {} => st'[p] = "exit",
         \A p \in Proc : st[p] \in {"exit", "gone"} => st'[p] \in {st[p], "gone"}
  PROVE  FlowInv'
<1>1. Range(pipe') \subseteq Range(pipe) /\ IsInjective(pipe')
  BY EmptyRange DEF FlowInv, WrittenOnce
<1>2. Written(pipe)' /\ Written(arena)'
  <2>1. ASSUME NEW r, r.from \in Proc, st[r.from] \in {"exit", "gone"},
               r.acc \notin flush[r.from]
        PROVE  st'[r.from] \in {"exit", "gone"} /\ r.acc \notin flush'[r.from]
    BY <2>1
  <2> QED
    BY <1>1, <2>1, RangeType DEF FlowInv, WrittenOnce, Written
<1>3. \A p \in clean' : st'[p] = "gone"
  BY DEF FlowInv, WrittenOnce, TypeOK
<1>4. WrittenOnce'
  BY <1>1, <1>2, <1>3 DEF FlowInv, WrittenOnce
<1>5. NoneLost'
  BY DEF NoneLost
<1> QED
  BY <1>4, <1>5 DEF FlowInv

LEMMA NextFlow ==
  ASSUME TypeOK, CreationInv, FlowInv, [Next]_vars
  PROVE  FlowInv'
<1>1. CASE UNCHANGED <<st, messages, flush, pipe, phase, arena, clean>>
  BY <1>1 DEF FlowInv, WrittenOnce, NoneLost, Written
<1>v. ASSUME NEW p \in Proc, Vanish(p)
      PROVE  /\ \A q \in Proc : st'[q] = (IF q = p THEN "gone" ELSE st[q])
             /\ \A q \in Proc : flush'[q] = (IF q = p THEN {} ELSE flush[q])
             /\ \A q \in Proc : flush'[q] # {} => st'[q] = "exit"
  BY <1>v DEF Vanish, TypeOK, FlowInv, WrittenOnce
<1>2. ASSUME NEW p \in Proc, Terminate(p)
      PROVE  FlowInv'
  BY <1>2, <1>v, FlowKept DEF Terminate
<1>3. ASSUME NEW p \in Proc, st[p] = "run", \A q \in Proc \ {p} : messages'[q] = messages[q],
             \/ UNCHANGED st
             \/ \E q \in Proc : st[q] = "none" /\ st' = [st EXCEPT ![q] = "suspended"],
             UNCHANGED <<flush, pipe, phase, arena, clean>>
      PROVE  FlowInv'
  <2>1. \A q \in Proc : st[q] # "none" => st'[q] = st[q]
    BY <1>3 DEF TypeOK
  <2>2. \A q \in Proc : st'[q] = "exit" => st[q] = "exit"
    BY <1>3 DEF TypeOK
  <2>3. p \notin clean
    BY <1>3 DEF FlowInv, WrittenOnce
  <2>4. WrittenOnce'
    BY <1>3, <2>1, RangeType DEF FlowInv, WrittenOnce, Written, TypeOK
  <2>5. NoneLost'
    BY <1>3, <2>2, <2>3 DEF FlowInv, NoneLost
  <2> QED
    BY <2>4, <2>5 DEF FlowInv
<1>4. ASSUME NEW p \in Proc, EndInsert(p)
      PROVE  FlowInv'
  BY <1>4, <1>3 DEF EndInsert, TypeOK
<1>5. ASSUME NEW p \in Proc, NEW q \in Proc, NEW a \in Access \cup {None},
             NEW susp \in BOOLEAN, CreateProcess(p, q, a, susp)
      PROVE  FlowInv'
  BY <1>5, <1>3 DEF CreateProcess, TypeOK
<1>6. ASSUME NEW q \in Proc, st[q] \notin {"exit", "gone"}, NEW s, s # "exit",
             st' = [st EXCEPT ![q] = s], UNCHANGED <<messages, flush, pipe, phase, arena, clean>>
      PROVE  FlowInv'
  <2>1. \A p \in Proc : st'[p] = (IF p = q THEN s ELSE st[p])
    BY <1>6 DEF TypeOK
  <2>2. \A p \in Proc : flush'[p] # {} => st'[p] = "exit"
    BY <1>6, <2>1 DEF FlowInv, WrittenOnce
  <2> QED
    BY <2>1, <2>2, <1>6, FlowKept
<1>7. ASSUME NEW p \in Proc, ResumeLater(p)
      PROVE  FlowInv'
  BY <1>7, <1>6 DEF ResumeLater
<1>8. ASSUME NEW c \in Creator, CreateStep(c)
      PROVE  FlowInv'
  <2>1. cp[c].child \in Proc /\ st[cp[c].child] = "suspended"
    BY <1>8 DEF CreateStep, StepOf, CreationInv
  <2>2. AfterStep(c, "suspended") # "exit"
    BY DEF AfterStep
  <2> QED
    BY <1>8, <1>6, <2>1, <2>2 DEF CreateStep
<1>9. ASSUME NEW c \in Creator, CreateFails(c)
      PROVE  FlowInv'
  <2>1. cp[c].child \in Proc /\ st[cp[c].child] \in {"suspended", "gone"}
    BY <1>9 DEF CreateFails, StepOf, CreationInv
  <2>2. \A p \in Proc : st'[p] = st[p] \/ (st'[p] = "gone" /\ st[p] \in {"suspended", "gone"})
    BY <1>9, <2>1 DEF CreateFails, TypeOK
  <2>3. \A p \in Proc : flush'[p] # {} => st'[p] = "exit"
    BY <1>9, <2>2 DEF CreateFails, FlowInv, WrittenOnce
  <2>4. UNCHANGED <<messages, flush, arena, clean>>
    BY <1>9 DEF CreateFails
  <2>5. CASE UNCHANGED <<phase, pipe>>
    BY <2>2, <2>3, <2>4, <2>5, FlowKept
  <2>6. CASE phase' = "failed" /\ pipe' = <<>>
    BY <2>2, <2>3, <2>4, <2>6, FlowFailed
  <2> QED
    BY <1>9, <2>5, <2>6 DEF CreateFails
<1>10. ASSUME NEW p \in Proc, ExitProcess(p)
       PROVE  FlowInv'
  <2>1. st[p] = "run" /\ UNCHANGED <<messages, pipe, phase, arena, clean>>
    BY <1>10 DEF ExitProcess
  <2>2. /\ \A q \in Proc : st'[q] = (IF q = p THEN "exit" ELSE st[q])
        /\ \A q \in Proc : flush'[q] = (IF q = p THEN messages[p] ELSE flush[q])
    BY <1>10 DEF ExitProcess, TypeOK
  <2>3. \A r \in Range(pipe) \cup Range(arena) : r.from # p
    BY <2>1 DEF FlowInv, WrittenOnce, Written
  <2>4. WrittenOnce'
    BY <2>1, <2>2, <2>3, RangeType DEF FlowInv, WrittenOnce, Written, TypeOK
  <2>5. NoneLost'
    BY <2>1, <2>2 DEF FlowInv, NoneLost
  <2> QED
    BY <2>4, <2>5 DEF FlowInv
<1>11. ASSUME NEW p \in Proc, EndDetach(p)
       PROVE  FlowInv'
  <2>1. /\ st[p] = "exit" /\ flush[p] = {} /\ clean' = clean \cup {p}
        /\ UNCHANGED <<messages, pipe, phase, arena>>
    BY <1>11 DEF EndDetach
  <2>2. /\ \A q \in Proc : st'[q] = (IF q = p THEN "gone" ELSE st[q])
        /\ \A q \in Proc : flush'[q] = flush[q]
    BY <1>11, <1>v, <2>1 DEF EndDetach
  <2>3. WrittenOnce'
    BY <2>1, <2>2, RangeType DEF FlowInv, WrittenOnce, Written, TypeOK
  <2>4. NoneLost'
    BY <2>1, <2>2 DEF FlowInv, NoneLost
  <2> QED
    BY <2>3, <2>4 DEF FlowInv
<1>12. ASSUME NEW p \in Proc, NEW a \in Access, write_pipe_message(p, a)
       PROVE  FlowInv'
  <2>1. CASE phase = "failed"
    <3>1. Vanish(p) /\ UNCHANGED <<pipe, messages, phase, arena, clean>>
      BY <1>12, <2>1 DEF write_pipe_message
    <3> QED
      BY <3>1, <1>v, FlowKept
  <2>2. CASE phase # "failed"
    <3> DEFINE e == [from |-> p, acc |-> a]
    <3>1. /\ st[p] = "exit" /\ a \in flush[p] /\ phase = "read" /\ pipe' = Append(pipe, e)
          /\ flush' = [flush EXCEPT ![p] = @ \ {a}]
          /\ UNCHANGED <<st, messages, phase, arena, clean>>
      BY <2>2, <1>12 DEF write_pipe_message
    <3>2. e \in Rec /\ e.from = p /\ e.acc = a /\ pipe \in Seq(Rec)
      BY DEF Rec, TypeOK
    <3> HIDE DEF e
    <3>3. e \notin Range(pipe) \cup Range(arena)
      BY <3>1, <3>2 DEF FlowInv, WrittenOnce, Written
    <3>4. Range(pipe') = Range(pipe) \cup {e} /\ IsInjective(pipe')
      BY <3>1, <3>2, <3>3, AppendRange DEF FlowInv, WrittenOnce
    <3>5. \A q \in Proc : flush'[q] = (IF q = p THEN flush[q] \ {a} ELSE flush[q])
      BY <3>1 DEF TypeOK
    <3>6. Written(pipe)' /\ Written(arena)'
      <4>1. st'[p] = "exit" /\ flush'[p] = flush[p] \ {a}
        BY <3>1, <3>5
      <4>2. st'[e.from] \in {"exit", "gone"} /\ e.acc \notin flush'[e.from]
        BY <4>1, <3>2
      <4> QED
        BY <4>2, <3>1, <3>4, <3>5, RangeType DEF FlowInv, WrittenOnce, Written
    <3>7. WrittenOnce'
      BY <3>1, <3>3, <3>4, <3>5, <3>6 DEF FlowInv, WrittenOnce
    <3>8. NoneLost'
      BY <3>1, <3>4, <3>5 DEF FlowInv, NoneLost, e
    <3> QED
      BY <3>7, <3>8 DEF FlowInv
  <2> QED
    BY <2>1, <2>2
<1>13. CASE Read
  <2>1. CASE phase' = "failed"
    <3>1. UNCHANGED <<st, messages, flush, clean>> /\ pipe' = <<>> /\ UNCHANGED arena
      BY <1>13, <2>1 DEF Read
    <3> QED
      BY <2>1, <3>1, FlowFailed DEF FlowInv, WrittenOnce
  <2>2. CASE phase' # "failed"
    <3>1. /\ phase = "read" /\ pipe # <<>> /\ arena' = Append(arena, Head(pipe))
          /\ pipe' = Tail(pipe) /\ UNCHANGED <<st, messages, flush, clean, phase>>
      BY <1>13, <2>2 DEF Read
    <3>2. pipe \in Seq(Rec) /\ arena \in Seq(Rec) /\ Head(pipe) \in Rec
      BY <3>1, HeadTailProperties DEF TypeOK, Rec
    <3>3. /\ Range(pipe) = Range(pipe') \cup {Head(pipe)}
          /\ IsInjective(pipe') /\ Head(pipe) \notin Range(pipe')
      BY <3>1, <3>2, TailRange DEF FlowInv, WrittenOnce
    <3>4. Range(arena') = Range(arena) \cup {Head(pipe)} /\ IsInjective(arena')
      BY <3>1, <3>2, <3>3, AppendRange DEF FlowInv, WrittenOnce
    <3>5. Range(pipe') \cup Range(arena') = Range(pipe) \cup Range(arena)
      BY <3>3, <3>4
    <3>6. Written(pipe)' /\ Written(arena)'
      BY <3>1, <3>3, <3>4 DEF FlowInv, WrittenOnce, Written
    <3>7. WrittenOnce'
      BY <3>1, <3>3, <3>4, <3>6 DEF FlowInv, WrittenOnce
    <3>8. NoneLost'
      BY <3>1, <3>5 DEF FlowInv, NoneLost
    <3> QED
      BY <3>7, <3>8 DEF FlowInv
  <2> QED
    BY <2>1, <2>2
<1>14. CASE ReadEof
  BY <1>14 DEF ReadEof, FlowInv, WrittenOnce, NoneLost, Written
<1>15. CASE Cancel
  <2>1. UNCHANGED <<st, flush, arena, clean>> /\ phase' = "failed" /\ pipe' = <<>>
    BY <1>15 DEF Cancel
  <2> QED
    BY <2>1, FlowFailed DEF FlowInv, WrittenOnce
<1>16. ASSUME NEW p \in Proc, Target(p) \/ DetachStep(p)
       PROVE  FlowInv'
  BY <1>16, <1>1, <1>2, <1>4, <1>5, <1>7, <1>10, <1>11, <1>12
     DEF Target, DetachStep, BeginInsert
<1>17. CASE DropSender \/ Terminated \/ UNCHANGED vars
  BY <1>17, <1>1 DEF DropSender, Terminated, vars
<1> QED
  BY <1>8, <1>9, <1>13, <1>14, <1>15, <1>16, <1>17 DEF Next

\* At end of file every access of every process that ended by ExitProcess was
\* read, and none was read twice.
THEOREM ReadsAllOnce == Spec => []CompleteOnce
<1> DEFINE Inv == TypeOK /\ CreationInv /\ HasKit /\ FlowInv
<1>1. Init => Inv
  BY InitType, InitPrepared, InitFlow
<1>2. Inv /\ [Next]_vars => Inv'
  BY NextType, NextPrepared, NextFlow
<1>3. Inv => CompleteOnce
  <2> SUFFICES ASSUME Inv PROVE CompleteOnce
    OBVIOUS
  <2>1. ASSUME phase = "done", NEW p \in clean, NEW a \in messages[p]
        PROVE  [from |-> p, acc |-> a] \in Range(arena)
    <3>1. p \in Proc /\ flush[p] = {}
      BY DEF TypeOK, FlowInv, WrittenOnce
    <3>2. Range(pipe) = {}
      BY <2>1, EmptyRange DEF FlowInv, NoneLost
    <3> QED
      BY <2>1, <3>1, <3>2 DEF FlowInv, NoneLost
  <2> QED
    BY <2>1 DEF CompleteOnce, FlowInv, WrittenOnce
<1> HIDE DEF Inv
<1> QED
  BY <1>1, <1>2, <1>3, PTL DEF Spec

===============================================================================
