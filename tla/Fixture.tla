------------------------------- MODULE Fixture -------------------------------
(***************************************************************************)
(* Extraction of the embedded binaries (Fixture::write_to) by Spy::new on  *)
(* macOS and Windows: several processes start at once, die or run out of   *)
(* disk half-way, find the target loaded by somebody else, and somebody    *)
(* cleans the temporary directory.                                         *)
(*                                                                         *)
(* A file is an inode with the number of blocks written to it; the final   *)
(* path of a fixture contains the hash of its content, so that a path      *)
(* stands for one content.  A temporary name is drawn at random: names     *)
(* that are in use may be drawn again.                                     *)
(***************************************************************************)
EXTENDS Integers, FiniteSets

CONSTANTS Writer,     \* processes that call Spy::new
          NFixture,   \* number of fixtures of the platform
          Tmp,        \* temporary names
          Inode,      \* files
          NoInode,    \* not a file
          Blocks,     \* number of writes that write_all needs
          MaxEvents   \* bound on faults: see Event

Fix == 1..NFixture
Name == Fix \cup Tmp        \* the final path of each fixture, and the others

ASSUME ConstAssumption ==
  /\ NFixture \in Nat \ {0}
  /\ Tmp \cap Fix = {}
  /\ NoInode \notin Inode
  /\ Blocks \in Nat \ {0}
  /\ MaxEvents \in Nat

VARIABLES
  dir,      \* the directory exists
  names,    \* name -> its inode, or NoInode
  content,  \* inode -> blocks written
  pc,       \* writer -> where it is in write_to
  fix,      \* writer -> the fixture it is at
  tmp, ino, \* writer -> tmp_path and tmp_file, while it has them
  cleaned,  \* history: final paths that somebody removed
  dirty,    \* history: a writer has died or failed with its temporary file
  events

vars == <<dir, names, content, pc, fix, tmp, ino, cleaned, dirty, events>>

Pcs == {"mkdir", "exists", "open", "write", "rename", "recheck", "remove", "ok", "err", "dead"}
\* the writer has a temporary file
Owning == {"write", "rename", "recheck", "remove"}

Init ==
  /\ dir = FALSE
  /\ names = [n \in Name |-> NoInode]
  /\ content = [i \in Inode |-> 0]
  /\ pc = [w \in Writer |-> "mkdir"]
  /\ fix = [w \in Writer |-> 1]
  /\ tmp = [w \in Writer |-> 1]
  /\ ino = [w \in Writer |-> NoInode]
  /\ cleaned = {} /\ dirty = FALSE
  /\ events = 0

\* failing system calls, deaths and removals by others
Event == events < MaxEvents /\ events' = events + 1

Goto(w, label) == pc' = [pc EXCEPT ![w] = label]

\* Spy::new: create_dir, whose failure is ignored
CreateDir(w) ==
  /\ pc[w] = "mkdir"
  /\ \/ dir' = TRUE /\ UNCHANGED events
     \/ UNCHANGED dir /\ Event
  /\ Goto(w, "exists")
  /\ UNCHANGED <<names, content, fix, tmp, ino, cleaned, dirty>>

\* write_to returned Ok: init_in takes the next fixture or is done
Returns(w) ==
  /\ pc' = [pc EXCEPT ![w] = IF fix[w] = NFixture THEN "ok" ELSE "exists"]
  /\ fix' = [fix EXCEPT ![w] = IF @ = NFixture THEN @ ELSE @ + 1]

\* fs::exists(&path) at the beginning
Exists(w) ==
  /\ pc[w] = "exists"
  /\ \/ names[fix[w]] # NoInode /\ Returns(w)
     \/ names[fix[w]] = NoInode /\ Goto(w, "open") /\ UNCHANGED fix
  /\ UNCHANGED <<dir, names, content, tmp, ino, cleaned, dirty, events>>

Unnamed == {i \in Inode : (\A n \in Name : names[n] # i) /\ (\A w \in Writer : ino[w] # i)}

NewInode == CHOOSE i \in Unnamed : TRUE

\* Mutant: create instead of create_new, the file of another writer is taken.
OpenTmp_existing(w, t) ==
  LET i == IF names[t] = NoInode THEN NewInode ELSE names[t] IN
  /\ pc[w] = "open"
  /\ dir
  /\ Unnamed # {}
  /\ names' = [names EXCEPT ![t] = i]
  /\ content' = [content EXCEPT ![i] = 0]
  /\ tmp' = [tmp EXCEPT ![w] = t]
  /\ ino' = [ino EXCEPT ![w] = i]
  /\ Goto(w, "write")
  /\ UNCHANGED <<dir, fix, cleaned, dirty, events>>

\* create_new on a random name
OpenTmp(w, t) ==
  /\ pc[w] = "open"
  /\ dir
  /\ names[t] = NoInode
  /\ Unnamed # {}
  /\ names' = [names EXCEPT ![t] = NewInode]
  /\ content' = [content EXCEPT ![NewInode] = 0]
  /\ tmp' = [tmp EXCEPT ![w] = t]
  /\ ino' = [ino EXCEPT ![w] = NewInode]
  /\ Goto(w, "write")
  /\ UNCHANGED <<dir, fix, cleaned, dirty, events>>

\* the name is taken, the directory is missing or a system call fails, that of
\* fs::exists too: init_in returns the error (on Windows it panics)
Fails(w) ==
  /\ pc[w] \in {"exists", "open"}
  /\ \/ pc[w] = "open" /\ ~dir /\ UNCHANGED events
     \/ pc[w] = "open" /\ (\E t \in Tmp : names[t] # NoInode) /\ UNCHANGED events
     \/ Event
  /\ Goto(w, "err")
  /\ UNCHANGED <<dir, names, content, fix, tmp, ino, cleaned, dirty>>

\* write_all has written everything
Filled(n) == n = Blocks

\* one write of write_all; after the last one the file is closed
Write(w) ==
  /\ pc[w] = "write"
  /\ content' = [content EXCEPT ![ino[w]] = @ + 1]
  /\ IF Filled(content[ino[w]] + 1) THEN Goto(w, "rename") ELSE UNCHANGED pc
  /\ UNCHANGED <<dir, names, fix, tmp, ino, cleaned, dirty, events>>

\* `?` on write_all, on the second fs::exists and on remove_file: the temporary file
\* stays behind
FailsWithTmp(w) ==
  /\ pc[w] \in {"write", "recheck", "remove"}
  /\ Goto(w, "err")
  /\ ino' = [ino EXCEPT ![w] = NoInode]
  /\ dirty' = TRUE
  /\ Event
  /\ UNCHANGED <<dir, names, content, fix, tmp, cleaned>>

\* rename replaces whatever another writer has put there
Rename(w) ==
  /\ pc[w] = "rename"
  /\ names' = [names EXCEPT ![fix[w]] = ino[w], ![tmp[w]] = NoInode]
  /\ ino' = [ino EXCEPT ![w] = NoInode]
  /\ Returns(w)
  /\ UNCHANGED <<dir, content, tmp, cleaned, dirty, events>>

\* rename refuses: the target is loaded somewhere (Windows), or another error
RenameFails(w) ==
  /\ pc[w] = "rename"
  /\ names[fix[w]] # NoInode \/ events < MaxEvents
  /\ events' = IF names[fix[w]] # NoInode THEN events ELSE events + 1
  /\ Goto(w, "recheck")
  /\ UNCHANGED <<dir, names, content, fix, tmp, ino, cleaned, dirty>>

\* Mutant: whatever made rename fail, the fixture is taken to be there.
Accepts_always(w) == TRUE

\* fs::exists(&path) after the failure
Accepts(w) == names[fix[w]] # NoInode

Recheck(w) ==
  /\ pc[w] = "recheck"
  /\ \/ /\ Accepts(w)
        /\ Goto(w, "remove")
        /\ UNCHANGED <<ino, dirty>>
     \/ /\ ~Accepts(w)
        /\ Goto(w, "err")
        /\ ino' = [ino EXCEPT ![w] = NoInode]
        /\ dirty' = TRUE
  /\ UNCHANGED <<dir, names, content, fix, tmp, cleaned, events>>

AfterRemove(w) == [names EXCEPT ![tmp[w]] = NoInode]

\* fs::remove_file(&tmp_path), then Ok(path)
Remove(w) ==
  /\ pc[w] = "remove"
  /\ names' = AfterRemove(w)
  /\ ino' = [ino EXCEPT ![w] = NoInode]
  /\ Returns(w)
  /\ UNCHANGED <<dir, content, tmp, cleaned, dirty, events>>

\* Spy::global after an error: get_or_try_init runs Spy::new again
Retry(w) ==
  /\ pc[w] = "err"
  /\ Goto(w, "mkdir")
  /\ fix' = [fix EXCEPT ![w] = 1]
  /\ Event
  /\ UNCHANGED <<dir, names, content, tmp, ino, cleaned, dirty>>

\* the process dies
Die(w) ==
  /\ pc[w] \notin {"ok", "err", "dead"}
  /\ Goto(w, "dead")
  /\ ino' = [ino EXCEPT ![w] = NoInode]
  /\ dirty' = (dirty \/ pc[w] \in Owning)
  /\ Event
  /\ UNCHANGED <<dir, names, content, fix, tmp, cleaned>>

\* Somebody cleans the directory: a fixture, or a temporary file that no writer
\* is working on (cleaners go by age).
Clean(n) ==
  /\ names[n] # NoInode
  /\ \A w \in Writer : pc[w] \in Owning => tmp[w] # n
  /\ names' = [names EXCEPT ![n] = NoInode]
  /\ cleaned' = cleaned \cup ({n} \cap Fix)
  /\ Event
  /\ UNCHANGED <<dir, content, pc, fix, tmp, ino, dirty>>

Step(w) ==
  \/ CreateDir(w) \/ Exists(w) \/ (\E t \in Tmp : OpenTmp(w, t)) \/ Fails(w)
  \/ Write(w) \/ FailsWithTmp(w) \/ Rename(w) \/ RenameFails(w) \/ Recheck(w) \/ Remove(w)

Ended(w) == pc[w] \in {"ok", "err", "dead"}

AllEnded == (\A w \in Writer : Ended(w)) /\ UNCHANGED vars

Next ==
  \/ \E w \in Writer : Step(w) \/ Retry(w) \/ Die(w)
  \/ \E n \in Name : Clean(n)
  \/ AllEnded

Spec == Init /\ [][Next]_vars

-------------------------------------------------------------------------------
(* Properties *)

\* Every variable has its type (the locals of write_to and the directory).
TypeOK ==
  /\ dir \in BOOLEAN
  /\ names \in [Name -> Inode \cup {NoInode}]
  /\ content \in [Inode -> 0..Blocks]
  /\ pc \in [Writer -> Pcs]
  /\ fix \in [Writer -> Fix]
  /\ tmp \in [Writer -> Name]
  /\ ino \in [Writer -> Inode \cup {NoInode}]
  /\ cleaned \subseteq Fix
  /\ dirty \in BOOLEAN
  /\ events \in 0..MaxEvents

\* The final path never names a file that is not complete, whoever is writing,
\* has died or has failed: it is what LD_PRELOAD and DLL injection load.
WholeOrAbsent == \A f \in Fix : names[f] # NoInode => content[names[f]] = Blocks

\* A file that was reachable under its final path is never written again: other
\* processes have it mapped.
Unmodified ==
  [][\A f \in Fix : names[f] # NoInode => content'[names[f]] = content[names[f]]]_vars

\* When init_in has succeeded each fixture is there, also when the rename was
\* refused, unless somebody removed it; and when no writer died or failed they
\* have left no temporary file behind, also those that lost the race.
OkMeansThere ==
  /\ \A w \in Writer : pc[w] = "ok" => \A f \in Fix : names[f] # NoInode \/ f \in cleaned
  /\ (\A w \in Writer : Ended(w)) /\ ~dirty => \A t \in Tmp : names[t] = NoInode

-------------------------------------------------------------------------------
(* The inductive invariant behind WholeOrAbsent and Unmodified *)

\* A writer at work has a temporary name and file of its own; the file is
\* complete from the rename on.
OwnerAt(w) ==
  pc[w] \in Owning =>
    /\ ino[w] \in Inode
    /\ tmp[w] \in Tmp
    /\ names[tmp[w]] = ino[w]
    /\ pc[w] # "write" => content[ino[w]] = Blocks
    /\ pc[w] = "write" => content[ino[w]] < Blocks

\* No two names share a file, no two writers a temporary name.
NamesApart == \A n, m \in Name : names[n] = names[m] /\ names[n] # NoInode => n = m
TmpApart == \A w, v \in Writer : pc[w] \in Owning /\ pc[v] \in Owning /\ tmp[w] = tmp[v] => w = v

\* What write_to maintains between any two system calls of any process.
FileInv ==
  /\ TypeOK
  /\ \A w \in Writer : OwnerAt(w)
  /\ NamesApart
  /\ TmpApart
  /\ WholeOrAbsent

===============================================================================
