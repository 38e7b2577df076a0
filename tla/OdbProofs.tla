----------------------------- MODULE OdbProofs -----------------------------
(***************************************************************************)
(* For every number of processes, objects, directories and pieces, and     *)
(* every interleaving, failed write and kill: an object file that nobody   *)
(* is writing and nobody has failed on is whole.  The argument is the      *)
(* inductive invariant WriterInv: the writer that truncated a file last    *)
(* has behind it all that the file needs, and goes on to write the rest.   *)
(***************************************************************************)
EXTENDS OdbHistory, SequenceTheorems, WellFoundedInduction, TLAPS

Labels == {"idle"} \cup WriterLabels \cup ReaderLabels

IInv == TypeOK /\ hurt \in [Dirs -> SUBSET Objects] /\ WriterInv

(* The registers and the label of p after its step are typed. *)
LEMMA MoveType ==
  ASSUME TypeOK, NEW p \in Procs, NEW r \in Registers, NEW l \in Labels,
         l # "idle" => r.at \in 1..Len(backends),
         pc' = [pc EXCEPT ![p] = l], reg' = [reg EXCEPT ![p] = r],
         backends' = backends
  PROVE  /\ backends' \in Seq([dir : Dirs, priority : Priorities])
         /\ pc' \in [Procs -> Labels]
         /\ reg' \in [Procs -> Registers]
         /\ \A q \in Procs : pc'[q] # "idle" => reg'[q].at \in 1..Len(backends')
BY DEF TypeOK, Labels

LEMMA FreshType ==
  ASSUME NEW op \in {"none", "read", "prefix", "exists", "write"},
         NEW want \in Objects \cup Abbrevs, NEW o \in Objects,
         NEW a \in Answers
  PROVE  Fresh(op, want, o, a) \in Registers /\ Fresh(op, want, o, a).at = 1
BY BlocksAssumption DEF Fresh, Registers, Entry

LEMMA AnyObjectType == AnyObject \in Objects
BY SomeObject DEF AnyObject

LEMMA ReturnType ==
  ASSUME TypeOK, NEW p \in Procs, NEW a \in Answers, Return(p, a),
         backends' = backends
  PROVE  /\ backends' \in Seq([dir : Dirs, priority : Priorities])
         /\ pc' \in [Procs -> Labels]
         /\ reg' \in [Procs -> Registers]
         /\ \A q \in Procs : pc'[q] # "idle" => reg'[q].at \in 1..Len(backends')
<1>. DEFINE r == Fresh("none", AnyObject, AnyObject, a)
<1>1. r \in Registers
  BY FreshType, AnyObjectType
<1>2. pc' = [pc EXCEPT ![p] = "idle"] /\ reg' = [reg EXCEPT ![p] = r]
  BY DEF Return, Goto
<1>3. "idle" \in Labels
  BY DEF Labels
<1>. HIDE DEF r
<1>. QED  BY <1>1, <1>2, <1>3, MoveType

LEMMA NextBackendType ==
  ASSUME TypeOK, NEW p \in Procs, NEW a \in Answers, NEW l \in Labels,
         pc[p] # "idle", NextBackend(p, l, a), backends' = backends
  PROVE  /\ backends' \in Seq([dir : Dirs, priority : Priorities])
         /\ pc' \in [Procs -> Labels]
         /\ reg' \in [Procs -> Registers]
         /\ \A q \in Procs : pc'[q] # "idle" => reg'[q].at \in 1..Len(backends')
<1>1. CASE reg[p].at < Len(backends)
  <2>. DEFINE r == [reg[p] EXCEPT !.at = @ + 1, !.ino = NoInode]
  <2>1. reg[p] \in Registers /\ reg[p].at \in 1..Len(backends)
    BY DEF TypeOK
  <2>2. r \in Registers
    <3>1. reg[p].at + 1 \in Nat /\ NoInode \in Entry
      BY <2>1 DEF Entry
    <3>. QED  BY <2>1, <3>1 DEF Registers
  <2>3. r.at \in 1..Len(backends)
    BY <1>1, <2>1 DEF Registers, TypeOK
  <2>4. pc' = [pc EXCEPT ![p] = l] /\ reg' = [reg EXCEPT ![p] = r]
    BY <1>1 DEF NextBackend, Goto
  <2>. HIDE DEF r
  <2>. QED  BY <2>2, <2>3, <2>4, MoveType
<1>2. CASE ~(reg[p].at < Len(backends))
  BY <1>2, ReturnType DEF NextBackend
<1>. QED  BY <1>1, <1>2

(* Reclaiming keeps the types, and the files that are still in use. *)
LEMMA ReclaimType ==
  ASSUME NEW w \in [Inodes -> SUBSET Pieces], NEW n \in [Inodes -> 0..Blocks],
         Reclaim(w, n)
  PROVE  /\ written' \in [Inodes -> SUBSET Pieces]
         /\ length' \in [Inodes -> 0..Blocks]
         /\ \A i \in Inodes : InUse(i)' => written'[i] = w[i]
BY BlocksAssumption DEF Reclaim, Pieces

(* The same of a step that leaves the contents alone. *)
LEMMA SameFiles ==
  ASSUME TypeOK,
         UNCHANGED <<written, length>> \/ Reclaim(written, length)
  PROVE  /\ written' \in [Inodes -> SUBSET Pieces]
         /\ length' \in [Inodes -> 0..Blocks]
         /\ \A i \in Inodes : InUse(i)' => written'[i] = written[i]
BY ReclaimType DEF TypeOK
----------------------------------------------------------------------------
(* The three ways a step of p touches the files. *)

(* p does not write: it is not at work on a file, or it leaves one it was at  *)
(* work on in doubt; perhaps it unlinks that file.                           *)
LEMMA LeaveStep ==
  ASSUME IInv, TypeOK', NEW p \in Procs,
         backends' = backends,
         \A q \in Procs \ {p} : pc'[q] = pc[q] /\ reg'[q] = reg[q],
         pc'[p] # "write",
         pc'[p] = "unlink" => /\ pc[p] = "write"
                              /\ DirOf(p)' = DirOf(p)
                              /\ reg'[p].obj = reg[p].obj,
         \A d \in Dirs : hurt[d] \subseteq hurt'[d],
         \A d \in Dirs, o \in Objects : AtWork(p, d, o) => o \in hurt'[d],
         \A d \in Dirs, o \in Objects :
           \/ entry'[d][o] = entry[d][o]
           \/ entry'[d][o] = NoInode /\ o \in hurt'[d],
         \A i \in Inodes : InUse(i)' => written'[i] = written[i]
  PROVE  WriterInv'
<1>1. \A q \in Procs \ {p}, d \in Dirs, o \in Objects :
        AtWork(q, d, o)' <=> AtWork(q, d, o)
  BY DEF AtWork, DirOf
<1>2. \A d \in Dirs, o \in Objects : AtWork(p, d, o)' => o \in hurt'[d]
  BY DEF AtWork, DirOf
<1>3. WritersAreOpen'
  BY DEF IInv, WriterInv, WritersAreOpen
<1>4. WritersAreLinked'
  BY <1>1, <1>2 DEF IInv, WriterInv, WritersAreLinked, WritersAreOpen
<1>5. FilesAreDistinct'
  BY DEF IInv, WriterInv, FilesAreDistinct
<1>6. WritersKeepApart'
  BY <1>1 DEF IInv, WriterInv, WritersKeepApart, WritersAreOpen
<1>7. LastTruncationIsCovered'
  <2>. SUFFICES ASSUME NEW d \in Dirs, NEW o \in Objects \ hurt'[d],
                       entry'[d][o] # NoInode
                PROVE  \/ Whole(entry[d][o])'
                       \/ \E q \in Procs : AtWork(q, d, o)' /\ pc'[q] = "write" /\ Covered(q)'
    BY DEF LastTruncationIsCovered
  <2>1. entry'[d][o] = entry[d][o] /\ o \notin hurt[d] /\ entry[d][o] \in Inodes
    BY DEF IInv, TypeOK, Entry
  <2>2. written'[entry[d][o]] = written[entry[d][o]]
    BY <2>1 DEF InUse
  <2>3. CASE Whole(entry[d][o])
    BY <2>1, <2>2, <2>3 DEF Whole
  <2>4. CASE ~Whole(entry[d][o])
    <3>1. PICK q \in Procs : AtWork(q, d, o) /\ pc[q] = "write" /\ Covered(q)
      BY <2>1, <2>4 DEF IInv, WriterInv, LastTruncationIsCovered
    <3>2. q # p
      BY <3>1
    <3>3. reg[q].ino = entry[d][o]
      BY <2>1, <3>1 DEF IInv, WriterInv, WritersAreLinked
    <3>. QED  BY <1>1, <2>2, <3>1, <3>2, <3>3 DEF Covered
  <2>. QED  BY <2>3, <2>4
<1>. QED  BY <1>3, <1>4, <1>5, <1>6, <1>7 DEF WriterInv

(* p writes the next piece; after the last one the file is whole. *)
LEMMA WriteStep ==
  ASSUME IInv, TypeOK', NEW p \in Procs, pc[p] = "write",
         backends' = backends, entry' = entry, hurt' = hurt,
         \A q \in Procs \ {p} : pc'[q] = pc[q] /\ reg'[q] = reg[q],
         NEW n, n = reg[p].off + 1,
         \/ n = Blocks /\ pc'[p] = "idle"
         \/ /\ n < Blocks
            /\ pc'[p] = "write"
            /\ DirOf(p)' = DirOf(p)
            /\ reg'[p].obj = reg[p].obj
            /\ reg'[p].ino = reg[p].ino
            /\ reg'[p].off = n,
         \A i \in Inodes : InUse(i)' =>
           written'[i] = IF i = reg[p].ino THEN written[i] \cup {n} ELSE written[i]
  PROVE  WriterInv'
<1>1. \A q \in Procs, d \in Dirs, o \in Objects :
        AtWork(q, d, o)' => AtWork(q, d, o) /\ pc'[q] = pc[q] /\ reg'[q].ino = reg[q].ino
  BY DEF AtWork, DirOf
<1>2. \A q \in Procs, d \in Dirs, o \in Objects :
        pc'[q] # "idle" /\ AtWork(q, d, o) => AtWork(q, d, o)'
  BY DEF AtWork, DirOf
<1>3. WritersAreOpen'
  BY DEF IInv, WriterInv, WritersAreOpen
<1>4. WritersAreLinked'
  BY <1>1 DEF IInv, WriterInv, WritersAreLinked
<1>5. FilesAreDistinct'
  BY DEF IInv, WriterInv, FilesAreDistinct
<1>6. WritersKeepApart'
  BY <1>2 DEF IInv, WriterInv, WritersKeepApart
<1>7. LastTruncationIsCovered'
  <2>. SUFFICES ASSUME NEW d \in Dirs, NEW o \in Objects \ hurt[d],
                       entry[d][o] # NoInode
                PROVE  \/ Whole(entry[d][o])'
                       \/ \E q \in Procs : AtWork(q, d, o)' /\ pc'[q] = "write" /\ Covered(q)'
    BY DEF LastTruncationIsCovered
  <2>. DEFINE i == entry[d][o]
  <2>1. i \in Inodes /\ InUse(i)'
    BY DEF IInv, TypeOK, Entry, InUse
  <2>2. /\ written[i] \subseteq written'[i] /\ written'[i] \subseteq Pieces
        /\ i = reg[p].ino => n \in written'[i]
    BY <2>1 DEF TypeOK
  <2>3. CASE Whole(i)
    BY <2>2, <2>3 DEF Whole
  <2>4. CASE ~Whole(i)
    <3>1. PICK q \in Procs : AtWork(q, d, o) /\ pc[q] = "write" /\ Covered(q)
      BY <2>4 DEF IInv, WriterInv, LastTruncationIsCovered
    <3>2. reg[q].ino = i
      BY <3>1 DEF IInv, WriterInv, WritersAreLinked
    <3>3. 1..reg[q].off \subseteq written'[i] /\ reg[q].off \in Nat
      BY <2>2, <3>1, <3>2, BlocksAssumption DEF Covered, IInv, TypeOK, Registers
    <3>4. CASE q # p
      BY <1>2, <3>1, <3>2, <3>3, <3>4 DEF Covered
    <3>5. CASE q = p
      <4>1. 1..n \subseteq written'[i]
        BY <2>2, <3>2, <3>3, <3>5
      <4>2. CASE n = Blocks
        BY <2>2, <4>1, <4>2 DEF Whole, Pieces
      <4>3. CASE n < Blocks
        BY <1>2, <3>1, <3>2, <3>5, <4>1, <4>3 DEF Covered, IInv, TypeOK, Registers
      <4>. QED  BY <4>2, <4>3
    <3>. QED  BY <3>4, <3>5
  <2>. QED  BY <2>3, <2>4
<1>. QED  BY <1>3, <1>4, <1>5, <1>6, <1>7 DEF WriterInv

(* p truncates the file of its object, or makes one.  If the file was in     *)
(* doubt and nobody else is at work on it, it no longer is.                  *)
LEMMA OpenStep ==
  ASSUME IInv, TypeOK', NEW p \in Procs, NEW i \in Inodes, OpenOn(p, i),
         i = FileOf(p) \/ (FileOf(p) = NoInode /\ ~InUse(i)),
         hurt' = hurt \/ (Alone(p) /\ hurt' = HealedBy(p))
  PROVE  WriterInv'
<1>. DEFINE e == DirOf(p)
            u == reg[p].obj
<1>1. e \in Dirs /\ u \in Objects
  BY DEF IInv, TypeOK, OpenOn, DirOf, Registers
<1>2. /\ pc'[p] = "write" /\ DirOf(p)' = e /\ reg'[p].obj = u
      /\ reg'[p].ino = i /\ reg'[p].off = 0 /\ backends' = backends
      /\ \A q \in Procs \ {p} : pc'[q] = pc[q] /\ reg'[q] = reg[q]
  BY DEF OpenOn, Goto, IInv, TypeOK, DirOf, Registers
<1>3. /\ \A d \in Dirs, o \in Objects :
           entry'[d][o] = IF d = e /\ o = u THEN i ELSE entry[d][o]
      /\ written'[i] = {}
      /\ \A j \in Inodes \ {i} : written'[j] = written[j]
  BY <1>1 DEF OpenOn, IInv, TypeOK
<1>4. \A d \in Dirs, o \in Objects : AtWork(p, d, o)' <=> d = e /\ o = u
  BY <1>2 DEF AtWork
<1>5. \A q \in Procs \ {p}, d \in Dirs, o \in Objects :
        AtWork(q, d, o)' <=> AtWork(q, d, o)
  BY <1>2 DEF AtWork, DirOf
<1>6. \A d \in Dirs, o \in Objects : entry[d][o] = i => d = e /\ o = u
  BY <1>1, NoInodeFresh DEF IInv, WriterInv, FilesAreDistinct, FileOf, InUse
<1>7. \A d \in Dirs : \A o \in Objects \ hurt'[d] :
        \/ o \notin hurt[d]
        \/ d = e /\ o = u /\ Alone(p)
  BY <1>1 DEF HealedBy, IInv
<1>8. WritersAreOpen'
  BY <1>2, BlocksAssumption, NoInodeFresh DEF IInv, WriterInv, WritersAreOpen
<1>9. WritersAreLinked'
  <2>. SUFFICES ASSUME NEW q \in Procs, NEW d \in Dirs,
                       NEW o \in Objects \ hurt'[d], AtWork(q, d, o)'
                PROVE  pc'[q] = "write" /\ reg'[q].ino = entry'[d][o]
    BY DEF WritersAreLinked
  <2>1. CASE q = p
    BY <1>1, <1>2, <1>3, <1>4, <2>1
  <2>2. CASE q # p
    <3>1. AtWork(q, d, o) /\ pc'[q] = pc[q] /\ reg'[q] = reg[q]
      BY <1>2, <1>5, <2>2
    <3>2. o \notin hurt[d]
      BY <1>7, <2>2, <3>1 DEF Alone
    <3>3. pc[q] = "write" /\ reg[q].ino = entry[d][o] /\ entry[d][o] # NoInode
      BY <3>1, <3>2 DEF IInv, WriterInv, WritersAreLinked, WritersAreOpen
    <3>4. entry'[d][o] = entry[d][o]
      BY <1>3, <3>3 DEF FileOf
    <3>. QED  BY <3>1, <3>3, <3>4
  <2>. QED  BY <2>1, <2>2
<1>10. FilesAreDistinct'
  BY <1>3, <1>6 DEF IInv, WriterInv, FilesAreDistinct
<1>11. WritersKeepApart'
  <2>. SUFFICES ASSUME NEW q \in Procs, NEW d \in Dirs, NEW o \in Objects,
                       pc'[q] = "write", reg'[q].ino = entry'[d][o]
                PROVE  AtWork(q, d, o)'
    BY DEF WritersKeepApart
  <2>1. CASE q = p
    BY <1>2, <1>3, <1>4, <1>6, <2>1
  <2>2. CASE q # p
    <3>1. reg[q].ino = entry'[d][o] /\ pc[q] = "write"
      BY <1>2, <2>2
    <3>2. entry'[d][o] = entry[d][o]
      BY <1>3, <3>1 DEF FileOf, InUse
    <3>. QED  BY <1>5, <2>2, <3>1, <3>2 DEF IInv, WriterInv, WritersKeepApart
  <2>. QED  BY <2>1, <2>2
<1>12. LastTruncationIsCovered'
  <2>. SUFFICES ASSUME NEW d \in Dirs, NEW o \in Objects \ hurt'[d],
                       entry'[d][o] # NoInode
                PROVE  \/ Whole(entry[d][o])'
                       \/ \E q \in Procs : AtWork(q, d, o)' /\ pc'[q] = "write" /\ Covered(q)'
    BY DEF LastTruncationIsCovered
  <2>1. CASE d = e /\ o = u
    BY <1>2, <1>4, <2>1 DEF Covered
  <2>2. CASE ~(d = e /\ o = u)
    <3>1. entry'[d][o] = entry[d][o] /\ o \notin hurt[d] /\ entry[d][o] # i
      BY <1>3, <1>6, <1>7, <2>2
    <3>2. written'[entry[d][o]] = written[entry[d][o]]
      BY <1>3, <3>1 DEF IInv, TypeOK, Entry
    <3>3. CASE Whole(entry[d][o])
      BY <3>1, <3>2, <3>3 DEF Whole
    <3>4. CASE ~Whole(entry[d][o])
      <4>1. PICK q \in Procs : AtWork(q, d, o) /\ pc[q] = "write" /\ Covered(q)
        BY <3>1, <3>4 DEF IInv, WriterInv, LastTruncationIsCovered
      <4>2. reg[q].ino = entry[d][o]
        BY <3>1, <4>1 DEF IInv, WriterInv, WritersAreLinked
      <4>3. q # p
        BY <4>1 DEF OpenOn
      <4>. QED  BY <1>2, <1>5, <3>2, <4>1, <4>2, <4>3 DEF Covered
    <3>. QED  BY <3>3, <3>4
  <2>. QED  BY <2>1, <2>2
<1>. QED  BY <1>8, <1>9, <1>10, <1>11, <1>12 DEF WriterInv
----------------------------------------------------------------------------
(* The actions.  A step with its marks keeps IInv. *)

LEMMA Least ==
  ASSUME NEW S \in SUBSET Nat, S # {}
  PROVE  \E i \in S : \A j \in S : i <= j
<1>. DEFINE R == {ss \in Nat \X Nat : ss[1] < ss[2]}
<1>1. IsWellFoundedOn(R, Nat)
  BY NatLessThanWellFounded, Zenon DEF OpToRel
<1>2. \A m, n \in Nat : m < n => <<m, n>> \in R
  OBVIOUS
<1>. HIDE DEF R
<1>3. PICK n \in S : \A m \in S : ~(<<m, n>> \in R)
  BY <1>1, WFMin
<1>4. ASSUME NEW m \in S PROVE n <= m
  <2>1. m \in Nat /\ n \in Nat
    OBVIOUS
  <2>2. ~(m < n)
    BY <1>2, <1>3, <2>1
  <2>. QED  BY <2>1, <2>2
<1>. QED  BY <1>4

LEMMA SeqElement ==
  ASSUME NEW S, NEW s \in Seq(S), NEW i \in 1..Len(s)
  PROVE  s[i] \in S
OBVIOUS

(* A process that is not idle is at a directory and at an object. *)
LEMMA SpotType ==
  ASSUME TypeOK, NEW p \in Procs, pc[p] # "idle"
  PROVE  DirOf(p) \in Dirs /\ reg[p].obj \in Objects
<1>1. reg[p] \in Registers /\ reg[p].at \in 1..Len(backends)
  BY DEF TypeOK
<1>2. backends \in Seq([dir : Dirs, priority : Priorities])
  BY DEF TypeOK
<1>3. backends[reg[p].at] \in [dir : Dirs, priority : Priorities]
  BY <1>1, <1>2, SeqElement
<1>. QED  BY <1>1, <1>3 DEF DirOf, Registers

(* What the failure marks are after a step that none is made in. *)
LEMMA MarkKeeps ==
  ASSUME IInv, NEW p \in Procs, pc[p] # "idle", Mark(p)
  PROVE  /\ hurt' \in [Dirs -> SUBSET Objects]
         /\ pc[p] \notin {"write", "open"} => hurt' = hurt
         /\ pc[p] = "write" /\ pc'[p] = "unlink" => hurt' = HurtBy(p)
         /\ pc[p] = "write" /\ pc'[p] = "idle" /\ reg'[p].answer = "killed"
              => hurt' = HurtBy(p)
         /\ pc[p] = "write" /\ pc'[p] = "write" => hurt' = hurt
         /\ pc[p] = "write" /\ pc'[p] = "idle" /\ reg'[p].answer # "killed"
              => hurt' = hurt
         /\ pc[p] = "open" /\ pc'[p] # "write" => hurt' = hurt
         /\ pc[p] = "open" => hurt' = hurt \/ (Alone(p) /\ hurt' = HealedBy(p))
<1>1. HurtBy(p) \in [Dirs -> SUBSET Objects] /\ HealedBy(p) \in [Dirs -> SUBSET Objects]
  <2>1. DirOf(p) \in Dirs /\ reg[p].obj \in Objects
    BY SpotType DEF IInv
  <2>. QED  BY <2>1 DEF IInv, HurtBy, HealedBy
<1>. QED  BY <1>1 DEF Mark, IInv

(* A step in which p reads files or makes a directory. *)
LEMMA ReaderStep ==
  ASSUME IInv, NEW p \in Procs, pc[p] \notin {"write", "unlink"},
         backends' = backends, entry' = entry, fan' \in [Dirs -> SUBSET Fans],
         UNCHANGED <<written, length>> \/ Reclaim(written, length),
         hurt' = hurt,
         pc' \in [Procs -> Labels], reg' \in [Procs -> Registers],
         \A q \in Procs : pc'[q] # "idle" => reg'[q].at \in 1..Len(backends'),
         pc'[p] \notin {"write", "unlink"},
         \A q \in Procs \ {p} : pc'[q] = pc[q] /\ reg'[q] = reg[q]
  PROVE  IInv'
<1>1. TypeOK'
  BY SameFiles DEF IInv, TypeOK, Labels
<1>2. \A d \in Dirs, o \in Objects : ~AtWork(p, d, o)
  BY DEF AtWork
<1>3. WriterInv'
  BY <1>1, <1>2, SameFiles, LeaveStep DEF IInv
<1>. QED  BY <1>1, <1>3 DEF IInv

LEMMA BeginStep ==
  ASSUME IInv, NEW p \in Procs, Call(p), Mark(p)
  PROVE  IInv'
<1>1. PICK op \in {"read", "prefix", "exists", "write"},
           want \in Objects \cup Abbrevs, o \in Objects,
           l \in {"statDir", "stat", "scan", "exists"} : Begin(p, op, want, o, l)
  BY AnyObjectType DEF Call, StartWrite, StartRead, StartPrefix, StartExists
<1>. DEFINE r == Fresh(op, want, o, "none")
<1>2. r \in Registers /\ r.at = 1
  BY FreshType DEF Answers
<1>3. l \in Labels /\ 1 \in 1..Len(backends)
  BY <1>1 DEF Labels, WriterLabels, ReaderLabels, Begin, IInv, TypeOK
<1>4. pc' = [pc EXCEPT ![p] = l] /\ reg' = [reg EXCEPT ![p] = r] /\ backends' = backends
  BY <1>1 DEF Begin, Goto
<1>5. hurt' = hurt
  BY <1>1 DEF Mark, Begin
<1>. HIDE DEF r
<1>6. TypeOK
  BY DEF IInv
<1>7. /\ pc' \in [Procs -> Labels] /\ reg' \in [Procs -> Registers]
      /\ \A q \in Procs : pc'[q] # "idle" => reg'[q].at \in 1..Len(backends')
  BY <1>2, <1>3, <1>4, <1>6, MoveType
<1>8. pc'[p] = l /\ \A q \in Procs \ {p} : pc'[q] = pc[q] /\ reg'[q] = reg[q]
  BY <1>4, <1>6 DEF TypeOK
<1>. QED  BY <1>1, <1>4, <1>5, <1>7, <1>8, ReaderStep DEF Begin, IInv, TypeOK

(* Where a return and the search of the next backend leave p. *)
LEMMA ReturnMoves ==
  ASSUME TypeOK, NEW p \in Procs, NEW a, Return(p, a)
  PROVE  /\ pc'[p] = "idle"
         /\ \A q \in Procs \ {p} : pc'[q] = pc[q] /\ reg'[q] = reg[q]
BY DEF TypeOK, Return, Goto

LEMMA NextBackendMoves ==
  ASSUME TypeOK, NEW p \in Procs, NEW a, NEW l, NextBackend(p, l, a)
  PROVE  /\ pc'[p] \in {"idle", l}
         /\ \A q \in Procs \ {p} : pc'[q] = pc[q] /\ reg'[q] = reg[q]
BY ReturnMoves DEF TypeOK, NextBackend, Goto

(* p changes its label and registers only. *)
LEMMA ReaderMove ==
  ASSUME IInv, NEW p \in Procs, pc[p] \notin {"idle", "write", "unlink"},
         NEW r \in Registers, r.at = reg[p].at,
         NEW l \in Labels \ {"write", "unlink"},
         pc' = [pc EXCEPT ![p] = l], reg' = [reg EXCEPT ![p] = r],
         backends' = backends, entry' = entry, fan' \in [Dirs -> SUBSET Fans],
         UNCHANGED <<written, length>> \/ Reclaim(written, length), hurt' = hurt
  PROVE  IInv'
<1>1. TypeOK /\ r.at \in 1..Len(backends)
  BY DEF IInv, TypeOK
<1>2. /\ pc' \in [Procs -> Labels] /\ reg' \in [Procs -> Registers]
      /\ \A q \in Procs : pc'[q] # "idle" => reg'[q].at \in 1..Len(backends')
  BY <1>1, MoveType
<1>3. pc'[p] = l /\ \A q \in Procs \ {p} : pc'[q] = pc[q] /\ reg'[q] = reg[q]
  BY <1>1 DEF TypeOK
<1>. QED  BY <1>2, <1>3, ReaderStep

LEMMA ReaderReturn ==
  ASSUME IInv, NEW p \in Procs, pc[p] \notin {"idle", "write", "unlink"},
         NEW a \in Answers, Return(p, a),
         backends' = backends, entry' = entry, fan' = fan,
         UNCHANGED <<written, length>> \/ Reclaim(written, length), hurt' = hurt
  PROVE  IInv'
<1>1. TypeOK
  BY DEF IInv
<1>. QED  BY <1>1, ReturnType, ReturnMoves, ReaderStep DEF TypeOK

LEMMA ReaderNext ==
  ASSUME IInv, NEW p \in Procs, pc[p] \notin {"idle", "write", "unlink"},
         NEW a \in Answers, NEW l \in Labels \ {"write", "unlink"},
         NextBackend(p, l, a),
         backends' = backends, entry' = entry, fan' = fan,
         UNCHANGED <<written, length>>, hurt' = hurt
  PROVE  IInv'
<1>1. TypeOK
  BY DEF IInv
<1>2. pc'[p] \notin {"write", "unlink"}
  BY <1>1, NextBackendMoves
<1>. QED  BY <1>1, <1>2, NextBackendType, NextBackendMoves, ReaderStep DEF TypeOK
(* The steps of qgit_odb_write before the file is open. *)
LEMMA StatDirStep ==
  ASSUME IInv, NEW p \in Procs, StatDir(p), Mark(p)
  PROVE  IInv'
<1>1. hurt' = hurt
  BY MarkKeeps DEF StatDir
<1>2. PICK l \in {"open", "mkdir"} : pc' = [pc EXCEPT ![p] = l]
  BY DEF StatDir, Goto
<1>3. reg[p] \in Registers /\ reg' = [reg EXCEPT ![p] = reg[p]]
  BY DEF StatDir, IInv, TypeOK
<1>4. l \in Labels \ {"write", "unlink"}
  BY DEF Labels, WriterLabels
<1>. QED  BY <1>1, <1>2, <1>3, <1>4, ReaderMove DEF StatDir, IInv, TypeOK

LEMMA MkdirStep ==
  ASSUME IInv, NEW p \in Procs, Mkdir(p), Mark(p)
  PROVE  IInv'
<1>1. hurt' = hurt
  BY MarkKeeps DEF Mkdir
<1>2. CASE FanOf[reg[p].obj] \in fan[DirOf(p)]
  BY <1>1, <1>2, ReaderNext DEF Mkdir, Answers, Labels, WriterLabels
<1>3. CASE FanOf[reg[p].obj] \notin fan[DirOf(p)]
  <2>1. reg[p] \in Registers /\ reg' = [reg EXCEPT ![p] = reg[p]]
    BY <1>3 DEF Mkdir, IInv, TypeOK
  <2>2. pc' = [pc EXCEPT ![p] = "open"] /\ "open" \in Labels \ {"write", "unlink"}
    BY <1>3 DEF Mkdir, Goto, Labels, WriterLabels
  <2>3. FanOf[reg[p].obj] \in Fans /\ DirOf(p) \in Dirs
    BY SpotType, FanAssumption DEF Mkdir, IInv
  <2>4. fan' \in [Dirs -> SUBSET Fans]
    <3>. DEFINE made == fan[DirOf(p)] \cup {FanOf[reg[p].obj]}
    <3>1. fan' = [fan EXCEPT ![DirOf(p)] = made]
      BY <1>3 DEF Mkdir
    <3>2. fan \in [Dirs -> SUBSET Fans]
      BY DEF IInv, TypeOK
    <3>3. made \in SUBSET Fans
      BY <2>3, <3>2
    <3>. HIDE DEF made
    <3>. QED  BY <2>3, <3>1, <3>2, <3>3
  <2>5. /\ pc[p] = "mkdir"
        /\ UNCHANGED <<backends, entry, written, length>>
    BY DEF Mkdir
  <2>6. reg[p].at = reg[p].at /\ pc[p] \notin {"idle", "write", "unlink"}
    BY <2>5
  <2>. QED  BY <1>1, <2>1, <2>2, <2>4, <2>5, <2>6, ReaderMove
<1>. QED  BY <1>2, <1>3

(* The steps of the readers. *)
LEMMA ScanStep ==
  ASSUME IInv, NEW p \in Procs, Scan(p), Mark(p)
  PROVE  IInv'
<1>1. hurt' = hurt
  BY MarkKeeps DEF Scan
<1>2. CASE Return(p, "error") \/ Return(p, "ambiguous")
  BY <1>1, <1>2, ReaderReturn DEF Scan, Answers
<1>3. CASE NotFound(p)
  <2>1. FirstStep(reg[p].op) \in Labels \ {"write", "unlink"}
    BY DEF FirstStep, Labels, ReaderLabels
  <2>. QED  BY <1>1, <1>3, <2>1, ReaderNext DEF Scan, NotFound, Answers
<1>4. CASE /\ \E o \in Objects : reg' = [reg EXCEPT ![p].obj = o]
           /\ Goto(p, "stat")
  <2>1. PICK o \in Objects : reg' = [reg EXCEPT ![p] = [reg[p] EXCEPT !.obj = o]]
    BY <1>4 DEF IInv, TypeOK
  <2>. DEFINE r == [reg[p] EXCEPT !.obj = o]
  <2>2. r \in Registers /\ r.at = reg[p].at
    BY DEF IInv, TypeOK, Registers
  <2>3. pc' = [pc EXCEPT ![p] = "stat"] /\ "stat" \in Labels \ {"write", "unlink"}
    BY <1>4 DEF Goto, Labels, ReaderLabels
  <2>. HIDE DEF r
  <2>. QED  BY <1>1, <2>1, <2>2, <2>3, ReaderMove DEF Scan, r, IInv, TypeOK
<1>. QED  BY <1>2, <1>3, <1>4 DEF Scan

LEMMA StatStep ==
  ASSUME IInv, NEW p \in Procs, Stat(p), Mark(p)
  PROVE  IInv'
<1>1. hurt' = hurt
  BY MarkKeeps DEF Stat
<1>2. CASE NotFound(p)
  <2>1. FirstStep(reg[p].op) \in Labels \ {"write", "unlink"}
    BY DEF FirstStep, Labels, ReaderLabels
  <2>. QED  BY <1>1, <1>2, <2>1, ReaderNext DEF Stat, NotFound, Answers
<1>3. CASE Return(p, "error")
  BY <1>1, <1>3, ReaderReturn DEF Stat, Answers
<1>4. CASE /\ FileOf(p) # NoInode
           /\ reg' = [reg EXCEPT ![p].len = length[FileOf(p)]]
           /\ Goto(p, "openRead")
  <2>. DEFINE r == [reg[p] EXCEPT !.len = length[FileOf(p)]]
  <2>1. length[FileOf(p)] \in 0..Blocks
    <3>1. FileOf(p) \in Inodes
      BY <1>4, SpotType DEF FileOf, IInv, TypeOK, Entry, Stat
    <3>. QED  BY <3>1 DEF IInv, TypeOK
  <2>2. r \in Registers /\ r.at = reg[p].at
    BY <2>1, ZenonT(40) DEF IInv, TypeOK, Registers
  <2>3. pc' = [pc EXCEPT ![p] = "openRead"] /\ "openRead" \in Labels \ {"write", "unlink"}
    BY <1>4 DEF Goto, Labels, ReaderLabels
  <2>4. reg' = [reg EXCEPT ![p] = r]
    BY <1>4 DEF IInv, TypeOK
  <2>. HIDE DEF r
  <2>. QED  BY <1>1, <2>2, <2>3, <2>4, ReaderMove DEF Stat, IInv, TypeOK
<1>. QED  BY <1>2, <1>3, <1>4 DEF Stat

LEMMA OpenReadStep ==
  ASSUME IInv, NEW p \in Procs, OpenRead(p), Mark(p)
  PROVE  IInv'
<1>1. hurt' = hurt
  BY MarkKeeps DEF OpenRead
<1>2. CASE NotFound(p)
  <2>1. FirstStep(reg[p].op) \in Labels \ {"write", "unlink"}
    BY DEF FirstStep, Labels, ReaderLabels
  <2>. QED  BY <1>1, <1>2, <2>1, ReaderNext DEF OpenRead, NotFound, Answers
<1>3. CASE /\ FileOf(p) # NoInode
           /\ reg' = [reg EXCEPT ![p].ino = FileOf(p), ![p].off = 0, ![p].good = TRUE]
           /\ Goto(p, "read")
  <2>. DEFINE r == [reg[p] EXCEPT !.ino = FileOf(p), !.off = 0, !.good = TRUE]
  <2>1. FileOf(p) \in Entry /\ 0 \in 0..Blocks
    BY SpotType, BlocksAssumption DEF FileOf, IInv, TypeOK, OpenRead
  <2>2. r \in Registers /\ r.at = reg[p].at
    BY <2>1 DEF IInv, TypeOK, Registers
  <2>3. pc' = [pc EXCEPT ![p] = "read"] /\ "read" \in Labels \ {"write", "unlink"}
    BY <1>3 DEF Goto, Labels, ReaderLabels
  <2>4. reg' = [reg EXCEPT ![p] = r]
    BY <1>3 DEF IInv, TypeOK
  <2>. HIDE DEF r
  <2>. QED  BY <1>1, <2>2, <2>3, <2>4, ReaderMove DEF OpenRead, IInv, TypeOK
<1>. QED  BY <1>2, <1>3 DEF OpenRead

LEMMA ReadStep ==
  ASSUME IInv, NEW p \in Procs, Read(p), Mark(p)
  PROVE  IInv'
<1>1. hurt' = hurt
  BY MarkKeeps DEF Read
<1>. DEFINE n == reg[p].off + 1
            fine == reg[p].good /\ n \in written[reg[p].ino]
<1>2. CASE Return(p, "error") \/ Return(p, "ok")
  BY <1>1, <1>2, ReaderReturn DEF Read, Answers
<1>3. CASE /\ n < reg[p].len
           /\ reg' = [reg EXCEPT ![p].off = n, ![p].good = fine]
           /\ UNCHANGED pc
  <2>. DEFINE r == [reg[p] EXCEPT !.off = n, !.good = fine]
  <2>1. n \in 0..Blocks /\ fine \in BOOLEAN
    BY <1>3, BlocksAssumption DEF IInv, TypeOK, Registers
  <2>2. r \in Registers /\ r.at = reg[p].at
    BY <2>1, ZenonT(40) DEF IInv, TypeOK, Registers
  <2>3. pc' = [pc EXCEPT ![p] = "read"] /\ "read" \in Labels \ {"write", "unlink"}
    BY <1>3 DEF Read, Labels, ReaderLabels, IInv, TypeOK
  <2>4. reg' = [reg EXCEPT ![p] = r]
    BY <1>3 DEF IInv, TypeOK
  <2>5. /\ pc[p] = "read" /\ UNCHANGED <<backends, fan, entry>>
        /\ Reclaim(written, length) /\ fan \in [Dirs -> SUBSET Fans]
    BY DEF Read, IInv, TypeOK
  <2>. HIDE DEF r, n, fine
  <2>. QED  BY <1>1, <2>2, <2>3, <2>4, <2>5, ReaderMove
<1>. QED  BY <1>2, <1>3 DEF Read

LEMMA ExistsStep ==
  ASSUME IInv, NEW p \in Procs, Exists(p), Mark(p)
  PROVE  IInv'
<1>1. hurt' = hurt
  BY MarkKeeps DEF Exists
<1>2. /\ pc[p] = "exists" /\ UNCHANGED <<backends, fan, entry, written, length>>
      /\ "exists" \in Labels \ {"write", "unlink"}
      /\ "ok" \in Answers /\ "notfound" \in Answers
  BY DEF Exists, Answers, Labels, ReaderLabels
<1>3. CASE Return(p, "ok")
  BY <1>1, <1>2, <1>3, ReaderReturn
<1>4. CASE NextBackend(p, "exists", "notfound")
  BY <1>1, <1>2, <1>4, ReaderNext
<1>. QED  BY <1>3, <1>4 DEF Exists

----------------------------------------------------------------------------
(* The writer and its file. *)

LEMMA OpenOneStep ==
  ASSUME IInv, NEW p \in Procs, Open(p), Mark(p)
  PROVE  IInv'
<1>0. pc[p] = "open" /\ TypeOK
  BY DEF Open, IInv
<1>1. DirOf(p) \in Dirs /\ reg[p].obj \in Objects
  BY <1>0, SpotType
<1>2. PICK i \in Inodes : /\ OpenOn(p, i)
                          /\ i = FileOf(p) \/ (FileOf(p) = NoInode /\ ~InUse(i))
  <2>1. CASE FileOf(p) # NoInode
    BY <2>1 DEF Open, OpenOn
  <2>2. CASE FileOf(p) = NoInode
    BY <2>2 DEF Open, FreeInodes
  <2>. QED  BY <2>1, <2>2
<1>. DEFINE r == [reg[p] EXCEPT !.ino = i, !.off = 0]
<1>3. r \in Registers /\ r.at = reg[p].at
  <2>1. reg[p] \in Registers /\ i \in Entry /\ 0 \in 0..Blocks
    BY <1>0, BlocksAssumption DEF TypeOK, Entry
  <2>. QED  BY <2>1 DEF Registers
<1>4. /\ pc' = [pc EXCEPT ![p] = "write"] /\ reg' = [reg EXCEPT ![p] = r]
      /\ backends' = backends /\ fan' = fan
  BY <1>0, <1>2 DEF OpenOn, Goto, TypeOK
<1>5. "write" \in Labels /\ r.at \in 1..Len(backends)
  BY <1>0, <1>3 DEF Labels, WriterLabels, TypeOK
<1>6. /\ pc' \in [Procs -> Labels] /\ reg' \in [Procs -> Registers]
      /\ \A q \in Procs : pc'[q] # "idle" => reg'[q].at \in 1..Len(backends')
      /\ backends' \in Seq([dir : Dirs, priority : Priorities])
  <2>. HIDE DEF r
  <2>. QED  BY <1>0, <1>3, <1>4, <1>5, MoveType
<1>7. entry' \in [Dirs -> [Objects -> Entry]]
  <2>1. entry' = [entry EXCEPT ![DirOf(p)] = [entry[DirOf(p)] EXCEPT ![reg[p].obj] = i]]
    BY <1>0, <1>2 DEF OpenOn, TypeOK
  <2>2. [entry[DirOf(p)] EXCEPT ![reg[p].obj] = i] \in [Objects -> Entry]
    BY <1>0, <1>1 DEF TypeOK, Entry
  <2>. QED  BY <1>0, <1>1, <2>1, <2>2 DEF TypeOK
<1>8. written' \in [Inodes -> SUBSET Pieces] /\ length' \in [Inodes -> 0..Blocks]
  BY <1>0, <1>2, BlocksAssumption DEF OpenOn, TypeOK
<1>9. TypeOK'
  BY <1>0, <1>4, <1>6, <1>7, <1>8 DEF TypeOK, Labels
<1>10. hurt' \in [Dirs -> SUBSET Objects]
  BY <1>0, MarkKeeps
<1>11. hurt' = hurt \/ (Alone(p) /\ hurt' = HealedBy(p))
  BY <1>0, MarkKeeps
<1>. QED  BY <1>2, <1>9, <1>10, <1>11, OpenStep DEF IInv

LEMMA WriteOneStep ==
  ASSUME IInv, NEW p \in Procs, Write(p), Mark(p)
  PROVE  IInv'
<1>. DEFINE n == reg[p].off + 1
            i == reg[p].ino
            w == [written EXCEPT ![i] = @ \cup {n}]
            l == [length EXCEPT ![i] = IF n > @ THEN n ELSE @]
<1>0. pc[p] = "write" /\ TypeOK
  BY DEF Write, IInv
<1>1. i \in Inodes /\ n \in 1..Blocks /\ reg[p].off \in Nat
  BY <1>0, BlocksAssumption DEF IInv, TypeOK, Registers, Entry, WriterInv, WritersAreOpen
<1>2. w \in [Inodes -> SUBSET Pieces] /\ l \in [Inodes -> 0..Blocks]
  <2>1. n \in Pieces /\ n \in 0..Blocks
    BY <1>1, BlocksAssumption DEF Pieces
  <2>. QED  BY <1>0, <1>1, <2>1 DEF TypeOK
<1>3. Reclaim(w, l) /\ UNCHANGED <<backends, fan, entry>>
  BY DEF Write
<1>4. /\ written' \in [Inodes -> SUBSET Pieces]
      /\ length' \in [Inodes -> 0..Blocks]
      /\ \A j \in Inodes : InUse(j)' => written'[j] = w[j]
  <2>. HIDE DEF w, l
  <2>. QED  BY <1>2, <1>3, ReclaimType
<1>5. \A j \in Inodes : w[j] = IF j = i THEN written[j] \cup {n} ELSE written[j]
  BY <1>0, <1>1 DEF TypeOK
<1>8. \A j \in Inodes : InUse(j)' =>
        written'[j] = IF j = reg[p].ino THEN written[j] \cup {n} ELSE written[j]
  <2>. HIDE DEF w, l
  <2>. QED  BY <1>4, <1>5
<1>9. backends' = backends /\ entry' = entry /\ n = reg[p].off + 1
  BY <1>3
<1>6. CASE n = Blocks
  <2>1. Return(p, "ok") /\ "ok" \in Answers
    BY <1>6 DEF Write, Answers
  <2>2. /\ pc' \in [Procs -> Labels] /\ reg' \in [Procs -> Registers]
        /\ \A q \in Procs : pc'[q] # "idle" => reg'[q].at \in 1..Len(backends')
        /\ backends' \in Seq([dir : Dirs, priority : Priorities])
    BY <1>0, <1>3, <2>1, ReturnType
  <2>3. /\ pc'[p] = "idle"
        /\ \A q \in Procs \ {p} : pc'[q] = pc[q] /\ reg'[q] = reg[q]
    BY <1>0, <2>1, ReturnMoves
  <2>4. reg'[p].answer = "ok"
    BY <1>0, <2>1 DEF Return, Fresh, TypeOK
  <2>5. hurt' = hurt
    BY <1>0, <2>3, <2>4, MarkKeeps
  <2>6. TypeOK'
    BY <1>0, <1>3, <1>4, <2>2 DEF TypeOK, Labels
  <2>7. WriterInv'
    <3>. HIDE DEF n
    <3>. QED  BY <1>0, <1>6, <1>8, <1>9, <2>3, <2>5, <2>6, WriteStep
  <2>. QED  BY <2>5, <2>6, <2>7 DEF IInv
<1>7. CASE n # Blocks
  <2>. DEFINE r == [reg[p] EXCEPT !.off = n]
  <2>1. reg' = [reg EXCEPT ![p] = r] /\ pc' = pc
    BY <1>0, <1>7 DEF Write, TypeOK
  <2>2. r \in Registers /\ r.at = reg[p].at /\ r.obj = reg[p].obj
        /\ r.ino = i /\ r.off = n
    <3>1. reg[p] \in Registers /\ n \in 0..Blocks
      BY <1>0, <1>1, BlocksAssumption DEF TypeOK
    <3>. QED  BY <3>1 DEF Registers
  <2>3. pc' = [pc EXCEPT ![p] = "write"] /\ "write" \in Labels
    BY <1>0, <2>1 DEF TypeOK, Labels, WriterLabels
  <2>4. r.at \in 1..Len(backends)
    BY <1>0, <2>2 DEF TypeOK
  <2>5. reg'[p] = r /\ \A q \in Procs \ {p} : pc'[q] = pc[q] /\ reg'[q] = reg[q]
    BY <1>0, <2>1 DEF TypeOK
  <2>. HIDE DEF r
  <2>6. /\ pc' \in [Procs -> Labels] /\ reg' \in [Procs -> Registers]
        /\ \A q \in Procs : pc'[q] # "idle" => reg'[q].at \in 1..Len(backends')
        /\ backends' \in Seq([dir : Dirs, priority : Priorities])
    BY <1>0, <1>3, <2>1, <2>2, <2>3, <2>4, MoveType
  <2>7. hurt' = hurt
    BY <1>0, <2>1, MarkKeeps
  <2>8. TypeOK'
    BY <1>0, <1>3, <1>4, <2>6 DEF TypeOK, Labels
  <2>9. DirOf(p)' = DirOf(p)
    BY <1>3, <2>2, <2>5 DEF DirOf
  <2>10. WriterInv'
    <3>1. n < Blocks
      BY <1>1, <1>7, BlocksAssumption
    <3>2. /\ pc'[p] = "write"
          /\ reg'[p].obj = reg[p].obj /\ reg'[p].ino = reg[p].ino /\ reg'[p].off = n
      BY <1>0, <2>1, <2>2, <2>5
    <3>3. \A q \in Procs \ {p} : pc'[q] = pc[q] /\ reg'[q] = reg[q]
      BY <2>5
    <3>. HIDE DEF n
    <3>. QED  BY <1>0, <1>8, <1>9, <2>7, <2>8, <2>9, <3>1, <3>2, <3>3, WriteStep
  <2>. QED  BY <2>7, <2>8, <2>10 DEF IInv
<1>. QED  BY <1>6, <1>7

(* The writer gives up, or is killed: its object is in doubt. *)
LEMMA WriteErrorStep ==
  ASSUME IInv, NEW p \in Procs, WriteError(p), Mark(p)
  PROVE  IInv'
<1>0. pc[p] = "write" /\ TypeOK
  BY DEF WriteError, IInv
<1>1. DirOf(p) \in Dirs /\ reg[p].obj \in Objects
  BY <1>0, SpotType
<1>. DEFINE r == [reg[p] EXCEPT !.ino = NoInode]
<1>2. pc' = [pc EXCEPT ![p] = "unlink"] /\ reg' = [reg EXCEPT ![p] = r]
  BY <1>0 DEF WriteError, Goto, TypeOK
<1>3. r \in Registers /\ r.at = reg[p].at /\ r.obj = reg[p].obj
  BY <1>0, ZenonT(40) DEF TypeOK, Registers, Entry
<1>4. "unlink" \in Labels /\ r.at \in 1..Len(backends)
  BY <1>0, <1>3 DEF Labels, WriterLabels, TypeOK
<1>5. /\ pc'[p] = "unlink" /\ reg'[p] = r
      /\ \A q \in Procs \ {p} : pc'[q] = pc[q] /\ reg'[q] = reg[q]
  BY <1>0, <1>2 DEF TypeOK
<1>6. UNCHANGED <<backends, fan, entry>> /\ Reclaim(written, length)
  BY DEF WriteError
<1>. HIDE DEF r
<1>7. /\ pc' \in [Procs -> Labels] /\ reg' \in [Procs -> Registers]
      /\ \A q \in Procs : pc'[q] # "idle" => reg'[q].at \in 1..Len(backends')
      /\ backends' \in Seq([dir : Dirs, priority : Priorities])
  BY <1>0, <1>2, <1>3, <1>4, <1>6, MoveType
<1>8. TypeOK'
  BY <1>0, <1>6, <1>7, SameFiles DEF TypeOK, Labels
<1>9. hurt' = HurtBy(p) /\ hurt' \in [Dirs -> SUBSET Objects]
  BY <1>0, <1>5, MarkKeeps
<1>10. DirOf(p)' = DirOf(p)
  BY <1>3, <1>5, <1>6 DEF DirOf
<1>11. /\ \A d \in Dirs : hurt[d] \subseteq hurt'[d]
       /\ \A d \in Dirs, o \in Objects : AtWork(p, d, o) => o \in hurt'[d]
  BY <1>1, <1>9 DEF HurtBy, AtWork, IInv
<1>12. WriterInv'
  BY <1>0, <1>3, <1>5, <1>6, <1>8, <1>10, <1>11, SameFiles, LeaveStep
<1>. QED  BY <1>8, <1>9, <1>12 DEF IInv

(* A process that has given up is at work on an object in doubt. *)
LEMMA GivenUp ==
  ASSUME IInv, NEW p \in Procs, pc[p] = "unlink"
  PROVE  \A d \in Dirs, o \in Objects : AtWork(p, d, o) => o \in hurt[d]
BY DEF IInv, WriterInv, WritersAreLinked

LEMMA UnlinkStep ==
  ASSUME IInv, NEW p \in Procs, Unlink(p), Mark(p)
  PROVE  IInv'
<1>0. pc[p] = "unlink" /\ TypeOK
  BY DEF Unlink, IInv
<1>1. DirOf(p) \in Dirs /\ reg[p].obj \in Objects
  BY <1>0, SpotType
<1>2. hurt' = hurt
  BY <1>0, MarkKeeps
<1>3. /\ NextBackend(p, "statDir", "error")
      /\ UNCHANGED <<backends, fan>> /\ Reclaim(written, length)
      /\ "statDir" \in Labels /\ "error" \in Answers
  BY DEF Unlink, Labels, WriterLabels, Answers
<1>4. /\ pc' \in [Procs -> Labels] /\ reg' \in [Procs -> Registers]
      /\ \A q \in Procs : pc'[q] # "idle" => reg'[q].at \in 1..Len(backends')
      /\ backends' \in Seq([dir : Dirs, priority : Priorities])
  BY <1>0, <1>3, NextBackendType
<1>5. /\ pc'[p] \in {"idle", "statDir"}
      /\ \A q \in Procs \ {p} : pc'[q] = pc[q] /\ reg'[q] = reg[q]
  BY <1>0, <1>3, NextBackendMoves
<1>6. /\ entry' \in [Dirs -> [Objects -> Entry]]
      /\ \A d \in Dirs, o \in Objects :
           entry'[d][o] = IF d = DirOf(p) /\ o = reg[p].obj THEN NoInode
                          ELSE entry[d][o]
  <2>. DEFINE names == [entry[DirOf(p)] EXCEPT ![reg[p].obj] = NoInode]
  <2>1. entry' = [entry EXCEPT ![DirOf(p)] = names]
    BY DEF Unlink
  <2>2. entry \in [Dirs -> [Objects -> Entry]] /\ NoInode \in Entry
    BY <1>0 DEF TypeOK, Entry
  <2>3. names \in [Objects -> Entry]
    BY <1>1, <2>2
  <2>. QED  BY <1>1, <2>1, <2>2, <2>3
<1>7. TypeOK'
  BY <1>0, <1>3, <1>4, <1>6, SameFiles DEF TypeOK, Labels
<1>8. reg[p].obj \in hurt[DirOf(p)]
  BY <1>0, <1>1, GivenUp DEF AtWork
<1>9. WriterInv'
  BY <1>0, <1>2, <1>3, <1>5, <1>6, <1>7, <1>8, SameFiles, GivenUp, LeaveStep
<1>. QED  BY <1>2, <1>7, <1>9 DEF IInv

LEMMA CrashStep ==
  ASSUME IInv, NEW p \in Procs, Crash(p), Mark(p)
  PROVE  IInv'
<1>0. /\ pc[p] # "idle" /\ TypeOK
      /\ Return(p, "killed") /\ "killed" \in Answers
      /\ UNCHANGED <<backends, fan, entry>> /\ Reclaim(written, length)
  BY DEF Crash, IInv, Answers
<1>1. DirOf(p) \in Dirs /\ reg[p].obj \in Objects
  BY <1>0, SpotType
<1>2. /\ pc' \in [Procs -> Labels] /\ reg' \in [Procs -> Registers]
      /\ \A q \in Procs : pc'[q] # "idle" => reg'[q].at \in 1..Len(backends')
      /\ backends' \in Seq([dir : Dirs, priority : Priorities])
  BY <1>0, ReturnType
<1>3. /\ pc'[p] = "idle"
      /\ \A q \in Procs \ {p} : pc'[q] = pc[q] /\ reg'[q] = reg[q]
  BY <1>0, ReturnMoves
<1>4. reg'[p].answer = "killed"
  BY <1>0 DEF Return, Fresh, TypeOK
<1>5. TypeOK'
  BY <1>0, <1>2, SameFiles DEF TypeOK, Labels
<1>6. hurt' \in [Dirs -> SUBSET Objects]
  BY <1>0, MarkKeeps
<1>7. /\ \A d \in Dirs : hurt[d] \subseteq hurt'[d]
      /\ \A d \in Dirs, o \in Objects : AtWork(p, d, o) => o \in hurt'[d]
  <2>1. CASE pc[p] = "write"
    <3>1. hurt' = HurtBy(p)
      BY <1>0, <1>3, <1>4, <2>1, MarkKeeps
    <3>. QED  BY <1>1, <3>1 DEF HurtBy, AtWork, IInv
  <2>2. CASE pc[p] # "write"
    <3>1. hurt' = hurt
      BY <1>0, <1>3, <2>2, MarkKeeps
    <3>. QED  BY <2>2, <3>1, GivenUp DEF AtWork
  <2>. QED  BY <2>1, <2>2
<1>8. WriterInv'
  BY <1>0, <1>3, <1>5, <1>7, SameFiles, LeaveStep
<1>. QED  BY <1>5, <1>6, <1>8 DEF IInv

----------------------------------------------------------------------------
(* The list of backends. *)

Backend == [dir : Dirs, priority : Priorities]

(* The backends behind the new one have lower priorities than it. *)
LEMMA AddBackendShape ==
  ASSUME NEW s \in Seq(Backend), NEW b \in Backend
  PROVE  \E k \in 1..(Len(s) + 1) :
           /\ AddBackend(s, b) \in Seq(Backend)
           /\ Len(AddBackend(s, b)) = Len(s) + 1
           /\ \A j \in 1..(Len(s) + 1) :
                AddBackend(s, b)[j] = IF j < k THEN s[j] ELSE IF j = k THEN b ELSE s[j - 1]
           /\ \A j \in 1..(k - 1) : ~(b.priority > s[j].priority)
           /\ k <= Len(s) => b.priority > s[k].priority
<1>. DEFINE lower == {i \in 1..Len(s) : b.priority > s[i].priority}
<1>1. CASE lower = {}
  <2>1. AddBackend(s, b) = Append(s, b)
    BY <1>1 DEF AddBackend
  <2>2. \A j \in 1..Len(s) : ~(b.priority > s[j].priority)
    BY <1>1
  <2>3. /\ Append(s, b) \in Seq(Backend) /\ Len(Append(s, b)) = Len(s) + 1
        /\ \A j \in 1..(Len(s) + 1) :
             Append(s, b)[j] = IF j < Len(s) + 1 THEN s[j] ELSE b
    <3>. HIDE DEF Backend
    <3>. QED  BY AppendProperties
  <2>4. Len(s) + 1 \in 1..(Len(s) + 1) /\ Len(s) \in Nat
    OBVIOUS
  <2>. HIDE DEF Backend, lower
  <2>5. \A j \in 1..(Len(s) + 1) :
          Append(s, b)[j] = IF j < Len(s) + 1 THEN s[j]
                            ELSE IF j = Len(s) + 1 THEN b ELSE s[j - 1]
    BY <2>3, <2>4
  <2>6. ~(Len(s) + 1 <= Len(s)) /\ (Len(s) + 1) - 1 = Len(s)
    BY <2>4
  <2>. WITNESS Len(s) + 1 \in 1..(Len(s) + 1)
  <2>. QED  BY <2>1, <2>2, <2>3, <2>5, <2>6
<1>2. CASE lower # {}
  <2>. DEFINE k == CHOOSE i \in lower : \A j \in lower : i <= j
  <2>1. \E i \in lower : \A j \in lower : i <= j
    <3>1. lower \in SUBSET Nat
      OBVIOUS
    <3>. HIDE DEF lower
    <3>. QED  BY <1>2, <3>1, Least
  <2>2. k \in lower /\ \A j \in lower : k <= j
    BY <2>1
  <2>3. AddBackend(s, b) = SubSeq(s, 1, k - 1) \o <<b>> \o SubSeq(s, k, Len(s))
    BY <1>2 DEF AddBackend, InsertAt
  <2>4. \A j \in 1..(k - 1) : ~(b.priority > s[j].priority)
    <3>. SUFFICES ASSUME NEW j \in 1..(k - 1), b.priority > s[j].priority
                  PROVE  FALSE
      OBVIOUS
    <3>1. k \in 1..Len(s) /\ Len(s) \in Nat
      BY <2>2
    <3>2. j \in 1..Len(s) /\ ~(k <= j)
      BY <3>1
    <3>. QED  BY <2>2, <3>2
  <2>5. k \in 1..Len(s) /\ b.priority > s[k].priority
    BY <2>2
  <2>. HIDE DEF k
  <2>6. \A i \in 1..Len(s) : s[i] \in Backend
    BY SeqElement
  <2>. HIDE DEF Backend
  <2>. DEFINE front == SubSeq(s, 1, k - 1)
              back == SubSeq(s, k, Len(s))
  <2>7. /\ front \in Seq(Backend) /\ Len(front) = k - 1
        /\ \A j \in 1..(k - 1) : front[j] = s[j]
    BY <2>5, <2>6, SubSeqProperties
  <2>8. /\ back \in Seq(Backend) /\ Len(back) = Len(s) - k + 1
        /\ \A j \in 1..(Len(s) - k + 1) : back[j] = s[k + j - 1]
    BY <2>5, <2>6, SubSeqProperties
  <2>9. /\ front \o <<b>> \in Seq(Backend) /\ Len(front \o <<b>>) = k
        /\ \A j \in 1..k : (front \o <<b>>)[j] = IF j < k THEN s[j] ELSE b
    BY <2>5, <2>7
  <2>. HIDE DEF front, back
  <2>. DEFINE mid == front \o <<b>>
              all == mid \o back
  <2>14. /\ mid \in Seq(Backend) /\ Len(mid) = k
        /\ \A j \in 1..k : mid[j] = IF j < k THEN s[j] ELSE b
    BY <2>9
  <2>. HIDE DEF mid
  <2>10. /\ all \in Seq(Backend) /\ Len(all) = Len(s) + 1
         /\ \A j \in 1..(Len(s) + 1) : all[j] = IF j <= k THEN mid[j] ELSE back[j - k]
    <3>1. k + Len(back) = Len(s) + 1
      BY <2>5, <2>8
    <3>2. /\ all \in Seq(Backend) /\ Len(all) = Len(mid) + Len(back)
          /\ \A j \in 1..(Len(mid) + Len(back)) :
               all[j] = IF j <= Len(mid) THEN mid[j] ELSE back[j - Len(mid)]
      BY <2>8, <2>14, ConcatProperties
    <3>. HIDE DEF all
    <3>. QED  BY <2>14, <3>1, <3>2
  <2>11. \A j \in 1..(Len(s) + 1) :
           all[j] = IF j < k THEN s[j] ELSE IF j = k THEN b ELSE s[j - 1]
    BY <2>5, <2>8, <2>14, <2>10
  <2>12. AddBackend(s, b) = all
    BY <2>3 DEF mid, front, back
  <2>13. k \in 1..(Len(s) + 1)
    BY <2>5
  <2>. HIDE DEF all, lower
  <2>. WITNESS k \in 1..(Len(s) + 1)
  <2>. QED  BY <2>4, <2>5, <2>10, <2>11, <2>12
<1>. QED  BY <1>1, <1>2

(* A new backend goes where the order wants it. *)
LEMMA AddBackendKeepsOrder ==
  ASSUME NEW s \in Seq(Backend), NEW b \in Backend,
         \A i, j \in 1..Len(s) : i < j => s[i].priority >= s[j].priority,
         NEW i \in 1..Len(AddBackend(s, b)), NEW j \in 1..Len(AddBackend(s, b)), i < j
  PROVE  AddBackend(s, b)[i].priority >= AddBackend(s, b)[j].priority
<1>1. PICK k \in 1..(Len(s) + 1) :
        /\ Len(AddBackend(s, b)) = Len(s) + 1
        /\ \A n \in 1..(Len(s) + 1) :
             AddBackend(s, b)[n] = IF n < k THEN s[n] ELSE IF n = k THEN b ELSE s[n - 1]
        /\ \A n \in 1..(k - 1) : ~(b.priority > s[n].priority)
        /\ k <= Len(s) => b.priority > s[k].priority
  BY AddBackendShape
<1>2. b.priority \in Int /\ \A n \in 1..Len(s) : s[n].priority \in Int
  <2>1. \A n \in 1..Len(s) : s[n] \in Backend
    <3>. HIDE DEF Backend
    <3>. QED  BY SeqElement
  <2>. QED  BY <2>1, PrioritiesAssumption DEF Backend
<1>3. i \in 1..(Len(s) + 1) /\ j \in 1..(Len(s) + 1) /\ Len(s) \in Nat
  BY <1>1
<1>. DEFINE new == AddBackend(s, b)
<1>. HIDE DEF Backend, new
<1>4. new[i] = (IF i < k THEN s[i] ELSE IF i = k THEN b ELSE s[i - 1])
      /\ new[j] = (IF j < k THEN s[j] ELSE IF j = k THEN b ELSE s[j - 1])
  BY <1>1, <1>3 DEF new
<1>5. CASE j < k
  BY <1>2, <1>3, <1>4, <1>5 DEF new
<1>6. CASE j = k
  BY <1>1, <1>2, <1>3, <1>4, <1>6 DEF new
<1>7. CASE j > k /\ i < k
  BY <1>2, <1>3, <1>4, <1>7, SMTT(20) DEF new
<1>8. CASE j > k /\ i = k
  <2>1. k \in 1..Len(s) /\ j - 1 \in 1..Len(s) /\ (k = j - 1 \/ k < j - 1)
    BY <1>3, <1>8
  <2>2. b.priority > s[k].priority /\ s[k].priority >= s[j - 1].priority
    BY <1>1, <1>2, <2>1
  <2>. QED  BY <1>2, <1>4, <1>8, <2>1, <2>2 DEF new
<1>9. CASE j > k /\ i > k
  <2>1. i - 1 \in 1..Len(s) /\ j - 1 \in 1..Len(s) /\ i - 1 < j - 1
    BY <1>3, <1>9
  <2>. QED  BY <1>2, <1>4, <1>9, <2>1 DEF new
<1>. QED  BY <1>3, <1>5, <1>6, <1>7, <1>8, <1>9

LEMMA AttachStep ==
  ASSUME IInv, AttachAny, hurt' = hurt
  PROVE  IInv'
<1>1. PICK d \in Dirs, n \in Priorities : Attach(d, n)
  BY DEF AttachAny
<1>2. backends' \in Seq([dir : Dirs, priority : Priorities])
  <2>1. [dir |-> d, priority |-> n] \in Backend /\ backends \in Seq(Backend)
    BY DEF Backend, IInv, TypeOK
  <2>2. backends' = AddBackend(backends, [dir |-> d, priority |-> n])
    BY <1>1 DEF Attach
  <2>. QED  BY <2>1, <2>2, AddBackendShape DEF Backend
<1>3. \A p \in Procs : pc[p] = "idle" /\ pc'[p] = "idle"
  BY <1>1 DEF Attach
<1>4. UNCHANGED <<fan, entry, written, length, pc, reg>>
  BY <1>1 DEF Attach
<1>5. TypeOK'
  BY <1>2, <1>3, <1>4 DEF IInv, TypeOK
<1>6. WriterInv'
  BY <1>3, <1>4 DEF IInv, WriterInv, WritersAreOpen, WritersAreLinked,
     LastTruncationIsCovered, FilesAreDistinct, WritersKeepApart, AtWork, Whole
<1>. QED  BY <1>5, <1>6 DEF IInv
----------------------------------------------------------------------------
(* Everything together. *)

LEMMA InitIInv == HInit => IInv
<1>. SUFFICES ASSUME HInit PROVE IInv
  OBVIOUS
<1>. DEFINE r == Fresh("none", AnyObject, AnyObject, "none")
<1>1. r \in Registers
  BY FreshType, AnyObjectType DEF Answers
<1>2. reg \in [Procs -> Registers]
  <2>1. reg = [p \in Procs |-> r]
    BY DEF HInit, Init
  <2>. HIDE DEF r
  <2>. QED  BY <1>1, <2>1
<1>3. TypeOK
  <2>1. backends \in Seq([dir : Dirs, priority : Priorities])
    BY DEF HInit, Init
  <2>2. entry \in [Dirs -> [Objects -> Entry]]
    BY DEF HInit, Init, Entry
  <2>3. /\ fan \in [Dirs -> SUBSET Fans]
        /\ written \in [Inodes -> SUBSET Pieces]
        /\ length \in [Inodes -> 0..Blocks]
    BY BlocksAssumption DEF HInit, Init
  <2>4. /\ pc \in [Procs -> {"idle"} \cup WriterLabels \cup ReaderLabels]
        /\ \A p \in Procs : pc[p] = "idle"
    BY DEF HInit, Init
  <2>. QED  BY <1>2, <2>1, <2>2, <2>3, <2>4 DEF TypeOK
<1>4. \A p \in Procs : pc[p] = "idle"
  BY DEF HInit, Init
<1>5. \A d \in Dirs, o \in Objects : entry[d][o] = NoInode
  BY DEF HInit, Init
<1>6. WriterInv
  BY <1>4, <1>5 DEF WriterInv, WritersAreOpen, WritersAreLinked,
     LastTruncationIsCovered, FilesAreDistinct, WritersKeepApart, AtWork
<1>. QED  BY <1>3, <1>6 DEF IInv, HInit

LEMMA NextIInv == IInv /\ [HNext]_hvars => IInv'
<1>. SUFFICES ASSUME IInv, [HNext]_hvars PROVE IInv'
  OBVIOUS
<1>1. CASE AttachAny /\ UNCHANGED <<hurt, sure, met>>
  BY <1>1, AttachStep
<1>2. ASSUME NEW p \in Procs, Call(p), Mark(p) PROVE IInv'
  BY <1>2, BeginStep
<1>3. ASSUME NEW p \in Procs, Step(p), Mark(p) PROVE IInv'
  BY <1>3, StatDirStep, MkdirStep, OpenOneStep, WriteOneStep, UnlinkStep,
     ScanStep, StatStep, OpenReadStep, ReadStep, ExistsStep DEF Step
<1>4. ASSUME NEW p \in Procs, Fault(p), Mark(p) PROVE IInv'
  BY <1>4, WriteErrorStep, CrashStep DEF Fault
<1>5. CASE UNCHANGED hvars
  BY <1>5 DEF hvars, vars, IInv, TypeOK, WriterInv, WritersAreOpen, WritersAreLinked,
     LastTruncationIsCovered, FilesAreDistinct, WritersKeepApart, AtWork, DirOf,
     Whole, Covered
<1>. QED  BY <1>1, <1>2, <1>3, <1>4, <1>5 DEF HNext

LEMMA InductiveInvariant == HSpec => []IInv
BY InitIInv, NextIInv, PTL DEF HSpec

(* The types, and that every process is at a backend of the list. *)
THEOREM OdbTypeCorrect == HSpec => []TypeOK
<1>1. IInv => TypeOK
  BY DEF IInv
<1>. QED  BY <1>1, InductiveInvariant, PTL

(* Who is at work on which file, and what it has behind it. *)
THEOREM WritersAreInOrder == HSpec => []WriterInv
<1>1. IInv => WriterInv
  BY DEF IInv
<1>. QED  BY <1>1, InductiveInvariant, PTL

(* An object file that no writer is at work on and none has failed on is     *)
(* whole, however many processes truncate and write it at once.              *)
THEOREM ObjectsAreWhole == HSpec => []StoredIsWhole
<1>1. IInv => StoredIsWhole
  BY DEF IInv, WriterInv, LastTruncationIsCovered, StoredIsWhole
<1>. QED  BY <1>1, InductiveInvariant, PTL

(* Whatever backends are attached, in whatever order, the list is searched   *)
(* by descending priority.                                                   *)
THEOREM BackendsAreOrdered == HSpec => []SearchedByPriority
<1>1. HInit => SearchedByPriority
  BY DEF HInit, Init, SearchedByPriority
<1>2. TypeOK /\ SearchedByPriority /\ [HNext]_hvars => SearchedByPriority'
  <2>. SUFFICES ASSUME TypeOK, SearchedByPriority, [HNext]_hvars
                PROVE  SearchedByPriority'
    OBVIOUS
  <2>1. CASE backends' = backends
    BY <2>1 DEF SearchedByPriority
  <2>2. CASE AttachAny
    <3>1. PICK d \in Dirs, n \in Priorities : Attach(d, n)
      BY <2>2 DEF AttachAny
    <3>. DEFINE b == [dir |-> d, priority |-> n]
    <3>2. b \in Backend /\ backends \in Seq(Backend)
      BY DEF Backend, TypeOK
    <3>3. backends' = AddBackend(backends, b)
      BY <3>1 DEF Attach
    <3>. HIDE DEF b
    <3>. QED  BY <3>2, <3>3, AddBackendKeepsOrder DEF SearchedByPriority
  <2>3. CASE UNCHANGED hvars
    BY <2>1, <2>3 DEF hvars, vars
  <2>4. ASSUME NEW p \in Procs, Call(p) \/ Step(p) \/ Fault(p)
        PROVE  backends' = backends
    BY <2>4 DEF Call, StartWrite, StartRead, StartExists, StartPrefix, Begin,
       Step, StatDir, Mkdir, Open, OpenOn, Write, Unlink, Scan, Stat, OpenRead,
       Read, Exists, Fault, WriteError, Crash
  <2>. QED  BY <2>1, <2>2, <2>3, <2>4 DEF HNext
<1>. QED  BY <1>1, <1>2, OdbTypeCorrect, PTL DEF HSpec

----------------------------------------------------------------------------
(* What a read finds.  First what a step of p does to the files a reader has *)
(* before it.                                                                *)

Acts(p) == Call(p) \/ Step(p) \/ Fault(p)

RInv == IInv /\ ReaderInv

LEMMA ActsApart ==
  ASSUME TypeOK, NEW p \in Procs, Acts(p)
  PROVE  /\ backends' = backends
         /\ \A q \in Procs \ {p} : pc'[q] = pc[q] /\ reg'[q] = reg[q]
<1>1. \A l : Goto(p, l) => \A q \in Procs \ {p} : pc'[q] = pc[q]
  BY DEF Goto, TypeOK
<1>2. \A a : Return(p, a) => \A q \in Procs \ {p} : pc'[q] = pc[q] /\ reg'[q] = reg[q]
  BY ReturnMoves
<1>3. \A a, l : NextBackend(p, l, a)
                  => \A q \in Procs \ {p} : pc'[q] = pc[q] /\ reg'[q] = reg[q]
  BY NextBackendMoves
<1>4. backends' = backends
  BY DEF Acts, Call, StartWrite, StartRead, StartExists, StartPrefix, Begin, Step, StatDir,
     Mkdir, Open, OpenOn, Write, Unlink, Scan, Stat, OpenRead, Read, Exists, Fault,
     WriteError, Crash
<1>5. Call(p) => \A q \in Procs \ {p} : pc'[q] = pc[q] /\ reg'[q] = reg[q]
  BY <1>1 DEF Call, StartWrite, StartRead, StartExists, StartPrefix, Begin, TypeOK
<1>6. Step(p) => \A q \in Procs \ {p} : pc'[q] = pc[q] /\ reg'[q] = reg[q]
  BY <1>1, <1>2, <1>3 DEF Step, StatDir, Mkdir, Open, OpenOn, Write, Unlink, Scan, Stat,
     OpenRead, Read, Exists, NotFound, TypeOK
<1>7. Fault(p) => \A q \in Procs \ {p} : pc'[q] = pc[q] /\ reg'[q] = reg[q]
  BY <1>1, <1>2 DEF Fault, WriteError, Crash, TypeOK
<1>. QED  BY <1>4, <1>5, <1>6, <1>7 DEF Acts

LEMMA RestUntouched ==
  ASSUME NEW p \in Procs, Acts(p), ~Open(p), ~Write(p), ~Unlink(p)
  PROVE  /\ entry' = entry
         /\ UNCHANGED <<written, length>> \/ Reclaim(written, length)
BY DEF Acts, Call, StartWrite, StartRead, StartExists, StartPrefix, Begin, Step, StatDir,
   Mkdir, Scan, Stat, OpenRead, Read, Exists, Fault, WriteError, Crash

(* The name of an object nobody has failed on stays. *)
LEMMA LinksStay ==
  ASSUME IInv, NEW p \in Procs, Acts(p), NEW d \in Dirs, NEW o \in Objects,
         o \notin hurt[d], entry[d][o] # NoInode
  PROVE  entry'[d][o] = entry[d][o]
<1>0. TypeOK
  BY DEF IInv
<1>1. CASE Open(p)
  <2>1. PICK i \in Inodes : OpenOn(p, i) /\ (i = FileOf(p) \/ FileOf(p) = NoInode)
    BY <1>1 DEF Open, OpenOn
  <2>2. DirOf(p) \in Dirs /\ reg[p].obj \in Objects
    BY <1>0, <2>1, SpotType DEF OpenOn
  <2>3. entry'[d][o] = IF d = DirOf(p) /\ o = reg[p].obj THEN i ELSE entry[d][o]
    BY <1>0, <2>1, <2>2 DEF OpenOn, TypeOK
  <2>. QED  BY <2>1, <2>3 DEF FileOf
<1>2. CASE Write(p)
  BY <1>2 DEF Write
<1>3. CASE Unlink(p)
  <2>1. pc[p] = "unlink" /\ DirOf(p) \in Dirs /\ reg[p].obj \in Objects
    BY <1>0, <1>3, SpotType DEF Unlink
  <2>2. ~(d = DirOf(p) /\ o = reg[p].obj)
    BY <2>1, GivenUp DEF AtWork
  <2>. QED  BY <1>0, <1>3, <2>1, <2>2 DEF Unlink, TypeOK
<1>. QED  BY <1>1, <1>2, <1>3, RestUntouched

(* So does the whole file behind it, unless p has just truncated it. *)
LEMMA WholeStays ==
  ASSUME IInv, IInv', NEW p \in Procs, Acts(p), NEW d \in Dirs, NEW o \in Objects,
         o \notin hurt[d], entry[d][o] # NoInode, Whole(entry[d][o]), ~AtWork(p, d, o)'
  PROVE  entry'[d][o] = entry[d][o] /\ Whole(entry[d][o])'
<1>0. TypeOK /\ TypeOK'
  BY DEF IInv
<1>1. PICK i \in Inodes : i = entry[d][o] /\ i = entry'[d][o]
  BY <1>0, LinksStay DEF TypeOK, Entry
<1>2. InUse(i) /\ InUse(i)' /\ written[i] = Pieces
  BY <1>1 DEF InUse, Whole
<1>3. \A w, n : Reclaim(w, n) => written'[i] = w[i]
  BY <1>2 DEF Reclaim
<1>4. CASE Open(p)
  <2>1. PICK j \in Inodes : /\ OpenOn(p, j)
                            /\ j = FileOf(p) \/ (FileOf(p) = NoInode /\ ~InUse(j))
    BY <1>4 DEF Open, OpenOn, FreeInodes
  <2>2. DirOf(p) \in Dirs /\ reg[p].obj \in Objects
    BY <1>0, <2>1, SpotType DEF OpenOn
  <2>3. /\ pc'[p] = "write" /\ DirOf(p)' = DirOf(p) /\ reg'[p].obj = reg[p].obj
    BY <1>0, <2>1 DEF OpenOn, Goto, TypeOK, DirOf, Registers
  <2>4. i # j
    <3>. SUFFICES ASSUME i = j PROVE FALSE
      OBVIOUS
    <3>1. entry[DirOf(p)][reg[p].obj] = entry[d][o]
      BY <1>1, <1>2, <2>1 DEF FileOf
    <3>2. DirOf(p) = d /\ reg[p].obj = o
      BY <2>2, <3>1 DEF IInv, WriterInv, FilesAreDistinct
    <3>. QED  BY <2>3, <3>2 DEF AtWork
  <2>5. written'[i] = written[i]
    BY <1>0, <2>1, <2>4 DEF OpenOn, TypeOK
  <2>. QED  BY <1>1, <1>2, <2>5 DEF Whole
<1>5. CASE Write(p)
  <2>1. written'[i] = [written EXCEPT ![reg[p].ino] = @ \cup {reg[p].off + 1}][i]
    BY <1>3, <1>5 DEF Write
  <2>2. written[i] \subseteq written'[i] /\ written'[i] \subseteq Pieces
    BY <1>0, <2>1 DEF TypeOK
  <2>3. written'[i] = Pieces
    BY <1>2, <2>2
  <2>. QED  BY <1>1, <2>3 DEF Whole
<1>6. CASE Unlink(p)
  <2>1. written'[i] = written[i]
    BY <1>3, <1>6 DEF Unlink
  <2>. QED  BY <1>1, <1>2, <2>1 DEF Whole
<1>7. CASE ~Open(p) /\ ~Write(p) /\ ~Unlink(p)
  <2>1. written'[i] = written[i]
    BY <1>3, <1>7, RestUntouched
  <2>. QED  BY <1>1, <1>2, <2>1 DEF Whole
<1>. QED  BY <1>4, <1>5, <1>6, <1>7

LEMMA ReclaimWithin ==
  ASSUME NEW w \in [Inodes -> SUBSET Pieces], NEW n \in [Inodes -> 0..Blocks],
         \A i \in Inodes : w[i] \subseteq 1..n[i], Reclaim(w, n)
  PROVE  PiecesAreWithin'
BY DEF Reclaim, PiecesAreWithin

LEMMA WithinStays ==
  ASSUME IInv, PiecesAreWithin, NEW p \in Procs, Acts(p)
  PROVE  PiecesAreWithin'
<1>0. TypeOK
  BY DEF IInv
<1>1. CASE Open(p)
  <2>1. PICK i \in Inodes : OpenOn(p, i)
    BY <1>1 DEF Open, OpenOn
  <2>. QED  BY <1>0, <2>1 DEF OpenOn, TypeOK, PiecesAreWithin
<1>2. CASE Write(p)
  <2>. DEFINE n == reg[p].off + 1
              i == reg[p].ino
              w == [written EXCEPT ![i] = @ \cup {n}]
              l == [length EXCEPT ![i] = IF n > @ THEN n ELSE @]
  <2>1. reg[p].off \in 0..Blocks /\ reg[p].off < Blocks /\ i \in Inodes
    BY <1>0, <1>2 DEF Write, IInv, WriterInv, WritersAreOpen, TypeOK, Registers, Entry
  <2>2. n \in Pieces /\ n \in 0..Blocks
    BY <2>1, BlocksAssumption DEF Pieces
  <2>3. Reclaim(w, l)
    BY <1>2 DEF Write
  <2>. HIDE DEF n, i
  <2>4. w \in [Inodes -> SUBSET Pieces]
    BY <1>0, <2>2 DEF TypeOK
  <2>5. l \in [Inodes -> 0..Blocks]
    BY <1>0, <2>2 DEF TypeOK
  <2>6. \A j \in Inodes : w[j] \subseteq 1..l[j]
    <3>. TAKE j \in Inodes
    <3>1. length[j] \in Nat /\ written[j] \subseteq 1..length[j] /\ n \in Nat /\ n >= 1
      BY <1>0, <2>2, BlocksAssumption DEF TypeOK, PiecesAreWithin, Pieces
    <3>2. CASE j = i
      <4>1. w[j] = written[j] \cup {n} /\ l[j] = IF n > length[j] THEN n ELSE length[j]
        BY <1>0, <2>1, <3>2 DEF TypeOK
      <4>. QED  BY <3>1, <4>1
    <3>3. CASE j # i
      <4>1. w[j] = written[j] /\ l[j] = length[j]
        BY <1>0, <2>1, <3>3 DEF TypeOK
      <4>. QED  BY <3>1, <4>1
    <3>. QED  BY <3>2, <3>3
  <2>. HIDE DEF w, l
  <2>. QED  BY <2>3, <2>4, <2>5, <2>6, ReclaimWithin
<1>3. CASE Unlink(p)
  BY <1>0, <1>3, ReclaimWithin DEF Unlink, TypeOK, PiecesAreWithin
<1>4. CASE ~Open(p) /\ ~Write(p) /\ ~Unlink(p)
  <2>1. UNCHANGED <<written, length>> \/ Reclaim(written, length)
    BY <1>4, RestUntouched
  <2>2. CASE UNCHANGED <<written, length>>
    BY <2>2 DEF PiecesAreWithin
  <2>3. CASE Reclaim(written, length)
    BY <1>0, <2>3, ReclaimWithin DEF TypeOK, PiecesAreWithin
  <2>. QED  BY <2>1, <2>2, <2>3
<1>. QED  BY <1>1, <1>2, <1>3, <1>4

----------------------------------------------------------------------------
(* What the history variables say of a reader. *)

LEMMA WatchFacts ==
  ASSUME Watch, NEW p \in Procs
  PROVE  /\ sure'[p] => /\ Reading(p)' /\ ~Doubtful(p)'
                        /\ pc[p] = "idle" => Stored(reg[p].obj)'
                        /\ pc[p] # "idle" => sure[p]
         /\ Meets(p)' => met'[p]
         /\ Reading(p)' /\ pc[p] # "idle" /\ met[p] => met'[p]
<1>1. /\ sure' = [q \in Procs |->
                    /\ Reading(q)' /\ ~Doubtful(q)'
                    /\ IF pc[q] = "idle" THEN Stored(reg[q].obj)' ELSE sure[q]]
      /\ met' = [q \in Procs |-> Meets(q)' \/ (Reading(q)' /\ pc[q] # "idle" /\ met[q])]
  BY DEF Watch
<1>2. sure'[p] = (/\ Reading(p)' /\ ~Doubtful(p)'
                  /\ IF pc[p] = "idle" THEN Stored(reg[p].obj)' ELSE sure[p])
  BY <1>1, Zenon
<1>3. met'[p] = (Meets(p)' \/ (Reading(p)' /\ pc[p] # "idle" /\ met[p]))
  BY <1>1, Zenon
<1>4. sure'[p] => Reading(p)' /\ ~Doubtful(p)'
  BY <1>2, Zenon
<1>5. sure'[p] /\ pc[p] = "idle" => Stored(reg[p].obj)'
  BY <1>2, Zenon
<1>6. sure'[p] /\ pc[p] # "idle" => sure[p]
  BY <1>2, Zenon
<1>7. Meets(p)' => met'[p]
  BY <1>3, Zenon
<1>8. Reading(p)' /\ pc[p] # "idle" /\ met[p] => met'[p]
  BY <1>3, Zenon
<1>. QED  BY <1>4, <1>5, <1>6, <1>7, <1>8

(* Every file of an object that a sure reader has met no writer of is whole. *)
LEMMA SureIsWhole ==
  ASSUME RInv, NEW p \in Procs, sure[p], ~met[p], NEW d \in Dirs,
         entry[d][reg[p].obj] # NoInode
  PROVE  /\ Whole(entry[d][reg[p].obj])
         /\ length[entry[d][reg[p].obj]] = Blocks
<1>1. Reading(p) /\ ~Doubtful(p) /\ ~Meets(p)
  BY DEF RInv, ReaderInv
<1>2. reg[p].obj \in Objects \ hurt[d]
  BY <1>1 DEF Reading, Doubtful, RInv, IInv, TypeOK, Registers
<1>3. \A q \in Procs : ~AtWork(q, d, reg[p].obj)
  BY <1>1 DEF Meets
<1>4. Whole(entry[d][reg[p].obj])
  BY <1>2, <1>3 DEF RInv, IInv, WriterInv, LastTruncationIsCovered
<1>5. entry[d][reg[p].obj] \in Inodes
  BY <1>2 DEF RInv, IInv, TypeOK, Entry
<1>6. Pieces \subseteq 1..length[entry[d][reg[p].obj]] /\ length[entry[d][reg[p].obj]] \in 0..Blocks
  BY <1>4, <1>5 DEF RInv, ReaderInv, PiecesAreWithin, Whole, IInv, TypeOK
<1>7. Blocks \in Pieces
  BY BlocksAssumption DEF Pieces
<1>. QED  BY <1>4, <1>6, <1>7, BlocksAssumption

(* A reader that does not move. *)
LEMMA ReaderStays ==
  ASSUME RInv, IInv', NEW p \in Procs, Acts(p), Watch, NEW q \in Procs \ {p}
  PROVE  /\ Reading(q)' => pc'[q] \in {"stat", "openRead", "read"}
         /\ sure'[q] => Ahead(q)'
         /\ sure'[q] /\ ~met'[q] => ReadsWhole(q)'
<1>0. TypeOK /\ IInv
  BY DEF RInv, IInv
<1>1. pc'[q] = pc[q] /\ reg'[q] = reg[q] /\ backends' = backends
  BY <1>0, ActsApart
<1>2. Reading(q)' => pc'[q] \in {"stat", "openRead", "read"}
  BY <1>1 DEF Reading, RInv, ReaderInv
<1>3. ASSUME sure'[q] PROVE Ahead(q)' /\ (~met'[q] => ReadsWhole(q)')
  <2>1. Reading(q)' /\ Reading(q) /\ sure[q] /\ ~Doubtful(q) /\ Ahead(q)
    BY <1>1, <1>3, WatchFacts DEF Reading, RInv, ReaderInv
  <2>2. PICK o \in Objects : o = reg[q].obj
    BY <1>0 DEF TypeOK, Registers
  <2>3. \A d \in Dirs : o \notin hurt[d]
    BY <2>1, <2>2 DEF Doubtful
  <2>4. \A j \in 1..Len(backends) : backends[j].dir \in Dirs
    <3>1. backends \in Seq([dir : Dirs, priority : Priorities])
      BY <1>0 DEF TypeOK
    <3>2. \A j \in 1..Len(backends) : backends[j] \in [dir : Dirs, priority : Priorities]
      BY <3>1, SeqElement
    <3>. QED  BY <3>2
  <2>5. \A d \in Dirs : entry[d][o] # NoInode => entry'[d][o] = entry[d][o]
    BY <1>0, <2>3, LinksStay
  <2>6. Ahead(q)'
    BY <1>1, <2>1, <2>2, <2>4, <2>5 DEF Ahead
  <2>7. ASSUME ~met'[q] PROVE ReadsWhole(q)'
    <3>1. ~met[q] /\ ~Meets(q)' /\ ReadsWhole(q)
      BY <2>1, <2>7, WatchFacts DEF Reading, RInv, ReaderInv
    <3>2. \A d \in Dirs : ~AtWork(p, d, o)'
      BY <1>1, <2>1, <2>2, <3>1 DEF Meets
    <3>3. pc[q] = "read" => FileOf(q)' = FileOf(q) /\ Whole(FileOf(q))'
      <4>. SUFFICES ASSUME pc[q] = "read" PROVE FileOf(q)' = FileOf(q) /\ Whole(FileOf(q))'
        OBVIOUS
      <4>1. DirOf(q) \in Dirs /\ DirOf(q)' = DirOf(q)
        BY <1>0, <1>1, SpotType DEF DirOf
      <4>2. PICK d \in Dirs : d = DirOf(q)
        BY <4>1
      <4>3. entry[d][o] # NoInode /\ Whole(entry[d][o])
        BY <2>2, <3>1, <4>2 DEF ReadsWhole, FileOf
      <4>4. entry'[d][o] = entry[d][o] /\ Whole(entry[d][o])'
        BY <1>0, <2>3, <3>2, <4>3, WholeStays
      <4>. QED  BY <1>1, <2>2, <4>1, <4>2, <4>4 DEF FileOf
    <3>. QED  BY <1>1, <3>1, <3>3 DEF ReadsWhole, Whole
  <2>. QED  BY <2>6, <2>7
<1>. QED  BY <1>2, <1>3

(* What is to show of a step of the reader itself. *)
ReadsOn(p) ==
  /\ Reading(p)' => pc'[p] \in {"stat", "openRead", "read"}
  /\ sure'[p] => Ahead(p)'
  /\ sure'[p] /\ ~met'[p] => ReadsWhole(p)'

(* A step with which p goes on, in the same directory or the next. *)
LEMMA ReadsOnSame ==
  ASSUME RInv, NEW p \in Procs, Watch, Reading(p), backends' = backends, entry' = entry,
         NEW l \in {"openRead", "read"}, pc'[p] = l,
         reg'[p].at = reg[p].at, reg'[p].obj = reg[p].obj,
         sure[p] /\ ~met[p] => ReadsWhole(p)'
  PROVE  ReadsOn(p)
<1>1. pc[p] # "idle"
  BY DEF Reading
<1>2. sure'[p] => sure[p] /\ Reading(p)'
  BY <1>1, WatchFacts
<1>3. sure'[p] => Ahead(p)'
  BY <1>2 DEF RInv, ReaderInv, Ahead
<1>4. sure'[p] /\ ~met'[p] => ~met[p]
  BY <1>1, <1>2, WatchFacts
<1>. QED  BY <1>2, <1>3, <1>4 DEF ReadsOn

LEMMA ReadsOnNext ==
  ASSUME RInv, NEW p \in Procs, Watch, Reading(p), backends' = backends, entry' = entry,
         FileOf(p) = NoInode, NotFound(p)
  PROVE  /\ ReadsOn(p)
         /\ pc'[p] = "idle" => ~sure[p]
<1>0. TypeOK /\ pc[p] # "idle" /\ reg[p].op = "read" /\ reg[p].at \in 1..Len(backends)
  BY DEF RInv, IInv, Reading, TypeOK
<1>1. NextBackend(p, "stat", "notfound")
  BY <1>0 DEF NotFound, FirstStep
<1>2. sure[p] => \E j \in 1..Len(backends) :
        reg[p].at < j /\ entry[backends[j].dir][reg[p].obj] # NoInode
  <2>. SUFFICES ASSUME sure[p] PROVE \E j \in 1..Len(backends) :
        reg[p].at < j /\ entry[backends[j].dir][reg[p].obj] # NoInode
    OBVIOUS
  <2>1. PICK j \in 1..Len(backends) :
          reg[p].at <= j /\ entry[backends[j].dir][reg[p].obj] # NoInode
    BY DEF RInv, ReaderInv, Ahead
  <2>2. j # reg[p].at
    BY <2>1 DEF FileOf, DirOf
  <2>. QED  BY <1>0, <2>1, <2>2
<1>3. CASE reg[p].at < Len(backends)
  <2>1. /\ pc'[p] = "stat" /\ reg'[p].at = reg[p].at + 1 /\ reg'[p].obj = reg[p].obj
    BY <1>0, <1>1, <1>3 DEF NextBackend, Goto, TypeOK, Registers
  <2>2. sure'[p] => sure[p]
    BY <1>0, WatchFacts
  <2>3. sure'[p] => Ahead(p)'
    BY <1>0, <1>2, <2>1, <2>2 DEF Ahead
  <2>4. ReadsWhole(p)'
    BY <2>1 DEF ReadsWhole
  <2>. QED  BY <2>1, <2>3, <2>4 DEF ReadsOn
<1>4. CASE ~(reg[p].at < Len(backends))
  <2>1. pc'[p] = "idle"
    BY <1>0, <1>1, <1>4, ReturnMoves DEF NextBackend
  <2>2. ~sure[p]
    BY <1>0, <1>2, <1>4
  <2>3. ~Reading(p)' /\ ~sure'[p]
    BY <2>1, WatchFacts DEF Reading
  <2>. QED  BY <2>2, <2>3 DEF ReadsOn
<1>. QED  BY <1>3, <1>4

LEMMA ReadsOnReturn ==
  ASSUME RInv, NEW p \in Procs, NEW a, Watch, Return(p, a)
  PROVE  ReadsOn(p) /\ pc'[p] = "idle" /\ reg'[p].answer = a
<1>1. pc'[p] = "idle" /\ reg'[p].answer = a
  BY DEF Return, Goto, Fresh, RInv, IInv, TypeOK
<1>2. ~Reading(p)' /\ ~sure'[p]
  BY <1>1, WatchFacts DEF Reading
<1>. QED  BY <1>1, <1>2 DEF ReadsOn

(* The end of a read. *)
EndsWell(p) ==
  pc'[p] = "idle" /\ sure[p]
    => reg'[p].answer # "notfound" /\ (reg'[p].answer = "ok" \/ met[p])

LEMMA StatReads ==
  ASSUME RInv, NEW p \in Procs, Stat(p), Watch, Reading(p)
  PROVE  ReadsOn(p) /\ EndsWell(p)
<1>0. /\ TypeOK /\ pc[p] = "stat" /\ DirOf(p) \in Dirs
      /\ UNCHANGED <<backends, fan, entry, written, length>>
  BY SpotType DEF RInv, IInv, Stat
<1>1. sure[p] /\ ~met[p] /\ FileOf(p) # NoInode => length[FileOf(p)] = Blocks
  BY <1>0, SureIsWhole DEF FileOf
<1>2. CASE FileOf(p) = NoInode /\ NotFound(p)
  BY <1>0, <1>2, ReadsOnNext DEF EndsWell
<1>3. CASE FileOf(p) # NoInode /\ length[FileOf(p)] = 0 /\ Return(p, "error")
  <2>1. ReadsOn(p) /\ reg'[p].answer = "error"
    BY <1>3, ReadsOnReturn
  <2>. QED  BY <1>1, <1>3, <2>1, BlocksAssumption DEF EndsWell
<1>4. CASE /\ FileOf(p) # NoInode
           /\ reg' = [reg EXCEPT ![p].len = length[FileOf(p)]]
           /\ Goto(p, "openRead")
  <2>1. /\ pc'[p] = "openRead" /\ reg'[p].len = length[FileOf(p)]
        /\ reg'[p].at = reg[p].at /\ reg'[p].obj = reg[p].obj
    BY <1>0, <1>4 DEF Goto, TypeOK, Registers
  <2>2. sure[p] /\ ~met[p] => ReadsWhole(p)'
    BY <1>1, <1>4, <2>1 DEF ReadsWhole
  <2>3. ReadsOn(p)
    BY <1>0, <2>1, <2>2, ReadsOnSame
  <2>. QED  BY <2>1, <2>3 DEF EndsWell
<1>. QED  BY <1>2, <1>3, <1>4 DEF Stat

LEMMA OpenReadReads ==
  ASSUME RInv, NEW p \in Procs, OpenRead(p), Watch, Reading(p)
  PROVE  ReadsOn(p) /\ EndsWell(p)
<1>0. /\ TypeOK /\ pc[p] = "openRead" /\ DirOf(p) \in Dirs
      /\ UNCHANGED <<backends, fan, entry, written, length>>
  BY SpotType DEF RInv, IInv, OpenRead
<1>1. CASE FileOf(p) = NoInode /\ NotFound(p)
  BY <1>0, <1>1, ReadsOnNext DEF EndsWell
<1>2. CASE /\ FileOf(p) # NoInode
           /\ reg' = [reg EXCEPT ![p].ino = FileOf(p), ![p].off = 0, ![p].good = TRUE]
           /\ Goto(p, "read")
  <2>1. /\ pc'[p] = "read" /\ reg'[p].ino = FileOf(p) /\ reg'[p].off = 0
        /\ reg'[p].good = TRUE /\ reg'[p].len = reg[p].len
        /\ reg'[p].at = reg[p].at /\ reg'[p].obj = reg[p].obj
    BY <1>0, <1>2 DEF Goto, TypeOK, Registers
  <2>2. ASSUME sure[p], ~met[p] PROVE ReadsWhole(p)'
    <3>1. Whole(FileOf(p)) /\ reg[p].len = Blocks
      BY <1>0, <1>2, <2>2, SureIsWhole DEF FileOf, RInv, ReaderInv, ReadsWhole
    <3>2. FileOf(p)' = FileOf(p)
      BY <1>0, <2>1 DEF FileOf, DirOf
    <3>3. Whole(reg[p].ino)'
      BY <1>0, <2>1, <3>1 DEF Whole
    <3>. QED  BY <1>2, <2>1, <3>1, <3>2, <3>3, BlocksAssumption DEF ReadsWhole
  <2>3. ReadsOn(p)
    BY <1>0, <2>1, <2>2, ReadsOnSame
  <2>. QED  BY <2>1, <2>3 DEF EndsWell
<1>. QED  BY <1>1, <1>2 DEF OpenRead

LEMMA ReadReads ==
  ASSUME RInv, IInv', NEW p \in Procs, Read(p), Watch, Reading(p)
  PROVE  ReadsOn(p) /\ EndsWell(p)
<1>. DEFINE n == reg[p].off + 1
            fine == reg[p].good /\ n \in written[reg[p].ino]
<1>0. /\ TypeOK /\ pc[p] = "read" /\ DirOf(p) \in Dirs
      /\ UNCHANGED <<backends, fan, entry>>
  BY SpotType DEF RInv, IInv, Read
<1>1. ASSUME sure[p], ~met[p]
      PROVE  /\ reg[p].ino = FileOf(p) /\ FileOf(p) # NoInode
             /\ reg[p].good /\ reg[p].off < Blocks /\ reg[p].off \in Nat
             /\ written[reg[p].ino] = Pieces /\ length[reg[p].ino] = Blocks
             /\ reg[p].len = Blocks
  <2>1. ReadsWhole(p)
    BY <1>1 DEF RInv, ReaderInv
  <2>2. reg[p].ino = FileOf(p) /\ FileOf(p) # NoInode /\ length[FileOf(p)] = Blocks
    BY <1>0, <1>1, <2>1, SureIsWhole DEF ReadsWhole, FileOf
  <2>. QED  BY <1>0, <2>1, <2>2 DEF ReadsWhole, Whole, TypeOK, Registers
<1>2. sure[p] /\ ~met[p] => n <= Blocks /\ fine
  BY <1>1, BlocksAssumption DEF Pieces
<1>3. CASE n > length[reg[p].ino] /\ Return(p, "error")
  <2>1. ReadsOn(p) /\ reg'[p].answer = "error"
    BY <1>3, ReadsOnReturn
  <2>. QED  BY <1>1, <1>2, <1>3, <2>1, BlocksAssumption DEF EndsWell
<1>4. CASE /\ n < reg[p].len
           /\ reg' = [reg EXCEPT ![p].off = n, ![p].good = fine]
           /\ UNCHANGED pc
  <2>0. PICK m, b : m = n /\ b = fine
    OBVIOUS
  <2>1. reg' = [reg EXCEPT ![p].off = m, ![p].good = b]
    BY <1>4, <2>0
  <2>2. /\ pc'[p] = "read" /\ reg'[p].ino = reg[p].ino /\ reg'[p].off = m
        /\ reg'[p].good = b /\ reg'[p].len = reg[p].len
        /\ reg'[p].at = reg[p].at /\ reg'[p].obj = reg[p].obj
    BY <1>0, <1>4, <2>1 DEF TypeOK, Registers
  <2>3. ASSUME sure[p], ~met[p] PROVE ReadsWhole(p)'
    <3>1. FileOf(p)' = FileOf(p)
      BY <1>0, <2>2 DEF FileOf, DirOf
    <3>2. PICK i \in Inodes : i = reg[p].ino /\ i = reg'[p].ino
      BY <1>0, <1>1, <2>2, <2>3 DEF TypeOK, Registers, Entry
    <3>3. InUse(i)' /\ Reclaim(written, length)
      BY <2>2, <3>2 DEF InUse, Read
    <3>4. written'[i] = written[i]
      BY <3>3 DEF Reclaim
    <3>5. Whole(reg[p].ino)'
      BY <1>1, <2>3, <3>2, <3>4 DEF Whole
    <3>6. reg'[p].good
      BY <1>2, <2>0, <2>2, <2>3
    <3>. QED  BY <1>1, <1>4, <2>0, <2>2, <2>3, <3>1, <3>5, <3>6 DEF ReadsWhole
  <2>4. ReadsOn(p)
    BY <1>0, <2>2, <2>3, ReadsOnSame
  <2>. QED  BY <2>2, <2>4 DEF EndsWell
<1>5. CASE n = reg[p].len /\ Return(p, IF fine /\ n = Blocks THEN "ok" ELSE "error")
  <2>. DEFINE a == IF fine /\ n = Blocks THEN "ok" ELSE "error"
  <2>1. a \in {"ok", "error"} /\ (sure[p] /\ ~met[p] => a = "ok")
    BY <1>1, <1>2, <1>5
  <2>2. Return(p, a)
    BY <1>5
  <2>. HIDE DEF a
  <2>3. ReadsOn(p) /\ reg'[p].answer = a
    BY <2>2, ReadsOnReturn
  <2>. QED  BY <2>1, <2>3 DEF EndsWell
<1>. QED  BY <1>3, <1>4, <1>5 DEF Read

(* A step of p that is none of a read, or begins one. *)
LEMMA OtherReads ==
  ASSUME RInv, NEW p \in Procs, Acts(p), Mark(p), Watch,
         ~(Reading(p) /\ (Stat(p) \/ OpenRead(p) \/ Read(p)))
  PROVE  ReadsOn(p) /\ (Reading(p) /\ pc'[p] = "idle" => reg'[p].answer = "killed")
<1>0. TypeOK
  BY DEF RInv, IInv
<1>1. CASE Call(p)
  <2>1. pc[p] = "idle" /\ pc'[p] # "idle" /\ UNCHANGED <<backends, entry>>
    BY <1>0, <1>1 DEF Call, StartWrite, StartRead, StartExists, StartPrefix, Begin, Goto,
       TypeOK
  <2>2. CASE \E o \in Objects : StartRead(p, o)
    <3>1. pc'[p] = "stat" /\ reg'[p].at = 1
      BY <1>0, <2>2 DEF StartRead, Begin, Goto, Fresh, TypeOK
    <3>2. ASSUME sure'[p] PROVE Ahead(p)'
      <4>1. PICK d \in Attached' : entry'[d][reg'[p].obj] # NoInode
        BY <2>1, <3>2, WatchFacts DEF Stored
      <4>. QED  BY <2>1, <3>1, <4>1 DEF Ahead, Attached
    <3>. QED  BY <2>1, <3>1, <3>2 DEF ReadsOn, ReadsWhole, Reading
  <2>3. CASE ~\E o \in Objects : StartRead(p, o)
    <3>1. ~Reading(p)'
      BY <1>0, <1>1, <2>3 DEF Call, StartWrite, StartExists, StartPrefix, Begin, Fresh,
         Reading, TypeOK
    <3>. QED  BY <2>1, <3>1, WatchFacts DEF ReadsOn, Reading
  <2>. QED  BY <2>2, <2>3
<1>2. CASE Reading(p) /\ ~Call(p)
  <2>1. pc[p] \in {"stat", "openRead", "read"}
    BY <1>2 DEF RInv, ReaderInv
  <2>2. Crash(p)
    BY <1>2, <2>1 DEF Acts, Step, StatDir, Mkdir, Open, OpenOn, Write, Unlink, Scan, Exists,
       Fault, WriteError
  <2>. QED  BY <2>2, ReadsOnReturn DEF Crash
<1>3. CASE ~Reading(p) /\ ~Call(p)
  <2>1. \A a : Return(p, a) => pc'[p] = "idle"
    BY <1>0, ReturnMoves
  <2>2. \A a, l : NextBackend(p, l, a) => pc'[p] = "idle" \/ reg'[p].op = reg[p].op
    BY <1>0, <2>1 DEF NextBackend, TypeOK, Registers
  <2>3. Fault(p) => pc'[p] = "idle" \/ reg'[p].op = reg[p].op
    BY <1>0, <2>1 DEF Fault, Crash, WriteError, TypeOK, Registers
  <2>4. Step(p) => pc'[p] = "idle" \/ reg'[p].op = reg[p].op
    <3>1. StatDir(p) \/ Mkdir(p) \/ Open(p) => pc'[p] = "idle" \/ reg'[p].op = reg[p].op
      BY <1>0, <2>1, <2>2 DEF StatDir, Mkdir, Open, OpenOn, TypeOK, Registers
    <3>2. Write(p) \/ Unlink(p) \/ Scan(p) => pc'[p] = "idle" \/ reg'[p].op = reg[p].op
      BY <1>0, <2>1, <2>2 DEF Write, Unlink, Scan, NotFound, TypeOK, Registers
    <3>3. Stat(p) \/ OpenRead(p) => pc'[p] = "idle" \/ reg'[p].op = reg[p].op
      BY <1>0, <2>1, <2>2 DEF Stat, OpenRead, NotFound, TypeOK, Registers
    <3>4. Read(p) \/ Exists(p) => pc'[p] = "idle" \/ reg'[p].op = reg[p].op
      BY <1>0, <2>1, <2>2 DEF Read, Exists, NotFound, TypeOK, Registers
    <3>. QED  BY <3>1, <3>2, <3>3, <3>4 DEF Step
  <2>5. pc[p] # "idle"
    BY <1>3 DEF Acts, Step, StatDir, Mkdir, Open, OpenOn, Write, Unlink, Scan, Stat,
       OpenRead, Read, Exists, Fault, WriteError, Crash
  <2>6. ~Reading(p)'
    BY <1>3, <2>3, <2>4, <2>5 DEF Acts, Reading
  <2>. QED  BY <1>3, <2>6, WatchFacts DEF ReadsOn
<1>. QED  BY <1>1, <1>2, <1>3

LEMMA ReaderInvStep ==
  ASSUME RInv, IInv', NEW p \in Procs, Acts(p), Mark(p), Watch
  PROVE  ReaderInv' /\ (Reading(p) => EndsWell(p) \/ reg'[p].answer = "killed")
<1>1. PiecesAreWithin'
  BY WithinStays DEF RInv, ReaderInv
<1>2. ReadsOn(p) /\ (Reading(p) => EndsWell(p) \/ reg'[p].answer = "killed")
  BY StatReads, OpenReadReads, ReadReads, OtherReads DEF EndsWell
<1>3. ASSUME NEW q \in Procs
      PROVE  /\ Reading(q)' => pc'[q] \in {"stat", "openRead", "read"}
             /\ sure'[q] => Reading(q)' /\ ~Doubtful(q)' /\ Ahead(q)'
             /\ Meets(q)' => met'[q]
             /\ sure'[q] /\ ~met'[q] => ReadsWhole(q)'
  <2>1. CASE q = p
    BY <1>2, <2>1, WatchFacts DEF ReadsOn
  <2>2. CASE q # p
    BY <2>2, ReaderStays, WatchFacts
  <2>. QED  BY <2>1, <2>2
<1>. QED  BY <1>1, <1>2, <1>3 DEF ReaderInv

LEMMA InitReaderInv == HInit => ReaderInv
BY DEF HInit, Init, ReaderInv, PiecesAreWithin, Reading, Meets

LEMMA NextReaderInv ==
  ASSUME RInv, IInv', [HNext]_hvars
  PROVE  ReaderInv'
<1>1. ASSUME NEW p \in Procs, Call(p) \/ Step(p) \/ Fault(p), Mark(p), Watch
      PROVE  ReaderInv'
  BY <1>1, ReaderInvStep DEF Acts
<1>2. CASE AttachAny /\ UNCHANGED <<hurt, sure, met>>
  <2>1. /\ \A q \in Procs : pc[q] = "idle"
        /\ UNCHANGED <<fan, entry, written, length, pc, reg>>
    BY <1>2 DEF AttachAny, Attach
  <2>2. PiecesAreWithin'
    BY <2>1 DEF RInv, ReaderInv, PiecesAreWithin
  <2>3. \A q \in Procs : ~Reading(q) /\ ~Reading(q)' /\ ~sure[q]
    BY <2>1 DEF Reading, RInv, ReaderInv
  <2>. QED  BY <1>2, <2>2, <2>3 DEF ReaderInv, Meets
<1>3. CASE UNCHANGED hvars
  BY <1>3 DEF hvars, vars, RInv, ReaderInv, PiecesAreWithin, Reading, Doubtful, Ahead,
     Meets, AtWork, DirOf, ReadsWhole, FileOf, Whole
<1>. QED  BY <1>1, <1>2, <1>3 DEF HNext

(* In every reachable state a reader that began with the object stored has it *)
(* still before it, and has read nothing but the object as long as it has met *)
(* no writer.                                                                 *)
THEOREM ReadersAreOnTheWay == HSpec => []ReaderInv
<1>1. IInv /\ IInv' /\ ReaderInv /\ [HNext]_hvars => ReaderInv'
  BY NextReaderInv DEF RInv
<1>. QED  BY <1>1, InitReaderInv, InductiveInvariant, PTL DEF HSpec

(* A read of an object that is stored and that no writer fails on never says  *)
(* that there is none, and delivers it unless a writer is rewriting it: for   *)
(* any number of processes, directories and pieces.                           *)
THEOREM ReadsFindTheStored == HSpec => ReadFindsStored
<1>. DEFINE A == \A p \in Procs :
       Reading(p) /\ pc'[p] = "idle" /\ sure[p] /\ reg'[p].answer # "killed"
         => /\ reg'[p].answer # "notfound"
            /\ reg'[p].answer = "ok" \/ met[p]
<1>1. ASSUME IInv, IInv', ReaderInv, HNext PROVE A
  <2>. SUFFICES ASSUME NEW p \in Procs, Reading(p), pc'[p] = "idle", sure[p],
                       reg'[p].answer # "killed"
                PROVE  reg'[p].answer # "notfound" /\ (reg'[p].answer = "ok" \/ met[p])
    OBVIOUS
  <2>0. pc[p] # "idle"
    BY DEF Reading
  <2>1. PICK q \in Procs : Acts(q) /\ Mark(q) /\ Watch
    BY <1>1, <2>0 DEF HNext, Acts, AttachAny, Attach
  <2>2. q = p
    BY <1>1, <2>0, <2>1, ActsApart DEF IInv
  <2>3. EndsWell(p)
    BY <1>1, <2>1, <2>2, ReaderInvStep DEF RInv
  <2>. QED  BY <2>3 DEF EndsWell
<1>2. ReadFindsStored <=> [][A]_hvars
  BY DEF ReadFindsStored
<1>. HIDE DEF A
<1>3. IInv /\ IInv' /\ ReaderInv /\ [HNext]_hvars => [A]_hvars
  BY <1>1
<1>. QED  BY <1>2, <1>3, InductiveInvariant, ReadersAreOnTheWay, PTL DEF HSpec
=============================================================================
