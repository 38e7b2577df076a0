---------------------------- MODULE IndexProofs ----------------------------
(***************************************************************************)
(* For every number of processes, files and contents, and every            *)
(* interleaving, failed access, kill and edit of the work tree: the        *)
(* published index names stored blobs only, takes no changed file for      *)
(* unchanged but one whose stat does not tell, and is sorted.  The         *)
(* argument is IndexInv: all copies of the index, in files and in memory,  *)
(* have these properties, so it does not matter which of them is           *)
(* published.                                                              *)
(***************************************************************************)
EXTENDS IndexHistory, FiniteSetTheorems, WellFoundedInduction, TLAPS

----------------------------------------------------------------------------
(* The index in memory *)

(* A set of natural numbers has a least element. *)
LEMMA LeastNat ==
  ASSUME NEW S \in SUBSET Nat, S # {}
  PROVE  \E i \in S : \A j \in S : i <= j
<1>. DEFINE R == {ss \in Nat \X Nat : ss[1] < ss[2]}
<1>1. IsWellFoundedOn(R, Nat)
  BY NatLessThanWellFounded, Zenon DEF OpToRel
<1>2. \A m, n \in Nat : m < n => <<m, n>> \in R
  OBVIOUS
<1>. HIDE DEF R
<1>3. PICK n \in S : \A m \in S : ~(<<m, n>> \in R)
  BY <1>1, WFMin
<1>4. ASSUME NEW m \in S PROVE n <= m
  <2>1. m \in Nat /\ n \in Nat
    OBVIOUS
  <2>2. ~(m < n)
    BY <1>2, <1>3, <2>1
  <2>. QED  BY <2>1, <2>2
<1>. QED  BY <1>4

(* The search finds the entry of the path, if there is one. *)
LEMMA FindRange ==
  ASSUME NEW s \in Seq(IndexEntries), NEW f \in Files
  PROVE  \/ Find(s, f) = 0 /\ \A k \in 1..Len(s) : s[k].path # f
         \/ /\ Find(s, f) \in 1..Len(s)
            /\ s[Find(s, f)].path = f
<1>. DEFINE S == {i \in 1..Len(s) : s[i].path = f}
<1>1. CASE S # {}
  <2>0. S \in SUBSET Nat
    OBVIOUS
  <2>1. PICK m \in S : \A j \in S : m <= j
    <3>. HIDE DEF S
    <3>. QED  BY <1>1, <2>0, LeastNat
  <2>2. \E i \in 1..Len(s) : s[i].path = f /\ \A j \in 1..(i - 1) : s[j].path # f
    BY <2>1
  <2>. QED  BY <2>1, <2>2 DEF Find
<1>2. CASE S = {}
  BY <1>2 DEF Find
<1>. QED  BY <1>1, <1>2

(* The entry is added, in the place of the one of its path. *)
LEMMA Add2Facts ==
  ASSUME NEW s \in Seq(IndexEntries), NEW e \in IndexEntries, Unique(s)
  PROVE  /\ Add2(s, e) \in Seq(IndexEntries)
         /\ Unique(Add2(s, e))
         /\ \A k \in 1..Len(Add2(s, e)) :
              Add2(s, e)[k] = e \/ \E j \in 1..Len(s) : Add2(s, e)[k] = s[j]
<1>1. e.path \in Files
  BY DEF IndexEntries
<1>2. CASE Find(s, e.path) = 0
  <2>1. \A k \in 1..Len(s) : s[k].path # e.path
    BY <1>1, <1>2, FindRange
  <2>2. Add2(s, e) = Append(s, e)
    BY <1>2 DEF Add2
  <2>. QED  BY <2>1, <2>2 DEF Unique
<1>3. CASE Find(s, e.path) # 0
  <2>. DEFINE i == Find(s, e.path)
  <2>1. i \in 1..Len(s) /\ s[i].path = e.path
    BY <1>1, <1>3, FindRange
  <2>2. Add2(s, e) = [s EXCEPT ![i] = e]
    BY <1>3 DEF Add2
  <2>. HIDE DEF i
  <2>. QED  BY <2>1, <2>2 DEF Unique
<1>. QED  BY <1>2, <1>3

(* Sorting permutes the entries; of unique paths it makes an ordered index. *)
LEMMA SortingsFacts ==
  ASSUME NEW s \in Seq(IndexEntries), NEW t \in Sortings(s), Unique(s)
  PROVE  /\ t \in Seq(IndexEntries)
         /\ Ordered(t)
         /\ \A k \in 1..Len(t) : \E j \in 1..Len(s) : t[k] = s[j]
<1>. DEFINE Places == 1..Len(s)
<1>1. PICK perm \in [Places -> Places] :
        /\ t = [i \in Places |-> s[perm[i]]]
        /\ \A i, j \in Places : i < j => /\ perm[i] # perm[j]
                                         /\ s[perm[i]].path <= s[perm[j]].path
  BY DEF Sortings
<1>2. Len(s) \in Nat /\ \A k \in Places : s[k] \in IndexEntries
  OBVIOUS
<1>3. t \in [Places -> IndexEntries]
  BY <1>1, <1>2
<1>4. t \in Seq(IndexEntries) /\ Len(t) = Len(s)
  BY <1>2, <1>3
<1>5. \A k \in Places : s[k].path \in Nat
  BY <1>2, FilesAreOrdered DEF IndexEntries
<1>6. ASSUME NEW i \in Places, NEW j \in Places, i < j
      PROVE  t[i].path < t[j].path
  <2>1. s[perm[i]].path <= s[perm[j]].path /\ s[perm[i]].path # s[perm[j]].path
    BY <1>1, <1>6 DEF Unique
  <2>2. s[perm[i]].path \in Nat /\ s[perm[j]].path \in Nat
    BY <1>1, <1>5
  <2>. QED  BY <1>1, <2>1, <2>2
<1>. QED  BY <1>1, <1>4, <1>6 DEF Ordered

LEMMA OrderedIsUnique ==
  ASSUME NEW s \in Seq(IndexEntries), Ordered(s)
  PROVE  Unique(s)
<1>. \A k \in 1..Len(s) : s[k] \in IndexEntries
  OBVIOUS
<1>1. \A k \in 1..Len(s) : s[k].path \in Nat
  BY FilesAreOrdered DEF IndexEntries
<1>2. ASSUME NEW i \in 1..Len(s), NEW j \in 1..Len(s), i # j
      PROVE  s[i].path # s[j].path
  <2>1. CASE i < j
    BY <1>1, <2>1 DEF Ordered
  <2>2. CASE j < i
    BY <1>1, <2>2 DEF Ordered
  <2>. QED  BY <1>2, <2>1, <2>2
<1>. QED  BY <1>2 DEF Unique

----------------------------------------------------------------------------
(* The index file *)

LEMMA ImageType ==
  ASSUME NEW s \in Seq(IndexEntries)
  PROVE  /\ Image(s) \in IndexContents /\ Image(s).entries = s
         /\ Cut(Image(s)) \in IndexContents /\ Cut(Image(s)).entries = <<>>
<1>1. <<>> \in Seq(IndexEntries)
  OBVIOUS
<1>. QED  BY <1>1 DEF Image, Cut, IndexContents

LEMMA OverType ==
  ASSUME NEW old \in IndexContents \cup {Empty}, NEW new \in IndexContents
  PROVE  Over(old, new) \in IndexContents /\ Over(old, new).entries = new.entries
BY DEF Over, IndexContents

LEMMA ReadType ==
  ASSUME FileTypeOK(IndexContents)
  PROVE  \/ EntriesOf(read_file(INDEX)) = <<>>
         \/ \E i \in Inodes : /\ data[i] \in IndexContents /\ data[i] # Empty
                              /\ EntriesOf(read_file(INDEX)) = data[i].entries
BY IndexIsPath DEF FileTypeOK, Entry, read_file, file_exists, EntriesOf

(* What the file operations leave in the files. *)
LEMMA ReclaimedType ==
  ASSUME NEW c \in [Inodes -> IndexContents \cup {Empty}], NEW d, NEW t, NEW f
  PROVE  /\ Reclaimed(c, d, t, f) \in [Inodes -> IndexContents \cup {Empty}]
         /\ \A i \in Inodes : Reclaimed(c, d, t, f)[i] \in {c[i], Empty}
BY DEF Reclaimed

LEMMA OpenTmpFacts ==
  ASSUME FileTypeOK(IndexContents), NEW p \in Procs, OpenTmp(p, INDEX)
  PROVE  /\ FileTypeOK(IndexContents)'
         /\ fd'[p] \in Inodes /\ \A q \in Procs \ {p} : fd'[q] = fd[q]
         /\ \A i \in Inodes : data'[i] \in {data[i], Empty}
<1>1. CASE tmp[INDEX] # NoInode
  <2>1. tmp[INDEX] \in Inodes
    BY <1>1, IndexIsPath DEF FileTypeOK, Entry
  <2>2. /\ fd' = [fd EXCEPT ![p] = tmp[INDEX]]
        /\ data' = [data EXCEPT ![tmp[INDEX]] = Empty]
        /\ UNCHANGED <<dir, tmp>>
    BY <1>1 DEF OpenTmp
  <2>. QED  BY <2>1, <2>2 DEF FileTypeOK, Entry
<1>2. CASE tmp[INDEX] = NoInode
  <2>1. PICK i \in FreeInodes : /\ tmp' = [tmp EXCEPT ![INDEX] = i]
                                /\ fd' = [fd EXCEPT ![p] = i]
                                /\ data' = [data EXCEPT ![i] = Empty]
                                /\ dir' = dir
    BY <1>2 DEF OpenTmp
  <2>2. i \in Inodes
    BY DEF FreeInodes
  <2>. QED  BY <2>1, <2>2, IndexIsPath DEF FileTypeOK, Entry
<1>. QED  BY <1>1, <1>2

LEMMA WriteAndCloseFacts ==
  ASSUME FileTypeOK(IndexContents), NEW p \in Procs, NEW c \in IndexContents,
         WriteAndClose(p, c)
  PROVE  /\ FileTypeOK(IndexContents)'
         /\ \A q \in Procs \ {p} : fd'[q] = fd[q]
         /\ \A i \in Inodes : data'[i] \in {data[i], Empty, c}
<1>. DEFINE written == [data EXCEPT ![fd[p]] = c]
<1>1. written \in [Inodes -> IndexContents \cup {Empty}]
  BY DEF FileTypeOK
<1>2. \A i \in Inodes : written[i] \in {data[i], c}
  BY DEF FileTypeOK
<1>3. data' = Reclaimed(written, dir, tmp, fd')
  BY DEF WriteAndClose
<1>. HIDE DEF written
<1>4. data' \in [Inodes -> IndexContents \cup {Empty}]
  BY <1>1, <1>3, ReclaimedType
<1>5. \A i \in Inodes : data'[i] \in {written[i], Empty}
  BY <1>1, <1>3, ReclaimedType
<1>6. \A i \in Inodes : data'[i] \in {data[i], Empty, c}
  BY <1>2, <1>5
<1>. QED  BY <1>4, <1>6 DEF WriteAndClose, FileTypeOK, Entry

LEMMA RenameTmpFacts ==
  ASSUME FileTypeOK(IndexContents), RenameTmp(INDEX)
  PROVE  /\ FileTypeOK(IndexContents)' /\ fd' = fd
         /\ \A i \in Inodes : data'[i] \in {data[i], Empty}
<1>1. data \in [Inodes -> IndexContents \cup {Empty}]
  BY DEF FileTypeOK
<1>2. data' = Reclaimed(data, dir', tmp', fd)
  BY DEF RenameTmp
<1>3. data' \in [Inodes -> IndexContents \cup {Empty}]
  BY <1>1, <1>2, ReclaimedType
<1>4. \A i \in Inodes : data'[i] \in {data[i], Empty}
  BY <1>1, <1>2, ReclaimedType
<1>. QED  BY <1>3, <1>4, IndexIsPath DEF RenameTmp, FileTypeOK, Entry

LEMMA UnlinkTmpFacts ==
  ASSUME FileTypeOK(IndexContents), UnlinkTmp(INDEX)
  PROVE  /\ FileTypeOK(IndexContents)' /\ fd' = fd
         /\ \A i \in Inodes : data'[i] \in {data[i], Empty}
<1>1. data \in [Inodes -> IndexContents \cup {Empty}]
  BY DEF FileTypeOK
<1>2. data' = Reclaimed(data, dir, tmp', fd)
  BY DEF UnlinkTmp
<1>3. data' \in [Inodes -> IndexContents \cup {Empty}]
  BY <1>1, <1>2, ReclaimedType
<1>4. \A i \in Inodes : data'[i] \in {data[i], Empty}
  BY <1>1, <1>2, ReclaimedType
<1>. QED  BY <1>3, <1>4, IndexIsPath DEF UnlinkTmp, FileTypeOK, Entry

LEMMA CloseAllFacts ==
  ASSUME FileTypeOK(IndexContents), NEW p \in Procs, CloseAll(p)
  PROVE  /\ FileTypeOK(IndexContents)'
         /\ \A q \in Procs \ {p} : fd'[q] = fd[q]
         /\ \A i \in Inodes : data'[i] \in {data[i], Empty}
<1>1. data \in [Inodes -> IndexContents \cup {Empty}]
  BY DEF FileTypeOK
<1>2. data' = Reclaimed(data, dir, tmp, fd')
  BY DEF CloseAll
<1>3. data' \in [Inodes -> IndexContents \cup {Empty}]
  BY <1>1, <1>2, ReclaimedType
<1>4. \A i \in Inodes : data'[i] \in {data[i], Empty}
  BY <1>1, <1>2, ReclaimedType
<1>. QED  BY <1>3, <1>4 DEF CloseAll, FileTypeOK, Entry

----------------------------------------------------------------------------
(* The invariant *)

(* The stats of the files are remembered, and a step that leaves the files    *)
(* alone adds none.                                                           *)
LEMMA WornSame ==
  ASSUME IndexInv, HNext, work' = work
  PROVE  worn' = worn /\ again' = again /\ WornOK'
<1>1. /\ worn' = [f \in Files |-> worn[f] \cup {work'[f].stat}]
      /\ again' = {f \in Files : IF work'[f] = work[f] THEN f \in again
                                                      ELSE work'[f].stat \in worn[f]}
  BY DEF HNext
<1>2. worn' = worn /\ again' = again
  BY <1>1 DEF IndexInv, WornOK
<1>. QED  BY <1>2 DEF IndexInv, WornOK

LEMMA WornGrows ==
  ASSUME WornOK, HNext, \A f \in Files : work'[f].stat \in Stats
  PROVE  WornOK' /\ \A f \in Files : worn[f] \subseteq worn'[f]
<1>1. /\ worn' = [f \in Files |-> worn[f] \cup {work'[f].stat}]
      /\ again' = {f \in Files : IF work'[f] = work[f] THEN f \in again
                                                      ELSE work'[f].stat \in worn[f]}
  BY DEF HNext
<1>. QED  BY <1>1 DEF WornOK

(* An entry that tells the truth does so after any step: blobs are only added *)
(* and the stat of a file that is written is a new one, or the file is among  *)
(* those that wear a stat again.                                              *)
LEMMA TruthIsStable ==
  ASSUME TypeOK, WornOK, HNext, NEW e \in IndexEntries, Truthful(e)
  PROVE  Truthful(e)'
<1>. Next
  BY DEF HNext
<1>1. blobs \subseteq blobs'
  BY DEF Next, Step, StartAdd, StartCommit, Start, StatFile, CreateBlob, StoreBlob,
         OpenIndexTmp, WriteIndex, RenameIndex, UnlinkIndexTmp, WriteTree,
         AccessFails, WriteFails, Kill, Edit
<1>2. /\ worn'[e.path] = worn[e.path] \cup {work'[e.path].stat}
      /\ e.path \in again' <=> IF work'[e.path] = work[e.path]
                               THEN e.path \in again
                               ELSE work'[e.path].stat \in worn[e.path]
  BY DEF HNext, IndexEntries
<1>3. CASE work'[e.path] = work[e.path]
  BY <1>1, <1>2, <1>3 DEF Truthful
<1>4. CASE work'[e.path] # work[e.path]
  BY <1>1, <1>2, <1>4 DEF Truthful
<1>. QED  BY <1>3, <1>4

(* What is left to show of a step of one process: what it has in memory, and *)
(* that the files hold what they held, nothing, or a truthful index.          *)
LEMMA Preserve ==
  ASSUME IndexInv, TypeOK', HNext, NEW p \in Procs,
         work' = work, blobs \subseteq blobs',
         \A q \in Procs \ {p} : /\ mem'[q] = mem[q] /\ pc'[q] = pc[q]
                               /\ fd'[q] = fd[q] /\ cur'[q] = cur[q],
         \A i \in Inodes : data'[i] \in {data[i], Empty} \/ FileIsSound(i)',
         CommandIsSound(p)',
         \A e \in committed' : e[2] \in blobs'
  PROVE  IndexInv'
<1>0. WornOK' /\ worn' = worn
  BY WornSame
<1>1. ASSUME NEW s \in Seq(IndexEntries), AllTruthful(s)
      PROVE  \A k \in 1..Len(s) : Truthful(s[k])'
  <2>1. \A k \in 1..Len(s) : s[k] \in IndexEntries /\ Truthful(s[k])
    BY <1>1 DEF AllTruthful
  <2>2. TypeOK /\ WornOK
    BY DEF IndexInv
  <2>. QED  BY <2>1, <2>2, TruthIsStable
<1>2. ASSUME NEW i \in Inodes
      PROVE  FileIsSound(i)'
  <2>1. CASE data'[i] = data[i] /\ data[i] # Empty
    <3>1. data[i].entries \in Seq(IndexEntries)
      BY <2>1 DEF IndexInv, TypeOK, FileTypeOK, IndexContents
    <3>2. PICK s \in Seq(IndexEntries) : s = data[i].entries /\ s = data'[i].entries
      BY <2>1, <3>1
    <3>3. AllTruthful(s) /\ Ordered(s)
      BY <2>1, <3>2 DEF IndexInv, FileIsSound
    <3>4. \A k \in 1..Len(s) : Truthful(s[k])'
      BY <1>1, <3>3
    <3>5. AllTruthful(data[i].entries)'
      BY <3>2, <3>4 DEF AllTruthful, Truthful
    <3>6. Ordered(data[i].entries)'
      BY <3>2, <3>3 DEF Ordered
    <3>. QED  BY <3>5, <3>6 DEF FileIsSound
  <2>2. CASE data'[i] = Empty
    BY <2>2 DEF FileIsSound
  <2>. QED  BY <2>1, <2>2
<1>3. ASSUME NEW q \in Procs, q # p
      PROVE  CommandIsSound(q)'
  <2>1. mem'[q] = mem[q] /\ mem[q] \in Seq(IndexEntries)
    BY <1>3 DEF IndexInv, TypeOK
  <2>2. AllTruthful(mem[q]) /\ Unique(mem[q])
    BY DEF IndexInv, CommandIsSound
  <2>3. PICK s \in Seq(IndexEntries) : s = mem[q]
    BY <2>1
  <2>4. \A k \in 1..Len(s) : Truthful(s[k])'
    BY <1>1, <2>2, <2>3
  <2>5. AllTruthful(mem[q])' /\ Unique(mem[q])'
    BY <2>1, <2>2, <2>3, <2>4 DEF AllTruthful, Unique, Truthful
  <2>6. pc'[q] = "write" => fd'[q] \in Inodes /\ Ordered(mem[q])'
    BY <1>3 DEF IndexInv, CommandIsSound, Ordered
  <2>7. pc'[q] = "blob" => cur'[q].stat \in worn'[cur'[q].path]
    BY <1>0, <1>3 DEF IndexInv, CommandIsSound
  <2>. QED  BY <2>5, <2>6, <2>7 DEF CommandIsSound
<1>. QED  BY <1>0, <1>2, <1>3 DEF IndexInv

LEMMA InitType == ASSUME HInit PROVE IndexInv
<1>0. Init
  BY DEF HInit
<1>1. <<>> \in Seq(IndexEntries)
  OBVIOUS
<1>2. NoFile \in [path : Files, stat : Stats \cup {Gone}]
  BY SomeFile DEF NoFile
<1>3. TypeOK
  BY <1>0, <1>1, <1>2, BoundsAreNaturals DEF Init, TypeOK, FileTypeOK, Entry, Labels
<1>4. \A p \in Procs : AllTruthful(mem[p]) /\ Unique(mem[p])
  BY <1>0 DEF Init, AllTruthful, Unique
<1>5. WornOK
  BY <1>3 DEF HInit, WornOK, TypeOK
<1>. QED  BY <1>0, <1>3, <1>4, <1>5 DEF Init, IndexInv, FileIsSound, CommandIsSound

(* The commands' registers after each of the ways to go on. *)
LEMMA ExitFacts ==
  ASSUME TypeOK, NEW p \in Procs, Exit(p)
  PROVE  /\ pc' \in [Procs -> Labels] /\ mem' \in [Procs -> Seq(IndexEntries)]
         /\ todo' \in [Procs -> SUBSET Files]
         /\ cur' \in [Procs -> [path : Files, stat : Stats \cup {Gone}]]
         /\ left' \in 0..MaxCommands
         /\ pc'[p] = "idle" /\ mem'[p] = <<>>
         /\ AllTruthful(mem[p])' /\ Unique(mem[p])'
         /\ \A q \in Procs \ {p} : /\ mem'[q] = mem[q] /\ pc'[q] = pc[q]
                                 /\ cur'[q] = cur[q]
<1>1. <<>> \in Seq(IndexEntries)
  OBVIOUS
<1>2. NoFile \in [path : Files, stat : Stats \cup {Gone}]
  BY SomeFile DEF NoFile
<1>3. pc' \in [Procs -> Labels]
  BY DEF Exit, Goto, TypeOK, Labels
<1>4. mem' \in [Procs -> Seq(IndexEntries)] /\ mem'[p] = <<>>
  BY <1>1 DEF Exit, TypeOK
<1>5. AllTruthful(mem[p])' /\ Unique(mem[p])'
  BY <1>4 DEF AllTruthful, Unique
<1>. QED  BY <1>2, <1>3, <1>4, <1>5 DEF Exit, Goto, TypeOK

----------------------------------------------------------------------------
(* The steps *)

(* A step that ends the command and leaves of the files what they were. *)
LEMMA ExitPreserves ==
  ASSUME IndexInv, HNext, NEW p \in Procs, Exit(p), FileTypeOK(IndexContents)',
         \A q \in Procs \ {p} : fd'[q] = fd[q],
         \A i \in Inodes : data'[i] \in {data[i], Empty},
         work' = work, edits' = edits, blobs \subseteq blobs', blobs' \subseteq Bytes,
         committed' \subseteq Files \X Bytes,
         \A e \in committed' : e[2] \in blobs'
  PROVE  IndexInv'
<1>1. TypeOK
  BY DEF IndexInv
<1>2. TypeOK'
  BY <1>1, ExitFacts DEF TypeOK
<1>3. /\ AllTruthful(mem[p])' /\ Unique(mem[p])' /\ pc'[p] = "idle"
      /\ \A q \in Procs \ {p} : /\ mem'[q] = mem[q] /\ pc'[q] = pc[q]
                               /\ fd'[q] = fd[q] /\ cur'[q] = cur[q]
  BY <1>1, ExitFacts
<1>4. CommandIsSound(p)'
  BY <1>3 DEF CommandIsSound
<1>. QED  BY <1>2, <1>3, <1>4, Preserve

LEMMA StartPreserves ==
  ASSUME IndexInv, HNext, NEW p \in Procs, NEW l \in {"stat", "tree"},
         NEW files \in SUBSET Files, Start(p, l, files)
  PROVE  IndexInv'
<1>0. TypeOK
  BY DEF IndexInv
<1>. DEFINE s == EntriesOf(read_file(INDEX))
<1>1. s \in Seq(IndexEntries) /\ AllTruthful(s) /\ Unique(s)
  <2>1. CASE s = <<>>
    BY <2>1 DEF AllTruthful, Unique
  <2>2. ASSUME NEW i \in Inodes, data[i] \in IndexContents, data[i] # Empty,
               s = data[i].entries
        PROVE  s \in Seq(IndexEntries) /\ AllTruthful(s) /\ Unique(s)
    <3>1. s \in Seq(IndexEntries) /\ AllTruthful(s) /\ Ordered(s)
      BY <2>2 DEF IndexInv, IndexContents, FileIsSound
    <3>. QED  BY <3>1, OrderedIsUnique
  <2>. QED  BY <1>0, <2>1, <2>2, ReadType DEF TypeOK
<1>. HIDE DEF s
<1>2. CASE ~IsReadable(read_file(INDEX))
  <2>1. /\ UNCHANGED <<fileVars, work, edits, blobs, committed, pc, mem, todo, cur>>
        /\ left > 0 /\ left' = left - 1
    BY <1>2 DEF Start
  <2>2. left' \in 0..MaxCommands
    BY <1>0, <2>1, BoundsAreNaturals DEF TypeOK
  <2>3. TypeOK'
    BY <1>0, <2>1, <2>2 DEF TypeOK, FileTypeOK, fileVars
  <2>4. CommandIsSound(p)'
    BY <2>1, WornSame
       DEF IndexInv, CommandIsSound, AllTruthful, Unique, Truthful, Ordered, fileVars
  <2>5. \A e \in committed' : e[2] \in blobs'
    BY <2>1 DEF IndexInv
  <2>. QED  BY <2>1, <2>3, <2>4, <2>5, Preserve DEF fileVars
<1>3. CASE IsReadable(read_file(INDEX))
  <2>1. /\ pc' = [pc EXCEPT ![p] = l] /\ mem' = [mem EXCEPT ![p] = s]
        /\ todo' = [todo EXCEPT ![p] = files] /\ left > 0 /\ left' = left - 1
        /\ UNCHANGED <<fileVars, work, edits, blobs, committed, cur>>
    BY <1>3 DEF Start, Goto, s
  <2>2. left' \in 0..MaxCommands
    BY <1>0, <2>1, BoundsAreNaturals DEF TypeOK
  <2>3. TypeOK'
    BY <1>0, <1>1, <2>1, <2>2 DEF TypeOK, FileTypeOK, fileVars, Labels
  <2>4. mem'[p] = s /\ pc'[p] = l
    BY <1>0, <2>1 DEF TypeOK
  <2>5. CommandIsSound(p)'
    BY <1>1, <2>1, <2>4, WornSame DEF AllTruthful, Unique, Truthful, CommandIsSound
  <2>6. \A q \in Procs \ {p} : /\ mem'[q] = mem[q] /\ pc'[q] = pc[q]
                               /\ fd'[q] = fd[q] /\ cur'[q] = cur[q]
    BY <1>0, <2>1 DEF TypeOK, fileVars
  <2>7. \A e \in committed' : e[2] \in blobs'
    BY <2>1 DEF IndexInv
  <2>. QED  BY <2>1, <2>3, <2>4, <2>5, <2>6, <2>7, Preserve DEF fileVars
<1>. QED  BY <1>2, <1>3

LEMMA StatFilePreserves ==
  ASSUME IndexInv, HNext, NEW p \in Procs, NEW f \in Files, StatFile(p, f)
  PROVE  IndexInv'
<1>0. TypeOK
  BY DEF IndexInv
<1>1. CASE work[f].bytes = Gone
  <2>1. Exit(p) /\ UNCHANGED <<fileVars, work, edits, blobs, committed>>
    BY <1>1 DEF StatFile
  <2>2. FileTypeOK(IndexContents)'
    BY <1>0, <2>1 DEF TypeOK, FileTypeOK, fileVars
  <2>. QED  BY <1>0, <2>1, <2>2, ExitPreserves DEF IndexInv, TypeOK, fileVars
<1>2. CASE work[f].bytes # Gone
  <2>1. /\ pc[p] = "stat" /\ todo' = [todo EXCEPT ![p] = @ \ {f}]
        /\ UNCHANGED <<fileVars, work, edits, blobs, committed, mem, left>>
        /\ \/ UNCHANGED <<pc, cur>>
           \/ /\ pc' = [pc EXCEPT ![p] = "blob"]
              /\ cur' = [cur EXCEPT ![p] = [path |-> f, stat |-> work[f].stat]]
    BY <1>2 DEF StatFile, Goto
  <2>2. work[f].stat \in Stats /\ work[f].stat \in worn[f]
    BY <1>0 DEF TypeOK, IndexInv, WornOK
  <2>0. worn' = worn /\ again' = again
    BY <2>1, WornSame
  <2>3. TypeOK'
    <3>0. todo' \in [Procs -> SUBSET Files]
      BY <1>0, <2>1 DEF TypeOK
    <3>1. pc' \in [Procs -> Labels]
      BY <1>0, <2>1 DEF TypeOK, Labels
    <3>2. [path |-> f, stat |-> work[f].stat] \in [path : Files, stat : Stats \cup {Gone}]
      BY <2>2
    <3>3. cur' \in [Procs -> [path : Files, stat : Stats \cup {Gone}]]
      BY <1>0, <2>1, <3>2 DEF TypeOK
    <3>. QED  BY <1>0, <2>1, <3>0, <3>1, <3>3 DEF TypeOK, FileTypeOK, fileVars
  <2>4. AllTruthful(mem[p])' /\ Unique(mem[p])'
    BY <2>0, <2>1 DEF IndexInv, CommandIsSound, AllTruthful, Unique, Truthful
  <2>5. pc'[p] # "write"
    BY <1>0, <2>1 DEF TypeOK
  <2>6. pc'[p] = "blob" => cur'[p].stat \in worn'[cur'[p].path]
    BY <1>0, <2>0, <2>1, <2>2 DEF TypeOK, IndexInv, CommandIsSound
  <2>7. \A q \in Procs \ {p} : pc'[q] = pc[q] /\ cur'[q] = cur[q]
    BY <1>0, <2>1 DEF TypeOK
  <2>8. \A e \in committed' : e[2] \in blobs'
    BY <2>1 DEF IndexInv
  <2>9. CommandIsSound(p)'
    BY <2>4, <2>5, <2>6 DEF CommandIsSound
  <2>. QED  BY <2>1, <2>3, <2>7, <2>8, <2>9, Preserve DEF fileVars
<1>. QED  BY <1>1, <1>2

LEMMA CreateBlobPreserves ==
  ASSUME IndexInv, HNext, NEW p \in Procs, CreateBlob(p)
  PROVE  IndexInv'
<1>0. TypeOK
  BY DEF IndexInv
<1>. DEFINE f == cur[p].path
<1>1. f \in Files /\ cur[p].stat \in Stats /\ cur[p].stat \in worn[f] /\ pc[p] = "blob"
  BY <1>0 DEF TypeOK, CreateBlob, IndexInv, WornOK, CommandIsSound
<1>2. CASE work[f].bytes = Gone
  <2>1. Exit(p) /\ UNCHANGED <<fileVars, work, edits, blobs, committed>>
    BY <1>2 DEF CreateBlob
  <2>2. FileTypeOK(IndexContents)'
    BY <1>0, <2>1 DEF TypeOK, FileTypeOK, fileVars
  <2>. QED  BY <1>0, <2>1, <2>2, ExitPreserves DEF IndexInv, TypeOK, fileVars
<1>3. CASE work[f].bytes # Gone
  <2>. DEFINE e == [path |-> f, stat |-> cur[p].stat, oid |-> work[f].bytes]
  <2>0. PICK s : s = Add2(mem[p], e)
    OBVIOUS
  <2>1. /\ blobs' = blobs \cup {work[f].bytes} /\ mem' = [mem EXCEPT ![p] = s]
        /\ pc' = [pc EXCEPT ![p] = "stat"] /\ cur' = [cur EXCEPT ![p] = NoFile]
        /\ UNCHANGED <<todo, left, fileVars, work, edits, committed>>
    BY <1>3, <2>0 DEF CreateBlob, StoreBlob, Goto
  <2>2. work[f].bytes \in Bytes /\ e \in IndexEntries
    BY <1>0, <1>1, <1>3 DEF TypeOK, IndexEntries
  <2>3. mem[p] \in Seq(IndexEntries) /\ Unique(mem[p]) /\ AllTruthful(mem[p])
    BY DEF IndexInv, TypeOK, CommandIsSound
  <2>4. /\ s \in Seq(IndexEntries) /\ Unique(s)
        /\ \A k \in 1..Len(s) : s[k] = e \/ \E j \in 1..Len(mem[p]) : s[k] = mem[p][j]
    BY <2>0, <2>2, <2>3, Add2Facts
  <2>5. worn' = worn /\ again' = again
    BY <2>1, WornSame
  <2>6. \A j \in 1..Len(mem[p]) : Truthful(mem[p][j]) /\ mem[p][j] \in IndexEntries
    BY <2>3 DEF AllTruthful
  <2>7. ASSUME NEW k \in 1..Len(s)
        PROVE  Truthful(s[k])'
    <3>1. CASE s[k] = e
      <4>1. /\ e.oid \in blobs' /\ e.stat \in worn'[e.path]
            /\ e.oid = work'[e.path].bytes
        BY <1>1, <2>1, <2>5
      <4>. QED  BY <3>1, <4>1 DEF Truthful
    <3>2. CASE \E j \in 1..Len(mem[p]) : s[k] = mem[p][j]
      <4>1. s[k] \in IndexEntries /\ Truthful(s[k])
        BY <2>6, <3>2
      <4>. QED  BY <1>0, <4>1, TruthIsStable DEF IndexInv
    <3>. QED  BY <2>4, <3>1, <3>2
  <2>8. mem'[p] = s /\ pc'[p] = "stat" /\ work' = work
    BY <1>0, <2>1 DEF TypeOK
  <2>9. AllTruthful(mem[p])' /\ Unique(mem[p])'
    <3>1. mem'[p] = s
      BY <2>8
    <3>2. AllTruthful(mem[p])'
      BY <2>7, <3>1 DEF AllTruthful, Truthful
    <3>3. Unique(mem[p])'
      BY <2>4, <2>8 DEF Unique
    <3>. QED  BY <3>2, <3>3
  <2>10. NoFile \in [path : Files, stat : Stats \cup {Gone}]
    BY SomeFile DEF NoFile
  <2>11. TypeOK'
    BY <1>0, <2>1, <2>2, <2>4, <2>10 DEF TypeOK, FileTypeOK, fileVars, Labels
  <2>12. \A q \in Procs \ {p} : /\ pc'[q] = pc[q] /\ cur'[q] = cur[q]
                                /\ mem'[q] = mem[q]
    BY <1>0, <2>1 DEF TypeOK
  <2>13. \A c \in committed' : c[2] \in blobs'
    BY <2>1 DEF IndexInv
  <2>14. blobs \subseteq blobs' /\ data' = data /\ fd' = fd
    BY <2>1 DEF fileVars
  <2>15. CommandIsSound(p)'
    BY <2>8, <2>9 DEF CommandIsSound
  <2>. HIDE DEF e
  <2>. QED  BY <2>8, <2>11, <2>12, <2>13, <2>14, <2>15, Preserve
<1>. QED  BY <1>2, <1>3

LEMMA OpenIndexTmpPreserves ==
  ASSUME IndexInv, HNext, NEW p \in Procs, OpenIndexTmp(p)
  PROVE  IndexInv'
<1>0. TypeOK
  BY DEF IndexInv
<1>1. PICK s \in Sortings(mem[p]) : mem' = [mem EXCEPT ![p] = s]
  BY DEF OpenIndexTmp
<1>2. mem[p] \in Seq(IndexEntries) /\ AllTruthful(mem[p]) /\ Unique(mem[p])
  BY DEF IndexInv, CommandIsSound, TypeOK
<1>3. /\ s \in Seq(IndexEntries) /\ Ordered(s)
      /\ \A k \in 1..Len(s) : \E j \in 1..Len(mem[p]) : s[k] = mem[p][j]
  BY <1>2, SortingsFacts
<1>4. OpenTmp(p, INDEX) /\ pc' = [pc EXCEPT ![p] = "write"]
      /\ UNCHANGED <<work, edits, blobs, committed, todo, cur, left>>
  BY DEF OpenIndexTmp, Goto
<1>5. /\ FileTypeOK(IndexContents)'
      /\ fd'[p] \in Inodes /\ \A q \in Procs \ {p} : fd'[q] = fd[q]
      /\ \A i \in Inodes : data'[i] \in {data[i], Empty}
  BY <1>0, <1>4, OpenTmpFacts DEF TypeOK
<1>6. /\ mem'[p] = s /\ pc'[p] = "write"
      /\ mem' \in [Procs -> Seq(IndexEntries)] /\ pc' \in [Procs -> Labels]
      /\ \A q \in Procs \ {p} : mem'[q] = mem[q] /\ pc'[q] = pc[q]
  BY <1>0, <1>1, <1>3, <1>4 DEF TypeOK, Labels
<1>7. TypeOK'
  BY <1>0, <1>4, <1>5, <1>6 DEF TypeOK
<1>8. \A k \in 1..Len(s) : Truthful(s[k])
  BY <1>2, <1>3 DEF AllTruthful
<1>9. AllTruthful(mem[p])'
  BY <1>4, <1>6, <1>8, WornSame DEF AllTruthful, Truthful
<1>10. Unique(s)
  BY <1>3, OrderedIsUnique
<1>11. CommandIsSound(p)'
  BY <1>3, <1>5, <1>6, <1>9, <1>10 DEF CommandIsSound, Unique, Ordered
<1>12. \A e \in committed' : e[2] \in blobs'
  BY <1>4 DEF IndexInv
<1>. QED  BY <1>4, <1>5, <1>6, <1>7, <1>11, <1>12, Preserve

(* What a process writes is what it has in memory, or the start of it. *)
LEMMA WritePreserves ==
  ASSUME IndexInv, HNext, NEW p \in Procs, NEW l \in {"rename", "unlink"},
         NEW image \in IndexContents,
         image.entries = mem[p] \/ image.entries = <<>>,
         pc[p] = "write", WriteAndClose(p, Over(data[fd[p]], image)),
         pc' = [pc EXCEPT ![p] = l],
         UNCHANGED <<work, edits, blobs, committed, mem, todo, cur, left>>
  PROVE  IndexInv'
<1>0. TypeOK
  BY DEF IndexInv
<1>. DEFINE c == Over(data[fd[p]], image)
<1>1. fd[p] \in Inodes /\ Ordered(mem[p]) /\ AllTruthful(mem[p]) /\ Unique(mem[p])
  BY DEF IndexInv, CommandIsSound
<1>2. c \in IndexContents /\ c.entries = image.entries
  <2>1. data[fd[p]] \in IndexContents \cup {Empty}
    BY <1>0, <1>1 DEF TypeOK, FileTypeOK
  <2>. QED  BY <2>1, OverType
<1>. HIDE DEF c
<1>3. /\ FileTypeOK(IndexContents)'
      /\ \A q \in Procs \ {p} : fd'[q] = fd[q]
      /\ \A i \in Inodes : data'[i] \in {data[i], Empty, c}
  <2>1. WriteAndClose(p, c)
    BY DEF c
  <2>. QED  BY <1>0, <1>2, <2>1, WriteAndCloseFacts DEF TypeOK
<1>4. ASSUME NEW i \in Inodes
      PROVE  data'[i] \in {data[i], Empty} \/ FileIsSound(i)'
  <2>1. CASE data'[i] = c /\ image.entries = mem[p]
    <3>1. data'[i].entries = mem[p]
      BY <1>2, <2>1
    <3>2. AllTruthful(data[i].entries)'
      BY <1>1, <3>1, WornSame DEF AllTruthful, Truthful
    <3>3. Ordered(data[i].entries)'
      BY <1>1, <3>1 DEF Ordered
    <3>. QED  BY <3>2, <3>3 DEF FileIsSound
  <2>2. CASE data'[i] = c /\ image.entries = <<>>
    <3>1. data'[i].entries = <<>>
      BY <1>2, <2>2
    <3>. QED  BY <3>1 DEF FileIsSound, AllTruthful, Ordered
  <2>. QED  BY <1>3, <2>1, <2>2
<1>5. /\ pc' \in [Procs -> Labels] /\ pc'[p] = l
      /\ \A q \in Procs \ {p} : pc'[q] = pc[q]
  BY <1>0 DEF TypeOK, Labels
<1>6. TypeOK'
  BY <1>0, <1>3, <1>5 DEF TypeOK
<1>7. CommandIsSound(p)'
  BY <1>1, <1>5, WornSame DEF CommandIsSound, AllTruthful, Truthful, Unique
<1>8. \A e \in committed' : e[2] \in blobs'
  BY DEF IndexInv
<1>. QED  BY <1>3, <1>4, <1>5, <1>6, <1>7, <1>8, Preserve

LEMMA WriteIndexPreserves ==
  ASSUME IndexInv, HNext, NEW p \in Procs, WriteIndex(p)
  PROVE  IndexInv'
<1>1. mem[p] \in Seq(IndexEntries)
  BY DEF IndexInv, TypeOK
<1>. QED  BY <1>1, ImageType, WritePreserves DEF WriteIndex, Goto

LEMMA WriteFailsPreserves ==
  ASSUME IndexInv, HNext, NEW p \in Procs, WriteFails(p)
  PROVE  IndexInv'
<1>1. mem[p] \in Seq(IndexEntries)
  BY DEF IndexInv, TypeOK
<1>2. PICK image \in {Cut(Image(mem[p])), Image(mem[p])} :
        WriteAndClose(p, Over(data[fd[p]], image))
  BY DEF WriteFails
<1>. QED  BY <1>1, <1>2, ImageType, WritePreserves DEF WriteFails, Goto

LEMMA RenameIndexPreserves ==
  ASSUME IndexInv, HNext, NEW p \in Procs, RenameIndex(p)
  PROVE  IndexInv'
<1>0. TypeOK /\ UNCHANGED <<work, edits, blobs, committed>>
  BY DEF IndexInv, RenameIndex
<1>1. CASE CanRenameTmp(INDEX)
  <2>1. RenameTmp(INDEX) /\ Exit(p)
    BY <1>1 DEF RenameIndex
  <2>2. /\ FileTypeOK(IndexContents)' /\ fd' = fd
        /\ \A i \in Inodes : data'[i] \in {data[i], Empty}
    BY <1>0, <2>1, RenameTmpFacts DEF TypeOK
  <2>. QED  BY <1>0, <2>1, <2>2, ExitPreserves DEF IndexInv, TypeOK
<1>2. CASE ~CanRenameTmp(INDEX)
  <2>1. /\ pc' = [pc EXCEPT ![p] = "unlink"]
        /\ UNCHANGED <<fileVars, mem, todo, cur, left>>
    BY <1>2 DEF RenameIndex, Goto
  <2>2. /\ pc' \in [Procs -> Labels] /\ pc'[p] = "unlink"
        /\ \A q \in Procs \ {p} : pc'[q] = pc[q]
    BY <1>0, <2>1 DEF TypeOK, Labels
  <2>3. TypeOK'
    BY <1>0, <2>1, <2>2 DEF TypeOK, FileTypeOK, fileVars
  <2>4. CommandIsSound(p)'
    BY <1>0, <2>1, <2>2, WornSame DEF IndexInv, CommandIsSound, AllTruthful, Truthful, Unique
  <2>5. \A e \in committed' : e[2] \in blobs'
    BY <1>0 DEF IndexInv
  <2>. QED  BY <1>0, <2>1, <2>2, <2>3, <2>4, <2>5, Preserve DEF fileVars
<1>. QED  BY <1>1, <1>2

LEMMA WriteTreePreserves ==
  ASSUME IndexInv, HNext, NEW p \in Procs, WriteTree(p)
  PROVE  IndexInv'
<1>0. TypeOK
  BY DEF IndexInv
<1>1. /\ Exit(p) /\ UNCHANGED <<fileVars, work, edits, blobs>>
      /\ committed' = committed \cup {<<e.path, e.oid>> : e \in ToSet(mem[p])}
  BY DEF WriteTree
<1>2. \A e \in ToSet(mem[p]) : e \in IndexEntries /\ e.oid \in blobs
  <2>1. mem[p] \in Seq(IndexEntries)
    BY <1>0 DEF TypeOK
  <2>2. \A k \in 1..Len(mem[p]) : mem[p][k].oid \in blobs
    BY DEF IndexInv, CommandIsSound, AllTruthful, Truthful
  <2>. QED  BY <2>1, <2>2 DEF ToSet
<1>3. committed' \subseteq Files \X Bytes
  BY <1>0, <1>1, <1>2 DEF TypeOK, IndexEntries
<1>4. \A e \in committed' : e[2] \in blobs'
  BY <1>1, <1>2 DEF IndexInv
<1>5. FileTypeOK(IndexContents)'
  BY <1>0, <1>1 DEF TypeOK, FileTypeOK, fileVars
<1>. QED  BY <1>0, <1>1, <1>3, <1>4, <1>5, ExitPreserves DEF TypeOK, fileVars

LEMMA EditPreserves ==
  ASSUME IndexInv, HNext, NEW f \in Edited, NEW b \in Bytes \cup {Gone},
         NEW t \in Stats, Edit(f, b, t)
  PROVE  IndexInv'
<1>0. TypeOK /\ WornOK /\ UNCHANGED <<fileVars, blobs, committed, pc, mem, todo, cur, left>>
  BY DEF IndexInv, Edit, commandVars
<1>1. f \in Files
  BY SomeFile
<1>2. /\ work' \in [Files -> [bytes : Bytes \cup {Gone}, stat : Stats]]
      /\ edits' \in 0..MaxEdits
  BY <1>0, <1>1, BoundsAreNaturals DEF TypeOK, Edit
<1>3. WornOK' /\ \A g \in Files : worn[g] \subseteq worn'[g]
  BY <1>0, <1>2, WornGrows
<1>4. TypeOK'
  BY <1>0, <1>2 DEF TypeOK, FileTypeOK, fileVars
<1>5. ASSUME NEW s \in Seq(IndexEntries), AllTruthful(s)
      PROVE  \A k \in 1..Len(s) : Truthful(s[k])'
  <2>1. \A k \in 1..Len(s) : s[k] \in IndexEntries /\ Truthful(s[k])
    BY <1>5 DEF AllTruthful
  <2>. QED  BY <1>0, <2>1, TruthIsStable
<1>6. ASSUME NEW i \in Inodes PROVE FileIsSound(i)'
  <2>1. CASE data[i] # Empty
    <3>1. data[i].entries \in Seq(IndexEntries)
      BY <1>0, <2>1 DEF TypeOK, FileTypeOK, IndexContents
    <3>2. PICK s \in Seq(IndexEntries) : s = data[i].entries /\ s = data'[i].entries
      BY <1>0, <3>1 DEF fileVars
    <3>3. AllTruthful(s) /\ Ordered(s)
      BY <2>1, <3>2 DEF IndexInv, FileIsSound
    <3>4. \A k \in 1..Len(s) : Truthful(s[k])'
      BY <1>5, <3>3
    <3>. QED  BY <3>2, <3>3, <3>4 DEF FileIsSound, AllTruthful, Truthful, Ordered
  <2>2. CASE data[i] = Empty
    BY <1>0, <2>2 DEF FileIsSound, fileVars
  <2>. QED  BY <2>1, <2>2
<1>7. ASSUME NEW q \in Procs PROVE CommandIsSound(q)'
  <2>1. PICK s \in Seq(IndexEntries) : s = mem[q] /\ s = mem'[q]
    BY <1>0 DEF TypeOK
  <2>2. AllTruthful(s) /\ Unique(s)
    BY <2>1 DEF IndexInv, CommandIsSound
  <2>3. \A k \in 1..Len(s) : Truthful(s[k])'
    BY <1>5, <2>2
  <2>4. AllTruthful(mem[q])' /\ Unique(mem[q])'
    BY <2>1, <2>2, <2>3 DEF AllTruthful, Truthful, Unique
  <2>5. pc'[q] = "write" => fd'[q] \in Inodes /\ Ordered(mem[q])'
    BY <1>0 DEF IndexInv, CommandIsSound, Ordered, fileVars
  <2>6. pc'[q] = "blob" => cur'[q].stat \in worn'[cur'[q].path]
    BY <1>0, <1>3 DEF IndexInv, CommandIsSound, TypeOK
  <2>. QED  BY <2>4, <2>5, <2>6 DEF CommandIsSound
<1>8. \A e \in committed' : e[2] \in blobs'
  BY <1>0 DEF IndexInv
<1>. QED  BY <1>3, <1>4, <1>6, <1>7, <1>8 DEF IndexInv

LEMMA NextIndexInv ==
  ASSUME IndexInv, [HNext]_hvars
  PROVE  IndexInv'
<1>1. CASE UNCHANGED hvars
  <2>1. TypeOK'
    BY <1>1 DEF hvars, vars, fileVars, commandVars, IndexInv, TypeOK, FileTypeOK
  <2>2. \A i \in Inodes : FileIsSound(i)'
    BY <1>1 DEF hvars, history, vars, fileVars, IndexInv, FileIsSound, AllTruthful, Truthful, Ordered
  <2>3. \A p \in Procs : CommandIsSound(p)'
    BY <1>1 DEF hvars, history, vars, fileVars, commandVars, IndexInv, CommandIsSound, AllTruthful, Truthful,
       Ordered, Unique
  <2>4. \A e \in committed' : e[2] \in blobs'
    BY <1>1 DEF hvars, vars, IndexInv
  <2>5. WornOK'
    BY <1>1 DEF hvars, history, vars, IndexInv, WornOK
  <2>. QED  BY <2>1, <2>2, <2>3, <2>4, <2>5 DEF IndexInv
<1>2. CASE HNext
  <2>1. Next
    BY <1>2 DEF HNext
  <2>2. ASSUME NEW p \in Procs, Step(p) PROVE IndexInv'
    <3>1. ASSUME NEW files \in SUBSET Files, StartAdd(p, files) PROVE IndexInv'
      BY <1>2, <3>1, StartPreserves DEF StartAdd
    <3>2. CASE StartCommit(p)
      BY <1>2, <3>2, StartPreserves DEF StartCommit
    <3>3. ASSUME NEW f \in Files, StatFile(p, f) PROVE IndexInv'
      BY <1>2, <3>3, StatFilePreserves
    <3>4. CASE CreateBlob(p)
      BY <1>2, <3>4, CreateBlobPreserves
    <3>5. CASE OpenIndexTmp(p)
      BY <1>2, <3>5, OpenIndexTmpPreserves
    <3>6. CASE WriteIndex(p)
      BY <1>2, <3>6, WriteIndexPreserves
    <3>7. CASE RenameIndex(p)
      BY <1>2, <3>7, RenameIndexPreserves
    <3>8. CASE UnlinkIndexTmp(p)
      <4>1. /\ FileTypeOK(IndexContents)' /\ fd' = fd
            /\ \A i \in Inodes : data'[i] \in {data[i], Empty}
        BY <3>8, UnlinkTmpFacts DEF UnlinkIndexTmp, IndexInv, TypeOK
      <4>. QED  BY <1>2, <3>8, <4>1, ExitPreserves DEF UnlinkIndexTmp, IndexInv, TypeOK
    <3>9. CASE WriteTree(p)
      BY <1>2, <3>9, WriteTreePreserves
    <3>10. CASE AccessFails(p)
      <4>1. FileTypeOK(IndexContents)'
        BY <3>10 DEF AccessFails, IndexInv, TypeOK, FileTypeOK, fileVars
      <4>. QED  BY <1>2, <3>10, <4>1, ExitPreserves
                DEF AccessFails, IndexInv, TypeOK, fileVars
    <3>11. CASE WriteFails(p)
      BY <1>2, <3>11, WriteFailsPreserves
    <3>12. CASE Kill(p)
      <4>1. /\ FileTypeOK(IndexContents)'
            /\ \A q \in Procs \ {p} : fd'[q] = fd[q]
            /\ \A i \in Inodes : data'[i] \in {data[i], Empty}
        BY <3>12, CloseAllFacts DEF Kill, IndexInv, TypeOK
      <4>. QED  BY <1>2, <3>12, <4>1, ExitPreserves DEF Kill, IndexInv, TypeOK
    <3>. QED  BY <2>2, <3>1, <3>2, <3>3, <3>4, <3>5, <3>6, <3>7, <3>8, <3>9,
                 <3>10, <3>11, <3>12 DEF Step
  <2>. QED  BY <1>2, <2>1, <2>2, EditPreserves DEF Next
<1>. QED  BY <1>1, <1>2

THEOREM IndexInvariant == HSpec => []IndexInv
<1>1. HInit => IndexInv
  BY InitType
<1>. QED  BY <1>1, NextIndexInv, PTL DEF HSpec

----------------------------------------------------------------------------
(* What is published *)

LEMMA PublishedIsSound ==
  ASSUME IndexInv
  PROVE  /\ Ordered(Published)
         /\ \A k \in 1..Len(Published) : Truthful(Published[k])
<1>1. CASE Published = <<>>
  BY <1>1 DEF Ordered
<1>2. CASE \E i \in Inodes : data[i] # Empty /\ Published = data[i].entries
  BY <1>2 DEF IndexInv, FileIsSound, AllTruthful
<1>. QED  BY <1>1, <1>2, ReadType DEF IndexInv, TypeOK, Published

(* No index, and no tree made of one, names a blob that is not stored. *)
THEOREM IndexNamesStoredBlobs == HSpec => []IndexedBlobsAreStored
<1>1. IndexInv => IndexedBlobsAreStored
  BY PublishedIsSound DEF IndexInv, IndexedBlobsAreStored, Truthful, ToSet
<1>. QED  BY <1>1, IndexInvariant, PTL

(* A file whose stat is the one in its entry has the contents the entry names, *)
(* but for an edit that left a stat the file had had before.                   *)
THEOREM SkippedFilesAreUnchanged == HSpec => []UnchangedIsUnchanged
<1>1. IndexInv => UnchangedIsUnchanged
  BY PublishedIsSound DEF UnchangedIsUnchanged, Truthful, ToSet
<1>. QED  BY <1>1, IndexInvariant, PTL

(* The published index is sorted, with one entry per path. *)
THEOREM IndexIsSorted == HSpec => []PublishedIsSorted
<1>1. IndexInv => PublishedIsSorted
  BY PublishedIsSound DEF PublishedIsSorted
<1>. QED  BY <1>1, IndexInvariant, PTL

----------------------------------------------------------------------------
(* qgit add as a transaction.  First what its helpers make of the entries.   *)

(* Places that are all different are all the places. *)
LEMMA AllPlaces ==
  ASSUME NEW n \in Nat, NEW perm \in [1..n -> 1..n],
         \A i, j \in 1..n : i < j => perm[i] # perm[j],
         NEW k \in 1..n
  PROVE  \E i \in 1..n : perm[i] = k
<1>. SUFFICES ASSUME \A i \in 1..n : perm[i] # k PROVE FALSE
  OBVIOUS
<1>. DEFINE S == 1..n
            T == S \ {k}
<1>1. IsFiniteSet(S) /\ Cardinality(S) = n
  BY FS_Interval
<1>2. k \in S /\ perm \in [S -> T]
  OBVIOUS
<1>. HIDE DEF S
<1>3. IsFiniteSet(T) /\ Cardinality(T) = Cardinality(S) - 1
  BY <1>1, <1>2, FS_RemoveElement
<1>4. Cardinality(T) < Cardinality(S)
  BY <1>1, <1>3
<1>. HIDE DEF T
<1>5. \E x, y \in S : x # y /\ perm[x] = perm[y]
  BY ONLY <1>1, <1>2, <1>3, <1>4, FS_PigeonHole, SMTT(30)
<1>6. PICK x \in 1..n, y \in 1..n : x # y /\ perm[x] = perm[y]
  BY <1>5 DEF S
<1>7. x < y \/ y < x
  BY <1>6
<1>. QED  BY <1>6, <1>7

(* Sorting neither drops nor makes an entry. *)
LEMMA SortingsSame ==
  ASSUME NEW s \in Seq(IndexEntries), NEW t \in Sortings(s)
  PROVE  ToSet(t) = ToSet(s)
<1>. DEFINE Places == 1..Len(s)
<1>1. PICK perm \in [Places -> Places] :
        /\ t = [i \in Places |-> s[perm[i]]]
        /\ \A i, j \in Places : i < j => perm[i] # perm[j]
  BY SMTT(20) DEF Sortings
<1>2. Len(s) \in Nat /\ DOMAIN s = Places /\ DOMAIN t = Places
  BY <1>1
<1>3. \A k \in Places : \E i \in Places : perm[i] = k
  BY <1>1, <1>2, AllPlaces
<1>4. \A k \in Places : \E i \in Places : s[k] = t[i]
  BY <1>1, <1>3
<1>5. \A i \in Places : t[i] = s[perm[i]] /\ perm[i] \in Places
  BY <1>1
<1>. HIDE DEF Places
<1>. QED  BY <1>2, <1>4, <1>5 DEF ToSet

(* Adding an entry leaves the entries of other paths. *)
LEMMA Add2Same ==
  ASSUME NEW s \in Seq(IndexEntries), NEW e \in IndexEntries, Unique(s)
  PROVE  /\ e \in ToSet(Add2(s, e))
         /\ \A x \in IndexEntries :
              x.path # e.path => (x \in ToSet(Add2(s, e)) <=> x \in ToSet(s))
<1>1. e.path \in Files
  BY DEF IndexEntries
<1>2. CASE Find(s, e.path) = 0
  <2>1. Add2(s, e) = Append(s, e)
    BY <1>2 DEF Add2
  <2>2. /\ Append(s, e) \in Seq(IndexEntries) /\ Len(Append(s, e)) = Len(s) + 1
        /\ \A k \in 1..Len(s) : Append(s, e)[k] = s[k]
        /\ Append(s, e)[Len(s) + 1] = e
    OBVIOUS
  <2>3. DOMAIN Append(s, e) = 1..(Len(s) + 1) /\ DOMAIN s = 1..Len(s) /\ Len(s) \in Nat
    BY <2>2
  <2>. DEFINE t == Append(s, e)
  <2>. HIDE DEF t
  <2>4. /\ DOMAIN t = 1..(Len(s) + 1) /\ DOMAIN s = 1..Len(s) /\ Len(s) \in Nat
        /\ \A k \in 1..Len(s) : t[k] = s[k]
        /\ t[Len(s) + 1] = e /\ Add2(s, e) = t
    BY <2>1, <2>2, <2>3 DEF t
  <2>5. e \in ToSet(t)
    BY <2>4 DEF ToSet
  <2>6. ASSUME NEW x \in IndexEntries, x.path # e.path
        PROVE  x \in ToSet(t) <=> x \in ToSet(s)
    <3>1. x # e
      BY <2>6
    <3>2. \A k \in DOMAIN t : k \in DOMAIN s \/ k = Len(s) + 1
      BY <2>4
    <3>3. \A k \in DOMAIN s : k \in DOMAIN t /\ t[k] = s[k]
      BY <2>4
    <3>. QED  BY <2>4, <3>1, <3>2, <3>3 DEF ToSet
  <2>. QED  BY <2>4, <2>5, <2>6
<1>3. CASE Find(s, e.path) # 0
  <2>. DEFINE i == Find(s, e.path)
              t == [s EXCEPT ![i] = e]
  <2>1. i \in DOMAIN s /\ s[i].path = e.path
    BY <1>1, <1>3, FindRange
  <2>2. Add2(s, e) = t
    BY <1>3 DEF Add2
  <2>. HIDE DEF i
  <2>3. DOMAIN t = DOMAIN s /\ t[i] = e /\ \A k \in DOMAIN s : k # i => t[k] = s[k]
    BY <2>1
  <2>. HIDE DEF t
  <2>4. e \in ToSet(t)
    BY <2>1, <2>3 DEF ToSet
  <2>5. ASSUME NEW x \in IndexEntries, x.path # e.path
        PROVE  x \in ToSet(t) <=> x \in ToSet(s)
    <3>1. x # e /\ x # s[i]
      BY <2>1, <2>5
    <3>. QED  BY <2>1, <2>3, <3>1 DEF ToSet
  <2>. QED  BY <2>2, <2>4, <2>5
<1>. QED  BY <1>2, <1>3

----------------------------------------------------------------------------
(* What the history variables say of p, when it starts and when it goes on. *)

LEMMA StartHistory ==
  ASSUME HNext, NEW p \in Procs, Starts(p)
  PROVE  asked'[p] = todo'[p] /\ \A f \in Files : work'[f].stat \in since'[p][f]
<1>1. /\ asked' = [q \in Procs |-> CASE Starts(q) -> todo'[q]
                                     [] Ends(q) -> {}
                                     [] OTHER -> asked[q]]
      /\ since' = [q \in Procs |-> [f \in Files |->
                     IF Ends(q) THEN {} ELSE since[q][f] \cup {work'[f].stat}]]
  BY DEF HNext
<1>2. ~Ends(p)
  BY DEF Starts, Ends
<1>. QED  BY <1>1, <1>2

LEMMA GoOnHistory ==
  ASSUME HNext, NEW p \in Procs, pc[p] # "idle", pc'[p] # "idle"
  PROVE  /\ asked'[p] = asked[p]
         /\ \A f \in Files : since'[p][f] = since[p][f] \cup {work'[f].stat}
         /\ fresh'[p] => fresh[p] /\ read_file(INDEX)' = read_file(INDEX)
         /\ lone'[p] => lone[p] /\ \A q \in Procs \ {p} : ~Meet(p, q)
<1>1. ~Starts(p) /\ ~Ends(p)
  BY DEF Starts, Ends
<1>2. /\ asked'[p] = asked[p]
      /\ \A f \in Files : since'[p][f] = since[p][f] \cup {work'[f].stat}
  BY <1>1 DEF HNext
<1>3. /\ fresh' = [q \in Procs |->
                     \/ Starts(q)
                     \/ ~Ends(q) /\ fresh[q] /\ read_file(INDEX)' = read_file(INDEX)]
      /\ lone' = [q \in Procs |->
                    \/ Starts(q)
                    \/ ~Ends(q) /\ lone[q] /\ ~\E r \in Procs \ {q} : Meet(q, r)]
  BY DEF HNext
<1>4. fresh'[p] => fresh[p] /\ read_file(INDEX)' = read_file(INDEX)
  BY <1>1, <1>3, Zenon
<1>5. lone'[p] => lone[p] /\ ~\E r \in Procs \ {p} : Meet(p, r)
  BY <1>1, <1>3, Zenon
<1>. QED  BY <1>1, <1>2, <1>4, <1>5

LEMMA SinceType ==
  ASSUME IndexInv, AddInv, HNext
  PROVE  since' \in [Procs -> [Files -> SUBSET Stats]]
<1>1. \A f \in Files : work'[f].stat \in Stats
  BY NextIndexInv DEF IndexInv, TypeOK
<1>2. since' = [q \in Procs |-> [f \in Files |->
                 IF Ends(q) THEN {} ELSE since[q][f] \cup {work'[f].stat}]]
  BY DEF HNext
<1>3. \A q \in Procs, f \in Files : since[q][f] \subseteq Stats
  BY DEF AddInv
<1>. QED  BY <1>1, <1>2, <1>3

(* What is left to show of a step with which p goes on. *)
LEMMA GoOnKnows ==
  ASSUME IndexInv, AddInv, HNext, NEW p \in Procs, Adding(p),
         pc'[p] # "idle", todo'[p] \subseteq todo[p],
         pc'[p] = "blob" =>
           cur'[p].path \in asked[p] /\ cur'[p].stat \in since[p][cur'[p].path],
         \A f \in asked[p] \ todo'[p] :
           \/ pc'[p] = "blob" /\ f = cur'[p].path
           \/ \E e \in ToSet(mem'[p]) : e.path = f /\ e.stat \in since[p][f],
         pc'[p] \in {"write", "rename", "unlink"} => todo'[p] = {},
         {e \in ToSet(mem'[p]) : e.path \notin asked[p]} = Others(p, mem[p])
  PROVE  AddKnows(p)'
<1>1. /\ asked'[p] = asked[p]
      /\ \A f \in Files : since'[p][f] = since[p][f] \cup {work'[f].stat}
      /\ fresh'[p] => fresh[p] /\ read_file(INDEX)' = read_file(INDEX)
  BY GoOnHistory DEF Adding
<1>2. AddKnows(p)
  BY DEF AddInv
<1>3. /\ \A f \in Files : work'[f].stat \in since'[p][f]
      /\ \A f \in Files : since[p][f] \subseteq since'[p][f]
      /\ asked[p] \subseteq Files
  BY <1>1, <1>2 DEF AddKnows
<1>4. \A f \in asked'[p] \ todo'[p] :
        (pc'[p] = "blob" /\ f = cur'[p].path) \/ HasAdded(p, f)'
  BY <1>1, <1>3 DEF HasAdded
<1>5. fresh'[p] => Others(p, mem[p])' = Others(p, Published)'
  BY <1>1, <1>2 DEF AddKnows, Others, Published
<1>. QED  BY <1>1, <1>2, <1>3, <1>4, <1>5 DEF AddKnows, Writing

(* While p and its copy stay as they are, so does what it knows. *)
LEMMA KnowsStill ==
  ASSUME IndexInv, AddInv, HNext, NEW p \in Procs, Adding(p),
         pc'[p] = pc[p], mem'[p] = mem[p], todo'[p] = todo[p], cur'[p] = cur[p]
  PROVE  AddKnows(p)'
<1>1. AddKnows(p)
  BY DEF AddInv
<1>2. \A f \in asked[p] \ todo'[p] :
        \/ pc'[p] = "blob" /\ f = cur'[p].path
        \/ \E e \in ToSet(mem'[p]) : e.path = f /\ e.stat \in since[p][f]
  BY <1>1 DEF AddKnows, HasAdded
<1>. QED  BY <1>1, <1>2, GoOnKnows DEF AddKnows, Adding, Writing, Others

(* The start: everything is still to be looked at. *)
LEMMA StartKnows ==
  ASSUME IndexInv, AddInv, HNext, NEW p \in Procs,
         NEW files \in SUBSET Files, StartAdd(p, files), Adding(p)'
  PROVE  AddKnows(p)'
<1>1. pc[p] = "idle" /\ UNCHANGED <<fileVars, work, edits, blobs, committed, cur>>
  BY DEF StartAdd, Start
<1>2. IsReadable(read_file(INDEX))
  BY <1>1 DEF StartAdd, Start, Adding
<1>3. pc'[p] = "stat" /\ mem'[p] = Published /\ todo'[p] = files
  BY <1>2 DEF StartAdd, Start, Goto, IndexInv, TypeOK, Published
<1>4. asked'[p] = files
  BY <1>1, <1>3, StartHistory DEF Starts
<1>5. \A f \in Files : work'[f].stat \in since'[p][f]
  BY <1>1, <1>3, StartHistory DEF Starts
<1>6. Published' = Published
  BY <1>1 DEF Published, read_file, file_exists, fileVars
<1>7. Others(p, mem[p])' = Others(p, Published)'
  BY <1>3, <1>6 DEF Others
<1>. QED  BY <1>3, <1>4, <1>5, <1>7 DEF AddKnows, Writing

LEMMA StatFileKnows ==
  ASSUME IndexInv, AddInv, HNext, NEW p \in Procs, NEW f \in Files,
         StatFile(p, f), Adding(p)'
  PROVE  AddKnows(p)'
<1>. DEFINE i == Find(mem[p], f)
<1>0. /\ pc[p] = "stat" /\ f \in todo[p] /\ Adding(p) /\ AddKnows(p)
      /\ TypeOK /\ mem[p] \in Seq(IndexEntries)
  BY DEF StatFile, AddInv, Adding, IndexInv, TypeOK
<1>1. work[f].bytes # Gone
  BY <1>0 DEF StatFile, Exit, Goto, Adding, TypeOK
<1>2. /\ todo'[p] = todo[p] \ {f} /\ mem'[p] = mem[p]
      /\ IF i # 0 /\ FileUnchanged(mem[p][i], work[f].stat)
         THEN pc'[p] = "stat"
         ELSE /\ pc'[p] = "blob"
              /\ cur'[p] = [path |-> f, stat |-> work[f].stat]
  BY <1>0, <1>1 DEF StatFile, Goto, TypeOK
<1>3. f \in asked[p] /\ work[f].stat \in since[p][f]
  BY <1>0 DEF AddKnows
<1>4. \A g \in asked[p] \ todo[p] : HasAdded(p, g)
  BY <1>0 DEF AddKnows
<1>5. CASE i # 0 /\ FileUnchanged(mem[p][i], work[f].stat)
  <2>1. i \in DOMAIN mem[p] /\ mem[p][i].path = f
    BY <1>0, <1>5, FindRange
  <2>2. HasAdded(p, f)
    BY <1>3, <1>5, <2>1 DEF HasAdded, FileUnchanged, ToSet
  <2>. HIDE DEF i
  <2>3. \A g \in asked[p] \ todo'[p] :
          \E e \in ToSet(mem'[p]) : e.path = g /\ e.stat \in since[p][g]
    BY <1>2, <1>4, <2>2 DEF HasAdded
  <2>. QED  BY <1>0, <1>2, <1>5, <2>3, GoOnKnows DEF Others
<1>6. CASE ~(i # 0 /\ FileUnchanged(mem[p][i], work[f].stat))
  <2>. HIDE DEF i
  <2>1. pc'[p] = "blob" /\ cur'[p].path = f /\ cur'[p].stat = work[f].stat
    BY <1>2, <1>6
  <2>2. \A g \in asked[p] \ todo'[p] :
          \/ g = cur'[p].path
          \/ \E e \in ToSet(mem'[p]) : e.path = g /\ e.stat \in since[p][g]
    BY <1>2, <1>4, <2>1 DEF HasAdded
  <2>. QED  BY <1>0, <1>2, <1>3, <2>1, <2>2, GoOnKnows DEF Others
<1>. QED  BY <1>5, <1>6

LEMMA CreateBlobKnows ==
  ASSUME IndexInv, AddInv, HNext, NEW p \in Procs, CreateBlob(p), Adding(p)'
  PROVE  AddKnows(p)'
<1>. DEFINE f == cur[p].path
            e == [path |-> f, stat |-> cur[p].stat, oid |-> work[f].bytes]
<1>0. /\ pc[p] = "blob" /\ Adding(p) /\ AddKnows(p) /\ TypeOK
      /\ mem[p] \in Seq(IndexEntries) /\ Unique(mem[p])
      /\ f \in Files /\ cur[p].stat \in Stats
  BY DEF CreateBlob, AddInv, Adding, IndexInv, TypeOK, WornOK, CommandIsSound
<1>1. work[f].bytes # Gone
  BY <1>0 DEF CreateBlob, Exit, Goto, Adding, TypeOK
<1>2. /\ mem'[p] = Add2(mem[p], e)
      /\ pc'[p] = "stat" /\ todo'[p] = todo[p]
  BY <1>0, <1>1 DEF CreateBlob, Goto, TypeOK
<1>3. e \in IndexEntries
  BY <1>0, <1>1 DEF IndexEntries, TypeOK
<1>4. f \in asked[p] /\ cur[p].stat \in since[p][f] /\ e.path = f /\ e.stat = cur[p].stat
  BY <1>0 DEF AddKnows
<1>. HIDE DEF e
<1>5. /\ e \in ToSet(mem'[p])
      /\ \A x \in IndexEntries :
           x.path # f => (x \in ToSet(mem'[p]) <=> x \in ToSet(mem[p]))
  BY <1>0, <1>2, <1>3, <1>4, Add2Same
<1>6. mem'[p] \in Seq(IndexEntries)
  BY <1>0, <1>2, <1>3, Add2Facts
<1>7. ToSet(mem[p]) \subseteq IndexEntries /\ ToSet(mem'[p]) \subseteq IndexEntries
  BY <1>0, <1>6 DEF ToSet
<1>. HIDE DEF f
<1>8. {x \in ToSet(mem'[p]) : x.path \notin asked[p]} = Others(p, mem[p])
  BY <1>4, <1>5, <1>7 DEF Others
<1>9. ASSUME NEW g \in asked[p] \ todo'[p]
      PROVE  \E x \in ToSet(mem'[p]) : x.path = g /\ x.stat \in since[p][g]
  <2>1. CASE g = f
    BY <1>4, <1>5, <2>1
  <2>2. CASE g # f
    <3>1. HasAdded(p, g)
      BY <1>0, <1>2, <1>9, <2>2 DEF AddKnows, f
    <3>. QED  BY <1>5, <1>7, <2>2, <3>1 DEF HasAdded
  <2>. QED  BY <2>1, <2>2
<1>. QED  BY <1>0, <1>2, <1>8, <1>9, GoOnKnows

LEMMA OpenIndexTmpKnows ==
  ASSUME IndexInv, AddInv, HNext, NEW p \in Procs, OpenIndexTmp(p)
  PROVE  AddKnows(p)'
<1>0. /\ pc[p] = "stat" /\ todo[p] = {} /\ Adding(p) /\ AddKnows(p) /\ TypeOK
      /\ mem[p] \in Seq(IndexEntries)
  BY DEF OpenIndexTmp, AddInv, Adding, IndexInv, TypeOK
<1>1. PICK entries \in Sortings(mem[p]) : mem' = [mem EXCEPT ![p] = entries]
  BY DEF OpenIndexTmp
<1>2. pc'[p] = "write" /\ todo'[p] = {} /\ mem'[p] = entries
  BY <1>0, <1>1 DEF OpenIndexTmp, Goto, TypeOK
<1>3. ToSet(mem'[p]) = ToSet(mem[p])
  BY <1>0, <1>2, SortingsSame
<1>4. \A f \in asked[p] : \E e \in ToSet(mem'[p]) : e.path = f /\ e.stat \in since[p][f]
  BY <1>0, <1>3 DEF AddKnows, HasAdded
<1>. QED  BY <1>0, <1>2, <1>3, <1>4, GoOnKnows DEF Others

LEMMA WriteIndexKnows ==
  ASSUME IndexInv, AddInv, HNext, NEW p \in Procs, WriteIndex(p)
  PROVE  AddKnows(p)'
<1>0. /\ pc[p] = "write" /\ Adding(p) /\ AddKnows(p) /\ TypeOK
  BY DEF WriteIndex, AddInv, Adding, IndexInv, TypeOK
<1>1. pc'[p] = "rename" /\ todo'[p] = {} /\ todo[p] = {} /\ mem'[p] = mem[p]
  BY <1>0 DEF WriteIndex, Goto, TypeOK, AddKnows, Writing
<1>2. \A f \in asked[p] : \E e \in ToSet(mem'[p]) : e.path = f /\ e.stat \in since[p][f]
  BY <1>0, <1>1 DEF AddKnows, HasAdded
<1>. QED  BY <1>0, <1>1, <1>2, GoOnKnows DEF Others

(* The other steps end the command, or leave it in the clean-up. *)
LEMMA StepKnows ==
  ASSUME IndexInv, AddInv, HNext, NEW p \in Procs, Step(p), Adding(p)'
  PROVE  AddKnows(p)'
<1>0. TypeOK
  BY DEF IndexInv
<1>1. \A l : Goto(p, l) => pc'[p] = l
  BY <1>0 DEF Goto, TypeOK
<1>2. ~Exit(p)
  BY <1>1 DEF Exit, Adding
<1>3. ASSUME NEW files \in SUBSET Files, StartAdd(p, files) PROVE AddKnows(p)'
  BY <1>3, StartKnows
<1>4. ~StartCommit(p)
  <2>1. SUFFICES ASSUME StartCommit(p) PROVE FALSE
    OBVIOUS
  <2>2. pc[p] = "idle" /\ (pc'[p] = "tree" \/ pc' = pc)
    BY <1>1, <2>1 DEF StartCommit, Start
  <2>. QED  BY <2>2 DEF Adding
<1>5. ASSUME NEW f \in Files, StatFile(p, f) PROVE AddKnows(p)'
  BY <1>5, StatFileKnows
<1>6. ~RenameIndex(p) /\ ~UnlinkIndexTmp(p) /\ ~WriteTree(p) /\ ~AccessFails(p)
      /\ ~WriteFails(p) /\ ~Kill(p)
  BY <1>1, <1>2 DEF RenameIndex, UnlinkIndexTmp, WriteTree, AccessFails, WriteFails, Kill,
                    Adding
<1>. QED  BY <1>3, <1>4, <1>5, <1>6, CreateBlobKnows, OpenIndexTmpKnows, WriteIndexKnows
          DEF Step

----------------------------------------------------------------------------
(* The temporary: whoever is not writing, and does not begin to, leaves it as *)
(* it is.                                                                     *)

LEMMA OthersStay ==
  ASSUME IndexInv, NEW p \in Procs, Step(p), NEW q \in Procs \ {p}
  PROVE  /\ pc'[q] = pc[q] /\ mem'[q] = mem[q] /\ todo'[q] = todo[q]
         /\ cur'[q] = cur[q] /\ fd'[q] = fd[q]
<1>0. TypeOK
  BY DEF IndexInv
<1>1. Exit(p) => pc'[q] = pc[q] /\ mem'[q] = mem[q] /\ todo'[q] = todo[q] /\ cur'[q] = cur[q]
  BY <1>0 DEF Exit, Goto, TypeOK
<1>2. \A l : Goto(p, l) => pc'[q] = pc[q]
  BY <1>0 DEF Goto, TypeOK
<1>3. fd'[q] = fd[q]
  BY <1>0 DEF Step, StartAdd, StartCommit, Start, StatFile, CreateBlob, OpenIndexTmp,
     OpenTmp, WriteIndex, WriteAndClose, RenameIndex, RenameTmp, UnlinkIndexTmp, UnlinkTmp,
     WriteTree, AccessFails, WriteFails, Kill, CloseAll, fileVars, TypeOK, FileTypeOK
<1>4. mem'[q] = mem[q] /\ todo'[q] = todo[q] /\ cur'[q] = cur[q]
  BY <1>0, <1>1 DEF Step, StartAdd, StartCommit, Start, StatFile, CreateBlob, OpenIndexTmp,
     WriteIndex, RenameIndex, UnlinkIndexTmp, WriteTree, AccessFails, WriteFails, Kill, TypeOK
<1>5. pc'[q] = pc[q]
  BY <1>1, <1>2 DEF Step, StartAdd, StartCommit, Start, StatFile, CreateBlob, OpenIndexTmp,
     WriteIndex, RenameIndex, UnlinkIndexTmp, WriteTree, AccessFails, WriteFails, Kill
<1>. QED  BY <1>3, <1>4, <1>5

LEMMA TmpStays ==
  ASSUME IndexInv, NEW p \in Procs, Step(p), ~Writing(p), ~Opens(p)
  PROVE  /\ tmp' = tmp /\ ~Writing(p)'
         /\ tmp[INDEX] \in Inodes => data'[tmp[INDEX]] = data[tmp[INDEX]]
<1>0. TypeOK
  BY DEF IndexInv
<1>1. \A l : Goto(p, l) => pc'[p] = l
  BY <1>0 DEF Goto, TypeOK
<1>2. ~OpenIndexTmp(p) /\ ~WriteIndex(p) /\ ~RenameIndex(p) /\ ~UnlinkIndexTmp(p)
      /\ ~WriteFails(p)
  BY <1>1 DEF OpenIndexTmp, WriteIndex, RenameIndex, UnlinkIndexTmp, WriteFails, Writing,
              Opens
<1>3. ~Writing(p)'
  BY <1>1, <1>2 DEF Step, StartAdd, StartCommit, Start, StatFile, CreateBlob, WriteTree,
     AccessFails, Kill, Exit, Writing
<1>4. CASE CloseAll(p)
  <2>1. /\ tmp' = tmp /\ data' = Reclaimed(data, dir, tmp, fd')
    BY <1>4 DEF CloseAll
  <2>2. tmp[INDEX] \in Linked(dir, tmp, fd')
    BY IndexIsPath DEF Linked
  <2>3. tmp[INDEX] \in Inodes => data'[tmp[INDEX]] = data[tmp[INDEX]]
    BY <2>1, <2>2 DEF Reclaimed
  <2>. QED  BY <1>3, <2>1, <2>3
<1>5. CASE UNCHANGED fileVars
  BY <1>3, <1>5 DEF fileVars
<1>. QED
  BY <1>2, <1>4, <1>5 DEF Step, StartAdd, StartCommit, Start, StatFile, CreateBlob,
     WriteTree, AccessFails, Kill

(* The lone writer after a step of another process. *)
LEMMA TmpStaysOwn ==
  ASSUME IndexInv, AddInv, HNext, NEW p \in Procs, Step(p), NEW q \in Procs \ {p},
         lone'[q]
  PROVE  TmpIsOwn(q)'
<1>1. /\ pc'[q] = pc[q] /\ mem'[q] = mem[q] /\ fd'[q] = fd[q]
      /\ \A r \in Procs \ {p} : pc'[r] = pc[r]
  BY OthersStay
<1>2. CASE ~Writing(q)
  BY <1>1, <1>2 DEF TmpIsOwn, Writing
<1>3. CASE Writing(q)
  <2>1. lone[q] /\ ~Meet(q, p)
    BY <1>1, <1>3, GoOnHistory DEF Writing
  <2>2. TmpIsOwn(q)
    BY <2>1 DEF AddInv
  <2>3. ~Writing(p) /\ ~Opens(p)
    BY <1>3, <2>1, <2>2 DEF TmpIsOwn, Meet
  <2>4. /\ tmp' = tmp /\ ~Writing(p)'
        /\ tmp[INDEX] \in Inodes => data'[tmp[INDEX]] = data[tmp[INDEX]]
    BY <2>3, TmpStays
  <2>5. \A r \in Procs \ {q} : ~Writing(r)'
    BY <1>1, <1>3, <2>2, <2>4 DEF TmpIsOwn, Writing
  <2>6. pc[q] = "write" => tmp[INDEX] \in Inodes
    BY <2>2 DEF TmpIsOwn, IndexInv, CommandIsSound
  <2>7. tmp[INDEX] # NoInode => tmp[INDEX] \in Inodes
    BY IndexIsPath DEF IndexInv, TypeOK, FileTypeOK, Entry
  <2>. QED  BY <1>1, <1>3, <2>2, <2>4, <2>5, <2>6, <2>7 DEF TmpIsOwn, Writing
<1>. QED  BY <1>2, <1>3

(* The lone writer after a step of its own. *)
LEMMA TmpIsStillOwn ==
  ASSUME IndexInv, AddInv, HNext, NEW p \in Procs, Step(p), lone'[p]
  PROVE  TmpIsOwn(p)'
<1>0. /\ TypeOK /\ IndexInv'
      /\ \A q \in Procs \ {p} : pc'[q] = pc[q]
  BY NextIndexInv, OthersStay DEF IndexInv
<1>1. SUFFICES ASSUME Writing(p)' PROVE TmpIsOwn(p)'
  BY DEF TmpIsOwn, Writing
<1>2. \A l : Goto(p, l) => pc'[p] = l
  BY <1>0 DEF Goto, TypeOK
<1>3. ~Exit(p)
  BY <1>1, <1>2 DEF Exit, Writing
<1>4. CASE OpenIndexTmp(p)
  <2>1. pc[p] = "stat" /\ pc'[p] = "write" /\ OpenTmp(p, INDEX)
    BY <1>2, <1>4 DEF OpenIndexTmp
  <2>2. \A q \in Procs \ {p} : ~Writing(q)'
    BY <1>0, <2>1, GoOnHistory DEF Meet, Opens, Writing
  <2>3. fd'[p] = tmp'[INDEX] /\ data'[fd'[p]] = Empty
    <3>1. CASE tmp[INDEX] # NoInode
      <4>1. tmp[INDEX] \in Inodes
        BY <1>0, <3>1, IndexIsPath DEF TypeOK, FileTypeOK, Entry
      <4>. QED  BY <1>0, <2>1, <3>1, <4>1 DEF OpenTmp, TypeOK, FileTypeOK
    <3>2. CASE tmp[INDEX] = NoInode
      <4>1. PICK i \in FreeInodes : /\ tmp' = [tmp EXCEPT ![INDEX] = i]
                                    /\ fd' = [fd EXCEPT ![p] = i]
                                    /\ data' = [data EXCEPT ![i] = Empty]
        BY <2>1, <3>2 DEF OpenTmp
      <4>. QED  BY <1>0, <4>1, IndexIsPath DEF TypeOK, FileTypeOK, FreeInodes
    <3>. QED  BY <3>1, <3>2
  <2>. QED  BY <2>1, <2>2, <2>3 DEF TmpIsOwn
<1>5. CASE pc[p] \in {"write", "rename"}
  <2>1. lone[p]
    BY <1>1, <1>5, GoOnHistory DEF Writing
  <2>2. TmpIsOwn(p) /\ Writing(p)
    BY <1>5, <2>1 DEF AddInv, Writing
  <2>3. \A q \in Procs \ {p} : ~Writing(q)'
    BY <1>0, <2>2 DEF TmpIsOwn, Writing
  <2>4. CASE WriteIndex(p)
    <3>. DEFINE c == Image(mem[p])
    <3>1. /\ tmp[INDEX] = fd[p] /\ data[fd[p]] = Empty /\ fd[p] \in Inodes
          /\ pc[p] = "write" /\ mem' = mem /\ pc'[p] = "rename"
      BY <1>2, <2>2, <2>4 DEF TmpIsOwn, WriteIndex, IndexInv, CommandIsSound
    <3>2. Over(data[fd[p]], c) = c
      BY <3>1 DEF Over
    <3>3. /\ tmp' = tmp
          /\ data' = Reclaimed([data EXCEPT ![fd[p]] = c], dir, tmp, fd')
      BY <2>4, <3>2 DEF WriteIndex, WriteAndClose
    <3>. HIDE DEF c
    <3>4. tmp[INDEX] \in Linked(dir, tmp, fd')
      BY IndexIsPath DEF Linked
    <3>5. data'[tmp[INDEX]] = c
      BY <1>0, <3>1, <3>3, <3>4 DEF Reclaimed, TypeOK, FileTypeOK
    <3>. QED  BY <2>3, <3>1, <3>3, <3>5, NoInodeFresh DEF TmpIsOwn, c
  <2>5. CASE pc'[p] = "unlink"
    BY <2>3, <2>5 DEF TmpIsOwn
  <2>6. WriteIndex(p) \/ RenameIndex(p) \/ WriteFails(p)
    BY <1>2, <1>3, <1>5 DEF Step, StartAdd, StartCommit, Start, StatFile, CreateBlob,
       OpenIndexTmp, UnlinkIndexTmp, WriteTree, AccessFails, Kill
  <2>. QED  BY <1>2, <1>3, <2>4, <2>5, <2>6 DEF RenameIndex, WriteFails
<1>. QED
  BY <1>1, <1>2, <1>3, <1>4, <1>5 DEF Step, StartAdd, StartCommit, Start, StatFile,
     CreateBlob, WriteIndex, RenameIndex, UnlinkIndexTmp, WriteTree, AccessFails,
     WriteFails, Kill, Writing

LEMMA InitAddInv == HInit => AddInv
  BY DEF HInit, Init, AddInv, Adding, TmpIsOwn, Writing

LEMMA NextAddInv ==
  ASSUME IndexInv, AddInv, [HNext]_hvars
  PROVE  AddInv'
<1>1. CASE UNCHANGED hvars
  BY <1>1 DEF hvars, vars, fileVars, commandVars, history, AddInv, Adding, AddKnows, Others,
     HasAdded, Published, read_file, file_exists, Writing, TmpIsOwn
<1>2. CASE HNext
  <2>0. since' \in [Procs -> [Files -> SUBSET Stats]]
    BY <1>2, SinceType
  <2>1. ASSUME NEW p \in Procs, Step(p), NEW q \in Procs
        PROVE  (Adding(q)' => AddKnows(q)') /\ (lone'[q] => TmpIsOwn(q)')
    <3>1. CASE q = p
      BY <1>2, <2>1, <3>1, StepKnows, TmpIsStillOwn
    <3>2. CASE q # p
      <4>1. /\ pc'[q] = pc[q] /\ mem'[q] = mem[q] /\ todo'[q] = todo[q]
            /\ cur'[q] = cur[q]
        BY <2>1, <3>2, OthersStay
      <4>2. Adding(q)' => Adding(q)
        BY <4>1 DEF Adding
      <4>. QED  BY <1>2, <2>1, <3>2, <4>1, <4>2, KnowsStill, TmpStaysOwn
    <3>. QED  BY <3>1, <3>2
  <2>2. ASSUME NEW f \in Edited, NEW b \in Bytes \cup {Gone}, NEW t \in Stats,
               Edit(f, b, t), NEW q \in Procs
        PROVE  (Adding(q)' => AddKnows(q)') /\ (lone'[q] => TmpIsOwn(q)')
    <3>1. UNCHANGED <<fileVars, pc, mem, todo, cur>>
      BY <2>2 DEF Edit, commandVars
    <3>2. Adding(q)' => AddKnows(q)'
      BY <1>2, <3>1, KnowsStill DEF Adding
    <3>3. CASE Writing(q) /\ lone'[q]
      <4>1. TmpIsOwn(q)
        BY <1>2, <3>1, <3>3, GoOnHistory DEF AddInv, Writing
      <4>. QED  BY <3>1, <3>2, <4>1 DEF TmpIsOwn, Writing, fileVars
    <3>4. CASE ~Writing(q)
      BY <3>1, <3>2, <3>4 DEF TmpIsOwn, Writing
    <3>. QED  BY <3>2, <3>3, <3>4
  <2>. QED  BY <1>2, <2>0, <2>1, <2>2 DEF HNext, Next, AddInv
<1>. QED  BY <1>1, <1>2

(* In every reachable state a running qgit add knows what it has to write, and *)
(* as long as no other writer was met the temporary file is its own.           *)
THEOREM AddInvariant == HSpec => []AddInv
<1>1. IndexInv /\ AddInv /\ [HNext]_hvars => AddInv'
  BY NextAddInv
<1>. QED  BY <1>1, InitAddInv, IndexInvariant, PTL DEF HSpec

(* The rename of an undisturbed qgit add. *)
LEMMA PublishTxn ==
  ASSUME IndexInv, AddInv, HNext, NEW p \in Procs, Publishes(p), fresh[p], lone[p]
  PROVE  LET old == ToSet(Published)
             new == ToSet(Published)'
         IN /\ IsReadable(read_file(INDEX))'
            /\ {e \in new : e.path \notin asked[p]} = {e \in old : e.path \notin asked[p]}
            /\ \A f \in asked[p] :
                 \E e \in new : e.path = f /\ e.stat \in since[p][f]
<1>0. /\ pc[p] = "rename" /\ dir' # dir /\ TypeOK /\ AddKnows(p) /\ TmpIsOwn(p)
      /\ mem[p] \in Seq(IndexEntries)
  BY DEF Publishes, IndexInv, TypeOK, AddInv, Adding
<1>1. PICK q \in Procs : RenameIndex(q)
  <2>1. Next
    BY DEF HNext
  <2>2. ASSUME NEW q \in Procs, Step(q), ~RenameIndex(q) PROVE dir' = dir
    BY <1>0, <2>2 DEF Step, StartAdd, StartCommit, Start, StatFile, CreateBlob,
       OpenIndexTmp, OpenTmp, WriteIndex, WriteAndClose, UnlinkIndexTmp, UnlinkTmp, WriteTree,
       AccessFails, WriteFails, Kill, CloseAll, fileVars
  <2>. QED  BY <1>0, <2>1, <2>2 DEF Next, Edit, fileVars
<1>2. q = p
  BY <1>0, <1>1 DEF RenameIndex, TmpIsOwn, Writing
<1>3. RenameTmp(INDEX) /\ tmp[INDEX] \in Inodes /\ data[tmp[INDEX]] = Image(mem[p])
  BY <1>0, <1>1, <1>2, IndexIsPath
     DEF RenameIndex, TmpIsOwn, fileVars, TypeOK, FileTypeOK, Entry
<1>4. dir'[INDEX] = tmp[INDEX] /\ data' = Reclaimed(data, dir', tmp', fd)
  BY <1>0, <1>3, IndexIsPath DEF RenameTmp, TypeOK, FileTypeOK
<1>5. dir'[INDEX] \in Linked(dir', tmp', fd)
  BY IndexIsPath DEF Linked
<1>6. read_file(INDEX)' = Image(mem[p])
  BY <1>3, <1>4, <1>5, NoInodeFresh DEF Reclaimed, read_file, file_exists
<1>7. Image(mem[p]) \notin {Missing, Empty} /\ Image(mem[p]).whole
  BY <1>0, ImageType, NothingIsNoIndex DEF Image
<1>8. IsReadable(read_file(INDEX))' /\ Published' = mem[p]
  BY <1>6, <1>7 DEF IsReadable, Published, EntriesOf, Image
<1>9. {e \in ToSet(mem[p]) : e.path \notin asked[p]}
        = {e \in ToSet(Published) : e.path \notin asked[p]}
  BY <1>0 DEF AddKnows, Others
<1>10. \A f \in asked[p] : \E e \in ToSet(mem[p]) : e.path = f /\ e.stat \in since[p][f]
  BY <1>0 DEF AddKnows, Writing, HasAdded
<1>. QED  BY <1>8, <1>9, <1>10 DEF ToSet

(* qgit add whose index nobody replaced, and who met no other writer, replaces *)
(* the entries of the files it was given and those only, by entries with a     *)
(* stat the file had since its start, whatever fails, dies or is edited        *)
(* meanwhile.                                                                  *)
THEOREM UndisturbedAddsAreTransactions == HSpec => UndisturbedAddIsTransaction
<1>. DEFINE Txn(p) ==
       Publishes(p) /\ fresh[p] /\ lone[p]
       => LET old == ToSet(Published)
              new == ToSet(Published)'
          IN /\ IsReadable(read_file(INDEX))'
             /\ {e \in new : e.path \notin asked[p]} = {e \in old : e.path \notin asked[p]}
             /\ \A f \in asked[p] :
                  \E e \in new : e.path = f /\ e.stat \in since[p][f]
            A == \A p \in Procs : Txn(p)
<1>1. IndexInv /\ AddInv /\ [HNext]_hvars => [A]_hvars
  <2>1. ASSUME IndexInv, AddInv, HNext PROVE A
    BY <2>1, PublishTxn
  <2>. HIDE DEF A
  <2>. QED  BY <2>1
<1>2. UndisturbedAddIsTransaction <=> [][A]_hvars
  BY DEF UndisturbedAddIsTransaction
<1>. HIDE DEF A
<1>. QED  BY <1>1, <1>2, IndexInvariant, AddInvariant, PTL DEF HSpec
=============================================================================
