----------------------------- MODULE SetupProofs -----------------------------
(***************************************************************************)
(* What init and config promise when nobody disturbs them, for every tree  *)
(* of directories and any number of processes, commands, failures and      *)
(* kills: a repository, or no trace; a file with one change, or none, that *)
(* reads as what was in memory.                                            *)
(***************************************************************************)
EXTENDS RepoSetup, IniProofs, SequenceTheorems, TLAPS

----------------------------------------------------------------------------
(* Directories *)

(* The directory i names down a path, and those above that one. *)
LEMMA Down ==
  ASSUME NEW d \in Seq(Names), NEW i \in 0..Len(d)
  PROVE  /\ SubSeq(d, 1, i) \in Seq(Names) /\ Len(SubSeq(d, 1, i)) = i
         /\ \A k \in 1..i : SubSeq(d, 1, i)[k] = d[k]
<1>1. \A k \in 1..i : d[k] \in Names
  BY ElementOfSeq
<1>2. QED  BY <1>1, SubSeqProperties, i <= Len(d), Len(d) \in Nat

LEMMA DownDown ==
  ASSUME NEW d \in Seq(Names), NEW i \in 0..Len(d), NEW j \in 0..i
  PROVE  SubSeq(SubSeq(d, 1, i), 1, j) = SubSeq(d, 1, j)
<1> DEFINE e == SubSeq(d, 1, i)
<1>1. e \in Seq(Names) /\ Len(e) = i /\ \A k \in 1..i : e[k] = d[k]
  BY Down
<1> HIDE DEF e
<1>2. /\ SubSeq(e, 1, j) \in Seq(Names) /\ Len(SubSeq(e, 1, j)) = j
      /\ \A k \in 1..j : SubSeq(e, 1, j)[k] = e[k]
  BY <1>1, Down
<1>3. /\ SubSeq(d, 1, j) \in Seq(Names) /\ Len(SubSeq(d, 1, j)) = j
      /\ \A k \in 1..j : SubSeq(d, 1, j)[k] = d[k]
  BY Down, j \in 0..Len(d)
<1>4. \A k \in 1..j : SubSeq(e, 1, j)[k] = SubSeq(d, 1, j)[k]
  BY <1>1, <1>2, <1>3
<1>5. SubSeq(e, 1, j) = SubSeq(d, 1, j)
  BY <1>2, <1>3, <1>4, SeqEqual
<1>6. QED  BY <1>5 DEF e

LEMMA AboveFacts ==
  ASSUME NEW d \in Seq(Names), NEW e \in Above(d)
  PROVE  e \in Seq(Names) /\ Len(e) <= Len(d) /\ (Len(e) = Len(d) => e = d) /\ Above(e) \subseteq Above(d)
<1>1. PICK i \in 0..Len(d) : e = SubSeq(d, 1, i)
  BY DEF Above
<1>2. e \in Seq(Names) /\ Len(e) = i
  BY <1>1, Down
<1>3. SubSeq(d, 1, Len(d)) = d
  BY SubSeqFull
<1>4. \A j \in 0..Len(e) : SubSeq(e, 1, j) = SubSeq(d, 1, j) /\ j \in 0..Len(d)
  BY <1>1, <1>2, DownDown
<1>5. Above(e) \subseteq Above(d)
  BY <1>4 DEF Above
<1>6. Len(e) <= Len(d)
  BY <1>2
<1>7. ASSUME Len(e) = Len(d) PROVE e = d
  BY <1>1, <1>2, <1>3, <1>7, Zenon
<1>8. QED  BY <1>2, <1>5, <1>6, <1>7, Zenon

LEMMA AboveItself ==
  ASSUME NEW d \in Seq(Names)
  PROVE  d \in Above(d) /\ <<>> \in Above(d)
<1>1. SubSeq(d, 1, Len(d)) = d
  BY SubSeqFull
<1>2. SubSeq(d, 1, 0) = <<>>
  BY SubSeqEmpty
<1>3. Len(d) \in 0..Len(d) /\ 0 \in 0..Len(d)
  OBVIOUS
<1>4. QED  BY <1>1, <1>2, <1>3, Zenon DEF Above

LEMMA PrefixIsAbove ==
  ASSUME NEW d \in Seq(Names), NEW e \in Seq(Names)
  PROVE  IsPrefix(d, e) <=> d \in Above(e)
<1>1. SubSeq(d, 1, Len(d)) = d
  BY SubSeqFull
<1>2. \A i \in 0..Len(e) : Len(SubSeq(e, 1, i)) = i
  BY Down
<1>3. ASSUME IsPrefix(d, e) PROVE d \in Above(e)
  <2>1. Len(d) \in 0..Len(e)
    BY <1>3 DEF IsPrefix
  <2>2. d = SubSeq(e, 1, Len(d))
    BY <1>1, <1>3, Zenon DEF IsPrefix
  <2>3. QED  BY <2>1, <2>2, Zenon DEF Above
<1>4. ASSUME d \in Above(e) PROVE IsPrefix(d, e)
  <2>1. PICK i \in 0..Len(e) : d = SubSeq(e, 1, i)
    BY <1>4, Zenon DEF Above
  <2>2. Len(d) = i
    BY <1>2, <2>1, Zenon
  <2>3. Len(d) <= Len(e)
    BY <2>2
  <2>4. QED  BY <1>1, <2>1, <2>2, <2>3, Zenon DEF IsPrefix
<1>5. QED  BY <1>3, <1>4

LEMMA FrontFacts ==
  ASSUME NEW d \in Seq(Names), d # <<>>
  PROVE  /\ Front(d) \in Seq(Names) /\ Len(Front(d)) = Len(d) - 1 /\ Front(d) \in Above(d)
         /\ Above(d) = Above(Front(d)) \cup {d}
<1>1. Len(d) \in Nat \ {0}
  OBVIOUS
<1>2. Front(d) = SubSeq(d, 1, Len(d) - 1)
  BY DEF Front
<1>3. Front(d) \in Seq(Names) /\ Len(Front(d)) = Len(d) - 1 /\ Front(d) \in Above(d)
  <2>1. Len(d) - 1 \in 0..Len(d)
    BY <1>1
  <2>2. QED  BY <1>2, <2>1, Down, Zenon DEF Above
<1>4. \A i \in 0..(Len(d) - 1) : SubSeq(Front(d), 1, i) = SubSeq(d, 1, i)
  BY <1>1, <1>2, DownDown
<1>5. SubSeq(d, 1, Len(d)) = d
  BY SubSeqFull
<1>6. Above(d) \subseteq Above(Front(d)) \cup {d}
  BY <1>1, <1>3, <1>4, <1>5 DEF Above
<1>7. Above(Front(d)) \cup {d} \subseteq Above(d)
  BY <1>3, AboveFacts, AboveItself
<1>8. QED  BY <1>3, <1>6, <1>7

LEMMA NextFacts ==
  ASSUME NEW d \in Seq(Names), NEW n \in Names
  PROVE  /\ Append(d, n) \in Seq(Names) /\ Append(d, n) # <<>> /\ Len(Append(d, n)) = Len(d) + 1
         /\ Front(Append(d, n)) = d /\ Last(Append(d, n)) = n
<1> DEFINE e == Append(d, n)
<1>1. /\ e \in Seq(Names) /\ e # <<>> /\ Len(e) = Len(d) + 1
      /\ \A i \in 1..Len(d) : e[i] = d[i]
      /\ e[Len(d) + 1] = n
  BY AppendProperties
<1> HIDE DEF e
<1>2. Len(d) \in 0..Len(e)
  BY <1>1
<1>3. /\ SubSeq(e, 1, Len(d)) \in Seq(Names) /\ Len(SubSeq(e, 1, Len(d))) = Len(d)
      /\ \A k \in 1..Len(d) : SubSeq(e, 1, Len(d))[k] = e[k]
  BY <1>1, <1>2, Down
<1>4. SubSeq(e, 1, Len(d)) = d
  BY <1>1, <1>3, SeqEqual
<1>5. Front(e) = d /\ Last(e) = n
  BY <1>1, <1>4 DEF Front, Last
<1>6. QED  BY <1>1, <1>5 DEF e

LEMMA LockFacts ==
  ASSUME NEW f \in Seq(Names)
  PROVE  Lock(f) \in Seq(Names) /\ Len(Lock(f)) = Len(f) + 1 /\ Front(Lock(f)) = f
BY NextFacts, NamesOfOurOwn DEF Lock

LEMMA RepoFacts ==
  /\ Work \in Seq(Names) /\ Work # <<>> /\ Repo \in Seq(Names) /\ Repo # <<>> /\ Front(Repo) = Work
  /\ Len(Repo) = Len(Work) + 1 /\ Work \in Above(Repo) /\ Work # Repo
  /\ Last(Repo) = ".qgit"
<1>1. Work \in Seq(Names) /\ Work # <<>>
  BY WorkIsBelowTheRoot
<1>2. ".qgit" \in Names
  BY NamesOfOurOwn
<1>3. /\ Repo \in Seq(Names) /\ Repo # <<>> /\ Front(Repo) = Work /\ Len(Repo) = Len(Work) + 1
      /\ Last(Repo) = ".qgit"
  BY <1>1, <1>2, NextFacts DEF Repo
<1>4. Work \in Above(Repo)
  BY <1>3, FrontFacts
<1>5. QED  BY <1>1, <1>3, <1>4

LEMMA StructureFacts ==
  ASSUME NEW i \in 1..Len(Structure)
  PROVE  /\ Structure[i] \in Range(Structure) /\ Structure[i] \in Seq(Names)
         /\ Structure[i] \notin {<<>>, Work, Repo} /\ {Work, Repo} \subseteq Above(Structure[i])
<1>1. Structure \in Seq(Seq(Names)) /\ Structure[i] \in Seq(Names) /\ Structure[i] \in Range(Structure)
  BY StructureIsBelowRepo, ElementOfSeq DEF Range
<1>2. IsPrefix(Repo, Structure[i]) /\ Structure[i] # Repo
  BY <1>1, StructureIsBelowRepo DEF IsStrictPrefix
<1>3. Repo \in Above(Structure[i])
  BY <1>1, <1>2, PrefixIsAbove, RepoFacts
<1>4. Work \in Above(Structure[i])
  BY <1>1, <1>3, AboveFacts, RepoFacts
<1>5. Len(Repo) <= Len(Structure[i])
  BY <1>1, <1>3, AboveFacts
<1>6. QED  BY <1>1, <1>2, <1>3, <1>4, <1>5, RepoFacts

LEMMA PlacesFacts ==
  /\ Places \subseteq Seq(Names) /\ Work \in Places /\ Repo \in Places /\ Range(Structure) \subseteq Places
  /\ IsTree(Places)
<1>1. Range(Structure) \cup {Repo} \subseteq Seq(Names)
  BY StructureIsBelowRepo, RepoFacts, ElementOfSeq DEF Range
<1>2. \A d \in Range(Structure) \cup {Repo} : \A e \in Above(d) : e \in Seq(Names) /\ Above(e) \subseteq Above(d)
  BY <1>1, AboveFacts
<1>3. \A d \in Range(Structure) \cup {Repo} : d \in Above(d)
  BY <1>1, AboveItself
<1>4. Places \subseteq Seq(Names)
  BY <1>2, FirstIsATree DEF Places
<1>5. Work \in Places /\ Repo \in Places /\ Range(Structure) \subseteq Places
  BY <1>3, RepoFacts DEF Places
<1>6. \A D \in FirstDirs : \A d \in D : Above(d) \subseteq D
  BY FirstIsATree DEF IsTree
<1>7. IsTree(Places)
  BY <1>2, <1>6 DEF Places, IsTree
<1>8. QED  BY <1>4, <1>5, <1>7

LEMMA TreeGrows ==
  ASSUME NEW D, IsTree(D), NEW d \in Seq(Names), d # <<>>, Front(d) \in D
  PROVE  IsTree(D \cup {d})
<1>1. Above(d) = Above(Front(d)) \cup {d}
  BY FrontFacts
<1>2. QED  BY <1>1 DEF IsTree

LEMMA TreeShrinks ==
  ASSUME NEW D, IsTree(D), NEW x, \A y \in D : x \in Above(y) => y = x
  PROVE  IsTree(D \ {x})
BY DEF IsTree

----------------------------------------------------------------------------
(* Files *)

(* What is read of a file is the data of its inode. *)
LEMMA SameInode ==
  ASSUME NEW f \in Paths, file_exists(f), dir'[f] = dir[f], data'[dir[f]] = data[dir[f]]
  PROVE  file_exists(f)' /\ read_file(f)' = read_file(f)
BY DEF file_exists, read_file

LEMMA DirIsLinked ==
  ASSUME NEW d, NEW t, NEW f, NEW x \in Paths
  PROVE  d[x] \in Linked(d, t, f)
BY DEF Linked

LEMMA Freed ==
  ASSUME NEW i \in FreeInodes
  PROVE  /\ i \in Inodes /\ i # NoInode
         /\ \A f \in Paths : dir[f] # i /\ tmp[f] # i
BY NoInodeFresh DEF FreeInodes, Linked

(* open(lock): no published file is touched. *)
LEMMA OpenTmpFacts ==
  ASSUME NamesAreDistinct, NEW p \in Procs, NEW f \in Paths, OpenTmp(p, f)
  PROVE  /\ NamesAreDistinct' /\ dir' = dir
         /\ tmp'[f] # NoInode /\ fd'[p] = tmp'[f] /\ \A g \in Paths : g # f => tmp'[g] = tmp[g]
         /\ \A g \in Paths : file_exists(g) => file_exists(g)' /\ read_file(g)' = read_file(g)
<1>1. CASE tmp[f] # NoInode
  <2>1. /\ fd' = [fd EXCEPT ![p] = tmp[f]] /\ data' = [data EXCEPT ![tmp[f]] = Empty]
        /\ dir' = dir /\ tmp' = tmp
    BY <1>1 DEF OpenTmp
  <2>2. tmp[f] \in Entry
    BY DEF NamesAreDistinct
  <2>3. fd' \in [Procs -> Entry] /\ fd'[p] = tmp[f]
    BY <2>1, <2>2 DEF NamesAreDistinct
  <2>4. data' = [i \in Inodes |-> data'[i]] /\ \A i \in Inodes : i # tmp[f] => data'[i] = data[i]
    BY <2>1 DEF NamesAreDistinct
  <2>5. NamesAreDistinct'
    BY <2>1, <2>3, <2>4 DEF NamesAreDistinct
  <2>6. \A g \in Paths : file_exists(g) => dir[g] \in Inodes /\ dir[g] # tmp[f]
    BY DEF NamesAreDistinct, Entry, file_exists
  <2>7. \A g \in Paths : file_exists(g) => file_exists(g)' /\ read_file(g)' = read_file(g)
    BY <2>1, <2>4, <2>6, SameInode
  <2>8. QED  BY <1>1, <2>1, <2>3, <2>5, <2>7
<1>2. CASE tmp[f] = NoInode
  <2>1. PICK i \in FreeInodes : /\ tmp' = [tmp EXCEPT ![f] = i] /\ fd' = [fd EXCEPT ![p] = i]
                                /\ data' = [data EXCEPT ![i] = Empty] /\ dir' = dir
    BY <1>2 DEF OpenTmp
  <2>2. i \in Inodes /\ i # NoInode /\ \A g \in Paths : dir[g] # i /\ tmp[g] # i
    BY Freed
  <2>3. i \in Entry
    BY <2>2 DEF Entry
  <2>4. /\ fd' \in [Procs -> Entry] /\ fd'[p] = i
        /\ tmp' \in [Paths -> Entry] /\ tmp'[f] = i /\ \A g \in Paths : g # f => tmp'[g] = tmp[g]
    BY <2>1, <2>3 DEF NamesAreDistinct
  <2>5. data' = [j \in Inodes |-> data'[j]] /\ \A j \in Inodes : j # i => data'[j] = data[j]
    BY <2>1 DEF NamesAreDistinct
  <2>6. NamesAreDistinct'
    BY <2>1, <2>2, <2>4, <2>5 DEF NamesAreDistinct
  <2>7. \A g \in Paths : file_exists(g) => dir[g] \in Inodes /\ dir[g] # i
    BY <2>2 DEF NamesAreDistinct, Entry, file_exists
  <2>8. \A g \in Paths : file_exists(g) => file_exists(g)' /\ read_file(g)' = read_file(g)
    BY <2>1, <2>5, <2>7, SameInode
  <2>9. QED  BY <2>1, <2>2, <2>4, <2>6, <2>8
<1>3. QED  BY <1>1, <1>2

(* write and close: the one file that changes is the one that is open. *)
LEMMA CloseFacts ==
  ASSUME NamesAreDistinct, NEW p \in Procs, NEW c, WriteAndClose(p, c)
  PROVE  /\ NamesAreDistinct' /\ dir' = dir /\ tmp' = tmp
         /\ \A g \in Paths : file_exists(g) =>
              /\ file_exists(g)'
              /\ dir[g] # fd[p] => read_file(g)' = read_file(g)
              /\ dir[g] = fd[p] => read_file(g)' = c
<1>1. /\ fd' = [fd EXCEPT ![p] = NoInode] /\ dir' = dir /\ tmp' = tmp
      /\ data' = Reclaimed([data EXCEPT ![fd[p]] = c], dir, tmp, fd')
  BY DEF WriteAndClose
<1>2. fd' \in [Procs -> Entry]
  BY <1>1 DEF NamesAreDistinct, Entry
<1>3. data' = [j \in Inodes |-> data'[j]]
  BY <1>1 DEF Reclaimed
<1>4. NamesAreDistinct'
  BY <1>1, <1>2, <1>3 DEF NamesAreDistinct
<1>5. ASSUME NEW g \in Paths, file_exists(g)
      PROVE  data'[dir[g]] = [data EXCEPT ![fd[p]] = c][dir[g]] /\ dir[g] \in Inodes
  <2>1. dir[g] \in Inodes
    BY <1>5 DEF NamesAreDistinct, Entry, file_exists
  <2>2. dir[g] \in Linked(dir, tmp, fd')
    BY DirIsLinked
  <2>3. QED  BY <1>1, <2>1, <2>2 DEF Reclaimed
<1>6. ASSUME NEW g \in Paths, file_exists(g)
      PROVE  /\ file_exists(g)'
             /\ dir[g] # fd[p] => read_file(g)' = read_file(g)
             /\ dir[g] = fd[p] => read_file(g)' = c
  BY <1>1, <1>5, <1>6 DEF NamesAreDistinct, file_exists, read_file
<1>7. QED  BY <1>1, <1>4, <1>6

(* The published files but f keep their inodes, and these their data. *)
LEMMA RelinkFacts ==
  ASSUME NamesAreDistinct, NEW f, fd' = fd, data' = Reclaimed(data, dir', tmp', fd),
         \A g \in Paths : g # f => dir'[g] = dir[g]
  PROVE  /\ data' = [i \in Inodes |-> data'[i]]
         /\ \A g \in Paths : g # f /\ file_exists(g) => file_exists(g)' /\ read_file(g)' = read_file(g)
<1>1. data' = [j \in Inodes |-> data'[j]]
  BY DEF Reclaimed
<1>2. ASSUME NEW g \in Paths, g # f, file_exists(g)
      PROVE  file_exists(g)' /\ read_file(g)' = read_file(g)
  <2>1. dir[g] \in Inodes /\ dir'[g] = dir[g]
    BY <1>2 DEF NamesAreDistinct, Entry, file_exists
  <2>2. dir'[g] \in Linked(dir', tmp', fd)
    BY DirIsLinked
  <2>3. data'[dir[g]] = data[dir[g]]
    BY <2>1, <2>2 DEF Reclaimed
  <2>4. QED  BY <1>2, <2>1, <2>3, SameInode
<1>3. QED  BY <1>1, <1>2

LEMMA RenameFacts ==
  ASSUME NamesAreDistinct, NEW f \in Paths, RenameTmp(f), CanRenameTmp(f)
  PROVE  /\ NamesAreDistinct' /\ fd' = fd /\ file_exists(f)'
         /\ tmp' = [tmp EXCEPT ![f] = NoInode] /\ dir' = [dir EXCEPT ![f] = tmp[f]]
         /\ \A g \in Paths : g # f /\ file_exists(g) => file_exists(g)' /\ read_file(g)' = read_file(g)
<1>1. /\ dir' = [dir EXCEPT ![f] = tmp[f]] /\ tmp' = [tmp EXCEPT ![f] = NoInode] /\ fd' = fd
      /\ data' = Reclaimed(data, dir', tmp', fd) /\ tmp[f] # NoInode
  BY DEF RenameTmp, CanRenameTmp
<1>2. /\ dir' \in [Paths -> Entry] /\ dir'[f] = tmp[f] /\ \A g \in Paths : g # f => dir'[g] = dir[g]
      /\ tmp' \in [Paths -> Entry] /\ tmp'[f] = NoInode /\ \A g \in Paths : g # f => tmp'[g] = tmp[g]
  BY <1>1 DEF NamesAreDistinct, Entry
<1>3. /\ data' = [i \in Inodes |-> data'[i]]
      /\ \A g \in Paths : g # f /\ file_exists(g) => file_exists(g)' /\ read_file(g)' = read_file(g)
  BY <1>1, <1>2, RelinkFacts
<1>4. NamesAreDistinct'
  BY <1>1, <1>2, <1>3 DEF NamesAreDistinct
<1>5. QED  BY <1>1, <1>2, <1>3, <1>4 DEF file_exists

LEMMA UnlinkTmpFacts ==
  ASSUME NamesAreDistinct, NEW f \in Paths, UnlinkTmp(f)
  PROVE  /\ NamesAreDistinct' /\ fd' = fd /\ dir' = dir /\ tmp' = [tmp EXCEPT ![f] = NoInode]
         /\ \A g \in Paths : file_exists(g) => file_exists(g)' /\ read_file(g)' = read_file(g)
<1>1. /\ dir' = dir /\ tmp' = [tmp EXCEPT ![f] = NoInode] /\ fd' = fd
      /\ data' = Reclaimed(data, dir', tmp', fd)
  BY DEF UnlinkTmp
<1>2. tmp' \in [Paths -> Entry] /\ tmp'[f] = NoInode /\ \A g \in Paths : g # f => tmp'[g] = tmp[g]
  BY <1>1 DEF NamesAreDistinct, Entry
<1>3. data' = [i \in Inodes |-> data'[i]]
  BY <1>1 DEF Reclaimed
<1>4. \A g \in Paths : g # <<>> /\ file_exists(g) => file_exists(g)' /\ read_file(g)' = read_file(g)
  BY <1>1, RelinkFacts
<1>5. NamesAreDistinct'
  BY <1>1, <1>2, <1>3 DEF NamesAreDistinct
<1>6. QED  BY <1>1, <1>4, <1>5, FilesAreNoDirectories

LEMMA UnlinkFacts ==
  ASSUME NamesAreDistinct, NEW f \in Paths, Unlink(f)
  PROVE  /\ NamesAreDistinct' /\ fd' = fd /\ tmp' = tmp /\ dir' = [dir EXCEPT ![f] = NoInode]
         /\ \A g \in Paths : g # f /\ file_exists(g) => file_exists(g)' /\ read_file(g)' = read_file(g)
<1>1. /\ dir' = [dir EXCEPT ![f] = NoInode] /\ tmp' = tmp /\ fd' = fd
      /\ data' = Reclaimed(data, dir', tmp', fd)
  BY DEF Unlink
<1>2. dir' \in [Paths -> Entry] /\ dir'[f] = NoInode /\ \A g \in Paths : g # f => dir'[g] = dir[g]
  BY <1>1 DEF NamesAreDistinct, Entry
<1>3. /\ data' = [i \in Inodes |-> data'[i]]
      /\ \A g \in Paths : g # f /\ file_exists(g) => file_exists(g)' /\ read_file(g)' = read_file(g)
  BY <1>1, <1>2, RelinkFacts
<1>4. NamesAreDistinct'
  BY <1>1, <1>2, <1>3 DEF NamesAreDistinct
<1>5. QED  BY <1>1, <1>3, <1>4

LEMMA CloseAllFacts ==
  ASSUME NamesAreDistinct, NEW p \in Procs, CloseAll(p)
  PROVE  NamesAreDistinct' /\ dir' = dir /\ tmp' = tmp
<1>1. fd' \in [Procs -> Entry] /\ dir' = dir /\ tmp' = tmp
  BY DEF CloseAll, NamesAreDistinct, Entry
<1>2. data' = [i \in Inodes |-> data'[i]]
  BY DEF CloseAll, Reclaimed
<1>3. QED  BY <1>1, <1>2 DEF NamesAreDistinct
LEMMA FopenFacts ==
  ASSUME NamesAreDistinct, NEW p \in Procs, NEW f \in Paths, NEW i,
         file_exists(f) => i = dir[f], ~file_exists(f) => i \in FreeInodes,
         dir' = [dir EXCEPT ![f] = i], fd' = [fd EXCEPT ![p] = i],
         data' = [data EXCEPT ![i] = Empty], tmp' = tmp
  PROVE  /\ NamesAreDistinct' /\ fd'[p] = dir'[f] /\ dir'[f] # NoInode
         /\ \A g \in Paths : g # f => dir'[g] = dir[g]
         /\ \A g \in Paths : g # f /\ file_exists(g) => file_exists(g)' /\ read_file(g)' = read_file(g)
<1>1. i \in Inodes /\ i # NoInode /\ \A g \in Paths : tmp[g] # i /\ (dir[g] = i => g = f)
  <2>1. CASE file_exists(f)
    BY <2>1, NoInodeFresh DEF NamesAreDistinct, Entry, file_exists
  <2>2. CASE ~file_exists(f)
    BY <2>2, Freed
  <2>3. QED  BY <2>1, <2>2
<1>2. /\ dir' \in [Paths -> Entry] /\ dir'[f] = i /\ \A g \in Paths : g # f => dir'[g] = dir[g]
      /\ fd' \in [Procs -> Entry] /\ fd'[p] = i
  BY <1>1 DEF NamesAreDistinct, Entry
<1>3. data' = [j \in Inodes |-> data'[j]] /\ \A j \in Inodes : j # i => data'[j] = data[j]
  BY DEF NamesAreDistinct
<1>4. NamesAreDistinct'
  BY <1>1, <1>2, <1>3 DEF NamesAreDistinct
<1>5. \A g \in Paths : g # f /\ file_exists(g) => dir[g] \in Inodes /\ dir[g] # i
  BY <1>1 DEF NamesAreDistinct, Entry, file_exists
<1>6. \A g \in Paths : g # f /\ file_exists(g) => file_exists(g)' /\ read_file(g)' = read_file(g)
  BY <1>2, <1>3, <1>5, SameInode
<1>7. QED  BY <1>1, <1>2, <1>4, <1>6

----------------------------------------------------------------------------
(* Steps of a command *)

(* What a command has to know at its new place. *)
Known(p) == KeepsWhatWas(p) /\ KnowsWhatIsNew(p) /\ MakesDirs(p) /\ MakesFiles(p)

LEMMA StepInv ==
  ASSUME SetupInv, NEW p \in Procs, NEW s, Become(p, s), IsCommand(s), MakesSense(s),
         NamesAreDistinct', DirsAreATree', dirs' \subseteq Places,
         before[p] # <<>> /\ s.op = "init" => Known(p)'
  PROVE  SetupInv'
<1>1. proc' = [proc EXCEPT ![p] = s] /\ before' = [q \in Procs |-> IF q = p THEN before[q] ELSE <<>>]
  BY DEF Become
<1>2. proc = [q \in Procs |-> proc[q]] /\ \A q \in Procs : IsCommand(proc[q]) /\ MakesSense(proc[q])
  BY DEF SetupInv, FilesInv, SetupTypeOK, CommandsMakeSense
<1>3. proc'[p] = s /\ \A q \in Procs : q # p => proc'[q] = proc[q]
  BY <1>1, <1>2
<1>4. \A q \in Procs : IsCommand(proc'[q]) /\ MakesSense(proc'[q])
  BY <1>2, <1>3, Zenon
<1>5. proc' = [q \in Procs |-> proc'[q]] /\ before' = [q \in Procs |-> before'[q]]
  BY <1>1, <1>2
<1>6. SetupTypeOK'
  BY <1>4, <1>5, Zenon DEF SetupTypeOK
<1>7. CommandsMakeSense'
  BY <1>4, Zenon DEF CommandsMakeSense
<1>8. before'[p] = before[p] /\ \A q \in Procs : q # p => before'[q] = <<>>
  BY <1>1
<1>9. \A q \in Procs : Undisturbed(q)' => Known(q)'
  BY <1>3, <1>8, Zenon DEF Undisturbed, IsInit
<1>10. InitInv'
  BY <1>9, Zenon DEF InitInv, Known
<1>11. QED  BY <1>6, <1>7, <1>10 DEF SetupInv, FilesInv

LEMMA Becomes ==
  ASSUME SetupInv, NEW p \in Procs, NEW s, Become(p, s)
  PROVE  proc'[p] = s /\ before'[p] = before[p] /\ IsCommand(proc[p]) /\ MakesSense(proc[p])
BY DEF Become, SetupInv, FilesInv, SetupTypeOK, CommandsMakeSense

(* A step that only reads. *)
LEMMA QuietFacts ==
  ASSUME SetupInv, OnlyReads, NEW p \in Procs, before'[p] = before[p]
  PROVE  /\ NamesAreDistinct' /\ DirsAreATree' /\ dirs' \subseteq Places
         /\ Undisturbed(p) => KeepsWhatWas(p)'
         /\ \A d : There(d)' = There(d)
         /\ \A f \in Paths : file_exists(f)' = file_exists(f) /\ read_file(f)' = read_file(f)
         /\ Undisturbed(p) => Known(p)
<1>1. dirs' = dirs /\ dir' = dir /\ tmp' = tmp /\ data' = data /\ fd' = fd
  BY DEF OnlyReads, fileVars
<1>2. NamesAreDistinct' /\ DirsAreATree' /\ dirs' \subseteq Places
  BY <1>1 DEF SetupInv, FilesInv, NamesAreDistinct, DirsAreATree, file_exists, SetupTypeOK
<1>3. \A d : There(d)' = There(d)
  BY <1>1 DEF There, file_exists
<1>4. \A f \in Paths : file_exists(f)' = file_exists(f) /\ read_file(f)' = read_file(f)
  BY <1>1 DEF file_exists, read_file
<1>5. Undisturbed(p) => Known(p)
  BY DEF SetupInv, InitInv, Known
<1>6. Undisturbed(p) => KeepsWhatWas(p)'
  BY <1>1, <1>4, <1>5 DEF Known, KeepsWhatWas, Had
<1>7. QED  BY <1>2, <1>3, <1>4, <1>5, <1>6

(* The step to another place of the program, with nothing else remembered. *)
LEMMA GotoFacts ==
  ASSUME NEW s, IsCommand(s), NEW pc \in {"idle", "load", "done", "failed"} \cup Inits \cup Saves,
         NEW t, t = [s EXCEPT !.pc = pc]
  PROVE  /\ IsCommand(t) /\ t.pc = pc /\ t.op = s.op /\ t.change = s.change /\ t.mk = s.mk
         /\ t.next = s.next /\ t.then = s.then /\ t.work_created = s.work_created
         /\ t.repodir_created = s.repodir_created /\ t.target = s.target /\ t.todo = s.todo
         /\ t.cut = s.cut /\ t.ini = s.ini /\ t.again = s.again
BY DEF IsCommand

Counted(s, pc, n) == [s EXCEPT !.pc = pc, !.next = n]

LEMMA CountFacts ==
  ASSUME NEW s, IsCommand(s), NEW pc \in {"idle", "load", "done", "failed"} \cup Inits \cup Saves,
         NEW n \in Nat \ {0}, NEW t, t = Counted(s, pc, n)
  PROVE  /\ IsCommand(t) /\ t.pc = pc /\ t.op = s.op /\ t.change = s.change /\ t.mk = s.mk
         /\ t.next = n /\ t.work_created = s.work_created /\ t.repodir_created = s.repodir_created
         /\ t.target = s.target /\ t.todo = s.todo /\ t.cut = s.cut
BY DEF IsCommand, Counted

LEMMA SkipFacts ==
  ASSUME NEW s, IsCommand(s), NEW t, t = [s EXCEPT !.next = @ + 1]
  PROVE  /\ IsCommand(t) /\ t.pc = s.pc /\ t.op = s.op /\ t.change = s.change /\ t.mk = s.mk
         /\ t.next = s.next + 1 /\ t.work_created = s.work_created
         /\ t.repodir_created = s.repodir_created
         /\ t.target = s.target /\ t.todo = s.todo /\ t.cut = s.cut
<1>1. s.next \in Nat \ {0} /\ s.next + 1 \in Nat \ {0}
  BY DEF IsCommand
<1>2. QED  BY <1>1 DEF IsCommand

WithIni(s, pc, ini) == [s EXCEPT !.pc = pc, !.ini = ini]

LEMMA SavesFacts ==
  ASSUME NEW s, IsCommand(s), NEW pc \in Saves, NEW ini,
         NEW t, t = WithIni(s, pc, ini)
  PROVE  /\ IsCommand(t) /\ t.pc = pc /\ t.op = s.op /\ t.change = s.change /\ t.mk = s.mk
         /\ t.next = s.next /\ t.work_created = s.work_created
         /\ t.repodir_created = s.repodir_created
         /\ t.target = s.target /\ t.todo = s.todo /\ t.cut = s.cut
BY DEF IsCommand, WithIni

LEMMA TypeFacts ==
  ASSUME NEW s, IsCommand(s)
  PROVE  /\ s.pc \in {"idle", "load", "done", "failed"} \cup Inits \cup Saves
         /\ s.next \in Nat \ {0} /\ s.next + 1 \in Nat \ {0}
BY DEF IsCommand

(* mkdirp begins with the directory that it was asked for. *)
Asked(s, d, then) == [s EXCEPT !.pc = "mkdir", !.mk = <<d>>, !.again = FALSE, !.then = then]

LEMMA MkdirpFacts ==
  ASSUME NEW s, IsCommand(s), s.op = "init", NEW d \in Range(Structure) \cup {Work, Repo},
         NEW then \in {"repodir", "dirs"},
         NEW t, t = Asked(s, d, then)
  PROVE  /\ IsCommand(t) /\ MakesSense(t) /\ t.pc = "mkdir" /\ t.op = s.op /\ t.mk = <<d>>
         /\ t.next = s.next /\ t.then = then /\ t.work_created = s.work_created
         /\ t.repodir_created = s.repodir_created /\ t.cut = s.cut /\ t.change = s.change
<1>1. d \in Seq(Names) /\ d # <<>>
  <2>1. CASE d \in Range(Structure)
    <3>1. PICK i \in 1..Len(Structure) : d = Structure[i]
      BY <2>1, StructureIsBelowRepo DEF Range
    <3>2. QED  BY <3>1, StructureFacts
  <2>2. CASE d \in {Work, Repo}
    BY <2>2, RepoFacts
  <2>3. QED  BY <2>1, <2>2
<1>2. <<d>> \in Seq(Seq(Names)) /\ Len(<<d>>) = 1 /\ <<d>>[1] = d /\ <<d>> # <<>>
  BY <1>1
<1>3. /\ IsCommand(t) /\ t.pc = "mkdir" /\ t.op = s.op /\ t.mk = <<d>>
      /\ t.next = s.next /\ t.then = then /\ t.work_created = s.work_created
      /\ t.repodir_created = s.repodir_created /\ t.cut = s.cut /\ t.change = s.change
  BY <1>2 DEF IsCommand, Inits, Asked
<1>4. SubSeq(d, 1, Len(d)) = d
  BY <1>1, SubSeqFull
<1>5. Len(d) \in Nat /\ Len(d) >= 1
  BY <1>1
<1>6. MakesAStack(t)
  <2>1. t.mk[1] = d /\ Len(t.mk) = 1 /\ t.mk # <<>>
    BY <1>2, <1>3
  <2>2. \A i \in 1..1 : i = 1 /\ Len(d) + 1 - i = Len(d)
    BY <1>5
  <2>3. \A i \in 1..1 : t.mk[i] = SubSeq(d, 1, Len(d) + 1 - i)
    BY <1>4, <2>1, <2>2, Zenon
  <2>4. QED  BY <1>5, <2>1, <2>3 DEF MakesAStack
<1>7. MakesSense(t)
  BY <1>3, <1>6 DEF MakesSense, Inits, Saves
<1>8. QED  BY <1>3, <1>7

LEMMA InPlaceFacts ==
  ASSUME NEW i \in 1..Len(InPlace)
  PROVE  /\ InPlace[i] \in Paths /\ InPlace[i] # CONFIG /\ InPlace[i] \in Range(InPlace)
         /\ \A j \in 1..Len(InPlace) : InPlace[i] = InPlace[j] => i = j
BY EachFileIsMadeOnce, ElementOfSeq DEF IsInjective, Range

(* What was written of the other files is not touched by a step that reads. *)
LEMMA QuietOthers ==
  ASSUME SetupInv, OnlyReads, NEW p \in Procs, NEW s, Become(p, s), OthersAreWritten(p),
         s.cut = proc[p].cut, proc[p].pc # "fill",
         \A i \in 1..Len(InPlace) :
           InPlace[i] \notin Had(p) => (i <= Written(s) <=> i <= Written(proc[p]))
  PROVE  OthersAreWritten(p)'
<1>1. proc'[p] = s /\ before'[p] = before[p]
  BY Becomes
<1>2. \A i \in 1..Len(InPlace) :
        /\ file_exists(InPlace[i])' = file_exists(InPlace[i])
        /\ read_file(InPlace[i])' = read_file(InPlace[i])
  BY <1>1, QuietFacts, InPlaceFacts
<1>3. Written(proc[p])' = Written(s)
  BY <1>1 DEF Written
<1>4. QED  BY <1>1, <1>2, <1>3 DEF OthersAreWritten, Had, At

LEMMA QuietStep ==
  ASSUME SetupInv, OnlyReads, NEW p \in Procs, NEW s, Become(p, s), IsCommand(s), MakesSense(s),
         s.op = proc[p].op,
         Undisturbed(p) /\ Known(p) => KnowsWhatIsNew(p)' /\ MakesDirs(p)' /\ MakesFiles(p)'
  PROVE  SetupInv'
<1>1. proc'[p] = s /\ before'[p] = before[p]
  BY Becomes
<1>2. /\ NamesAreDistinct' /\ DirsAreATree' /\ dirs' \subseteq Places
      /\ Undisturbed(p) => KeepsWhatWas(p)' /\ Known(p)
  BY <1>1, QuietFacts
<1>3. Undisturbed(p) => Known(p)'
  BY <1>2 DEF Known
<1>4. QED  BY <1>2, <1>3, StepInv DEF Undisturbed, IsInit

LEMMA CheckPathInv ==
  ASSUME SetupInv, NEW p \in Procs, CheckPath(p)
  PROVE  SetupInv'
<1>1. CASE Work \in dirs
  <2>1. PICK s : /\ s = [proc[p] EXCEPT !.pc = "repodir"]
                 /\ Become(p, s) /\ OnlyReads /\ proc[p].pc = "path"
    BY <1>1 DEF CheckPath, Goto, At
  <2>2. proc'[p] = s /\ before'[p] = before[p] /\ IsCommand(proc[p]) /\ MakesSense(proc[p])
    BY <2>1, Becomes
  <2>3. /\ IsCommand(s) /\ s.pc = "repodir" /\ s.op = proc[p].op /\ s.next = proc[p].next
        /\ s.work_created = proc[p].work_created /\ s.repodir_created = proc[p].repodir_created
        /\ s.change = proc[p].change /\ s.cut = proc[p].cut
    BY <2>1, <2>2, GotoFacts DEF Inits
  <2>4. MakesSense(s) /\ Written(s) = Written(proc[p])
    BY <2>1, <2>2, <2>3 DEF MakesSense, Inits, Saves, Written
  <2>5. ASSUME Known(p) PROVE KnowsWhatIsNew(p)' /\ MakesDirs(p)' /\ MakesFiles(p)'
    <3>1. KnowsWhatIsNew(p)'
      BY <2>1, <2>2, <2>3, <2>5 DEF Known, KnowsWhatIsNew, At, OnlyReads
    <3>2. MakesDirs(p)'
      BY <1>1, <2>1, <2>2, <2>3, <2>5 DEF Known, MakesDirs, At, OnlyReads, NeedsStructure, Saves
    <3>3. OthersAreWritten(p)'
      BY <2>1, <2>3, <2>4, <2>5, QuietOthers DEF Known, MakesFiles, Undoes
    <3>4. MakesFiles(p)'
      BY <2>2, <2>3, <3>3 DEF MakesFiles, At, Saves
    <3>5. QED  BY <3>1, <3>2, <3>4
  <2>6. QED  BY <2>1, <2>3, <2>4, <2>5, QuietStep
<1>2. CASE Work \notin dirs
  <2>1. PICK s : /\ s = Asked(proc[p], Work, "repodir")
                 /\ Become(p, s) /\ OnlyReads /\ proc[p].pc = "path"
    BY <1>2 DEF CheckPath, Mkdirp, At, Asked
  <2>2. proc'[p] = s /\ before'[p] = before[p] /\ IsCommand(proc[p]) /\ MakesSense(proc[p])
    BY <2>1, Becomes
  <2>3. proc[p].op = "init"
    BY <2>1, <2>2 DEF MakesSense, Inits
  <2>4. /\ IsCommand(s) /\ MakesSense(s) /\ s.pc = "mkdir" /\ s.op = proc[p].op /\ s.mk = <<Work>>
        /\ s.next = proc[p].next /\ s.then = "repodir" /\ s.work_created = proc[p].work_created
        /\ s.repodir_created = proc[p].repodir_created /\ s.cut = proc[p].cut
    BY <2>1, <2>2, <2>3, MkdirpFacts
  <2>5. ASSUME Known(p) PROVE KnowsWhatIsNew(p)' /\ MakesDirs(p)' /\ MakesFiles(p)'
    <3>1. KnowsWhatIsNew(p)'
      BY <2>1, <2>2, <2>4, <2>5 DEF Known, KnowsWhatIsNew, At, OnlyReads
    <3>2. MakesDirs(p)'
      BY <1>2, <2>1, <2>2, <2>4, <2>5 DEF Known, MakesDirs, At, OnlyReads, NeedsStructure, Saves
    <3>3. OthersAreWritten(p)'
      BY <2>1, <2>4, <2>5, QuietOthers DEF Known, MakesFiles, Undoes, Written
    <3>4. MakesFiles(p)'
      BY <2>2, <2>4, <3>3 DEF MakesFiles, At, Saves
    <3>5. QED  BY <3>1, <3>2, <3>4
  <2>6. QED  BY <2>1, <2>4, <2>5, QuietStep
<1>3. QED  BY <1>1, <1>2

LEMMA CheckRepodirInv ==
  ASSUME SetupInv, NEW p \in Procs, CheckRepodir(p)
  PROVE  SetupInv'
<1>1. CASE Repo \in dirs
  <2>1. PICK s : /\ s = [proc[p] EXCEPT !.pc = "dirs"]
                 /\ Become(p, s) /\ OnlyReads /\ proc[p].pc = "repodir"
    BY <1>1 DEF CheckRepodir, Goto, At
  <2>2. proc'[p] = s /\ before'[p] = before[p] /\ IsCommand(proc[p]) /\ MakesSense(proc[p])
    BY <2>1, Becomes
  <2>3. /\ IsCommand(s) /\ s.pc = "dirs" /\ s.op = proc[p].op /\ s.next = proc[p].next
        /\ s.work_created = proc[p].work_created /\ s.repodir_created = proc[p].repodir_created
        /\ s.change = proc[p].change /\ s.cut = proc[p].cut
    BY <2>1, <2>2, GotoFacts DEF Inits
  <2>4. MakesSense(s) /\ Written(s) = Written(proc[p])
    BY <2>1, <2>2, <2>3 DEF MakesSense, Inits, Saves, Written
  <2>5. ASSUME Known(p) PROVE KnowsWhatIsNew(p)' /\ MakesDirs(p)' /\ MakesFiles(p)'
    <3>1. KnowsWhatIsNew(p)'
      BY <2>1, <2>2, <2>3, <2>5 DEF Known, KnowsWhatIsNew, At, OnlyReads
    <3>2. MakesDirs(p)'
      BY <1>1, <2>1, <2>2, <2>3, <2>5 DEF Known, MakesDirs, At, OnlyReads, NeedsStructure, Saves
    <3>3. OthersAreWritten(p)'
      BY <2>1, <2>3, <2>4, <2>5, QuietOthers DEF Known, MakesFiles, Undoes
    <3>4. MakesFiles(p)'
      BY <2>2, <2>3, <3>3 DEF MakesFiles, At, Saves
    <3>5. QED  BY <3>1, <3>2, <3>4
  <2>6. QED  BY <2>1, <2>3, <2>4, <2>5, QuietStep
<1>2. CASE Repo \notin dirs
  <2>1. PICK s : /\ s = Asked(proc[p], Repo, "dirs")
                 /\ Become(p, s) /\ OnlyReads /\ proc[p].pc = "repodir"
    BY <1>2 DEF CheckRepodir, Mkdirp, At, Asked
  <2>2. proc'[p] = s /\ before'[p] = before[p] /\ IsCommand(proc[p]) /\ MakesSense(proc[p])
    BY <2>1, Becomes
  <2>3. proc[p].op = "init"
    BY <2>1, <2>2 DEF MakesSense, Inits
  <2>4. /\ IsCommand(s) /\ MakesSense(s) /\ s.pc = "mkdir" /\ s.op = proc[p].op /\ s.mk = <<Repo>>
        /\ s.next = proc[p].next /\ s.then = "dirs" /\ s.work_created = proc[p].work_created
        /\ s.repodir_created = proc[p].repodir_created /\ s.cut = proc[p].cut
    BY <2>1, <2>2, <2>3, MkdirpFacts
  <2>5. ASSUME Known(p) PROVE KnowsWhatIsNew(p)' /\ MakesDirs(p)' /\ MakesFiles(p)'
    <3>1. KnowsWhatIsNew(p)'
      BY <2>1, <2>2, <2>4, <2>5 DEF Known, KnowsWhatIsNew, At, OnlyReads
    <3>2. MakesDirs(p)'
      BY <1>2, <2>1, <2>2, <2>4, <2>5 DEF Known, MakesDirs, At, OnlyReads, NeedsStructure, Saves
    <3>3. OthersAreWritten(p)'
      BY <2>1, <2>4, <2>5, QuietOthers DEF Known, MakesFiles, Undoes, Written
    <3>4. MakesFiles(p)'
      BY <2>2, <2>4, <3>3 DEF MakesFiles, At, Saves
    <3>5. QED  BY <3>1, <3>2, <3>4
  <2>6. QED  BY <2>1, <2>4, <2>5, QuietStep
<1>3. QED  BY <1>1, <1>2

LEMMA RangeWithin ==
  ASSUME NEW T, NEW seq \in Seq(T), NEW S, \A i \in 1..Len(seq) : seq[i] \in S
  PROVE  Range(seq) \subseteq S
<1>1. DOMAIN seq = 1..Len(seq)
  OBVIOUS
<1>2. QED  BY <1>1 DEF Range

LEMMA CreateStructureInv ==
  ASSUME SetupInv, NEW p \in Procs, CreateStructure(p)
  PROVE  SetupInv'
<1>1. CASE proc[p].next > Len(Structure)
  <2>1. PICK s : /\ s = Counted(proc[p], "config", 1)
                 /\ Become(p, s) /\ OnlyReads /\ proc[p].pc = "dirs"
    BY <1>1 DEF CreateStructure, At, Counted
  <2>2. proc'[p] = s /\ before'[p] = before[p] /\ IsCommand(proc[p]) /\ MakesSense(proc[p])
    BY <2>1, Becomes
  <2>3. /\ IsCommand(s) /\ s.pc = "config" /\ s.op = proc[p].op /\ s.next = 1
        /\ s.work_created = proc[p].work_created /\ s.repodir_created = proc[p].repodir_created
        /\ s.change = proc[p].change /\ s.cut = proc[p].cut
    BY <2>1, <2>2, CountFacts DEF Inits
  <2>4. MakesSense(s) /\ Written(s) = Written(proc[p])
    BY <2>1, <2>2, <2>3 DEF MakesSense, Inits, Saves, Written
  <2>5. ASSUME Known(p) PROVE KnowsWhatIsNew(p)' /\ MakesDirs(p)' /\ MakesFiles(p)'
    <3>1. KnowsWhatIsNew(p)'
      BY <2>1, <2>2, <2>3, <2>5 DEF Known, KnowsWhatIsNew, At, OnlyReads
    <3>2. MakesDirs(p)'
      <4>1. \A i \in 1..Len(Structure) : Structure[i] \in dirs
        BY <1>1, <2>1, <2>2, <2>5, StructureIsBelowRepo DEF Known, MakesDirs, At, IsCommand
      <4>2. {Work, Repo} \cup Range(Structure) \subseteq dirs'
        <5>1. Range(Structure) \subseteq dirs
          <6>1. Structure \in Seq(Seq(Names))
            BY StructureIsBelowRepo
          <6>2. QED  BY ONLY <4>1, <6>1, RangeWithin
        <5>2. {Work, Repo} \subseteq dirs
          BY <2>1, <2>5 DEF Known, MakesDirs, At
        <5>3. QED  BY <2>1, <5>1, <5>2 DEF OnlyReads
      <4>3. QED  BY <2>2, <2>3, <4>2 DEF MakesDirs, At, NeedsStructure, Saves
    <3>3. OthersAreWritten(p)'
      BY <2>1, <2>3, <2>4, <2>5, QuietOthers DEF Known, MakesFiles, Undoes
    <3>4. MakesFiles(p)'
      BY <2>2, <2>3, <3>3 DEF MakesFiles, At, Saves
    <3>5. QED  BY <3>1, <3>2, <3>4
  <2>6. QED  BY <2>1, <2>3, <2>4, <2>5, QuietStep
<1>2. CASE ~(proc[p].next > Len(Structure)) /\ Structure[proc[p].next] \in dirs
  <2>1. PICK s : /\ s = [proc[p] EXCEPT !.next = @ + 1]
                 /\ Become(p, s) /\ OnlyReads /\ proc[p].pc = "dirs"
    BY <1>2 DEF CreateStructure, At
  <2>2. proc'[p] = s /\ before'[p] = before[p] /\ IsCommand(proc[p]) /\ MakesSense(proc[p])
    BY <2>1, Becomes
  <2>3. /\ IsCommand(s) /\ s.pc = "dirs" /\ s.op = proc[p].op /\ s.next = proc[p].next + 1
        /\ s.work_created = proc[p].work_created /\ s.repodir_created = proc[p].repodir_created
        /\ s.change = proc[p].change /\ s.cut = proc[p].cut /\ proc[p].next \in Nat
    BY <2>1, <2>2, SkipFacts, TypeFacts
  <2>4. MakesSense(s) /\ Written(s) = Written(proc[p])
    BY <2>1, <2>2, <2>3 DEF MakesSense, Inits, Saves, Written
  <2>5. ASSUME Known(p) PROVE KnowsWhatIsNew(p)' /\ MakesDirs(p)' /\ MakesFiles(p)'
    <3>1. KnowsWhatIsNew(p)'
      BY <2>1, <2>2, <2>3, <2>5 DEF Known, KnowsWhatIsNew, At, OnlyReads
    <3>2. MakesDirs(p)'
      <4>1. \A i \in 1..Len(Structure) : i < proc[p].next + 1 => i < proc[p].next \/ i = proc[p].next
        BY <2>3, StructureIsBelowRepo
      <4>2. {Work, Repo} \subseteq dirs /\ \A i \in 1..Len(Structure) : i < proc[p].next => Structure[i] \in dirs
        BY <2>1, <2>5 DEF Known, MakesDirs, At
      <4>3. QED  BY <1>2, <2>1, <2>2, <2>3, <4>1, <4>2 DEF MakesDirs, At, NeedsStructure, Saves, OnlyReads
    <3>3. OthersAreWritten(p)'
      BY <2>1, <2>3, <2>4, <2>5, QuietOthers DEF Known, MakesFiles, Undoes
    <3>4. MakesFiles(p)'
      BY <2>2, <2>3, <3>3 DEF MakesFiles, At, Saves
    <3>5. QED  BY <3>1, <3>2, <3>4
  <2>6. QED  BY <2>1, <2>3, <2>4, <2>5, QuietStep
<1>3. CASE ~(proc[p].next > Len(Structure)) /\ Structure[proc[p].next] \notin dirs
  <2>1. PICK s : /\ s = Asked(proc[p], Structure[proc[p].next], "dirs")
                 /\ Become(p, s) /\ OnlyReads /\ proc[p].pc = "dirs"
    BY <1>3 DEF CreateStructure, Mkdirp, At, Asked
  <2>2. proc'[p] = s /\ before'[p] = before[p] /\ IsCommand(proc[p]) /\ MakesSense(proc[p])
    BY <2>1, Becomes
  <2>3. proc[p].op = "init"
    BY <2>1, <2>2 DEF MakesSense, Inits
  <2>4. proc[p].next \in 1..Len(Structure)
    BY <1>3, <2>2, TypeFacts, StructureIsBelowRepo
  <2>5. Structure[proc[p].next] \in Range(Structure)
    BY <2>4, StructureFacts
  <2>6. /\ IsCommand(s) /\ MakesSense(s) /\ s.pc = "mkdir" /\ s.op = proc[p].op
        /\ s.mk = <<Structure[proc[p].next]>>
        /\ s.next = proc[p].next /\ s.then = "dirs" /\ s.work_created = proc[p].work_created
        /\ s.repodir_created = proc[p].repodir_created /\ s.cut = proc[p].cut
    BY <2>1, <2>2, <2>3, <2>5, MkdirpFacts
  <2>7. ASSUME Known(p) PROVE KnowsWhatIsNew(p)' /\ MakesDirs(p)' /\ MakesFiles(p)'
    <3>1. KnowsWhatIsNew(p)'
      BY <2>1, <2>2, <2>6, <2>7 DEF Known, KnowsWhatIsNew, At, OnlyReads
    <3>2. MakesDirs(p)'
      <4>1. {Work, Repo} \subseteq dirs /\ \A i \in 1..Len(Structure) : i < proc[p].next => Structure[i] \in dirs
        BY <2>1, <2>7 DEF Known, MakesDirs, At
      <4>2. s.mk[1] = Structure[proc[p].next] /\ \A i \in 1..Len(s.mk) : s.mk[i] \notin dirs
        BY <1>3, <2>6
      <4>3. dirs' = dirs /\ proc'[p] = s
        BY <2>1, <2>2 DEF OnlyReads
      <4>4. {Work, Repo} \subseteq dirs' /\ \A i \in 1..Len(Structure) : i < s.next => Structure[i] \in dirs'
        BY <2>6, <4>1, <4>3
      <4>5. /\ \A i \in 1..Len(s.mk) : s.mk[i] \notin dirs'
            /\ s.next \in 1..Len(Structure) /\ s.mk[1] = Structure[s.next] /\ s.then = "dirs"
        BY <2>4, <2>6, <4>2, <4>3
      <4>6. s.pc = "mkdir" /\ s.pc # "dirs" /\ s.pc # "repodir" /\ s.pc \notin NeedsStructure
        BY <2>6 DEF NeedsStructure, Saves
      <4>. QED  BY <4>3, <4>4, <4>5, <4>6 DEF MakesDirs, At
    <3>3. OthersAreWritten(p)'
      BY <2>1, <2>6, <2>7, QuietOthers DEF Known, MakesFiles, Undoes, Written
    <3>4. MakesFiles(p)'
      BY <2>2, <2>6, <3>3 DEF MakesFiles, At, Saves
    <3>5. QED  BY <3>1, <3>2, <3>4
  <2>8. QED  BY <2>1, <2>6, <2>7, QuietStep
<1>4. QED  BY <1>1, <1>2, <1>3

(* A command that fails, where init goes on to remove what it made. *)
LEMMA FailInv ==
  ASSUME SetupInv, NEW p \in Procs, Fail(p), proc[p].pc # "remove",
         NamesAreDistinct', DirsAreATree', dirs' = dirs, Undisturbed(p) => KeepsWhatWas(p)'
  PROVE  SetupInv'
<1>1. PICK pc : pc = IF proc[p].op = "init" THEN "rollback" ELSE "failed"
  OBVIOUS
<1>2. PICK s : s = [proc[p] EXCEPT !.pc = pc] /\ Become(p, s)
  BY <1>1 DEF Fail, Goto
<1>3. proc'[p] = s /\ before'[p] = before[p] /\ IsCommand(proc[p]) /\ MakesSense(proc[p])
  BY <1>2, Becomes
<1>4. pc \in {"idle", "load", "done", "failed"} \cup Inits \cup Saves
  BY <1>1 DEF Inits
<1>5. /\ IsCommand(s) /\ s.pc = pc /\ s.op = proc[p].op /\ s.work_created = proc[p].work_created
      /\ s.repodir_created = proc[p].repodir_created /\ s.change = proc[p].change
  BY <1>2, <1>3, <1>4, GotoFacts
<1>6. MakesSense(s)
  BY <1>1, <1>3, <1>5 DEF MakesSense, Inits, Saves
<1>7. dirs' \subseteq Places
  BY DEF SetupInv, FilesInv, SetupTypeOK
<1>8. ASSUME Undisturbed(p) PROVE Known(p)'
  <2>1. pc = "rollback"
    BY <1>1, <1>8 DEF Undisturbed, IsInit
  <2>2. KnowsWhatIsNew(p)
    BY <1>8 DEF SetupInv, InitInv
  <2>3. KnowsWhatIsNew(p)'
    BY <1>3, <1>5, <2>1, <2>2 DEF KnowsWhatIsNew, At
  <2>4. MakesDirs(p)'
    BY <1>3, <1>5, <2>1 DEF MakesDirs, At, NeedsStructure, Saves
  <2>5. MakesFiles(p)'
    BY <1>3, <1>5, <2>1 DEF MakesFiles, At, Saves, Undoes
  <2>6. QED  BY <1>8, <2>3, <2>4, <2>5 DEF Known
<1>9. QED  BY <1>2, <1>5, <1>6, <1>7, <1>8, StepInv DEF Undisturbed, IsInit

LEMMA QuietFailInv ==
  ASSUME SetupInv, NEW p \in Procs, Fail(p), OnlyReads, proc[p].pc # "remove"
  PROVE  SetupInv'
<1>1. before'[p] = before[p]
  BY DEF Fail, Goto, Become
<1>2. dirs' = dirs
  BY DEF OnlyReads
<1>3. QED  BY <1>1, <1>2, QuietFacts, FailInv

LEMMA CreateConfigInv ==
  ASSUME SetupInv, NEW p \in Procs, CreateConfig(p)
  PROVE  SetupInv'
<1>1. CASE file_exists(CONFIG)
  <2>1. PICK s : /\ s = [proc[p] EXCEPT !.pc = "files"]
                 /\ Become(p, s) /\ OnlyReads /\ proc[p].pc = "config"
    BY <1>1 DEF CreateConfig, Goto, At
  <2>2. proc'[p] = s /\ before'[p] = before[p] /\ IsCommand(proc[p]) /\ MakesSense(proc[p])
    BY <2>1, Becomes
  <2>3. /\ IsCommand(s) /\ s.pc = "files" /\ s.op = proc[p].op /\ s.next = proc[p].next
        /\ s.work_created = proc[p].work_created /\ s.repodir_created = proc[p].repodir_created
        /\ s.change = proc[p].change /\ s.cut = proc[p].cut
    BY <2>1, <2>2, GotoFacts DEF Inits
  <2>4. MakesSense(s)
    BY <2>1, <2>2, <2>3 DEF MakesSense, Inits, Saves
  <2>5. ASSUME Known(p) PROVE KnowsWhatIsNew(p)' /\ MakesDirs(p)' /\ MakesFiles(p)'
    <3>1. KnowsWhatIsNew(p)'
      BY <2>1, <2>2, <2>3, <2>5 DEF Known, KnowsWhatIsNew, At, OnlyReads
    <3>2. MakesDirs(p)'
      BY <1>1, <2>1, <2>2, <2>3, <2>5 DEF Known, MakesDirs, At, OnlyReads, NeedsStructure, Saves
    <3>3. Written(s) = 0 /\ Written(proc[p]) = 0
      BY <2>1, <2>3, <2>5 DEF Known, MakesFiles, Written
    <3>4. OthersAreWritten(p)'
      BY <2>1, <2>3, <2>5, <3>3, QuietOthers DEF Known, MakesFiles, Undoes
    <3>5. MakesFiles(p)'
      BY <2>2, <2>3, <3>4 DEF MakesFiles, At, Saves
    <3>6. QED  BY <3>1, <3>2, <3>5
  <2>6. QED  BY <2>1, <2>3, <2>4, <2>5, QuietStep
<1>2. CASE ~file_exists(CONFIG)
  <2>1. PICK s : /\ s = WithIni(proc[p], "lock", DefaultConfig)
                 /\ Become(p, s) /\ OnlyReads /\ proc[p].pc = "config"
    BY <1>2 DEF CreateConfig, At, WithIni
  <2>2. proc'[p] = s /\ before'[p] = before[p] /\ IsCommand(proc[p]) /\ MakesSense(proc[p])
    BY <2>1, Becomes
  <2>3. /\ IsCommand(s) /\ s.pc = "lock" /\ s.op = proc[p].op /\ s.next = proc[p].next
        /\ s.work_created = proc[p].work_created /\ s.repodir_created = proc[p].repodir_created
        /\ s.change = proc[p].change /\ s.cut = proc[p].cut
    BY <2>1, <2>2, SavesFacts DEF Saves
  <2>4. MakesSense(s) /\ Written(s) = Written(proc[p])
    BY <2>1, <2>2, <2>3 DEF MakesSense, Inits, Saves, Written
  <2>5. ASSUME Known(p) PROVE KnowsWhatIsNew(p)' /\ MakesDirs(p)' /\ MakesFiles(p)'
    <3>1. KnowsWhatIsNew(p)'
      BY <2>1, <2>2, <2>3, <2>5 DEF Known, KnowsWhatIsNew, At, OnlyReads
    <3>2. MakesDirs(p)'
      BY <2>1, <2>2, <2>3, <2>5 DEF Known, MakesDirs, At, OnlyReads, NeedsStructure, Saves
    <3>3. OthersAreWritten(p)'
      BY <2>1, <2>3, <2>4, <2>5, QuietOthers DEF Known, MakesFiles, Undoes
    <3>4. CONFIG \notin Had(p) /\ Had(p)' = Had(p)
      BY <1>2, <2>2, <2>5 DEF Known, KeepsWhatWas, Had
    <3>5. MakesFiles(p)'
      BY <2>1, <2>2, <2>3, <2>5, <3>3, <3>4 DEF Known, MakesFiles, At, Saves
    <3>6. QED  BY <3>1, <3>2, <3>5
  <2>6. QED  BY <2>1, <2>3, <2>4, <2>5, QuietStep
<1>3. QED  BY <1>1, <1>2

LEMMA CreateFilesInv ==
  ASSUME SetupInv, NEW p \in Procs, CreateFiles(p)
  PROVE  SetupInv'
<1>1. CASE proc[p].next > Len(InPlace)
  <2>1. PICK s : /\ s = [proc[p] EXCEPT !.pc = "open"]
                 /\ Become(p, s) /\ OnlyReads /\ proc[p].pc = "files"
    BY <1>1 DEF CreateFiles, At
  <2>2. proc'[p] = s /\ before'[p] = before[p] /\ IsCommand(proc[p]) /\ MakesSense(proc[p])
    BY <2>1, Becomes
  <2>3. /\ IsCommand(s) /\ s.pc = "open" /\ s.op = proc[p].op /\ s.next = proc[p].next
        /\ s.work_created = proc[p].work_created /\ s.repodir_created = proc[p].repodir_created
        /\ s.change = proc[p].change /\ s.cut = proc[p].cut
    BY <2>1, <2>2, GotoFacts DEF Inits
  <2>4. MakesSense(s)
    BY <2>1, <2>2, <2>3 DEF MakesSense, Inits, Saves
  <2>5. ASSUME Known(p) PROVE KnowsWhatIsNew(p)' /\ MakesDirs(p)' /\ MakesFiles(p)'
    <3>1. KnowsWhatIsNew(p)'
      BY <2>1, <2>2, <2>3, <2>5 DEF Known, KnowsWhatIsNew, At, OnlyReads
    <3>2. MakesDirs(p)'
      BY <2>1, <2>2, <2>3, <2>5 DEF Known, MakesDirs, At, OnlyReads, NeedsStructure, Saves
    <3>3. Written(s) = Len(InPlace) /\ Written(proc[p]) = proc[p].next - 1
      BY <2>1, <2>3 DEF Written
    <3>4. \A i \in 1..Len(InPlace) : i <= Written(s) <=> i <= Written(proc[p])
      BY <1>1, <2>2, <3>3, TypeFacts, EachFileIsMadeOnce
    <3>5. OthersAreWritten(p)'
      BY <2>1, <2>3, <2>5, <3>4, QuietOthers DEF Known, MakesFiles, Undoes
    <3>6. MakesFiles(p)'
      BY <2>2, <2>3, <3>5 DEF MakesFiles, At, Saves
    <3>7. QED  BY <3>1, <3>2, <3>6
  <2>6. QED  BY <2>1, <2>3, <2>4, <2>5, QuietStep
<1>2. CASE ~(proc[p].next > Len(InPlace)) /\ file_exists(InPlace[proc[p].next])
  <2>1. PICK s : /\ s = [proc[p] EXCEPT !.next = @ + 1]
                 /\ Become(p, s) /\ OnlyReads /\ proc[p].pc = "files"
    BY <1>2 DEF CreateFiles, At
  <2>2. proc'[p] = s /\ before'[p] = before[p] /\ IsCommand(proc[p]) /\ MakesSense(proc[p])
    BY <2>1, Becomes
  <2>3. /\ IsCommand(s) /\ s.pc = "files" /\ s.op = proc[p].op /\ s.next = proc[p].next + 1
        /\ s.work_created = proc[p].work_created /\ s.repodir_created = proc[p].repodir_created
        /\ s.change = proc[p].change /\ s.cut = proc[p].cut /\ proc[p].next \in Nat
    BY <2>1, <2>2, SkipFacts, TypeFacts
  <2>4. MakesSense(s)
    BY <2>1, <2>2, <2>3 DEF MakesSense, Inits, Saves
  <2>5. ASSUME Known(p) PROVE KnowsWhatIsNew(p)' /\ MakesDirs(p)' /\ MakesFiles(p)'
    <3>1. KnowsWhatIsNew(p)'
      BY <2>1, <2>2, <2>3, <2>5 DEF Known, KnowsWhatIsNew, At, OnlyReads
    <3>2. MakesDirs(p)'
      BY <2>1, <2>2, <2>3, <2>5 DEF Known, MakesDirs, At, OnlyReads, NeedsStructure, Saves
    <3>3. Written(s) = proc[p].next /\ Written(proc[p]) = proc[p].next - 1
      BY <2>1, <2>3 DEF Written
    <3>4. proc[p].next \in 1..Len(InPlace)
      BY <1>2, <2>2, TypeFacts, EachFileIsMadeOnce
    <3>5. InPlace[proc[p].next] \in Had(p)
      BY <1>2, <2>1, <2>3, <2>5, <3>3, <3>4 DEF Known, MakesFiles, OthersAreWritten, At, Undoes
    <3>6. \A i \in 1..Len(InPlace) :
            InPlace[i] \notin Had(p) => (i <= Written(s) <=> i <= Written(proc[p]))
      BY <2>3, <3>3, <3>5
    <3>7. OthersAreWritten(p)'
      BY <2>1, <2>3, <2>5, <3>6, QuietOthers DEF Known, MakesFiles, Undoes
    <3>8. MakesFiles(p)'
      BY <2>2, <2>3, <3>7 DEF MakesFiles, At, Saves
    <3>9. QED  BY <3>1, <3>2, <3>8
  <2>6. QED  BY <2>1, <2>3, <2>4, <2>5, QuietStep
<1>3. CASE ~(proc[p].next > Len(InPlace)) /\ ~file_exists(InPlace[proc[p].next])
  <2>1. PICK s : /\ s = [proc[p] EXCEPT !.pc = "create"]
                 /\ Become(p, s) /\ OnlyReads /\ proc[p].pc = "files"
    BY <1>3 DEF CreateFiles, At
  <2>2. proc'[p] = s /\ before'[p] = before[p] /\ IsCommand(proc[p]) /\ MakesSense(proc[p])
    BY <2>1, Becomes
  <2>3. /\ IsCommand(s) /\ s.pc = "create" /\ s.op = proc[p].op /\ s.next = proc[p].next
        /\ s.work_created = proc[p].work_created /\ s.repodir_created = proc[p].repodir_created
        /\ s.change = proc[p].change /\ s.cut = proc[p].cut
    BY <2>1, <2>2, GotoFacts DEF Inits
  <2>4. MakesSense(s) /\ Written(s) = Written(proc[p])
    <3>1. proc[p].next <= Len(InPlace)
      BY <1>3, <2>2, TypeFacts, EachFileIsMadeOnce
    <3>2. QED  BY <2>1, <2>2, <2>3, <3>1 DEF MakesSense, Inits, Saves, Written
  <2>5. ASSUME Known(p) PROVE KnowsWhatIsNew(p)' /\ MakesDirs(p)' /\ MakesFiles(p)'
    <3>1. KnowsWhatIsNew(p)'
      BY <2>1, <2>2, <2>3, <2>5 DEF Known, KnowsWhatIsNew, At, OnlyReads
    <3>2. MakesDirs(p)'
      BY <2>1, <2>2, <2>3, <2>5 DEF Known, MakesDirs, At, OnlyReads, NeedsStructure, Saves
    <3>3. OthersAreWritten(p)'
      BY <2>1, <2>3, <2>4, <2>5, QuietOthers DEF Known, MakesFiles, Undoes
    <3>4. InPlace[proc[p].next] \notin Had(p) /\ Had(p)' = Had(p)
      BY <1>3, <2>2, <2>5 DEF Known, KeepsWhatWas, Had
    <3>5. MakesFiles(p)'
      BY <2>2, <2>3, <3>3, <3>4 DEF MakesFiles, At, Saves
    <3>6. QED  BY <3>1, <3>2, <3>5
  <2>6. QED  BY <2>1, <2>3, <2>4, <2>5, QuietStep
<1>4. QED  BY <1>1, <1>2, <1>3

LEMMA OpenRepositoryInv ==
  ASSUME SetupInv, NEW p \in Procs, OpenRepository(p)
  PROVE  SetupInv'
<1>1. CASE RepositoryOpens
  <2>1. PICK s : /\ s = [proc[p] EXCEPT !.pc = "done"]
                 /\ Become(p, s) /\ OnlyReads /\ proc[p].pc = "open"
    BY <1>1 DEF OpenRepository, Goto, At
  <2>2. proc'[p] = s /\ before'[p] = before[p] /\ IsCommand(proc[p]) /\ MakesSense(proc[p])
    BY <2>1, Becomes
  <2>3. /\ IsCommand(s) /\ s.pc = "done" /\ s.op = proc[p].op /\ s.next = proc[p].next
        /\ s.work_created = proc[p].work_created /\ s.repodir_created = proc[p].repodir_created
        /\ s.change = proc[p].change /\ s.cut = proc[p].cut
    BY <2>1, <2>2, GotoFacts
  <2>4. MakesSense(s) /\ Written(s) = Written(proc[p])
    BY <2>1, <2>2, <2>3 DEF MakesSense, Inits, Saves, Written
  <2>5. ASSUME Known(p) PROVE KnowsWhatIsNew(p)' /\ MakesDirs(p)' /\ MakesFiles(p)'
    <3>1. KnowsWhatIsNew(p)'
      BY <2>1, <2>2, <2>3, <2>5 DEF Known, KnowsWhatIsNew, At, OnlyReads
    <3>2. MakesDirs(p)'
      BY <2>1, <2>2, <2>3, <2>5 DEF Known, MakesDirs, At, OnlyReads, NeedsStructure, Saves
    <3>3. OthersAreWritten(p)'
      BY <2>1, <2>3, <2>4, <2>5, QuietOthers DEF Known, MakesFiles, Undoes
    <3>4. RepositoryOpens'
      BY <1>1, <2>1 DEF RepositoryOpens, qgit_config_open_ondisk, iniparse_open, IsMapped, read_file,
                        file_exists, OnlyReads, fileVars
    <3>5. MakesFiles(p)'
      BY <2>2, <2>3, <3>3, <3>4 DEF MakesFiles, At, Saves
    <3>6. QED  BY <3>1, <3>2, <3>5
  <2>6. QED  BY <2>1, <2>3, <2>4, <2>5, QuietStep
<1>2. CASE ~RepositoryOpens
  BY <1>2, QuietFailInv DEF OpenRepository, At
<1>3. QED  BY <1>1, <1>2

(* Beginning to remove one of the two directories that were made. *)
RemovingWork(s, todo) ==
  [s EXCEPT !.pc = "remove", !.target = Work, !.todo = todo, !.work_created = FALSE]

LEMMA RemovingWorkFacts ==
  ASSUME NEW s, IsCommand(s), NEW todo, NEW t, t = RemovingWork(s, todo), s.op = "init"
  PROVE  /\ IsCommand(t) /\ MakesSense(t) /\ t.pc = "remove" /\ t.op = s.op /\ t.target = Work
         /\ t.todo = todo /\ t.work_created = FALSE /\ t.repodir_created = s.repodir_created
<1>1. /\ t.pc = "remove" /\ t.op = s.op /\ t.target = Work /\ t.todo = todo
      /\ t.work_created = FALSE /\ t.repodir_created = s.repodir_created
  BY DEF IsCommand, RemovingWork
<1>2. IsCommand(t)
  BY DEF IsCommand, RemovingWork, Inits
<1>3. QED  BY <1>1, <1>2 DEF MakesSense, Inits, Saves

RemovingRepo(s, todo) ==
  [s EXCEPT !.pc = "remove", !.target = Repo, !.todo = todo, !.repodir_created = FALSE]

LEMMA RemovingRepoFacts ==
  ASSUME NEW s, IsCommand(s), NEW todo, NEW t, t = RemovingRepo(s, todo), s.op = "init"
  PROVE  /\ IsCommand(t) /\ MakesSense(t) /\ t.pc = "remove" /\ t.op = s.op /\ t.target = Repo
         /\ t.todo = todo /\ t.repodir_created = FALSE /\ t.work_created = s.work_created
<1>1. /\ t.pc = "remove" /\ t.op = s.op /\ t.target = Repo /\ t.todo = todo
      /\ t.repodir_created = FALSE /\ t.work_created = s.work_created
  BY DEF IsCommand, RemovingRepo
<1>2. IsCommand(t)
  BY DEF IsCommand, RemovingRepo, Inits
<1>3. QED  BY <1>1, <1>2 DEF MakesSense, Inits, Saves

LEMMA RollbackInv ==
  ASSUME SetupInv, NEW p \in Procs, Rollback(p)
  PROVE  SetupInv'
<1>1. /\ proc[p].work_created \in BOOLEAN /\ proc[p].repodir_created \in BOOLEAN
      /\ proc[p].op = "init" /\ proc[p].pc = "rollback" /\ OnlyReads
      /\ IsCommand(proc[p]) /\ MakesSense(proc[p])
  BY DEF Rollback, At, SetupInv, FilesInv, SetupTypeOK, CommandsMakeSense, MakesSense, IsCommand, Inits
<1>2. CASE proc[p].work_created
  <2>0. PICK todo : todo = There(Work)
    OBVIOUS
  <2>1. PICK s : s = RemovingWork(proc[p], todo) /\ Become(p, s)
    BY <1>2, <2>0 DEF Rollback, RemovingWork
  <2>2. proc'[p] = s /\ before'[p] = before[p]
    BY <2>1, Becomes
  <2>3. /\ IsCommand(s) /\ MakesSense(s) /\ s.pc = "remove" /\ s.op = proc[p].op
        /\ s.target = Work /\ s.todo = todo /\ s.work_created = FALSE
        /\ s.repodir_created = proc[p].repodir_created
    <3>1. IsCommand(proc[p]) /\ proc[p].op = "init"
      BY <1>1
    <3>2. IsCommand(s) /\ MakesSense(s)
      BY ONLY <2>1, <3>1, RemovingWorkFacts
    <3>3. QED  BY <2>1, <3>1, <3>2 DEF IsCommand, RemovingWork
  <2>4. ASSUME Known(p) PROVE KnowsWhatIsNew(p)' /\ MakesDirs(p)' /\ MakesFiles(p)'
    <3>1. There(Work)' = todo /\ dirs' = dirs
      BY <1>1, <2>0, <2>2, QuietFacts DEF OnlyReads
    <3>2. KnowsWhatIsNew(p)'
      BY <1>1, <1>2, <2>2, <2>3, <2>4, <3>1 DEF Known, KnowsWhatIsNew, At
    <3>3. MakesDirs(p)' /\ MakesFiles(p)'
      BY <2>2, <2>3 DEF MakesDirs, MakesFiles, At, NeedsStructure, Saves, Undoes
    <3>4. QED  BY <3>2, <3>3
  <2>5. QED  BY <1>1, <2>1, <2>3, <2>4, QuietStep
<1>3. CASE ~proc[p].work_created /\ proc[p].repodir_created
  <2>0. PICK todo : todo = There(Repo)
    OBVIOUS
  <2>1. PICK s : s = RemovingRepo(proc[p], todo) /\ Become(p, s)
    BY <1>3, <2>0 DEF Rollback, RemovingRepo
  <2>2. proc'[p] = s /\ before'[p] = before[p]
    BY <2>1, Becomes
  <2>3. /\ IsCommand(s) /\ MakesSense(s) /\ s.pc = "remove" /\ s.op = proc[p].op
        /\ s.target = Repo /\ s.todo = todo
        /\ s.repodir_created = FALSE /\ s.work_created = proc[p].work_created
    <3>1. IsCommand(proc[p]) /\ proc[p].op = "init"
      BY <1>1
    <3>2. IsCommand(s) /\ MakesSense(s)
      BY ONLY <2>1, <3>1, RemovingRepoFacts
    <3>3. QED  BY <2>1, <3>1, <3>2 DEF IsCommand, RemovingRepo
  <2>4. ASSUME Known(p) PROVE KnowsWhatIsNew(p)' /\ MakesDirs(p)' /\ MakesFiles(p)'
    <3>1. There(Repo)' = todo /\ dirs' = dirs
      BY <1>1, <2>0, <2>2, QuietFacts DEF OnlyReads
    <3>2. KnowsWhatIsNew(p)'
      BY <1>1, <1>3, <2>2, <2>3, <2>4, <3>1 DEF Known, KnowsWhatIsNew, At
    <3>3. MakesDirs(p)' /\ MakesFiles(p)'
      BY <2>2, <2>3 DEF MakesDirs, MakesFiles, At, NeedsStructure, Saves, Undoes
    <3>4. QED  BY <3>2, <3>3
  <2>5. QED  BY <1>1, <2>1, <2>3, <2>4, QuietStep
<1>4. CASE ~proc[p].work_created /\ ~proc[p].repodir_created
  <2>1. PICK s : s = [proc[p] EXCEPT !.pc = "failed"] /\ Become(p, s)
    BY <1>4 DEF Rollback, Goto
  <2>2. proc'[p] = s /\ before'[p] = before[p]
    BY <2>1, Becomes
  <2>3. /\ IsCommand(s) /\ s.pc = "failed" /\ s.op = proc[p].op
        /\ s.work_created = FALSE /\ s.repodir_created = FALSE
        /\ proc[p].work_created = FALSE /\ proc[p].repodir_created = FALSE
    <3>1. proc[p].work_created = FALSE /\ proc[p].repodir_created = FALSE
      BY <1>1, <1>4
    <3>2. QED  BY <1>1, <2>1, <3>1, GotoFacts
  <2>4. MakesSense(s)
    BY <1>1, <2>3 DEF MakesSense, Inits, Saves
  <2>5. ASSUME Known(p) PROVE KnowsWhatIsNew(p)' /\ MakesDirs(p)' /\ MakesFiles(p)'
    <3>1. KnowsWhatIsNew(p)'
      BY <1>1, <2>2, <2>3, <2>5 DEF Known, KnowsWhatIsNew, At, OnlyReads
    <3>2. MakesDirs(p)' /\ MakesFiles(p)'
      BY <2>2, <2>3 DEF MakesDirs, MakesFiles, At, NeedsStructure, Saves, Undoes
    <3>3. QED  BY <3>1, <3>2
  <2>6. QED  BY <1>1, <2>1, <2>3, <2>4, <2>5, QuietStep
<1>5. QED  BY <1>2, <1>3, <1>4

(* A directory nobody else adds to is removed with all that is in it. *)
LEMMA RmdirrEndsInv ==
  ASSUME SetupInv, NEW p \in Procs, RmdirrEnds(p)
  PROVE  SetupInv'
<1>1. PICK s : s = [proc[p] EXCEPT !.pc = "rollback"] /\ Become(p, s)
  BY DEF RmdirrEnds, Goto
<1>2. proc'[p] = s /\ before'[p] = before[p] /\ IsCommand(proc[p]) /\ MakesSense(proc[p])
  BY <1>1, Becomes
<1>3. /\ IsCommand(s) /\ s.pc = "rollback" /\ s.op = proc[p].op
      /\ s.work_created = proc[p].work_created /\ s.repodir_created = proc[p].repodir_created
  BY <1>1, <1>2, GotoFacts DEF Inits
<1>4. proc[p].pc = "remove" /\ OnlyReads /\ proc[p].target \in {Work, Repo} /\ proc[p].op = "init"
  BY <1>2 DEF RmdirrEnds, At, MakesSense, Inits
<1>5. MakesSense(s)
  BY <1>3, <1>4 DEF MakesSense, Inits, Saves
<1>6. ASSUME Known(p) PROVE KnowsWhatIsNew(p)' /\ MakesDirs(p)' /\ MakesFiles(p)'
  <2>1. proc[p].todo = There(proc[p].target)
    BY <1>4, <1>6 DEF Known, KnowsWhatIsNew, At
  <2>2. There(proc[p].target) = {}
    BY <2>1 DEF RmdirrEnds
  <2>3. proc[p].target \notin dirs
    <3>1. IsPrefix(proc[p].target, proc[p].target)
      BY <1>4, RepoFacts, AboveItself, PrefixIsAbove
    <3>2. QED  BY <2>2, <3>1 DEF There
  <2>4. KnowsWhatIsNew(p)'
    BY <1>2, <1>3, <1>4, <1>6, <2>3 DEF Known, KnowsWhatIsNew, At, OnlyReads
  <2>5. MakesDirs(p)' /\ MakesFiles(p)'
    BY <1>2, <1>3 DEF MakesDirs, MakesFiles, At, NeedsStructure, Saves, Undoes
  <2>6. QED  BY <2>4, <2>5
<1>7. QED  BY <1>1, <1>3, <1>4, <1>5, <1>6, QuietStep

(* qgit config is no init. *)
LEMMA LoadConfigInv ==
  ASSUME SetupInv, NEW p \in Procs, LoadConfig(p)
  PROVE  SetupInv'
<1>1. OnlyReads /\ proc[p].pc = "load" /\ before'[p] = before[p]
  BY DEF LoadConfig, At, Goto, Become
<1>2. IsCommand(proc[p]) /\ MakesSense(proc[p]) /\ proc[p].op \in {"set", "unset"}
  BY <1>1 DEF SetupInv, FilesInv, SetupTypeOK, CommandsMakeSense, MakesSense
<1>3. CASE Goto(p, "failed")
  <2>1. PICK s : s = [proc[p] EXCEPT !.pc = "failed"] /\ Become(p, s)
    BY <1>3 DEF Goto
  <2>2. IsCommand(s) /\ s.pc = "failed" /\ s.op = proc[p].op /\ s.change = proc[p].change
    BY <1>2, <2>1, GotoFacts
  <2>3. MakesSense(s)
    BY <1>2, <2>2 DEF MakesSense, Inits, Saves
  <2>4. QED  BY <1>1, <1>2, <2>1, <2>2, <2>3, QuietStep DEF Undisturbed, IsInit
<1>4. CASE ~Goto(p, "failed")
  <2>1. PICK ini, s : s = WithIni(proc[p], "lock", ini) /\ Become(p, s)
    BY <1>4 DEF LoadConfig, WithIni
  <2>2. IsCommand(s) /\ s.pc = "lock" /\ s.op = proc[p].op /\ s.change = proc[p].change
    BY <1>2, <2>1, SavesFacts DEF Saves
  <2>3. MakesSense(s)
    BY <1>2, <2>2 DEF MakesSense, Inits, Saves
  <2>4. QED  BY <1>1, <1>2, <2>1, <2>2, <2>3, QuietStep DEF Undisturbed, IsInit
<1>5. QED  BY <1>3, <1>4

(* A command that begins knows that all is as it found it. *)
LEMMA BeginInv ==
  ASSUME SetupInv, NEW p \in Procs, NEW s, Begin(p, s), IsCommand(s), MakesSense(s),
         s.op = "init" => s.pc = "path" /\ s.next = 1 /\ ~s.work_created /\ ~s.repodir_created
  PROVE  SetupInv'
<1>1. /\ proc' = [proc EXCEPT ![p] = s] /\ dirs' = dirs /\ UNCHANGED fileVars
      /\ before' = [q \in Procs |-> IF q # p THEN <<>>
                                    ELSE [dirs |-> dirs,
                                          files |-> [f \in {f \in Paths : file_exists(f)} |-> read_file(f)]]]
  BY DEF Begin
<1>2. dir' = dir /\ tmp' = tmp /\ data' = data /\ fd' = fd
  BY <1>1 DEF fileVars
<1>3. proc = [q \in Procs |-> proc[q]] /\ \A q \in Procs : IsCommand(proc[q]) /\ MakesSense(proc[q])
  BY DEF SetupInv, FilesInv, SetupTypeOK, CommandsMakeSense
<1>4. proc'[p] = s /\ \A q \in Procs : q # p => proc'[q] = proc[q]
  BY <1>1, <1>3
<1>5. \A q \in Procs : IsCommand(proc'[q]) /\ MakesSense(proc'[q])
  BY <1>3, <1>4, Zenon
<1>6. proc' = [q \in Procs |-> proc'[q]] /\ before' = [q \in Procs |-> before'[q]]
  BY <1>1, <1>3
<1>7. dirs' \subseteq Places
  BY <1>1 DEF SetupInv, FilesInv, SetupTypeOK
<1>8. SetupTypeOK' /\ CommandsMakeSense'
  BY <1>5, <1>6, <1>7, Zenon DEF SetupTypeOK, CommandsMakeSense
<1>9. NamesAreDistinct' /\ DirsAreATree'
  BY <1>1, <1>2 DEF SetupInv, FilesInv, NamesAreDistinct, DirsAreATree, file_exists
<1>10. ASSUME NEW q \in Procs, Undisturbed(q)' PROVE Known(q)'
  <2>1. q = p
    BY <1>1, <1>10 DEF Undisturbed
  <2>2. s.pc = "path" /\ s.next = 1 /\ ~s.work_created /\ ~s.repodir_created
    BY <1>4, <1>10, <2>1 DEF Undisturbed, IsInit
  <2>3. before'[p].dirs = dirs /\ before'[p].files = [f \in {f \in Paths : file_exists(f)} |-> read_file(f)]
    BY <1>1
  <2>4. Had(p)' = {f \in Paths : file_exists(f)}
    BY <2>3 DEF Had
  <2>5. \A f \in Paths : file_exists(f)' = file_exists(f) /\ read_file(f)' = read_file(f)
    BY <1>2 DEF file_exists, read_file
  <2>6. IsTree(dirs) /\ \A f \in Paths : file_exists(f) => Front(f) \in dirs
    BY DEF SetupInv, FilesInv, DirsAreATree
  <2>7. KeepsWhatWas(p)'
    <3>1. \A f \in Had(p)' : f \in Paths /\ file_exists(f) /\ before'[p].files[f] = read_file(f)
      BY <2>3, <2>4
    <3>2. QED  BY <1>1, <2>3, <2>5, <2>6, <3>1 DEF KeepsWhatWas
  <2>8. KnowsWhatIsNew(p)'
    BY <1>1, <1>4, <2>2, <2>3 DEF KnowsWhatIsNew, At
  <2>9. MakesDirs(p)'
    BY <1>4, <2>2 DEF MakesDirs, At, NeedsStructure, Saves
  <2>10. MakesFiles(p)'
    <3>1. Written(proc'[p]) = 0
      BY <1>4, <2>2 DEF Written
    <3>2. \A i \in 1..Len(InPlace) : ~(i <= 0) /\ (InPlace[i] \notin Had(p)' => ~file_exists(InPlace[i])')
      BY <2>4, <2>5, InPlaceFacts
    <3>3. OthersAreWritten(p)'
      BY <3>1, <3>2 DEF OthersAreWritten
    <3>4. QED  BY <1>4, <2>2, <3>3 DEF MakesFiles, At, Saves
  <2>11. QED  BY <2>1, <2>7, <2>8, <2>9, <2>10, Zenon DEF Known
<1>11. InitInv'
  BY <1>10, Zenon DEF InitInv, Known
<1>12. QED  BY <1>8, <1>9, <1>11 DEF SetupInv, FilesInv

LEMMA IdleFacts ==
  IsCommand(Idle) /\ MakesSense(Idle)
<1>1. <<>> \in Seq(Seq(Names))
  OBVIOUS
<1>2. IsCommand(Idle)
  BY <1>1 DEF IsCommand, Idle
<1>3. QED  BY <1>2 DEF MakesSense, Idle, Inits, Saves

LEMMA StartInitInv ==
  ASSUME SetupInv, NEW p \in Procs, StartInit(p)
  PROVE  SetupInv'
<1>1. PICK s : s = [Idle EXCEPT !.pc = "path", !.op = "init"] /\ Begin(p, s)
  BY DEF StartInit
<1>2. /\ s.pc = "path" /\ s.op = "init" /\ s.next = 1 /\ ~s.work_created /\ ~s.repodir_created
  BY <1>1 DEF Idle
<1>3. IsCommand(s)
  BY <1>1, IdleFacts DEF IsCommand, Inits
<1>4. MakesSense(s)
  BY <1>2 DEF MakesSense, Inits, Saves
<1>5. QED  BY <1>1, <1>2, <1>3, <1>4, BeginInv

LEMMA StartConfigInv ==
  ASSUME SetupInv, NEW p \in Procs, StartConfig(p)
  PROVE  SetupInv'
<1>1. PICK c \in Changes : Begin(p, [Idle EXCEPT !.pc = "load", !.op = c.op, !.change = c])
  BY DEF StartConfig
<1>2. PICK s : s = [Idle EXCEPT !.pc = "load", !.op = c.op, !.change = c] /\ Begin(p, s)
  BY <1>1
<1>3. c.op \in {"set", "unset"}
  BY ChangesAreOfFiles
<1>4. s.pc = "load" /\ s.op = c.op /\ s.change = c
  BY <1>2 DEF Idle
<1>5. IsCommand(s)
  BY <1>2, <1>3, IdleFacts DEF IsCommand
<1>6. MakesSense(s)
  BY <1>3, <1>4 DEF MakesSense, Inits, Saves
<1>7. QED  BY <1>2, <1>3, <1>4, <1>5, <1>6, BeginInv

(* A process that ends knows nothing. *)
LEMMA EndsInv ==
  ASSUME SetupInv, NEW p \in Procs, Ends(p), NamesAreDistinct', dir' = dir, tmp' = tmp
  PROVE  SetupInv'
<1>1. /\ proc' = [proc EXCEPT ![p] = Idle] /\ dirs' = dirs /\ before' = [q \in Procs |-> <<>>]
  BY DEF Ends
<1>2. proc = [q \in Procs |-> proc[q]] /\ \A q \in Procs : IsCommand(proc[q]) /\ MakesSense(proc[q])
  BY DEF SetupInv, FilesInv, SetupTypeOK, CommandsMakeSense
<1>3. proc'[p] = Idle /\ \A q \in Procs : q # p => proc'[q] = proc[q]
  BY <1>1, <1>2
<1>4. \A q \in Procs : IsCommand(proc'[q]) /\ MakesSense(proc'[q])
  BY <1>2, <1>3, IdleFacts, Zenon
<1>5. proc' = [q \in Procs |-> proc'[q]] /\ before' = [q \in Procs |-> before'[q]]
  BY <1>1, <1>2
<1>6. dirs' \subseteq Places
  BY <1>1 DEF SetupInv, FilesInv, SetupTypeOK
<1>7. SetupTypeOK' /\ CommandsMakeSense'
  BY <1>4, <1>5, <1>6, Zenon DEF SetupTypeOK, CommandsMakeSense
<1>8. DirsAreATree'
  BY <1>1 DEF SetupInv, FilesInv, DirsAreATree, file_exists
<1>9. InitInv'
  BY <1>1 DEF InitInv, Undisturbed
<1>10. QED  BY <1>7, <1>8, <1>9 DEF SetupInv, FilesInv

LEMMA ExitInv ==
  ASSUME SetupInv, NEW p \in Procs, Exit(p)
  PROVE  SetupInv'
<1>1. dir' = dir /\ tmp' = tmp /\ data' = data /\ fd' = fd
  BY DEF Exit, fileVars
<1>2. NamesAreDistinct'
  BY <1>1 DEF SetupInv, FilesInv, NamesAreDistinct
<1>3. QED  BY <1>1, <1>2, EndsInv DEF Exit

LEMMA KillInv ==
  ASSUME SetupInv, NEW p \in Procs, Kill(p)
  PROVE  SetupInv'
<1>1. NamesAreDistinct' /\ dir' = dir /\ tmp' = tmp
  BY CloseAllFacts DEF Kill, SetupInv, FilesInv
<1>2. QED  BY <1>1, EndsInv DEF Kill

LEMMA SameFiles ==
  ASSUME UNCHANGED fileVars, SetupInv, dirs' = dirs
  PROVE  /\ NamesAreDistinct' /\ DirsAreATree'
         /\ \A f \in Paths : file_exists(f)' = file_exists(f) /\ read_file(f)' = read_file(f)
<1>1. dir' = dir /\ tmp' = tmp /\ data' = data /\ fd' = fd
  BY DEF fileVars
<1>2. QED
  BY <1>1 DEF SetupInv, FilesInv, NamesAreDistinct, DirsAreATree, file_exists, read_file

LEMMA DieMappingInv ==
  ASSUME SetupInv, NEW p \in Procs, DieMapping(p)
  PROVE  SetupInv'
<1>1. NamesAreDistinct' /\ dir' = dir /\ tmp' = tmp
  BY CloseAllFacts DEF DieMapping, SetupInv, FilesInv
<1>2. QED  BY <1>1, EndsInv DEF DieMapping

(* After a removal that failed nobody knows anything. *)
LEMMA RmdirrFailsInv ==
  ASSUME SetupInv, NEW p \in Procs, RmdirrFails(p)
  PROVE  SetupInv'
<1>1. /\ proc' = [proc EXCEPT ![p].pc = "rollback"] /\ before' = [q \in Procs |-> <<>>]
      /\ UNCHANGED fileVars /\ dirs' = dirs
  BY DEF RmdirrFails, OnlyReads
<1>2. /\ proc = [q \in Procs |-> proc[q]] /\ proc[p].pc = "remove"
      /\ \A q \in Procs : IsCommand(proc[q]) /\ MakesSense(proc[q])
  BY DEF SetupInv, FilesInv, SetupTypeOK, CommandsMakeSense, RmdirrFails, At
<1>3. PICK s : s = [proc[p] EXCEPT !.pc = "rollback"]
  OBVIOUS
<1>4. /\ IsCommand(s) /\ s.pc = "rollback" /\ s.op = proc[p].op /\ s.change = proc[p].change
  BY <1>2, <1>3, GotoFacts DEF Inits
<1>5. MakesSense(s)
  BY <1>2, <1>4 DEF MakesSense, Inits, Saves
<1>6. proc'[p] = s /\ \A q \in Procs : q # p => proc'[q] = proc[q]
  BY <1>1, <1>2, <1>3
<1>7. \A q \in Procs : IsCommand(proc'[q]) /\ MakesSense(proc'[q])
  BY <1>2, <1>4, <1>5, <1>6, Zenon
<1>8. proc' = [q \in Procs |-> proc'[q]] /\ before' = [q \in Procs |-> before'[q]]
  BY <1>1, <1>2
<1>9. dirs' \subseteq Places
  BY <1>1 DEF SetupInv, FilesInv, SetupTypeOK
<1>10. SetupTypeOK' /\ CommandsMakeSense'
  BY <1>7, <1>8, <1>9, Zenon DEF SetupTypeOK, CommandsMakeSense
<1>11. NamesAreDistinct' /\ DirsAreATree'
  BY <1>1, SameFiles
<1>12. InitInv'
  BY <1>1 DEF InitInv, Undisturbed
<1>13. QED  BY <1>10, <1>11, <1>12 DEF SetupInv, FilesInv

----------------------------------------------------------------------------
(* Saving a configuration *)

LEMMA TreeKept ==
  ASSUME SetupInv, dirs' = dirs,
         \A f \in Paths : file_exists(f)' \/ tmp'[f] # NoInode
                          => file_exists(f) \/ tmp[f] # NoInode \/ Front(f) \in dirs
  PROVE  DirsAreATree'
BY DEF SetupInv, FilesInv, DirsAreATree

LEMMA SavesAFile ==
  ASSUME SetupInv, NEW p \in Procs, proc[p].pc \in Saves
  PROVE  /\ File(p) \in Paths /\ IsCommand(proc[p]) /\ MakesSense(proc[p])
         /\ proc[p].op \in {"init", "set", "unset"} /\ NamesAreDistinct
         /\ IsInit(p) => File(p) = CONFIG
<1>1. IsCommand(proc[p]) /\ MakesSense(proc[p]) /\ NamesAreDistinct
  BY DEF SetupInv, FilesInv, SetupTypeOK, CommandsMakeSense
<1>2. proc[p].op \in {"init", "set", "unset"}
  BY <1>1 DEF MakesSense, IsCommand
<1>3. CASE proc[p].op = "init"
  BY <1>1, <1>2, <1>3, EachFileIsMadeOnce DEF File, IsInit
<1>4. CASE proc[p].op # "init"
  <2>1. proc[p].change \in Changes
    BY <1>1, <1>2, <1>4 DEF MakesSense
  <2>2. QED  BY <1>1, <1>2, <1>4, <2>1, ChangesAreOfFiles, EachFileIsMadeOnce DEF File, IsInit
<1>5. QED  BY <1>3, <1>4

(* Only the configuration is touched, and there was none. *)
LEMMA SavesStep ==
  ASSUME SetupInv, NEW p \in Procs, NEW s, Become(p, s), proc[p].pc \in Saves,
         IsCommand(s), MakesSense(s), s.op = proc[p].op, s.next = proc[p].next,
         s.work_created = proc[p].work_created, s.repodir_created = proc[p].repodir_created,
         proc[p].cut => s.cut,
         dirs' = dirs, NamesAreDistinct', DirsAreATree',
         IsInit(p) => /\ s.pc \in Saves \cup {"files"}
                      /\ s.pc = "write" => fd'[p] = tmp'[CONFIG] /\ fd'[p] # NoInode,
         Undisturbed(p) => \A f \in Paths : f # File(p) =>
           /\ file_exists(f)' = file_exists(f)
           /\ file_exists(f) => read_file(f)' = read_file(f)
  PROVE  SetupInv'
<1>1. proc'[p] = s /\ before'[p] = before[p]
  BY Becomes
<1>2. dirs' \subseteq Places
  BY DEF SetupInv, FilesInv, SetupTypeOK
<1>3. ASSUME Undisturbed(p) PROVE Known(p)'
  <2>1. Known(p) /\ File(p) = CONFIG /\ s.pc \in Saves \cup {"files"}
    BY <1>3, SavesAFile DEF SetupInv, InitInv, Known, Undisturbed
  <2>2. CONFIG \notin Had(p) /\ s.next = 1 /\ Had(p)' = Had(p)
    BY <1>1, <2>1 DEF Known, MakesFiles, Had
  <2>3. KeepsWhatWas(p)'
    <3>1. \A f \in Had(p) : f \in Paths /\ f # File(p)
      BY <2>1, <2>2 DEF Known, KeepsWhatWas
    <3>2. \A f \in Had(p) : file_exists(f)' /\ read_file(f)' = before[p].files[f] /\ Front(f) \in before[p].dirs
      BY <1>3, <2>1, <3>1 DEF Known, KeepsWhatWas
    <3>3. QED  BY <1>1, <2>1, <2>2, <3>1, <3>2 DEF Known, KeepsWhatWas
  <2>4. KnowsWhatIsNew(p)'
    BY <1>1, <2>1 DEF Known, KnowsWhatIsNew, At, Saves
  <2>5. MakesDirs(p)'
    BY <1>1, <2>1 DEF Known, MakesDirs, At, NeedsStructure, Saves
  <2>6. MakesFiles(p)'
    <3>1. Written(s) = 0 /\ Written(proc[p]) = 0
      BY <2>1, <2>2 DEF Written, Saves
    <3>2. \A i \in 1..Len(InPlace) :
            /\ file_exists(InPlace[i])' = file_exists(InPlace[i]) /\ ~(i <= 0)
      BY <1>3, <2>1, InPlaceFacts
    <3>3. OthersAreWritten(p)
      BY <2>1 DEF Known, MakesFiles, Undoes, Saves
    <3>4. \A i \in 1..Len(InPlace) : InPlace[i] \notin Had(p) => ~file_exists(InPlace[i])
      BY <3>1, <3>2, <3>3 DEF OthersAreWritten, At, Saves
    <3>5. OthersAreWritten(p)'
      BY <1>1, <2>2, <3>1, <3>2, <3>4 DEF OthersAreWritten
    <3>6. s.pc = "write" => fd'[p] = tmp'[CONFIG] /\ fd'[p] # NoInode
      BY <1>3 DEF Undisturbed
    <3>7. QED  BY <1>1, <2>1, <2>2, <3>5, <3>6 DEF MakesFiles, At, Saves
  <2>7. QED  BY <2>3, <2>4, <2>5, <2>6 DEF Known
<1>4. QED  BY <1>2, <1>3, StepInv DEF Undisturbed, IsInit

LEMMA SavesGoto ==
  ASSUME SetupInv, NEW p \in Procs, proc[p].pc \in Saves,
         NEW pc \in Saves \cup {"files", "done"}, Goto(p, pc),
         IsInit(p) => pc # "done" /\ (pc = "write" => fd'[p] = tmp'[CONFIG] /\ fd'[p] # NoInode),
         ~IsInit(p) => pc # "files",
         dirs' = dirs, NamesAreDistinct', DirsAreATree',
         Undisturbed(p) => \A f \in Paths : f # File(p) =>
           /\ file_exists(f)' = file_exists(f)
           /\ file_exists(f) => read_file(f)' = read_file(f)
  PROVE  SetupInv'
<1>1. PICK s : s = [proc[p] EXCEPT !.pc = pc] /\ Become(p, s)
  BY DEF Goto
<1>2. IsCommand(proc[p]) /\ MakesSense(proc[p])
  BY SavesAFile
<1>3. pc \in {"idle", "load", "done", "failed"} \cup Inits \cup Saves
  BY DEF Inits
<1>4. /\ IsCommand(s) /\ s.pc = pc /\ s.op = proc[p].op /\ s.next = proc[p].next
      /\ s.work_created = proc[p].work_created /\ s.repodir_created = proc[p].repodir_created
      /\ s.change = proc[p].change /\ s.cut = proc[p].cut
  BY <1>1, <1>2, <1>3, GotoFacts
<1>5. MakesSense(s)
  BY <1>2, <1>4, SavesAFile DEF MakesSense, Inits, Saves, IsInit
<1>6. QED  BY <1>1, <1>4, <1>5, SavesStep

LEMMA FopenLockInv ==
  ASSUME SetupInv, NEW p \in Procs, FopenLock(p)
  PROVE  SetupInv'
<1>1. proc[p].pc \in Saves /\ dirs' = dirs
  BY DEF FopenLock, At, Saves
<1>2. CASE UNCHANGED fileVars /\ Goto(p, "unlink")
  <2>1. NamesAreDistinct' /\ DirsAreATree'
    BY <1>1, <1>2, SameFiles
  <2>2. QED  BY <1>1, <1>2, <2>1, SameFiles, SavesGoto, Zenon DEF Saves
<1>3. CASE Front(File(p)) \in dirs /\ OpenTmp(p, File(p)) /\ Goto(p, "write")
  <2>1. PICK f \in Paths : f = File(p)
    BY <1>1, SavesAFile
  <2>2. NamesAreDistinct /\ (IsInit(p) => f = CONFIG)
    BY <1>1, <2>1, SavesAFile
  <2>3. /\ NamesAreDistinct' /\ dir' = dir
        /\ tmp'[f] # NoInode /\ fd'[p] = tmp'[f] /\ \A g \in Paths : g # f => tmp'[g] = tmp[g]
        /\ \A g \in Paths : file_exists(g) => file_exists(g)' /\ read_file(g)' = read_file(g)
    BY <1>3, <2>1, <2>2, OpenTmpFacts
  <2>4. \A g \in Paths : file_exists(g)' = file_exists(g)
    BY <2>3 DEF file_exists
  <2>5. DirsAreATree'
    <3>1. \A g \in Paths : file_exists(g)' \/ tmp'[g] # NoInode
                          => file_exists(g) \/ tmp[g] # NoInode \/ Front(g) \in dirs
      BY <1>3, <2>1, <2>3, <2>4
    <3>2. QED  BY <1>1, <3>1, TreeKept
  <2>6. QED  BY <1>1, <1>3, <2>2, <2>3, <2>4, <2>5, SavesGoto DEF Saves
<1>4. QED  BY <1>2, <1>3 DEF FopenLock

LEMMA FprintLockInv ==
  ASSUME SetupInv, NEW p \in Procs, FprintLock(p)
  PROVE  SetupInv'
<1>1. proc[p].pc \in Saves /\ proc[p].pc = "write" /\ dirs' = dirs
  BY DEF FprintLock, At, Saves
<1>2. IsCommand(proc[p]) /\ MakesSense(proc[p]) /\ NamesAreDistinct /\ File(p) \in Paths
  BY <1>1, SavesAFile
<1>3. PICK s, c : /\ WriteAndClose(p, c) /\ Become(p, s)
                  /\ \/ s = [proc[p] EXCEPT !.pc = "rename", !.ini = <<>>]
                     \/ s = [proc[p] EXCEPT !.pc = "rename", !.ini = <<>>, !.cut = TRUE]
  BY DEF FprintLock
<1>4. /\ IsCommand(s) /\ s.pc = "rename" /\ s.op = proc[p].op /\ s.next = proc[p].next
      /\ s.work_created = proc[p].work_created /\ s.repodir_created = proc[p].repodir_created
      /\ s.change = proc[p].change /\ (proc[p].cut => s.cut)
  BY <1>2, <1>3, ZenonT(40) DEF IsCommand, Saves
<1>5. MakesSense(s)
  BY <1>1, <1>2, <1>4 DEF MakesSense, Inits, Saves
<1>6. /\ NamesAreDistinct' /\ dir' = dir /\ tmp' = tmp
      /\ \A g \in Paths : file_exists(g) =>
              /\ file_exists(g)'
              /\ dir[g] # fd[p] => read_file(g)' = read_file(g)
  BY <1>2, <1>3, CloseFacts
<1>7. \A g \in Paths : file_exists(g)' = file_exists(g)
  BY <1>6 DEF file_exists
<1>8. DirsAreATree'
  BY <1>1, <1>6, <1>7, TreeKept
<1>9. ASSUME Undisturbed(p), NEW f \in Paths, file_exists(f)
      PROVE  read_file(f)' = read_file(f)
  <2>1. fd[p] = tmp[CONFIG] /\ fd[p] # NoInode
    BY <1>1, <1>9 DEF SetupInv, InitInv, MakesFiles, At
  <2>2. dir[f] # fd[p]
    BY <1>2, <1>9, <2>1, EachFileIsMadeOnce DEF NamesAreDistinct
  <2>3. QED  BY <1>6, <1>9, <2>2
<1>10. QED  BY <1>1, <1>3, <1>4, <1>5, <1>6, <1>7, <1>8, <1>9, SavesStep DEF Saves

LEMMA RenameLockInv ==
  ASSUME SetupInv, NEW p \in Procs, RenameLock(p)
  PROVE  SetupInv'
<1>1. proc[p].pc \in Saves /\ dirs' = dirs
  BY DEF RenameLock, At, Saves
<1>2. CASE UNCHANGED fileVars /\ Goto(p, "unlock")
  <2>1. NamesAreDistinct' /\ DirsAreATree'
    BY <1>1, <1>2, SameFiles
  <2>2. QED  BY <1>1, <1>2, <2>1, SameFiles, SavesGoto, Zenon DEF Saves
<1>3. CASE /\ CanRenameTmp(File(p)) /\ RenameTmp(File(p))
           /\ Goto(p, IF proc[p].op = "init" THEN "files" ELSE "done")
  <2>1. PICK f \in Paths : f = File(p)
    BY <1>1, SavesAFile
  <2>2. NamesAreDistinct
    BY <1>1, SavesAFile
  <2>3. /\ NamesAreDistinct' /\ tmp' = [tmp EXCEPT ![f] = NoInode] /\ dir' = [dir EXCEPT ![f] = tmp[f]]
        /\ \A g \in Paths : g # f /\ file_exists(g) => file_exists(g)' /\ read_file(g)' = read_file(g)
    BY <1>3, <2>1, <2>2, RenameFacts
  <2>4. \A g \in Paths : g # f => dir'[g] = dir[g] /\ tmp'[g] = tmp[g]
    BY <2>2, <2>3 DEF NamesAreDistinct
  <2>5. \A g \in Paths : g # f => file_exists(g)' = file_exists(g)
    BY <2>4 DEF file_exists
  <2>6. tmp[f] # NoInode
    BY <1>3, <2>1 DEF CanRenameTmp
  <2>7. DirsAreATree'
    <3>1. \A g \in Paths : file_exists(g)' \/ tmp'[g] # NoInode
                          => file_exists(g) \/ tmp[g] # NoInode \/ Front(g) \in dirs
      BY <2>4, <2>5, <2>6
    <3>2. QED  BY <1>1, <3>1, TreeKept
  <2>8. CASE IsInit(p)
    <3>1. Goto(p, "files")
      BY <1>3, <2>8 DEF IsInit
    <3>2. QED  BY <1>1, <2>1, <2>3, <2>5, <2>7, <2>8, <3>1, SavesGoto DEF Saves
  <2>9. CASE ~IsInit(p)
    <3>1. Goto(p, "done")
      BY <1>3, <2>9 DEF IsInit
    <3>2. QED  BY <1>1, <2>1, <2>3, <2>5, <2>7, <2>9, <3>1, SavesGoto DEF Saves
  <2>10. QED  BY <2>8, <2>9
<1>4. QED  BY <1>2, <1>3 DEF RenameLock

LEMMA UnlinkLockInv ==
  ASSUME SetupInv, NEW p \in Procs, UnlinkLock(p)
  PROVE  SetupInv'
<1>1. proc[p].pc \in Saves /\ dirs' = dirs /\ Goto(p, "unlink") /\ UnlinkTmp(File(p))
  BY DEF UnlinkLock, At, Saves
<1>2. PICK f \in Paths : f = File(p)
  BY <1>1, SavesAFile
<1>3. NamesAreDistinct
  BY <1>1, SavesAFile
<1>4. /\ NamesAreDistinct' /\ dir' = dir /\ tmp' = [tmp EXCEPT ![f] = NoInode]
      /\ \A g \in Paths : file_exists(g) => file_exists(g)' /\ read_file(g)' = read_file(g)
  BY <1>1, <1>2, <1>3, UnlinkTmpFacts
<1>5. \A g \in Paths : file_exists(g)' = file_exists(g) /\ (tmp'[g] # NoInode => tmp[g] # NoInode)
  BY <1>3, <1>4 DEF NamesAreDistinct, file_exists
<1>6. DirsAreATree'
  BY <1>1, <1>5, TreeKept
<1>7. QED  BY <1>1, <1>4, <1>5, <1>6, SavesGoto DEF Saves

LEMMA UnlinkConfigInv ==
  ASSUME SetupInv, NEW p \in Procs, UnlinkConfig(p)
  PROVE  SetupInv'
<1>1. proc[p].pc \in Saves /\ dirs' = dirs /\ Fail(p) /\ proc[p].pc = "unlink"
  BY DEF UnlinkConfig, At, Saves
<1>2. before'[p] = before[p] /\ Had(p)' = Had(p)
  BY <1>1 DEF Fail, Goto, Become, Had
<1>3. CASE UNCHANGED fileVars
  <2>1. /\ NamesAreDistinct' /\ DirsAreATree'
        /\ \A f \in Paths : file_exists(f)' = file_exists(f) /\ read_file(f)' = read_file(f)
    BY <1>1, <1>3, SameFiles
  <2>2. Undisturbed(p) => KeepsWhatWas(p)'
    BY <1>1, <1>2, <2>1 DEF SetupInv, InitInv, KeepsWhatWas
  <2>3. QED  BY <1>1, <2>1, <2>2, FailInv
<1>4. CASE Unlink(CONFIG)
  <2>1. NamesAreDistinct /\ CONFIG \in Paths
    BY EachFileIsMadeOnce DEF SetupInv, FilesInv
  <2>2. /\ NamesAreDistinct' /\ tmp' = tmp /\ dir' = [dir EXCEPT ![CONFIG] = NoInode]
        /\ \A g \in Paths : g # CONFIG /\ file_exists(g) => file_exists(g)' /\ read_file(g)' = read_file(g)
    BY <1>4, <2>1, UnlinkFacts
  <2>3. \A g \in Paths : file_exists(g)' => file_exists(g)
    BY <2>1, <2>2 DEF NamesAreDistinct, file_exists
  <2>4. DirsAreATree'
    BY <1>1, <2>2, <2>3, TreeKept
  <2>5. ASSUME Undisturbed(p) PROVE KeepsWhatWas(p)'
    <3>1. CONFIG \notin Had(p) /\ KeepsWhatWas(p)
      BY <1>1, <2>5 DEF SetupInv, InitInv, MakesFiles
    <3>2. QED  BY <1>1, <1>2, <2>2, <3>1 DEF KeepsWhatWas
  <2>6. QED  BY <1>1, <2>2, <2>4, <2>5, FailInv
<1>5. QED  BY <1>3, <1>4 DEF UnlinkConfig

----------------------------------------------------------------------------
(* HEAD and the description *)

LEMMA FopenInPlaceInv ==
  ASSUME SetupInv, NEW p \in Procs, FopenInPlace(p)
  PROVE  SetupInv'
<1>1. proc[p].pc = "create" /\ dirs' = dirs /\ tmp' = tmp
  BY DEF FopenInPlace, At
<1>2. IsCommand(proc[p]) /\ MakesSense(proc[p]) /\ NamesAreDistinct
  BY DEF SetupInv, FilesInv, SetupTypeOK, CommandsMakeSense
<1>3. PICK n \in 1..Len(InPlace) : n = proc[p].next
  BY <1>1, <1>2, TypeFacts, EachFileIsMadeOnce DEF MakesSense
<1>4. PICK f \in Paths : f = InPlace[n]
  BY InPlaceFacts
<1>5. CASE Fail(p) /\ UNCHANGED <<dir, data, fd>>
  BY <1>1, <1>5, QuietFailInv DEF OnlyReads, fileVars
<1>6. CASE ~(Fail(p) /\ UNCHANGED <<dir, data, fd>>)
  <2>1. PICK i : /\ file_exists(f) => i = dir[f]
                 /\ ~file_exists(f) => i \in FreeInodes
                 /\ dir' = [dir EXCEPT ![f] = i] /\ fd' = [fd EXCEPT ![p] = i]
                 /\ data' = [data EXCEPT ![i] = Empty]
                 /\ Front(f) \in dirs /\ Goto(p, "fill")
    BY <1>3, <1>4, <1>6 DEF FopenInPlace
  <2>2. /\ NamesAreDistinct' /\ fd'[p] = dir'[f] /\ dir'[f] # NoInode
        /\ \A g \in Paths : g # f => dir'[g] = dir[g]
        /\ \A g \in Paths : g # f /\ file_exists(g) => file_exists(g)' /\ read_file(g)' = read_file(g)
    BY <1>1, <1>2, <2>1, FopenFacts
  <2>3. \A g \in Paths : g # f => file_exists(g)' = file_exists(g) /\ read_file(g)' = read_file(g)
    BY <2>2 DEF file_exists, read_file
  <2>4. DirsAreATree'
    BY <1>1, <2>1, <2>3, TreeKept
  <2>5. PICK s : s = [proc[p] EXCEPT !.pc = "fill"] /\ Become(p, s)
    BY <2>1 DEF Goto
  <2>6. /\ IsCommand(s) /\ s.pc = "fill" /\ s.op = proc[p].op /\ s.next = proc[p].next
        /\ s.work_created = proc[p].work_created /\ s.repodir_created = proc[p].repodir_created
        /\ s.change = proc[p].change /\ s.cut = proc[p].cut
    BY <1>2, <2>5, GotoFacts DEF Inits
  <2>7. MakesSense(s)
    BY <1>1, <1>2, <2>6 DEF MakesSense, Inits, Saves
  <2>8. proc'[p] = s /\ before'[p] = before[p] /\ dirs' \subseteq Places
    BY <1>1, <2>5, Becomes DEF SetupInv, FilesInv, SetupTypeOK
  <2>9. ASSUME Undisturbed(p) PROVE Known(p)'
    <3>1. Known(p) /\ f \notin Had(p) /\ Had(p)' = Had(p)
      BY <1>1, <1>3, <1>4, <2>8, <2>9 DEF SetupInv, InitInv, Known, MakesFiles, Had
    <3>2. KeepsWhatWas(p)'
      BY <1>1, <2>3, <2>8, <3>1 DEF Known, KeepsWhatWas
    <3>3. KnowsWhatIsNew(p)'
      BY <1>1, <2>6, <2>8, <3>1 DEF Known, KnowsWhatIsNew, At
    <3>4. MakesDirs(p)'
      BY <1>1, <2>6, <2>8, <3>1 DEF Known, MakesDirs, At, NeedsStructure, Saves
    <3>5. OthersAreWritten(p)'
      <4>1. Written(s) = Written(proc[p]) /\ OthersAreWritten(p)
        BY <1>1, <2>6, <3>1 DEF Written, Known, MakesFiles, Undoes
      <4>2. \A j \in 1..Len(InPlace) : j # n =>
              /\ file_exists(InPlace[j])' = file_exists(InPlace[j])
              /\ read_file(InPlace[j])' = read_file(InPlace[j])
        BY <1>4, <2>3, InPlaceFacts
      <4>3. ~(n <= Written(s))
        BY <1>1, <1>3, <2>6 DEF Written
      <4>4. QED  BY <1>1, <1>3, <2>6, <2>8, <3>1, <4>1, <4>2, <4>3 DEF OthersAreWritten, At
    <3>6. MakesFiles(p)'
      BY <1>3, <1>4, <2>2, <2>6, <2>8, <3>1, <3>5 DEF MakesFiles, At, Saves
    <3>7. QED  BY <3>2, <3>3, <3>4, <3>6 DEF Known
  <2>10. QED  BY <2>2, <2>4, <2>5, <2>6, <2>7, <2>8, <2>9, StepInv DEF Undisturbed, IsInit
<1>7. QED  BY <1>5, <1>6

LEMMA FilledFacts ==
  ASSUME NEW s, IsCommand(s),
         NEW t, \/ t = [s EXCEPT !.pc = "files", !.next = @ + 1]
                \/ t = [s EXCEPT !.pc = "files", !.next = @ + 1, !.cut = TRUE]
  PROVE  /\ IsCommand(t) /\ t.pc = "files" /\ t.op = s.op /\ t.next = s.next + 1
         /\ t.work_created = s.work_created /\ t.repodir_created = s.repodir_created
         /\ t.change = s.change /\ (s.cut => t.cut)
<1>1. s.next \in Nat \ {0} /\ s.next + 1 \in Nat \ {0}
  BY DEF IsCommand
<1>2. PICK n \in Nat \ {0} : n = s.next + 1
  BY <1>1
<1>3. CASE t = [s EXCEPT !.pc = "files", !.next = n]
  BY <1>1, <1>2, <1>3 DEF IsCommand, Inits
<1>4. CASE t = [s EXCEPT !.pc = "files", !.next = n, !.cut = TRUE]
  BY <1>1, <1>2, <1>4, ZenonT(40) DEF IsCommand, Inits
<1>5. QED  BY <1>2, <1>3, <1>4

LEMMA FprintInPlaceInv ==
  ASSUME SetupInv, NEW p \in Procs, FprintInPlace(p)
  PROVE  SetupInv'
<1>1. proc[p].pc = "fill" /\ dirs' = dirs
  BY DEF FprintInPlace, At
<1>2. IsCommand(proc[p]) /\ MakesSense(proc[p]) /\ NamesAreDistinct
  BY DEF SetupInv, FilesInv, SetupTypeOK, CommandsMakeSense
<1>3. PICK n \in 1..Len(InPlace) : n = proc[p].next
  BY <1>1, <1>2, TypeFacts, EachFileIsMadeOnce DEF MakesSense
<1>4. PICK f \in Paths : f = InPlace[n]
  BY InPlaceFacts
<1>5. PICK s, c : /\ WriteAndClose(p, c) /\ Become(p, s)
                  /\ \/ s = [proc[p] EXCEPT !.pc = "files", !.next = @ + 1] /\ c = Initial[f]
                     \/ s = [proc[p] EXCEPT !.pc = "files", !.next = @ + 1, !.cut = TRUE]
  BY <1>3, <1>4 DEF FprintInPlace
<1>6. /\ IsCommand(s) /\ s.pc = "files" /\ s.op = proc[p].op /\ s.next = proc[p].next + 1
      /\ s.work_created = proc[p].work_created /\ s.repodir_created = proc[p].repodir_created
      /\ s.change = proc[p].change /\ (proc[p].cut => s.cut)
  BY <1>2, <1>5, FilledFacts
<1>7. s.cut \/ c = Initial[f]
  BY <1>2, <1>5 DEF IsCommand
<1>8. MakesSense(s)
  BY <1>1, <1>2, <1>6 DEF MakesSense, Inits, Saves
<1>9. /\ NamesAreDistinct' /\ dir' = dir /\ tmp' = tmp
      /\ \A g \in Paths : file_exists(g) =>
              /\ file_exists(g)'
              /\ dir[g] # fd[p] => read_file(g)' = read_file(g)
              /\ dir[g] = fd[p] => read_file(g)' = c
  BY <1>2, <1>5, CloseFacts
<1>10. \A g \in Paths : file_exists(g)' = file_exists(g)
  BY <1>9 DEF file_exists
<1>11. DirsAreATree'
  BY <1>1, <1>9, <1>10, TreeKept
<1>12. proc'[p] = s /\ before'[p] = before[p] /\ dirs' \subseteq Places
  BY <1>1, <1>5, Becomes DEF SetupInv, FilesInv, SetupTypeOK
<1>13. ASSUME Undisturbed(p) PROVE Known(p)'
  <2>1. /\ Known(p) /\ f \notin Had(p) /\ Had(p)' = Had(p)
        /\ fd[p] = dir[f] /\ fd[p] # NoInode
    BY <1>1, <1>3, <1>4, <1>12, <1>13 DEF SetupInv, InitInv, Known, MakesFiles, Had, At
  <2>2. \A g \in Paths : g # f => read_file(g)' = read_file(g)
    <3>1. ASSUME NEW g \in Paths, g # f, file_exists(g) PROVE dir[g] # fd[p]
      BY <1>2, <2>1, <3>1 DEF NamesAreDistinct, file_exists
    <3>2. ASSUME NEW g \in Paths, ~file_exists(g) PROVE read_file(g)' = read_file(g)
      BY <1>10, <3>2 DEF read_file
    <3>3. QED  BY <1>9, <3>1, <3>2
  <2>3. read_file(f)' = c /\ file_exists(f)
    BY <1>9, <2>1 DEF file_exists
  <2>4. KeepsWhatWas(p)'
    BY <1>1, <1>10, <1>12, <2>1, <2>2 DEF Known, KeepsWhatWas
  <2>5. KnowsWhatIsNew(p)'
    BY <1>1, <1>6, <1>12, <2>1 DEF Known, KnowsWhatIsNew, At
  <2>6. MakesDirs(p)'
    BY <1>1, <1>6, <1>12, <2>1 DEF Known, MakesDirs, At, NeedsStructure, Saves
  <2>7. OthersAreWritten(p)'
    <3>1. Written(proc[p]) = n - 1 /\ Written(s) = n /\ OthersAreWritten(p)
      BY <1>1, <1>3, <1>6, <2>1 DEF Written, Known, MakesFiles, Undoes
    <3>2. \A j \in 1..Len(InPlace) : j # n =>
            /\ file_exists(InPlace[j])' = file_exists(InPlace[j])
            /\ read_file(InPlace[j])' = read_file(InPlace[j])
            /\ j <= n <=> j <= n - 1
      BY <1>4, <1>10, <2>2, InPlaceFacts
    <3>3. ASSUME NEW j \in 1..Len(InPlace), InPlace[j] \notin Had(p), j # n
          PROVE  IF j <= n THEN s.cut \/ read_file(InPlace[j])' = Initial[InPlace[j]]
                 ELSE ~file_exists(InPlace[j])'
      BY <1>3, <1>6, <3>1, <3>2, <3>3 DEF OthersAreWritten
    <3>4. s.cut \/ read_file(InPlace[n])' = Initial[InPlace[n]]
      BY <1>4, <1>7, <2>3
    <3>5. QED  BY <1>12, <2>1, <3>1, <3>3, <3>4 DEF OthersAreWritten
  <2>8. MakesFiles(p)'
    BY <1>6, <1>12, <2>7 DEF MakesFiles, At, Saves
  <2>9. QED  BY <2>4, <2>5, <2>6, <2>8 DEF Known
<1>14. QED  BY <1>5, <1>6, <1>8, <1>9, <1>11, <1>12, <1>13, StepInv DEF Undisturbed, IsInit

----------------------------------------------------------------------------
(* mkdir(2) *)

LEMMA StackFacts ==
  ASSUME NEW mk \in Seq(Seq(Names)), mk # <<>>
  PROVE  /\ Front(mk) \in Seq(Seq(Names)) /\ Len(Front(mk)) = Len(mk) - 1
         /\ \A i \in 1..(Len(mk) - 1) : Front(mk)[i] = mk[i]
         /\ Last(mk) = mk[Len(mk)] /\ Last(mk) \in Seq(Names) /\ mk[1] \in Seq(Names)
         /\ Len(mk) \in Nat \ {0}
<1>1. PICK n \in Nat : Len(mk) = n + 1
  <2>1. Len(mk) \in Nat /\ Len(mk) # 0
    OBVIOUS
  <2>2. Len(mk) - 1 \in Nat /\ Len(mk) = (Len(mk) - 1) + 1
    BY <2>1
  <2>3. QED  BY <2>2
<1>2. \A i \in 1..(n + 1) : mk[i] \in Seq(Names)
  BY <1>1, ElementOfSeq
<1>3. Front(mk) = SubSeq(mk, 1, n) /\ Last(mk) = mk[n + 1]
  BY <1>1 DEF Front, Last
<1>4. \A i \in 1..n : mk[i] \in Seq(Names)
  BY <1>1, <1>2
<1>5. /\ SubSeq(mk, 1, n) \in Seq(Seq(Names)) /\ Len(SubSeq(mk, 1, n)) = n
      /\ \A i \in 1..n : SubSeq(mk, 1, n)[i] = mk[i]
  BY <1>4, SubSeqProperties
<1>6. QED  BY <1>1, <1>2, <1>3, <1>5

(* The directory on top of the stack is one above the one asked for. *)
LEMMA TopFacts ==
  ASSUME NEW s, IsCommand(s), MakesAStack(s), NEW d, d = Last(s.mk)
  PROVE  /\ d \in Seq(Names) /\ d # <<>> /\ Len(d) = Len(s.mk[1]) + 1 - Len(s.mk)
         /\ d = s.mk[Len(s.mk)] /\ d \in Above(s.mk[1]) /\ d \in Places
         /\ \A i \in 1..(Len(s.mk) - 1) : s.mk[i] # d
         /\ Len(s.mk) = 1 => d = s.mk[1] /\ s.mk = <<d>>
<1>1. s.mk \in Seq(Seq(Names)) /\ s.mk # <<>>
  BY DEF IsCommand, MakesAStack
<1>2. PICK mk, e, n : mk = s.mk /\ e = mk[1] /\ n = Len(mk)
  OBVIOUS
<1>3. /\ e \in Seq(Names) /\ n \in Nat \ {0} /\ d = mk[n] /\ d \in Seq(Names)
      /\ n <= Len(e) /\ Len(e) \in Nat
  BY <1>1, <1>2, StackFacts DEF MakesAStack
<1>4. ASSUME NEW i \in 1..n
      PROVE  mk[i] = SubSeq(e, 1, Len(e) + 1 - i) /\ mk[i] \in Above(e) /\ Len(mk[i]) = Len(e) + 1 - i
  <2>1. PICK k \in 0..Len(e) : k = Len(e) + 1 - i
    <3>1. PICK m \in Nat : m = Len(e)
      BY <1>3
    <3>2. i \in Nat /\ 1 <= i /\ i <= m
      BY <1>3, <3>1
    <3>3. m + 1 - i \in 0..m
      BY <3>2
    <3>4. QED  BY <3>1, <3>3
  <2>2. mk[i] = SubSeq(e, 1, k)
    BY <1>2, <2>1 DEF MakesAStack
  <2>3. Len(SubSeq(e, 1, k)) = k
    BY <1>3, Down
  <2>4. QED  BY <2>1, <2>2, <2>3 DEF Above
<1>5. d \in Above(e) /\ Len(d) = Len(e) + 1 - n
  BY <1>3, <1>4
<1>6. d # <<>>
  <2>1. Len(d) >= 1
    BY <1>3, <1>5
  <2>2. QED  BY <2>1
<1>7. e \in Places
  BY <1>2, PlacesFacts DEF MakesAStack
<1>8. d \in Places
  BY <1>5, <1>7, PlacesFacts DEF IsTree
<1>9. \A i \in 1..(n - 1) : mk[i] # d
  BY <1>3, <1>4, <1>5
<1>10. n = 1 => d = e /\ mk = <<d>>
  <2>1. ASSUME n = 1 PROVE d = e /\ mk = <<d>>
    <3>1. mk \in Seq(Seq(Names)) /\ Len(mk) = 1 /\ mk[1] = d /\ d = e
      BY <1>1, <1>2, <1>3, <2>1
    <3>2. <<d>> \in Seq(Seq(Names)) /\ Len(<<d>>) = 1 /\ <<d>>[1] = d
      BY <1>3
    <3>3. \A i \in 1..Len(mk) : mk[i] = <<d>>[i]
      BY <3>1, <3>2
    <3>4. QED  BY <3>1, <3>2, <3>3, SeqEqual
  <2>2. QED  BY <2>1
<1>11. QED  BY <1>2, <1>3, <1>5, <1>6, <1>8, <1>9, <1>10

Popped(s) == [s EXCEPT !.mk = Front(@), !.again = TRUE]
Pushed(s, d) == [s EXCEPT !.mk = Append(@, d)]
Finished(s) ==
  [s EXCEPT !.pc = s.then, !.mk = <<>>, !.again = FALSE,
            !.next = IF s.mk[1] \in Range(Structure) THEN @ + 1 ELSE @,
            !.work_created = @ \/ s.mk = <<Work>>,
            !.repodir_created = @ \/ s.mk = <<Repo>>]

LEMMA PoppedFacts ==
  ASSUME NEW s, IsCommand(s), MakesAStack(s), s.pc = "mkdir", s.op = "init", Len(s.mk) > 1,
         NEW t, t = Popped(s)
  PROVE  /\ IsCommand(t) /\ MakesSense(t) /\ t.pc = "mkdir" /\ t.op = "init" /\ t.next = s.next
         /\ t.then = s.then /\ t.work_created = s.work_created
         /\ t.repodir_created = s.repodir_created /\ t.cut = s.cut
         /\ t.mk # <<>> /\ t.mk[1] = s.mk[1] /\ Len(t.mk) = Len(s.mk) - 1
         /\ \A i \in 1..Len(t.mk) : t.mk[i] = s.mk[i]
<1>1. s.mk \in Seq(Seq(Names)) /\ s.mk # <<>>
  BY DEF IsCommand, MakesAStack
<1>2. /\ Front(s.mk) \in Seq(Seq(Names)) /\ Len(Front(s.mk)) = Len(s.mk) - 1
      /\ \A i \in 1..(Len(s.mk) - 1) : Front(s.mk)[i] = s.mk[i]
      /\ Len(s.mk) \in Nat
  BY <1>1, StackFacts
<1>3. /\ IsCommand(t) /\ t.pc = "mkdir" /\ t.op = "init" /\ t.next = s.next
      /\ t.then = s.then /\ t.work_created = s.work_created
      /\ t.repodir_created = s.repodir_created /\ t.cut = s.cut /\ t.mk = Front(s.mk)
      /\ t.change = s.change
  BY <1>2 DEF IsCommand, Popped
<1>4. /\ t.mk # <<>> /\ t.mk[1] = s.mk[1] /\ Len(t.mk) = Len(s.mk) - 1
      /\ \A i \in 1..Len(t.mk) : t.mk[i] = s.mk[i]
  BY <1>2, <1>3
<1>5. MakesAStack(t)
  <2>1. PICK e, n, m : e = s.mk[1] /\ n = Len(s.mk) /\ m = Len(t.mk)
    OBVIOUS
  <2>2. Len(e) \in Nat /\ n \in Nat /\ m = n - 1 /\ n <= Len(e)
    BY <1>1, <1>2, <1>4, <2>1, StackFacts DEF MakesAStack
  <2>3. \A i \in 1..n : s.mk[i] = SubSeq(e, 1, Len(e) + 1 - i)
    BY <2>1 DEF MakesAStack
  <2>4. \A i \in 1..m : i \in 1..n
    BY <2>2
  <2>5. \A i \in 1..m : t.mk[i] = SubSeq(e, 1, Len(e) + 1 - i)
    BY <1>4, <2>1, <2>3, <2>4
  <2>6. m <= Len(e) /\ t.mk[1] = e /\ t.mk # <<>>
    BY <1>4, <2>1, <2>2
  <2>7. t.mk[1] \in Range(Structure) \cup {Work, Repo}
    BY <1>4 DEF MakesAStack
  <2>8. QED  BY <2>1, <2>5, <2>6, <2>7, Zenon DEF MakesAStack
<1>6. QED  BY <1>3, <1>4, <1>5 DEF MakesSense, Inits, Saves

LEMMA PushedFacts ==
  ASSUME NEW s, IsCommand(s), MakesAStack(s), s.pc = "mkdir", s.op = "init",
         NEW d, d = Last(s.mk), NEW e, e = Front(d), e # <<>>,
         NEW t, t = Pushed(s, e)
  PROVE  /\ IsCommand(t) /\ MakesSense(t) /\ t.pc = "mkdir" /\ t.op = "init" /\ t.next = s.next
         /\ t.then = s.then /\ t.work_created = s.work_created
         /\ t.repodir_created = s.repodir_created /\ t.cut = s.cut
         /\ t.mk[1] = s.mk[1] /\ Len(t.mk) = Len(s.mk) + 1 /\ t.mk[Len(s.mk) + 1] = e
         /\ \A i \in 1..Len(s.mk) : t.mk[i] = s.mk[i]
<1>1. PICK mk, b, n : mk = s.mk /\ b = mk[1] /\ n = Len(mk)
  OBVIOUS
<1>2. /\ mk \in Seq(Seq(Names)) /\ mk # <<>> /\ b \in Seq(Names)
      /\ n \in Nat \ {0} /\ Len(b) \in Nat
      /\ \A i \in 1..n : mk[i] = SubSeq(b, 1, Len(b) + 1 - i)
  BY <1>1, StackFacts DEF IsCommand, MakesAStack
<1>3. d \in Seq(Names) /\ d # <<>> /\ Len(d) = Len(b) + 1 - n /\ d = mk[n]
  BY <1>1, TopFacts
<1>4. PICK k \in Nat : Len(d) = k + 1 /\ k + 1 <= Len(b) /\ k = Len(b) - n
  <2>1. Len(d) \in Nat /\ Len(d) # 0
    BY <1>3
  <2>2. Len(b) - n \in Nat /\ Len(d) = (Len(b) - n) + 1 /\ (Len(b) - n) + 1 <= Len(b)
    BY <1>2, <1>3, <2>1
  <2>3. QED  BY <2>2
<1>5. d = SubSeq(b, 1, k + 1)
  <2>1. n \in 1..n /\ Len(b) + 1 - n = k + 1
    BY <1>2, <1>4
  <2>2. QED  BY <1>2, <1>3, <2>1, Zenon
<1>6. e \in Seq(Names) /\ Len(e) = k /\ e = SubSeq(d, 1, k)
  BY <1>3, <1>4, FrontFacts DEF Front
<1>7. e = SubSeq(b, 1, k)
  <2>1. k + 1 \in 0..Len(b) /\ k \in 0..(k + 1)
    BY <1>2, <1>4
  <2>2. SubSeq(SubSeq(b, 1, k + 1), 1, k) = SubSeq(b, 1, k)
    BY <1>2, <2>1, DownDown
  <2>3. QED  BY <1>5, <1>6, <2>2, Zenon
<1>8. k # 0
  BY <1>6
<1>9. PICK nk \in Seq(Seq(Names)) : nk = Append(mk, e)
  BY <1>2, <1>6, AppendProperties
<1>10. Len(nk) = n + 1 /\ nk[n + 1] = e /\ \A i \in 1..n : nk[i] = mk[i]
  BY <1>1, <1>2, <1>6, <1>9, AppendProperties
<1>11. t = [s EXCEPT !.mk = nk]
  BY <1>1, <1>9 DEF Pushed
<1>12. /\ IsCommand(t) /\ t.pc = "mkdir" /\ t.op = "init" /\ t.next = s.next
       /\ t.then = s.then /\ t.work_created = s.work_created
       /\ t.repodir_created = s.repodir_created /\ t.cut = s.cut /\ t.mk = nk
  BY <1>11 DEF IsCommand
<1>13. nk # <<>> /\ nk[1] = b /\ n + 1 <= Len(b)
  BY <1>1, <1>2, <1>4, <1>8, <1>10
<1>14. \A i \in 1..(n + 1) : nk[i] = SubSeq(b, 1, Len(b) + 1 - i)
  <2>1. Len(b) + 1 - (n + 1) = k
    BY <1>2, <1>4
  <2>2. nk[n + 1] = SubSeq(b, 1, Len(b) + 1 - (n + 1))
    BY <1>7, <1>10, <2>1, Zenon
  <2>3. \A i \in 1..n : nk[i] = SubSeq(b, 1, Len(b) + 1 - i)
    BY <1>2, <1>10
  <2>4. \A i \in 1..(n + 1) : i \in 1..n \/ i = n + 1
    BY <1>2
  <2>5. QED  BY <2>2, <2>3, <2>4, Zenon
<1>15. b \in Range(Structure) \cup {Work, Repo}
  BY <1>1 DEF MakesAStack
<1>16. MakesAStack(t)
  BY <1>10, <1>12, <1>13, <1>14, <1>15, Zenon DEF MakesAStack
<1>17. MakesSense(t)
  BY <1>12, <1>16 DEF MakesSense, Inits, Saves
<1>18. QED  BY <1>1, <1>10, <1>12, <1>13, <1>17

LEMMA FinishedFacts ==
  ASSUME NEW s, IsCommand(s), s.op = "init", NEW t, t = Finished(s)
  PROVE  /\ IsCommand(t) /\ MakesSense(t) /\ t.pc = s.then /\ t.op = "init" /\ t.mk = <<>>
         /\ t.next = IF s.mk[1] \in Range(Structure) THEN s.next + 1 ELSE s.next
         /\ t.work_created <=> s.work_created \/ s.mk = <<Work>>
         /\ t.repodir_created <=> s.repodir_created \/ s.mk = <<Repo>>
         /\ t.cut = s.cut /\ t.then = s.then
<1>1. s.next \in Nat \ {0} /\ s.next + 1 \in Nat \ {0} /\ s.then \in {"idle", "repodir", "dirs"}
  BY DEF IsCommand
<1>2. PICK n \in Nat \ {0} : n = IF s.mk[1] \in Range(Structure) THEN s.next + 1 ELSE s.next
  BY <1>1
<1>3. PICK w \in BOOLEAN : w = (s.work_created \/ s.mk = <<Work>>)
  OBVIOUS
<1>4. PICK r \in BOOLEAN : r = (s.repodir_created \/ s.mk = <<Repo>>)
  OBVIOUS
<1>5. <<>> \in Seq(Seq(Names))
  OBVIOUS
<1>6. PICK u : u = [s EXCEPT !.pc = s.then, !.mk = <<>>, !.again = FALSE]
  OBVIOUS
<1>7. /\ IsCommand(u) /\ u.pc = s.then /\ u.op = "init" /\ u.mk = <<>>
      /\ u.cut = s.cut /\ u.then = s.then
  BY <1>1, <1>5, <1>6 DEF IsCommand, Inits
<1>8. t = [u EXCEPT !.next = n, !.work_created = w, !.repodir_created = r]
  <2>1. t = [s EXCEPT !.pc = s.then, !.mk = <<>>, !.again = FALSE, !.next = n,
                      !.work_created = w, !.repodir_created = r]
    BY <1>2, <1>3, <1>4, Zenon DEF Finished
  <2>2. QED  BY <1>6, <2>1
<1>9. /\ IsCommand(t) /\ t.pc = u.pc /\ t.op = u.op /\ t.mk = u.mk /\ t.cut = u.cut
      /\ t.then = u.then /\ t.next = n /\ t.work_created = w /\ t.repodir_created = r
  BY <1>7, <1>8, ZenonT(40) DEF IsCommand
<1>10. MakesSense(t)
  BY <1>1, <1>7, <1>9 DEF MakesSense, Inits, Saves
<1>11. t.next = IF s.mk[1] \in Range(Structure) THEN s.next + 1 ELSE s.next
  BY <1>2, <1>9, Zenon
<1>12. /\ t.work_created <=> s.work_created \/ s.mk = <<Work>>
       /\ t.repodir_created <=> s.repodir_created \/ s.mk = <<Repo>>
  BY <1>3, <1>4, <1>9, Zenon
<1>13. QED  BY <1>7, <1>9, <1>10, <1>11, <1>12, Zenon

(* A directory more, made by init where it had to be. *)
LEMMA MadeStep ==
  ASSUME SetupInv, NEW p \in Procs, proc[p].pc = "mkdir", UNCHANGED fileVars,
         NEW d \in Places, d # <<>>, d \notin dirs, Front(d) \in dirs, dirs' = dirs \cup {d},
         NEW s, Become(p, s), IsCommand(s), MakesSense(s), s.op = proc[p].op, s.cut = proc[p].cut,
         s.pc \in {"idle", "mkdir", "repodir", "dirs"},
         Undisturbed(p) /\ Known(p) => KnowsWhatIsNew(p)' /\ MakesDirs(p)'
  PROVE  SetupInv'
<1>1. proc'[p] = s /\ before'[p] = before[p]
  BY Becomes
<1>2. dir' = dir /\ tmp' = tmp /\ data' = data /\ fd' = fd
  BY DEF fileVars
<1>3. NamesAreDistinct'
  BY <1>2 DEF SetupInv, FilesInv, NamesAreDistinct
<1>4. \A f \in Paths : file_exists(f)' = file_exists(f) /\ read_file(f)' = read_file(f)
  BY <1>2 DEF file_exists, read_file
<1>5. dirs' \subseteq Places
  BY DEF SetupInv, FilesInv, SetupTypeOK
<1>6. DirsAreATree'
  <2>1. IsTree(dirs')
    BY PlacesFacts, TreeGrows DEF SetupInv, FilesInv, DirsAreATree
  <2>2. QED  BY <1>2, <1>4, <2>1 DEF SetupInv, FilesInv, DirsAreATree
<1>7. ASSUME Undisturbed(p) PROVE Known(p)'
  <2>1. Known(p) /\ Had(p)' = Had(p)
    BY <1>1, <1>7 DEF SetupInv, InitInv, Known, Had
  <2>2. KeepsWhatWas(p)'
    BY <1>1, <1>4, <2>1 DEF Known, KeepsWhatWas
  <2>3. Written(s) = 0 /\ Written(proc[p]) = 0
    BY DEF Written
  <2>4. OthersAreWritten(p)
    BY <2>1 DEF Known, MakesFiles, Undoes
  <2>5. \A i \in 1..Len(InPlace) : file_exists(InPlace[i])' = file_exists(InPlace[i])
    BY <1>4, InPlaceFacts
  <2>6. OthersAreWritten(p)'
    BY <1>1, <2>1, <2>3, <2>4, <2>5 DEF OthersAreWritten, At
  <2>7. MakesFiles(p)'
    BY <1>1, <2>6 DEF MakesFiles, At, Saves
  <2>8. QED  BY <1>7, <2>1, <2>2, <2>7 DEF Known
<1>8. QED  BY <1>1, <1>3, <1>5, <1>6, <1>7, StepInv DEF Undisturbed, IsInit

(* One of those above the directory that was asked for. *)
LEMMA MadeAboveInv ==
  ASSUME SetupInv, NEW p \in Procs, proc[p].pc = "mkdir", UNCHANGED fileVars,
         NEW d, d = Last(proc[p].mk), d \notin dirs, Front(d) \in dirs, dirs' = dirs \cup {d},
         Len(proc[p].mk) > 1, Become(p, Popped(proc[p]))
  PROVE  SetupInv'
<1>1. IsCommand(proc[p]) /\ MakesAStack(proc[p]) /\ proc[p].op = "init"
  BY DEF SetupInv, FilesInv, SetupTypeOK, CommandsMakeSense, MakesSense, Inits
<1>2. PICK s : s = Popped(proc[p]) /\ Become(p, s)
  OBVIOUS
<1>3. proc'[p] = s /\ before'[p] = before[p]
  BY <1>2, Becomes
<1>4. PICK mk : mk = proc[p].mk
  OBVIOUS
<1>5. /\ IsCommand(s) /\ MakesSense(s) /\ s.pc = "mkdir" /\ s.op = "init" /\ s.next = proc[p].next
      /\ s.then = proc[p].then /\ s.work_created = proc[p].work_created
      /\ s.repodir_created = proc[p].repodir_created /\ s.cut = proc[p].cut
      /\ s.mk[1] = mk[1] /\ Len(s.mk) = Len(mk) - 1
      /\ \A i \in 1..Len(s.mk) : s.mk[i] = mk[i]
  BY <1>1, <1>2, <1>4, PoppedFacts
<1>6. /\ d \in Seq(Names) /\ d # <<>> /\ d \in Above(mk[1]) /\ d \in Places
      /\ \A i \in 1..(Len(mk) - 1) : mk[i] # d
      /\ mk[1] \in Seq(Names) /\ mk[1] # d /\ Len(mk) \in Nat
  <2>1. mk \in Seq(Seq(Names)) /\ mk # <<>>
    BY <1>1, <1>4 DEF IsCommand, MakesAStack
  <2>2. mk[1] \in Seq(Names) /\ Len(mk) \in Nat
    BY <2>1, StackFacts
  <2>3. /\ d \in Seq(Names) /\ d # <<>> /\ d \in Above(mk[1]) /\ d \in Places
        /\ \A i \in 1..(Len(mk) - 1) : mk[i] # d
    BY <1>1, <1>4, TopFacts
  <2>4. 1 \in 1..(Len(mk) - 1)
    BY <1>4, <2>2
  <2>5. QED  BY <2>2, <2>3, <2>4
<1>7. ASSUME Known(p) PROVE KnowsWhatIsNew(p)' /\ MakesDirs(p)'
  <2>1. MakesDirs(p) /\ KnowsWhatIsNew(p)
    BY <1>7 DEF Known
  <2>2. d # Work /\ d # Repo
    <3>1. CASE mk[1] = Work
      <4>1. Len(d) <= Len(Work) /\ d # Work
        BY <1>6, <3>1, AboveFacts
      <4>2. QED  BY <1>6, <4>1, RepoFacts
    <3>2. CASE mk[1] # Work
      BY <1>4, <1>6, <2>1, <3>2 DEF MakesDirs, At
    <3>3. QED  BY <3>1, <3>2
  <2>3. KnowsWhatIsNew(p)'
    BY <1>3, <1>5, <2>1, <2>2 DEF KnowsWhatIsNew, At
  <2>4. \A i \in 1..Len(s.mk) : s.mk[i] \notin dirs'
    <3>1. \A i \in 1..Len(mk) : mk[i] \notin dirs
      BY <1>4, <2>1 DEF MakesDirs, At
    <3>2. \A i \in 1..Len(s.mk) : i \in 1..Len(mk) /\ i \in 1..(Len(mk) - 1)
      BY <1>5, <1>6
    <3>3. QED  BY <1>5, <1>6, <3>1, <3>2
  <2>5. MakesDirs(p)'
    BY <1>3, <1>4, <1>5, <2>1, <2>4 DEF MakesDirs, At, NeedsStructure, Saves
  <2>6. QED  BY <2>3, <2>5
<1>8. QED  BY <1>1, <1>2, <1>5, <1>6, <1>7, MadeStep

(* The directory that was asked for. *)
LEMMA MadeAskedInv ==
  ASSUME SetupInv, NEW p \in Procs, proc[p].pc = "mkdir", UNCHANGED fileVars,
         NEW d, d = Last(proc[p].mk), d \notin dirs, Front(d) \in dirs, dirs' = dirs \cup {d},
         Len(proc[p].mk) = 1, Become(p, Finished(proc[p]))
  PROVE  SetupInv'
<1>1. IsCommand(proc[p]) /\ MakesAStack(proc[p]) /\ proc[p].op = "init"
  BY DEF SetupInv, FilesInv, SetupTypeOK, CommandsMakeSense, MakesSense, Inits
<1>2. PICK s : s = Finished(proc[p]) /\ Become(p, s)
  OBVIOUS
<1>3. proc'[p] = s /\ before'[p] = before[p]
  BY <1>2, Becomes
<1>4. /\ d \in Seq(Names) /\ d # <<>> /\ d \in Places /\ proc[p].mk = <<d>> /\ proc[p].mk[1] = d
  BY <1>1, TopFacts
<1>5. /\ IsCommand(s) /\ MakesSense(s) /\ s.pc = proc[p].then /\ s.op = "init" /\ s.mk = <<>>
      /\ s.next = IF d \in Range(Structure) THEN proc[p].next + 1 ELSE proc[p].next
      /\ s.work_created <=> proc[p].work_created \/ d = Work
      /\ s.repodir_created <=> proc[p].repodir_created \/ d = Repo
      /\ s.cut = proc[p].cut
  <2>1. \A e : <<d>> = <<e>> <=> d = e
    OBVIOUS
  <2>2. PICK u : u = proc[p]
    OBVIOUS
  <2>3. /\ IsCommand(s) /\ MakesSense(s) /\ s.pc = u.then /\ s.op = "init" /\ s.mk = <<>>
        /\ s.next = IF u.mk[1] \in Range(Structure) THEN u.next + 1 ELSE u.next
        /\ s.work_created <=> u.work_created \/ u.mk = <<Work>>
        /\ s.repodir_created <=> u.repodir_created \/ u.mk = <<Repo>>
        /\ s.cut = u.cut
    <3>1. IsCommand(u) /\ u.op = "init" /\ s = Finished(u)
      BY <1>1, <1>2, <2>2
    <3>2. QED  BY ONLY <3>1, FinishedFacts, Zenon
  <2>4. u.mk = <<d>> /\ u.mk[1] = d
    BY <1>4, <2>2
  <2>5. QED  BY <2>1, <2>2, <2>3, <2>4, Zenon
<1>6. proc[p].then \in {"idle", "repodir", "dirs"}
  BY <1>1 DEF IsCommand
<1>7. ASSUME Undisturbed(p) /\ Known(p) PROVE KnowsWhatIsNew(p)' /\ MakesDirs(p)'
  <2>1. MakesDirs(p) /\ KnowsWhatIsNew(p) /\ before[p].dirs \subseteq dirs
    BY <1>7 DEF Known, KeepsWhatWas
  <2>2. \/ d = Work /\ proc[p].then = "repodir" /\ proc[p].next = 1
        \/ d = Repo /\ proc[p].then = "dirs" /\ Work \in dirs /\ proc[p].next = 1
        \/ /\ proc[p].next \in 1..Len(Structure) /\ d = Structure[proc[p].next] /\ proc[p].then = "dirs"
           /\ {Work, Repo} \subseteq dirs
           /\ \A i \in 1..Len(Structure) : i < proc[p].next => Structure[i] \in dirs
    BY <1>4, <2>1 DEF MakesDirs, At
  <2>3. s.pc \in {"repodir", "dirs"}
    BY <1>5, <2>2
  <2>4. KnowsWhatIsNew(p)'
    BY <1>3, <1>5, <2>1, <2>3 DEF KnowsWhatIsNew, At
  <2>5. MakesDirs(p)'
    <3>1. Work \notin Range(Structure) /\ Repo \notin Range(Structure)
      BY StructureFacts, StructureIsBelowRepo DEF Range
    <3>2. CASE d = Work /\ proc[p].then = "repodir" /\ proc[p].next = 1
      BY <1>3, <1>5, <3>1, <3>2 DEF MakesDirs, At, NeedsStructure, Saves
    <3>3. CASE d = Repo /\ proc[p].then = "dirs" /\ Work \in dirs /\ proc[p].next = 1
      <4>1. s.pc = "dirs" /\ s.next = 1 /\ {Work, Repo} \subseteq dirs'
        BY <1>5, <3>1, <3>3
      <4>2. \A i \in 1..Len(Structure) : ~(i < 1)
        BY StructureIsBelowRepo
      <4>3. QED  BY <1>3, <4>1, <4>2 DEF MakesDirs, At, NeedsStructure, Saves
    <3>4. CASE /\ proc[p].next \in 1..Len(Structure) /\ d = Structure[proc[p].next] /\ proc[p].then = "dirs"
               /\ {Work, Repo} \subseteq dirs
               /\ \A i \in 1..Len(Structure) : i < proc[p].next => Structure[i] \in dirs
      <4>1. d \in Range(Structure)
        BY <3>4, StructureFacts
      <4>2. s.pc = "dirs" /\ s.next = proc[p].next + 1 /\ {Work, Repo} \subseteq dirs'
        BY <1>5, <3>4, <4>1
      <4>3. \A i \in 1..Len(Structure) : i < proc[p].next + 1 => i < proc[p].next \/ i = proc[p].next
        BY <3>4, StructureIsBelowRepo
      <4>4. \A i \in 1..Len(Structure) : i < s.next => Structure[i] \in dirs'
        BY <3>4, <4>2, <4>3
      <4>5. QED  BY <1>3, <4>2, <4>4 DEF MakesDirs, At, NeedsStructure, Saves
    <3>5. QED  BY <2>2, <3>2, <3>3, <3>4
  <2>6. QED  BY <2>4, <2>5
<1>8. QED  BY <1>1, <1>2, <1>4, <1>5, <1>6, <1>7, MadeStep

(* mkdirp finds a directory that was not there: somebody else made it. *)
LEMMA FoundInv ==
  ASSUME SetupInv, NEW p \in Procs, proc[p].pc = "mkdir", OnlyReads,
         Last(proc[p].mk) \in dirs, Made(p)
  PROVE  SetupInv'
<1>1. IsCommand(proc[p]) /\ MakesAStack(proc[p]) /\ proc[p].op = "init"
  BY DEF SetupInv, FilesInv, SetupTypeOK, CommandsMakeSense, MakesSense, Inits
<1>2. ~Known(p)
  <2>1. proc[p].mk \in Seq(Seq(Names)) /\ proc[p].mk # <<>>
    BY <1>1 DEF IsCommand, MakesAStack
  <2>2. Last(proc[p].mk) = proc[p].mk[Len(proc[p].mk)] /\ Len(proc[p].mk) \in 1..Len(proc[p].mk)
    BY <2>1, StackFacts
  <2>3. QED  BY <2>2 DEF Known, MakesDirs, At
<1>3. CASE Len(proc[p].mk) > 1
  <2>1. PICK s : s = Popped(proc[p]) /\ Become(p, s)
    BY <1>3 DEF Made, Popped
  <2>2. IsCommand(s) /\ MakesSense(s) /\ s.op = "init"
    BY <1>1, <1>3, <2>1, PoppedFacts
  <2>3. QED  BY <1>1, <1>2, <2>1, <2>2, QuietStep
<1>4. CASE ~(Len(proc[p].mk) > 1)
  <2>1. PICK s : s = Finished(proc[p]) /\ Become(p, s)
    BY <1>4 DEF Made, Finished
  <2>2. IsCommand(s) /\ MakesSense(s) /\ s.op = "init"
    BY <1>1, <2>1, FinishedFacts
  <2>3. QED  BY <1>1, <1>2, <2>1, <2>2, QuietStep
<1>5. QED  BY <1>3, <1>4

(* The directory above has to be made first. *)
LEMMA MissingAboveInv ==
  ASSUME SetupInv, NEW p \in Procs, proc[p].pc = "mkdir", OnlyReads,
         NEW d, d = Last(proc[p].mk), d \notin dirs, NEW e, e = Front(d), e \notin dirs,
         Become(p, Pushed(proc[p], e))
  PROVE  SetupInv'
<1>1. IsCommand(proc[p]) /\ MakesAStack(proc[p]) /\ proc[p].op = "init"
  BY DEF SetupInv, FilesInv, SetupTypeOK, CommandsMakeSense, MakesSense, Inits
<1>2. PICK s : s = Pushed(proc[p], e) /\ Become(p, s)
  OBVIOUS
<1>3. proc'[p] = s /\ before'[p] = before[p]
  BY <1>2, Becomes
<1>4. e # <<>>
  BY DEF SetupInv, FilesInv, DirsAreATree
<1>5. PICK mk : mk = proc[p].mk
  OBVIOUS
<1>6. /\ IsCommand(s) /\ MakesSense(s) /\ s.pc = "mkdir" /\ s.op = "init" /\ s.next = proc[p].next
      /\ s.then = proc[p].then /\ s.work_created = proc[p].work_created
      /\ s.repodir_created = proc[p].repodir_created /\ s.cut = proc[p].cut
      /\ s.mk[1] = mk[1] /\ Len(s.mk) = Len(mk) + 1 /\ s.mk[Len(mk) + 1] = e
      /\ \A i \in 1..Len(mk) : s.mk[i] = mk[i]
  BY <1>1, <1>2, <1>4, <1>5, PushedFacts
<1>7. ASSUME Known(p) PROVE KnowsWhatIsNew(p)' /\ MakesDirs(p)' /\ MakesFiles(p)'
  <2>1. KnowsWhatIsNew(p)'
    BY <1>3, <1>6, <1>7 DEF Known, KnowsWhatIsNew, At, OnlyReads
  <2>2. \A i \in 1..Len(s.mk) : s.mk[i] \notin dirs'
    <3>1. mk \in Seq(Seq(Names)) /\ \A i \in 1..Len(mk) : mk[i] \notin dirs
      BY <1>1, <1>5, <1>7 DEF Known, MakesDirs, At, IsCommand
    <3>2. \A i \in 1..Len(s.mk) : i \in 1..Len(mk) \/ i = Len(mk) + 1
      BY <1>6, <3>1
    <3>3. QED  BY <1>6, <3>1, <3>2 DEF OnlyReads
  <2>3. MakesDirs(p)'
    BY <1>3, <1>5, <1>6, <1>7, <2>2 DEF Known, MakesDirs, At, OnlyReads, NeedsStructure, Saves
  <2>4. OthersAreWritten(p)'
    BY <1>2, <1>6, <1>7, QuietOthers DEF Known, MakesFiles, Undoes, Written
  <2>5. MakesFiles(p)'
    BY <1>3, <1>6, <2>4 DEF MakesFiles, At, Saves
  <2>6. QED  BY <2>1, <2>3, <2>5
<1>8. QED  BY <1>1, <1>2, <1>6, <1>7, QuietStep

LEMMA MkdirInv ==
  ASSUME SetupInv, NEW p \in Procs, Mkdir(p)
  PROVE  SetupInv'
<1>1. proc[p].pc = "mkdir" /\ UNCHANGED fileVars
  BY DEF Mkdir, At
<1>2. PICK d : d = Last(proc[p].mk)
  OBVIOUS
<1>3. CASE OnlyReads /\ Fail(p)
  BY <1>1, <1>3, QuietFailInv
<1>4. CASE OnlyReads /\ d \in dirs /\ Made(p)
  BY <1>1, <1>2, <1>4, FoundInv
<1>5. CASE OnlyReads /\ d \notin dirs /\ Front(d) \notin dirs /\ Become(p, Pushed(proc[p], Front(d)))
  BY <1>1, <1>2, <1>5, MissingAboveInv
<1>6. CASE d \notin dirs /\ Front(d) \in dirs /\ dirs' = dirs \cup {d} /\ Made(p)
  <2>1. CASE Len(proc[p].mk) > 1
    BY <1>1, <1>2, <1>6, <2>1, MadeAboveInv DEF Made, Popped
  <2>2. CASE ~(Len(proc[p].mk) > 1)
    <3>1. Len(proc[p].mk) = 1
      <4>1. proc[p].mk \in Seq(Seq(Names)) /\ proc[p].mk # <<>>
        BY <1>1 DEF SetupInv, FilesInv, SetupTypeOK, CommandsMakeSense, MakesSense, MakesAStack, IsCommand
      <4>2. PICK n \in Nat \ {0} : n = Len(proc[p].mk)
        BY <4>1, StackFacts
      <4>3. ~(n > 1)
        BY <2>2, <4>2
      <4>4. n = 1
        BY <4>3
      <4>5. QED  BY <4>2, <4>4
    <3>2. Become(p, Finished(proc[p]))
      BY <1>6, <2>2 DEF Made, Finished
    <3>3. QED  BY <1>1, <1>2, <1>6, <3>1, <3>2, MadeAskedInv
  <2>3. QED  BY <2>1, <2>2
<1>7. QED  BY <1>1, <1>2, <1>3, <1>4, <1>5, <1>6 DEF Mkdir, OnlyReads, Pushed

----------------------------------------------------------------------------
(* rmdirr *)

Removes(x) ==
  CASE x \in dirs -> dirs' = dirs \ {x} /\ UNCHANGED fileVars
    [] x \in Paths -> Unlink(x) /\ UNCHANGED dirs
    [] OTHER -> UnlinkTmp(Front(x)) /\ UNCHANGED dirs

LEMMA ThereFacts ==
  ASSUME SetupInv, NEW d \in Seq(Names), NEW x \in There(d)
  PROVE  /\ x \in Seq(Names) /\ d \in Above(x)
         /\ \/ x \in dirs
            \/ x \in Paths /\ file_exists(x)
            \/ x \notin dirs \cup Paths /\ \E f \in Paths : x = Lock(f) /\ tmp[f] # NoInode
<1>1. dirs \subseteq Places
  BY DEF SetupInv, FilesInv, SetupTypeOK
<1>2. \/ x \in dirs
      \/ x \in Paths /\ file_exists(x)
      \/ \E f \in Paths : x = Lock(f) /\ tmp[f] # NoInode
  BY DEF There
<1>3. x \in Seq(Names)
  BY <1>1, <1>2, PlacesFacts, FilesAreNoDirectories, LockFacts
<1>4. d \in Above(x)
  BY <1>3, PrefixIsAbove DEF There
<1>5. QED  BY <1>1, <1>2, <1>3, <1>4, FilesAreNoDirectories

(* Exactly what was asked for is gone. *)
LEMMA RemovesOne ==
  ASSUME SetupInv, NEW d \in Seq(Names), NEW x \in There(d), Removes(x)
  PROVE  /\ NamesAreDistinct' /\ dirs' = dirs \ {x}
         /\ \A f \in Paths :
              /\ file_exists(f)' <=> file_exists(f) /\ f # x
              /\ tmp'[f] # NoInode <=> tmp[f] # NoInode /\ Lock(f) # x
              /\ f # x /\ file_exists(f) => read_file(f)' = read_file(f)
<1>1. NamesAreDistinct /\ dirs \subseteq Places
  BY DEF SetupInv, FilesInv, SetupTypeOK
<1>2. CASE x \in dirs
  <2>0. x \notin Paths
    BY <1>1, <1>2, FilesAreNoDirectories
  <2>1. dirs' = dirs \ {x} /\ dir' = dir /\ tmp' = tmp /\ data' = data /\ fd' = fd
    BY <1>2, <2>0 DEF Removes, fileVars
  <2>2. \A f \in Paths : f # x /\ Lock(f) # x
    BY <1>1, <1>2, FilesAreNoDirectories
  <2>3. NamesAreDistinct'
    BY <1>1, <2>1 DEF NamesAreDistinct
  <2>4. QED  BY <2>1, <2>2, <2>3 DEF file_exists, read_file
<1>3. CASE x \in Paths /\ x \notin dirs
  <2>1. Unlink(x) /\ dirs' = dirs
    BY <1>3 DEF Removes
  <2>2. /\ NamesAreDistinct' /\ fd' = fd /\ tmp' = tmp /\ dir' = [dir EXCEPT ![x] = NoInode]
        /\ \A g \in Paths : g # x /\ file_exists(g) => file_exists(g)' /\ read_file(g)' = read_file(g)
    BY <1>1, <1>3, <2>1, UnlinkFacts
  <2>3. \A f \in Paths : Lock(f) # x
    BY <1>3, FilesAreNoDirectories
  <2>4. \A f \in Paths : file_exists(f)' <=> file_exists(f) /\ f # x
    BY <1>1, <1>3, <2>2 DEF NamesAreDistinct, file_exists
  <2>5. dirs' = dirs \ {x}
    BY <1>3, <2>1
  <2>6. QED  BY <2>2, <2>3, <2>4, <2>5
<1>4. CASE x \notin dirs \cup Paths /\ \E f \in Paths : x = Lock(f)
  <2>1. UnlinkTmp(Front(x)) /\ dirs' = dirs
    BY <1>4 DEF Removes
  <2>2. PICK f \in Paths : x = Lock(f)
    BY <1>4
  <2>3. \A g \in Paths : Front(Lock(g)) = g
    BY LockFacts, FilesAreNoDirectories
  <2>4. Front(x) = f /\ \A g \in Paths : Lock(g) = x => g = f
    BY <2>2, <2>3
  <2>5. /\ NamesAreDistinct' /\ dir' = dir /\ tmp' = [tmp EXCEPT ![f] = NoInode]
        /\ \A g \in Paths : file_exists(g) => file_exists(g)' /\ read_file(g)' = read_file(g)
    BY <1>1, <2>1, <2>4, UnlinkTmpFacts
  <2>6. \A g \in Paths : tmp'[g] # NoInode <=> tmp[g] # NoInode /\ Lock(g) # x
    BY <1>1, <2>2, <2>4, <2>5 DEF NamesAreDistinct
  <2>7. \A g \in Paths : g # x /\ (file_exists(g)' <=> file_exists(g))
    BY <1>4, <2>5 DEF file_exists
  <2>8. dirs' = dirs \ {x}
    BY <1>4, <2>1
  <2>9. QED  BY <2>5, <2>6, <2>7, <2>8
<1>5. QED  BY <1>2, <1>3, <1>4, ThereFacts

(* With nothing below it, the rest is a tree still. *)
LEMMA RemovesFacts ==
  ASSUME SetupInv, NEW d \in Seq(Names), d # <<>>, NEW x \in There(d), There(x) = {x}, Removes(x)
  PROVE  DirsAreATree' /\ There(d)' = There(d) \ {x}
<1>1. /\ NamesAreDistinct' /\ dirs' = dirs \ {x}
      /\ \A f \in Paths :
              /\ file_exists(f)' <=> file_exists(f) /\ f # x
              /\ tmp'[f] # NoInode <=> tmp[f] # NoInode /\ Lock(f) # x
  BY RemovesOne
<1>2. There(d)' = There(d) \ {x}
  <2>1. ASSUME NEW y
        PROVE  y \in There(d)' <=> y \in There(d) /\ y # x
    BY <1>1 DEF There
  <2>2. QED  BY <2>1, Zenon
<1>3. x \in Seq(Names) /\ d \in Above(x) /\ x # <<>>
  <2>1. x \in Seq(Names) /\ d \in Above(x)
    BY ThereFacts
  <2>2. Len(d) <= Len(x)
    BY <2>1, AboveFacts
  <2>3. QED  BY <2>1, <2>2
<1>4. \A y \in Seq(Names) : x \in Above(y) => IsPrefix(x, y)
  BY <1>3, PrefixIsAbove
<1>5. dirs \subseteq Places /\ DirsAreATree
  BY DEF SetupInv, FilesInv, SetupTypeOK
<1>6. \A y \in dirs : x \in Above(y) => y = x
  <2>1. \A y \in dirs : IsPrefix(x, y) => y \in There(x)
    BY DEF There
  <2>2. QED  BY <1>4, <1>5, <2>1, PlacesFacts
<1>7. IsTree(dirs')
  BY <1>1, <1>5, <1>6, TreeShrinks DEF DirsAreATree
<1>8. ASSUME NEW f \in Paths, file_exists(f)' \/ tmp'[f] # NoInode
      PROVE  Front(f) \in dirs'
  <2>1. Front(f) \in dirs /\ f \in Seq(Names) /\ f # <<>>
    BY <1>1, <1>5, <1>8, FilesAreNoDirectories DEF DirsAreATree
  <2>2. Front(f) \in Above(f)
    BY <2>1, FrontFacts
  <2>3. Lock(f) \in Seq(Names) /\ Above(f) \subseteq Above(Lock(f))
    <3>1. Lock(f) \in Seq(Names) /\ Lock(f) # <<>> /\ Front(Lock(f)) = f
      BY <2>1, LockFacts
    <3>2. QED  BY <3>1, FrontFacts
  <2>4. CASE file_exists(f)' /\ Front(f) = x
    <3>1. file_exists(f) /\ f # x
      BY <1>1, <2>4
    <3>2. f \in There(x)
      BY <1>4, <2>1, <2>2, <2>4, <3>1 DEF There
    <3>3. QED  BY <3>1, <3>2
  <2>5. CASE tmp'[f] # NoInode /\ Front(f) = x
    <3>1. tmp[f] # NoInode /\ Lock(f) # x
      BY <1>1, <2>5
    <3>2. Lock(f) \in There(x)
      BY <1>4, <2>2, <2>3, <2>5, <3>1 DEF There
    <3>3. QED  BY <3>1, <3>2
  <2>6. QED  BY <1>1, <1>8, <2>1, <2>4, <2>5
<1>9. QED  BY <1>1, <1>2, <1>3, <1>5, <1>7, <1>8 DEF DirsAreATree

Without(s, x, pc) == [s EXCEPT !.todo = @ \ {x}, !.pc = pc]

LEMMA WithoutFacts ==
  ASSUME NEW s, IsCommand(s), NEW x, NEW pc \in {"remove", "rollback"}, NEW t, t = Without(s, x, pc)
  PROVE  /\ IsCommand(t) /\ t.pc = pc /\ t.op = s.op /\ t.target = s.target
         /\ t.todo = s.todo \ {x} /\ t.change = s.change
         /\ t.work_created = s.work_created /\ t.repodir_created = s.repodir_created
BY DEF IsCommand, Without, Inits

LEMMA RmdirrInv ==
  ASSUME SetupInv, NEW p \in Procs, Rmdirr(p)
  PROVE  SetupInv'
<1>1. IsCommand(proc[p]) /\ MakesSense(proc[p]) /\ proc[p].pc = "remove"
  BY DEF Rmdirr, At, SetupInv, FilesInv, SetupTypeOK, CommandsMakeSense
<1>2. proc[p].op = "init" /\ proc[p].target \in {Work, Repo}
  BY <1>1 DEF MakesSense, Inits
<1>3. PICK d \in Seq(Names) : d = proc[p].target /\ d # <<>> /\ d \in Places
  BY <1>2, RepoFacts, PlacesFacts
<1>4. PICK x \in There(d) :
        /\ There(x) = {x} /\ Removes(x)
        /\ Become(p, [proc[p] EXCEPT !.todo = @ \ {x}, !.pc = IF x = proc[p].target THEN "rollback" ELSE @])
  BY <1>3 DEF Rmdirr, Removes
<1>5. PICK pc : pc = IF x = d THEN "rollback" ELSE "remove"
  OBVIOUS
<1>6. PICK s : s = Without(proc[p], x, pc) /\ Become(p, s)
  BY <1>1, <1>3, <1>4, <1>5 DEF Without
<1>7. proc'[p] = s /\ before'[p] = before[p]
  BY <1>6, Becomes
<1>8. /\ IsCommand(s) /\ s.pc = pc /\ s.op = proc[p].op /\ s.target = proc[p].target
      /\ s.todo = proc[p].todo \ {x} /\ s.change = proc[p].change
      /\ s.work_created = proc[p].work_created /\ s.repodir_created = proc[p].repodir_created
  BY <1>1, <1>5, <1>6, WithoutFacts
<1>9. MakesSense(s)
  BY <1>1, <1>2, <1>5, <1>8 DEF MakesSense, Inits, Saves
<1>10. /\ NamesAreDistinct' /\ dirs' = dirs \ {x}
       /\ \A f \in Paths : f # x /\ file_exists(f) => file_exists(f)' /\ read_file(f)' = read_file(f)
  BY <1>4, RemovesOne
<1>11. DirsAreATree' /\ There(d)' = There(d) \ {x}
  BY <1>3, <1>4, RemovesFacts
<1>12. dirs \subseteq Places /\ dirs' \subseteq Places
  BY <1>10 DEF SetupInv, FilesInv, SetupTypeOK
<1>13. x \in Seq(Names) /\ d \in Above(x)
  BY <1>4, ThereFacts
<1>14. ASSUME Undisturbed(p) PROVE Known(p)'
  <2>1. Known(p) /\ Had(p)' = Had(p)
    BY <1>7, <1>14 DEF SetupInv, InitInv, Known, Had
  <2>2. d \notin before[p].dirs /\ proc[p].todo = There(d)
    BY <1>1, <1>3, <2>1 DEF Known, KnowsWhatIsNew, At
  <2>3. IsTree(before[p].dirs) /\ before[p].dirs \subseteq dirs
    BY <2>1 DEF Known, KeepsWhatWas
  <2>4. x \notin before[p].dirs
    BY <1>13, <2>2, <2>3 DEF IsTree
  <2>5. ASSUME NEW f \in Had(p) PROVE f # x
    <3>1. f \in Paths /\ Front(f) \in before[p].dirs
      BY <2>1 DEF Known, KeepsWhatWas
    <3>2. f \in Seq(Names) /\ f # <<>> /\ f # d
      BY <1>3, <3>1, FilesAreNoDirectories
    <3>3. Above(f) = Above(Front(f)) \cup {f}
      BY <3>2, FrontFacts
    <3>4. d \notin Above(f)
      BY <2>2, <2>3, <3>1, <3>2, <3>3 DEF IsTree
    <3>5. QED  BY <1>13, <3>4
  <2>6. KeepsWhatWas(p)'
    <3>1. before[p].dirs \subseteq dirs'
      BY <1>10, <2>3, <2>4
    <3>2. \A f \in Had(p) :
            /\ f \in Paths /\ Front(f) \in before[p].dirs
            /\ file_exists(f)' /\ read_file(f)' = before[p].files[f]
      BY <1>10, <2>1, <2>5 DEF Known, KeepsWhatWas
    <3>3. QED  BY <1>7, <2>1, <2>3, <3>1, <3>2 DEF KeepsWhatWas
  <2>7. KnowsWhatIsNew(p)'
    <3>1. KnowsWhatIsNew(p)
      BY <2>1 DEF Known
    <3>2. There(s.target)' = s.todo
      BY <1>3, <1>8, <1>11, <2>2
    <3>3. CASE x = d
      BY <1>1, <1>3, <1>5, <1>7, <1>8, <1>10, <3>1, <3>3 DEF KnowsWhatIsNew, At
    <3>4. CASE x # d
      BY <1>1, <1>3, <1>5, <1>7, <1>8, <1>10, <2>2, <3>1, <3>2, <3>4 DEF KnowsWhatIsNew, At
    <3>5. QED  BY <3>3, <3>4
  <2>8. MakesDirs(p)' /\ MakesFiles(p)'
    BY <1>5, <1>7, <1>8 DEF MakesDirs, MakesFiles, At, NeedsStructure, Saves, Undoes
  <2>9. QED  BY <2>6, <2>7, <2>8 DEF Known
<1>15. QED  BY <1>6, <1>8, <1>9, <1>10, <1>11, <1>12, <1>14, StepInv DEF Undisturbed, IsInit

----------------------------------------------------------------------------
(* The theorems *)

LEMMA InitSetup ==
  ASSUME Init
  PROVE  SetupInv
<1>1. PICK files \in FirstFiles, there \in FirstDirs :
        LET held == {f \in Paths : files[f] # Missing}
            place == CHOOSE g \in [held -> Inodes] : IsInjective(g)
            owner(i) == {f \in held : place[f] = i}
        IN /\ \A f \in held : Front(f) \in there
           /\ dirs = there
           /\ dir = [f \in Paths |-> IF f \in held THEN place[f] ELSE NoInode]
           /\ data = [i \in Inodes |-> IF owner(i) = {} THEN Empty ELSE files[CHOOSE f \in owner(i) : TRUE]]
           /\ tmp = [f \in Paths |-> NoInode] /\ fd = [p \in Procs |-> NoInode]
           /\ proc = [p \in Procs |-> Idle] /\ commands = 0 /\ troubles = 0
           /\ before = [p \in Procs |-> <<>>]
  BY DEF Init
<1>2. PICK held : held = {f \in Paths : files[f] # Missing}
  OBVIOUS
<1>3. PICK place : place = CHOOSE g \in [held -> Inodes] : IsInjective(g)
  OBVIOUS
<1>4. /\ \A f \in held : Front(f) \in there
      /\ dirs = there
      /\ dir = [f \in Paths |-> IF f \in held THEN place[f] ELSE NoInode]
      /\ tmp = [f \in Paths |-> NoInode] /\ fd = [p \in Procs |-> NoInode]
      /\ proc = [p \in Procs |-> Idle] /\ before = [p \in Procs |-> <<>>]
  BY <1>1, <1>2, <1>3
<1>5. data = [i \in Inodes |-> data[i]]
  BY <1>1
<1>6. place \in [held -> Inodes] /\ IsInjective(place)
  BY <1>2, <1>3, FirstFilesFit
<1>7. \A f, g \in held : place[f] = place[g] => f = g
  BY <1>6 DEF IsInjective
<1>8. NamesAreDistinct
  <2>1. dir \in [Paths -> Entry] /\ tmp \in [Paths -> Entry] /\ fd \in [Procs -> Entry]
    BY <1>4, <1>6 DEF Entry
  <2>2. \A f, g \in Paths : dir[f] = dir[g] /\ dir[f] # NoInode => f = g
    BY <1>4, <1>6, <1>7, NoInodeFresh
  <2>3. \A f, g \in Paths : /\ tmp[f] = tmp[g] /\ tmp[f] # NoInode => f = g
                            /\ dir[f] = tmp[g] => dir[f] = NoInode
    BY <1>4
  <2>4. QED  BY <1>5, <2>1, <2>2, <2>3 DEF NamesAreDistinct
<1>9. there \subseteq Places /\ <<>> \in there /\ IsTree(there)
  BY FirstIsATree DEF Places
<1>10. DirsAreATree
  BY <1>4, <1>9 DEF DirsAreATree, file_exists
<1>11. SetupTypeOK /\ CommandsMakeSense
  BY <1>4, <1>9, IdleFacts DEF SetupTypeOK, CommandsMakeSense
<1>12. InitInv
  BY <1>4 DEF InitInv, Undisturbed
<1>13. QED  BY <1>8, <1>10, <1>11, <1>12 DEF SetupInv, FilesInv

LEMMA StutterSetup ==
  ASSUME SetupInv, UNCHANGED setupVars
  PROVE  SetupInv'
<1>1. /\ UNCHANGED fileVars /\ dirs' = dirs /\ proc' = proc /\ before' = before
      /\ dir' = dir /\ tmp' = tmp /\ data' = data /\ fd' = fd
  BY DEF setupVars, fileVars
<1>2. NamesAreDistinct' /\ DirsAreATree'
  BY <1>1, SameFiles
<1>3. SetupTypeOK' /\ CommandsMakeSense'
  BY <1>1 DEF SetupInv, FilesInv, SetupTypeOK, CommandsMakeSense
<1>4. \A f \in Paths : file_exists(f)' = file_exists(f) /\ read_file(f)' = read_file(f)
  BY <1>1 DEF file_exists, read_file
<1>5. ASSUME NEW p \in Procs, Undisturbed(p)' PROVE Known(p)'
  <2>1. Known(p) /\ Had(p)' = Had(p)
    BY <1>1, <1>5 DEF SetupInv, InitInv, Undisturbed, IsInit, Known, Had
  <2>2. KeepsWhatWas(p)'
    BY <1>1, <1>4, <2>1 DEF Known, KeepsWhatWas
  <2>3. KnowsWhatIsNew(p)'
    BY <1>1, <2>1 DEF Known, KnowsWhatIsNew, At, There, file_exists
  <2>4. MakesDirs(p)'
    BY <1>1, <2>1 DEF Known, MakesDirs, At
  <2>5. OthersAreWritten(p)' <=> OthersAreWritten(p)
    BY <1>1, <1>4, <2>1, InPlaceFacts DEF OthersAreWritten, At
  <2>6. MakesFiles(p)'
    BY <1>1, <2>1, <2>5 DEF Known, MakesFiles, At, RepositoryOpens, qgit_config_open_ondisk,
                            iniparse_open, IsMapped, read_file, file_exists
  <2>7. QED  BY <2>2, <2>3, <2>4, <2>6 DEF Known
<1>6. InitInv'
  BY <1>5 DEF InitInv, Known
<1>7. QED  BY <1>2, <1>3, <1>6 DEF SetupInv, FilesInv

(* Whatever processes do to the file system and wherever a system call fails *)
(* or a process is killed: an inode has one name, directories and files are  *)
(* in directories that exist, and an init that nobody disturbed has lost     *)
(* nothing, knows what it made, and has made what its place in the program   *)
(* says (repository_init.c, mkdirp and rmdirr in fileutils.c,                *)
(* iniparse_writeto).                                                        *)
THEOREM SetupInvariant == Spec => []SetupInv
<1>1. Init => SetupInv
  BY InitSetup
<1>2. SetupInv /\ [Next]_setupVars => SetupInv'
  <2>1. SUFFICES ASSUME SetupInv, [Next]_setupVars PROVE SetupInv'
    OBVIOUS
  <2>2. CASE UNCHANGED setupVars
    BY <2>1, <2>2, StutterSetup
  <2>3. CASE Next
    <3>1. PICK p \in Procs :
            \/ StartInit(p) \/ CheckPath(p) \/ CheckRepodir(p) \/ CreateStructure(p) \/ CreateConfig(p)
            \/ CreateFiles(p) \/ FopenInPlace(p) \/ FprintInPlace(p) \/ OpenRepository(p)
            \/ Rollback(p) \/ Rmdirr(p) \/ RmdirrEnds(p) \/ RmdirrFails(p)
            \/ Mkdir(p) \/ FopenLock(p) \/ FprintLock(p) \/ RenameLock(p) \/ UnlinkLock(p)
            \/ UnlinkConfig(p) \/ StartConfig(p) \/ LoadConfig(p) \/ Exit(p) \/ DieMapping(p) \/ Kill(p)
      BY <2>3 DEF Next
    <3>2. CASE StartInit(p) \/ CheckPath(p) \/ CheckRepodir(p) \/ CreateStructure(p) \/ Mkdir(p)
      BY <2>1, <3>2, StartInitInv, CheckPathInv, CheckRepodirInv, CreateStructureInv, MkdirInv
    <3>3. CASE CreateConfig(p) \/ CreateFiles(p) \/ FopenInPlace(p) \/ FprintInPlace(p) \/ OpenRepository(p)
      BY <2>1, <3>3, CreateConfigInv, CreateFilesInv, FopenInPlaceInv, FprintInPlaceInv, OpenRepositoryInv
    <3>4. CASE Rollback(p) \/ Rmdirr(p) \/ RmdirrEnds(p) \/ RmdirrFails(p)
      BY <2>1, <3>4, RollbackInv, RmdirrInv, RmdirrEndsInv, RmdirrFailsInv
    <3>5. CASE FopenLock(p) \/ FprintLock(p) \/ RenameLock(p) \/ UnlinkLock(p) \/ UnlinkConfig(p)
      BY <2>1, <3>5, FopenLockInv, FprintLockInv, RenameLockInv, UnlinkLockInv, UnlinkConfigInv
    <3>6. CASE StartConfig(p) \/ LoadConfig(p) \/ Exit(p) \/ DieMapping(p) \/ Kill(p)
      BY <2>1, <3>6, StartConfigInv, LoadConfigInv, ExitInv, DieMappingInv, KillInv
    <3>7. QED  BY <3>1, <3>2, <3>3, <3>4, <3>5, <3>6
  <2>4. QED  BY <2>1, <2>2, <2>3
<1>3. QED  BY <1>1, <1>2, PTL DEF Spec

(* An init that nobody disturbed and that failed, at whatever step, leaves   *)
(* every directory and file as it found it and removes the two directories   *)
(* it made (repository_init.c).                                              *)
THEOREM FailedInitsLeaveNoTrace == Spec => []FailedInitLeavesNoTrace
<1>1. ASSUME SetupInv PROVE FailedInitLeavesNoTrace
  <2>1. SUFFICES ASSUME NEW p \in Procs, Alone(p, "failed") /\ IsInit(p)
                 PROVE  /\ before[p].dirs \subseteq dirs
                        /\ dirs \cap {Work, Repo} \subseteq before[p].dirs
                        /\ \A f \in Had(p) : read_file(f) = before[p].files[f]
    BY DEF FailedInitLeavesNoTrace
  <2>2. KeepsWhatWas(p) /\ KnowsWhatIsNew(p) /\ proc[p].pc = "failed"
    BY <1>1, <2>1 DEF SetupInv, InitInv, Undisturbed, Alone, At
  <2>3. QED  BY <2>2 DEF KeepsWhatWas, KnowsWhatIsNew, At
<1>2. QED  BY <1>1, SetupInvariant, PTL

(* From anywhere at or below the work directory, where no directory on the   *)
(* way has a repository of its own, the repository is found.                 *)
LEMMA RepositoryIsFound ==
  ASSUME SetupInv, NEW d \in Range(Structure), Repo \in dirs
  PROVE  qgit_repository_discover(d) = Repo
<1> DEFINE there == {i \in 0..Len(d) : Append(SubSeq(d, 1, i), ".qgit") \in dirs}
<1>1. PICK n \in Nat : n = Len(Work)
  BY RepoFacts
<1>2. d \in Seq(Names) /\ Work \in Above(d) /\ Repo \in Above(d)
  <2>1. PICK i \in 1..Len(Structure) : d = Structure[i]
    BY StructureIsBelowRepo DEF Range
  <2>2. QED  BY <2>1, StructureFacts
<1>3. n \in 0..Len(d) /\ SubSeq(d, 1, n) = Work
  <2>1. PICK i \in 0..Len(d) : Work = SubSeq(d, 1, i)
    BY <1>2 DEF Above
  <2>2. i = n
    BY <1>1, <1>2, <2>1, Down
  <2>3. QED  BY <2>1, <2>2
<1>4. n \in there
  BY <1>3 DEF Repo
<1>5. ASSUME NEW j \in there PROVE j <= n
  <2>1. PICK e : e = Append(SubSeq(d, 1, j), ".qgit")
    OBVIOUS
  <2>2. e \in dirs /\ j \in 0..Len(d)
    BY <2>1
  <2>3. SUFFICES ASSUME j > n PROVE FALSE
    BY <1>1, <2>2
  <2>4. SubSeq(d, 1, j) \in Seq(Names) /\ Len(SubSeq(d, 1, j)) = j
    BY <1>2, <2>2, Down
  <2>5. /\ e \in Seq(Names) /\ e # <<>> /\ Len(e) = j + 1 /\ Front(e) = SubSeq(d, 1, j)
        /\ Last(e) = ".qgit"
    BY <2>1, <2>4, NextFacts, NamesOfOurOwn
  <2>6. e \in Places
    BY <2>2 DEF SetupInv, FilesInv, SetupTypeOK
  <2>7. Repo \in Above(Front(e))
    <3>1. PICK k \in 0..Len(d) : Repo = SubSeq(d, 1, k)
      BY <1>2 DEF Above
    <3>2. k = n + 1 /\ k \in 0..j
      <4>1. Len(Repo) = k /\ Len(Repo) = n + 1
        BY <1>1, <1>2, <3>1, Down, RepoFacts
      <4>2. QED  BY <2>2, <2>3, <4>1
    <3>3. SubSeq(SubSeq(d, 1, j), 1, k) = SubSeq(d, 1, k)
      BY <1>2, <2>2, <3>2, DownDown
    <3>4. k \in 0..Len(SubSeq(d, 1, j))
      BY <2>4, <3>2
    <3>5. Repo = SubSeq(SubSeq(d, 1, j), 1, k)
      BY <3>1, <3>3, Zenon
    <3>6. QED  BY <2>5, <3>4, <3>5, Zenon DEF Above
  <2>8. Repo \in Above(e) /\ Repo # e
    <3>1. Repo \in Above(e)
      BY <2>5, <2>7, FrontFacts
    <3>2. Len(Repo) = n + 1
      BY <1>1, RepoFacts
    <3>3. QED  BY <2>2, <2>3, <2>5, <3>1, <3>2
  <2>9. IsStrictPrefix(Repo, e)
    BY <2>5, <2>8, PrefixIsAbove, RepoFacts DEF IsStrictPrefix
  <2>10. QED  BY <2>5, <2>6, <2>9, FirstIsATree
<1>6. there # {} /\ \A j \in there : j <= n
  BY <1>4, <1>5
<1>7. \A k \in there : (\A j \in there : j <= k) => k = n
  BY <1>1, <1>4, <1>5
<1>8. (CHOOSE i \in there : \A j \in there : j <= i) = n
  <2>1. \E i \in there : \A j \in there : j <= i
    BY <1>4, <1>6
  <2>2. PICK k : k = CHOOSE i \in there : \A j \in there : j <= i
    OBVIOUS
  <2>3. k \in there /\ \A j \in there : j <= k
    BY <2>1, <2>2
  <2>4. k = n
    BY <1>7, <2>3
  <2>5. QED  BY <2>2, <2>4
<1>9. qgit_repository_discover(d) = Append(SubSeq(d, 1, CHOOSE i \in there : \A j \in there : j <= i), ".qgit")
  BY <1>6 DEF qgit_repository_discover
<1>10. QED  BY <1>3, <1>8, <1>9, Zenon DEF Repo

(* An init that nobody disturbed and that succeeded leaves a repository that *)
(* is found and opens, with its structure, the files that were there as they *)
(* were and the others whole, also where an init that was killed left a part *)
(* of one (repository_init.c).                                               *)
THEOREM InitsMakeRepositories == Spec => []InitMakesRepository
<1>1. ASSUME SetupInv PROVE InitMakesRepository
  <2>1. SUFFICES ASSUME NEW p \in Procs, Alone(p, "done") /\ IsInit(p)
                 PROVE  /\ RepositoryOpens
                        /\ \A d \in Range(Structure) : qgit_repository_discover(d) = Repo
                        /\ Range(Structure) \subseteq dirs
                        /\ \A f \in Had(p) : read_file(f) = before[p].files[f]
                        /\ proc[p].cut \/ \A f \in Range(InPlace) \ Had(p) : read_file(f) = Initial[f]
    BY DEF InitMakesRepository
  <2>2. KeepsWhatWas(p) /\ MakesDirs(p) /\ MakesFiles(p) /\ proc[p].pc = "done"
    BY <1>1, <2>1 DEF SetupInv, InitInv, Undisturbed, Alone, At
  <2>3. RepositoryOpens /\ OthersAreWritten(p)
    BY <2>2 DEF MakesFiles, At, Undoes
  <2>4. {Work, Repo} \cup Range(Structure) \subseteq dirs
    BY <2>2 DEF MakesDirs, NeedsStructure
  <2>5. \A d \in Range(Structure) : qgit_repository_discover(d) = Repo
    BY <1>1, <2>4, RepositoryIsFound
  <2>6. \A f \in Had(p) : read_file(f) = before[p].files[f]
    BY <2>2 DEF KeepsWhatWas
  <2>7. ASSUME ~proc[p].cut, NEW f \in Range(InPlace) \ Had(p)
        PROVE  read_file(f) = Initial[f]
    <3>1. PICK i \in 1..Len(InPlace) : f = InPlace[i]
      BY EachFileIsMadeOnce DEF Range
    <3>2. Written(proc[p]) = Len(InPlace) /\ Len(InPlace) \in Nat
      BY <2>2, EachFileIsMadeOnce DEF Written
    <3>3. i <= Written(proc[p])
      BY <3>2
    <3>4. QED  BY <2>3, <2>7, <3>1, <3>3 DEF OthersAreWritten
  <2>8. QED  BY <2>3, <2>4, <2>5, <2>6, <2>7
<1>2. QED  BY <1>1, SetupInvariant, PTL

----------------------------------------------------------------------------
(* Changing a configuration *)

(* The files but f are left as the command found them, by a step that leaves *)
(* them alone.                                                               *)
LEMMA AsItWasStays ==
  ASSUME NEW p \in Procs, NEW f \in Paths, IsAsItWas(p, f), before'[p] = before[p],
         file_exists(f)' = file_exists(f), file_exists(f) => read_file(f)' = read_file(f)
  PROVE  IsAsItWas(p, f)'
BY DEF IsAsItWas, Had

(* What it found, and makes of it, is settled when it begins. *)
LEMMA FoundStays ==
  ASSUME NEW p \in Procs, before'[p] = before[p], proc'[p].change = proc[p].change
  PROVE  Found(p)' = Found(p) /\ Changed(p)' = Changed(p)
BY DEF Found, Changed, Had

(* Of two commands, only the one that did the step knows anything. *)
LEMMA OnlyItsOwn ==
  ASSUME SetupInv, NEW p \in Procs, NEW s, Become(p, s),
         before[p] # <<>> /\ s.op \in {"set", "unset"} => ChangesItsFile(p)'
  PROVE  ConfigInv'
<1>1. proc'[p] = s /\ before'[p] = before[p]
  BY Becomes
<1>2. \A q \in Procs : q # p => before'[q] = <<>>
  BY DEF Become
<1>3. ASSUME NEW q \in Procs, before'[q] # <<>>, Asks(q)' PROVE ChangesItsFile(q)'
  <2>1. q = p
    BY <1>2, <1>3
  <2>2. s.op \in {"set", "unset"} /\ before[p] # <<>>
    BY <1>1, <1>3, <2>1 DEF Asks
  <2>3. QED  BY <2>1, <2>2
<1>4. QED  BY <1>3 DEF ConfigInv

(* A step of init, whose command stays one. *)
LEMMA InitsOwn ==
  ASSUME SetupInv, NEW p \in Procs, proc[p].pc \in Inits, NEW s, Become(p, s), s.op = proc[p].op
  PROVE  ConfigInv'
<1>1. proc[p].op = "init"
  BY Becomes DEF MakesSense
<1>2. QED  BY <1>1, OnlyItsOwn

LEMMA InitsGo ==
  ASSUME SetupInv, NEW p \in Procs, proc[p].pc \in Inits, NEW pc, Goto(p, pc)
  PROVE  ConfigInv'
<1>1. PICK s : s = [proc[p] EXCEPT !.pc = pc] /\ Become(p, s)
  BY DEF Goto
<1>2. IsCommand(proc[p])
  BY <1>1, Becomes
<1>3. s.op = proc[p].op
  BY <1>1, <1>2 DEF IsCommand
<1>4. QED  BY <1>1, <1>3, InitsOwn

LEMMA InitsFail ==
  ASSUME SetupInv, NEW p \in Procs, proc[p].pc \in Inits, Fail(p)
  PROVE  ConfigInv'
BY InitsGo DEF Fail

LEMMA InitsAsk ==
  ASSUME SetupInv, NEW p \in Procs, proc[p].pc \in Inits, NEW d, NEW then, Mkdirp(p, d, then)
  PROVE  ConfigInv'
<1>1. PICK s : s = Asked(proc[p], d, then) /\ Become(p, s)
  BY DEF Mkdirp, Asked
<1>2. IsCommand(proc[p])
  BY <1>1, Becomes
<1>3. s.op = proc[p].op
  BY <1>1, <1>2 DEF IsCommand, Asked
<1>4. QED  BY <1>1, <1>3, InitsOwn

LEMMA InitsMake ==
  ASSUME SetupInv, NEW p \in Procs, proc[p].pc \in Inits, Made(p)
  PROVE  ConfigInv'
<1>1. PICK s : Become(p, s) /\ s.op = proc[p].op
  <2>1. IsCommand(proc[p])
    BY DEF SetupInv, FilesInv, SetupTypeOK
  <2>2. CASE Len(proc[p].mk) > 1
    <3>1. Become(p, [proc[p] EXCEPT !.mk = Front(@), !.again = TRUE])
      BY <2>2 DEF Made
    <3>2. [proc[p] EXCEPT !.mk = Front(@), !.again = TRUE].op = proc[p].op
      BY <2>1 DEF IsCommand
    <3>3. QED  BY <3>1, <3>2
  <2>3. CASE ~(Len(proc[p].mk) > 1)
    <3>1. PICK n, w, r : Become(p, [proc[p] EXCEPT !.pc = proc[p].then, !.mk = <<>>, !.again = FALSE,
                                      !.next = n, !.work_created = w, !.repodir_created = r])
      BY <2>3 DEF Made
    <3>2. [proc[p] EXCEPT !.pc = proc[p].then, !.mk = <<>>, !.again = FALSE,
                                      !.next = n, !.work_created = w, !.repodir_created = r].op = proc[p].op
      BY <2>1 DEF IsCommand
    <3>3. QED  BY <3>1, <3>2
  <2>4. QED  BY <2>2, <2>3
<1>2. QED  BY <1>1, InitsOwn

LEMMA InitStepsKeepConfigs ==
  ASSUME SetupInv, NEW p \in Procs,
         \/ CheckPath(p) \/ CheckRepodir(p) \/ CreateStructure(p) \/ CreateConfig(p)
         \/ CreateFiles(p) \/ FopenInPlace(p) \/ FprintInPlace(p) \/ OpenRepository(p)
         \/ Rollback(p) \/ Rmdirr(p) \/ RmdirrEnds(p) \/ Mkdir(p)
  PROVE  ConfigInv'
<1>1. proc[p].pc \in Inits
  BY DEF CheckPath, CheckRepodir, CreateStructure, CreateConfig, CreateFiles, FopenInPlace,
         FprintInPlace, OpenRepository, Rollback, Rmdirr, RmdirrEnds, Mkdir, At, Inits
<1>2. IsCommand(proc[p])
  BY DEF SetupInv, FilesInv, SetupTypeOK
<1>3. CASE CheckPath(p) \/ CheckRepodir(p)
  BY <1>1, <1>3, InitsGo, InitsAsk DEF CheckPath, CheckRepodir
<1>4. CASE CreateStructure(p)
  <2>1. \/ \E d : Mkdirp(p, d, "dirs")
        \/ Become(p, [proc[p] EXCEPT !.pc = "config", !.next = 1])
        \/ Become(p, [proc[p] EXCEPT !.next = @ + 1])
    BY <1>4 DEF CreateStructure
  <2>2. /\ [proc[p] EXCEPT !.pc = "config", !.next = 1].op = proc[p].op
        /\ [proc[p] EXCEPT !.next = @ + 1].op = proc[p].op
    BY <1>2 DEF IsCommand
  <2>3. QED  BY <1>1, <2>1, <2>2, InitsAsk, InitsOwn
<1>5. CASE CreateConfig(p)
  <2>1. \/ Goto(p, "files")
        \/ Become(p, [proc[p] EXCEPT !.pc = "lock", !.ini = DefaultConfig])
    BY <1>5 DEF CreateConfig
  <2>2. [proc[p] EXCEPT !.pc = "lock", !.ini = DefaultConfig].op = proc[p].op
    BY <1>2 DEF IsCommand
  <2>3. QED  BY <1>1, <2>1, <2>2, InitsGo, InitsOwn
<1>6. CASE CreateFiles(p)
  <2>1. PICK s : Become(p, s) /\ (\/ s = [proc[p] EXCEPT !.pc = "open"]
                                  \/ s = [proc[p] EXCEPT !.next = @ + 1]
                                  \/ s = [proc[p] EXCEPT !.pc = "create"])
    BY <1>6 DEF CreateFiles
  <2>2. s.op = proc[p].op
    BY <1>2, <2>1 DEF IsCommand
  <2>3. QED  BY <1>1, <2>1, <2>2, InitsOwn
<1>7. CASE FopenInPlace(p)
  BY <1>1, <1>7, InitsGo, InitsFail DEF FopenInPlace
<1>8. CASE FprintInPlace(p)
  <2>1. PICK s : Become(p, s) /\ (\/ s = [proc[p] EXCEPT !.pc = "files", !.next = @ + 1]
                                  \/ s = [proc[p] EXCEPT !.pc = "files", !.next = @ + 1, !.cut = TRUE])
    BY <1>8 DEF FprintInPlace
  <2>2. s.op = proc[p].op
    BY <1>2, <2>1 DEF IsCommand
  <2>3. QED  BY <1>1, <2>1, <2>2, InitsOwn
<1>9. CASE OpenRepository(p) \/ RmdirrEnds(p)
  BY <1>1, <1>9, InitsGo, InitsFail DEF OpenRepository, RmdirrEnds
<1>10. CASE Rollback(p)
  <2>1. PICK s, w :
          /\ Become(p, s)
          /\ \/ s = [proc[p] EXCEPT !.pc = "failed"]
             \/ s = [proc[p] EXCEPT !.pc = "remove", !.target = Work, !.todo = w, !.work_created = FALSE]
             \/ s = [proc[p] EXCEPT !.pc = "remove", !.target = Repo, !.todo = w, !.repodir_created = FALSE]
    BY <1>10 DEF Rollback, Goto
  <2>2. s.op = proc[p].op
    BY <1>2, <2>1 DEF IsCommand
  <2>3. QED  BY <1>1, <2>1, <2>2, InitsOwn
<1>11. CASE Rmdirr(p)
  <2>1. PICK x : Become(p, [proc[p] EXCEPT !.todo = @ \ {x}, !.pc = IF x = proc[p].target THEN "rollback" ELSE @])
    BY <1>11 DEF Rmdirr
  <2>2. [proc[p] EXCEPT !.todo = @ \ {x}, !.pc = IF x = proc[p].target THEN "rollback" ELSE @].op = proc[p].op
    BY <1>2 DEF IsCommand
  <2>3. QED  BY <1>1, <2>1, <2>2, InitsOwn
<1>12. CASE Mkdir(p)
  <2>1. \/ Fail(p) \/ Made(p)
        \/ Become(p, [proc[p] EXCEPT !.mk = Append(@, Front(Last(proc[p].mk)))])
    BY <1>12 DEF Mkdir
  <2>2. [proc[p] EXCEPT !.mk = Append(@, Front(Last(proc[p].mk)))].op = proc[p].op
    BY <1>2 DEF IsCommand
  <2>3. QED  BY <1>1, <2>1, <2>2, InitsFail, InitsMake, InitsOwn
<1>13. QED  BY <1>3, <1>4, <1>5, <1>6, <1>7, <1>8, <1>9, <1>10, <1>11, <1>12

(* A step of a qgit config that leaves the published files alone and is not  *)
(* its last; what it has to know at its new place is given.                  *)
LEMMA ConfigStep ==
  ASSUME SetupInv, ConfigInv, NEW p \in Procs, NEW s, Become(p, s), IsCommand(proc[p]),
         proc[p].pc # "done", s.op = proc[p].op, s.change = proc[p].change, s.pc # "done",
         before[p] # <<>> /\ Asks(p) /\ ChangesItsFile(p) =>
           /\ \A f \in Paths : /\ file_exists(f)' = file_exists(f)
                               /\ file_exists(f) => read_file(f)' = read_file(f)
           /\ s.pc \in {"lock", "write"} => s.ini = Changed(p)
           /\ s.pc = "write" => fd'[p] = tmp'[s.change.file] /\ fd'[p] # NoInode /\ data'[fd'[p]] = Empty
           /\ s.pc = "rename" => s.cut \/ data'[tmp'[s.change.file]] = iniparse_write(Changed(p))
           /\ s.change.op = "unset" /\ s.pc \in {"lock", "write", "rename"} =>
                EntryAt(Found(p), s.change.sec, s.change.key) # 0
  PROVE  ConfigInv'
<1>1. proc'[p] = s /\ before'[p] = before[p] /\ s.change = proc[p].change
  BY Becomes
<1>2. ASSUME before[p] # <<>>, s.op \in {"set", "unset"} PROVE ChangesItsFile(p)'
  <2>1. ChangesItsFile(p) /\ Asks(p)
    BY <1>2 DEF ConfigInv, Asks
  <2>2. Found(p)' = Found(p) /\ Changed(p)' = Changed(p)
    BY <1>1, FoundStays
  <2>3. \A f \in Paths : IsAsItWas(p, f)
    BY <2>1 DEF ChangesItsFile, At
  <2>4. \A f \in Paths : IsAsItWas(p, f)'
    BY <1>1, <1>2, <2>1, <2>3, AsItWasStays
  <2>5. QED  BY <1>1, <1>2, <2>1, <2>2, <2>4 DEF ChangesItsFile, At
<1>3. QED  BY <1>2, OnlyItsOwn

LEMMA LoadConfigKeepsConfigs ==
  ASSUME SetupInv, ConfigInv, NEW p \in Procs, LoadConfig(p)
  PROVE  ConfigInv'
<1>1. OnlyReads /\ proc[p].pc = "load" /\ IsCommand(proc[p]) /\ MakesSense(proc[p])
  BY DEF LoadConfig, At, SetupInv, FilesInv, SetupTypeOK, CommandsMakeSense
<1>2. \A f \in Paths : file_exists(f)' = file_exists(f) /\ read_file(f)' = read_file(f)
  BY <1>1 DEF OnlyReads, fileVars, file_exists, read_file
<1>3. CASE Goto(p, "failed")
  <2>1. PICK s : s = [proc[p] EXCEPT !.pc = "failed"] /\ Become(p, s)
    BY <1>3 DEF Goto
  <2>2. s.pc = "failed" /\ s.op = proc[p].op /\ s.change = proc[p].change
    BY <1>1, <2>1, GotoFacts
  <2>3. QED  BY <1>1, <1>2, <2>1, <2>2, ConfigStep
<1>4. CASE ~Goto(p, "failed")
  <2>1. PICK c, ini : c = proc[p].change /\ ini = IF file_exists(c.file) THEN iniparse_parse(read_file(c.file)).ini ELSE <<>>
    OBVIOUS
  <2>2. PICK new, s : /\ new = IF c.op = "set" THEN qgit_config_set_string(ini, c) ELSE qgit_config_delete(ini, c)
                      /\ s = WithIni(proc[p], "lock", new) /\ Become(p, s)
                      /\ c.op = "unset" => EntryAt(ini, c.sec, c.key) # 0
    BY <1>4, <2>1 DEF LoadConfig, WithIni
  <2>3. /\ s.pc = "lock" /\ s.op = proc[p].op /\ s.change = proc[p].change
    BY <1>1, <2>2, SavesFacts DEF Saves
  <2>4. s.ini = new
    BY <1>1, <2>2 DEF WithIni, IsCommand
  <2>5. c.file \in Paths
    BY <1>1, <2>1, ChangesAreOfFiles, EachFileIsMadeOnce DEF MakesSense
  <2>6. ASSUME ChangesItsFile(p) PROVE Found(p) = ini
    <3>1. IsAsItWas(p, c.file)
      BY <1>1, <2>5, <2>6 DEF ChangesItsFile, At
    <3>2. QED  BY <2>1, <3>1 DEF IsAsItWas, Found
  <2>7. ASSUME ChangesItsFile(p) PROVE Changed(p) = new
    BY <2>1, <2>2, <2>6, <2>7 DEF Changed
  <2>8. QED  BY <1>1, <1>2, <2>1, <2>2, <2>3, <2>4, <2>6, <2>7, ConfigStep
<1>5. QED  BY <1>3, <1>4

(* What is in the lock file of a command that has opened it. *)
LEMMA OpenTmpEmpties ==
  ASSUME NamesAreDistinct, NEW p \in Procs, NEW f \in Paths, OpenTmp(p, f)
  PROVE  data'[fd'[p]] = Empty
<1>1. PICK i \in Inodes : fd' = [fd EXCEPT ![p] = i] /\ data' = [data EXCEPT ![i] = Empty]
  <2>1. CASE tmp[f] # NoInode
    BY <2>1 DEF OpenTmp, NamesAreDistinct, Entry
  <2>2. CASE tmp[f] = NoInode
    BY <2>2 DEF OpenTmp, FreeInodes
  <2>3. QED  BY <2>1, <2>2
<1>2. fd'[p] = i
  BY <1>1 DEF NamesAreDistinct
<1>3. data'[i] = Empty
  BY <1>1 DEF NamesAreDistinct
<1>4. QED  BY <1>2, <1>3

LEMMA FopenLockKeepsConfigs ==
  ASSUME SetupInv, ConfigInv, NEW p \in Procs, FopenLock(p)
  PROVE  ConfigInv'
<1>1. proc[p].pc = "lock" /\ File(p) \in Paths /\ NamesAreDistinct /\ IsCommand(proc[p])
  BY SavesAFile DEF FopenLock, At, Saves
<1>2. PICK pc, s : s = [proc[p] EXCEPT !.pc = pc] /\ Become(p, s) /\
        (\/ pc = "unlink" /\ UNCHANGED fileVars
         \/ pc = "write" /\ OpenTmp(p, File(p)))
  BY DEF FopenLock, Goto
<1>3. s.pc = pc /\ s.op = proc[p].op /\ s.change = proc[p].change /\ s.ini = proc[p].ini
  BY <1>1, <1>2, GotoFacts DEF Saves
<1>4. CASE pc = "unlink" /\ UNCHANGED fileVars
  <2>1. \A f \in Paths : file_exists(f)' = file_exists(f) /\ read_file(f)' = read_file(f)
    BY <1>4 DEF fileVars, file_exists, read_file
  <2>2. QED  BY <1>1, <1>2, <1>3, <1>4, <2>1, ConfigStep
<1>5. CASE pc = "write" /\ OpenTmp(p, File(p))
  <2>1. /\ dir' = dir /\ tmp'[File(p)] # NoInode /\ fd'[p] = tmp'[File(p)]
        /\ \A g \in Paths : file_exists(g) => file_exists(g)' /\ read_file(g)' = read_file(g)
    BY <1>1, <1>5, OpenTmpFacts
  <2>2. \A g \in Paths : file_exists(g)' = file_exists(g)
    BY <2>1 DEF file_exists
  <2>3. data'[fd'[p]] = Empty
    BY <1>1, <1>5, OpenTmpEmpties
  <2>4. Asks(p) => File(p) = s.change.file
    BY <1>3 DEF Asks, File
  <2>5. ASSUME ChangesItsFile(p) PROVE /\ s.ini = Changed(p)
                                       /\ s.change.op = "unset" => EntryAt(Found(p), s.change.sec, s.change.key) # 0
    BY <1>1, <1>3, <2>5 DEF ChangesItsFile
  <2>6. QED  BY <1>1, <1>2, <1>3, <1>5, <2>1, <2>2, <2>3, <2>4, <2>5, ConfigStep
<1>6. QED  BY <1>2, <1>4, <1>5

LEMMA FprintLockKeepsConfigs ==
  ASSUME SetupInv, ConfigInv, NEW p \in Procs, FprintLock(p)
  PROVE  ConfigInv'
<1>1. proc[p].pc = "write" /\ NamesAreDistinct /\ IsCommand(proc[p]) /\ MakesSense(proc[p])
  BY SavesAFile DEF FprintLock, At, Saves
<1>2. PICK s, c :
        /\ WriteAndClose(p, c) /\ Become(p, s)
        /\ \/ /\ s = [proc[p] EXCEPT !.pc = "rename", !.ini = <<>>]
              /\ c = Over(iniparse_write(proc[p].ini), data[fd[p]])
           \/ s = [proc[p] EXCEPT !.pc = "rename", !.ini = <<>>, !.cut = TRUE]
  BY DEF FprintLock
<1>3. /\ s.pc = "rename" /\ s.op = proc[p].op /\ s.change = proc[p].change
      /\ s.cut \/ c = Over(iniparse_write(proc[p].ini), data[fd[p]])
  BY <1>1, <1>2 DEF IsCommand
<1>4. /\ dir' = dir /\ tmp' = tmp
      /\ \A g \in Paths : file_exists(g) => file_exists(g)' /\ (dir[g] # fd[p] => read_file(g)' = read_file(g))
  BY <1>1, <1>2, CloseFacts
<1>5. ASSUME Asks(p), ChangesItsFile(p)
      PROVE  /\ \A f \in Paths : /\ file_exists(f)' = file_exists(f)
                                 /\ file_exists(f) => read_file(f)' = read_file(f)
             /\ s.cut \/ data'[tmp'[s.change.file]] = iniparse_write(Changed(p))
             /\ s.change.op = "unset" => EntryAt(Found(p), s.change.sec, s.change.key) # 0
  <2>1. PICK own \in Paths : own = proc[p].change.file
    BY <1>1, <1>5, ChangesAreOfFiles, EachFileIsMadeOnce DEF Asks, MakesSense
  <2>2. fd[p] = tmp[own] /\ fd[p] # NoInode /\ data[fd[p]] = Empty /\ proc[p].ini = Changed(p)
    BY <1>1, <1>5, <2>1 DEF ChangesItsFile, At
  <2>3. \A f \in Paths : dir[f] # fd[p] \/ ~file_exists(f)
    BY <1>1, <2>1, <2>2 DEF NamesAreDistinct, file_exists
  <2>4. \A f \in Paths : file_exists(f)' = file_exists(f) /\ (file_exists(f) => read_file(f)' = read_file(f))
    BY <1>4, <2>3 DEF file_exists
  <2>5. data'[tmp'[own]] = c
    <3>1. tmp[own] \in Inodes /\ tmp[own] = fd[p]
      BY <1>1, <2>1, <2>2 DEF NamesAreDistinct, Entry
    <3>2. tmp[own] \in Linked(dir, tmp, fd')
      BY <2>1 DEF Linked
    <3>3. data' = Reclaimed([data EXCEPT ![fd[p]] = c], dir, tmp, fd')
      BY <1>2 DEF WriteAndClose
    <3>4. [data EXCEPT ![fd[p]] = c][tmp[own]] = c
      BY <1>1, <3>1 DEF NamesAreDistinct
    <3>5. QED  BY <1>4, <3>1, <3>2, <3>3, <3>4 DEF Reclaimed
  <2>6. s.cut \/ c = iniparse_write(Changed(p))
    BY <1>3, <2>2 DEF Over
  <2>7. s.change.op = "unset" => EntryAt(Found(p), s.change.sec, s.change.key) # 0
    BY <1>1, <1>3, <1>5 DEF ChangesItsFile
  <2>8. QED  BY <1>3, <2>1, <2>4, <2>5, <2>6, <2>7
<1>6. QED  BY <1>1, <1>2, <1>3, <1>5, ConfigStep

(* What the lock file holds is published whole. *)
LEMMA RenamePublishes ==
  ASSUME NamesAreDistinct, NEW f \in Paths, RenameTmp(f), CanRenameTmp(f)
  PROVE  read_file(f)' = data[tmp[f]]
<1>1. dir'[f] = tmp[f] /\ tmp[f] # NoInode /\ tmp[f] \in Inodes
  BY DEF NamesAreDistinct, RenameTmp, CanRenameTmp, Entry
<1>2. dir'[f] \in Linked(dir', tmp', fd)
  BY DirIsLinked
<1>3. data'[dir'[f]] = data[tmp[f]]
  BY <1>1, <1>2 DEF RenameTmp, Reclaimed
<1>4. QED  BY <1>1, <1>3 DEF read_file, file_exists

LEMMA RenameLockKeepsConfigs ==
  ASSUME SetupInv, ConfigInv, NEW p \in Procs, RenameLock(p)
  PROVE  ConfigInv'
<1>1. /\ proc[p].pc = "rename" /\ NamesAreDistinct /\ IsCommand(proc[p]) /\ MakesSense(proc[p])
      /\ File(p) \in Paths
  BY SavesAFile DEF RenameLock, At, Saves
<1>2. PICK pc, s : s = [proc[p] EXCEPT !.pc = pc] /\ Become(p, s) /\
        (\/ pc = "unlock" /\ UNCHANGED fileVars
         \/ /\ pc = IF proc[p].op = "init" THEN "files" ELSE "done"
            /\ CanRenameTmp(File(p)) /\ RenameTmp(File(p)))
  BY DEF RenameLock, Goto
<1>3. pc \in {"unlock", "files", "done"}
  BY <1>2
<1>4. s.pc = pc /\ s.op = proc[p].op /\ s.change = proc[p].change /\ s.cut = proc[p].cut
  BY <1>1, <1>2, <1>3, GotoFacts DEF Saves, Inits
<1>5. CASE pc = "unlock" /\ UNCHANGED fileVars
  <2>1. \A f \in Paths : file_exists(f)' = file_exists(f) /\ read_file(f)' = read_file(f)
    BY <1>5 DEF fileVars, file_exists, read_file
  <2>2. QED  BY <1>1, <1>2, <1>4, <1>5, <2>1, ConfigStep
<1>6. CASE pc # "unlock"
  <2>1. ASSUME before[p] # <<>>, s.op \in {"set", "unset"} PROVE ChangesItsFile(p)'
    <3>1. ChangesItsFile(p) /\ File(p) = proc[p].change.file /\ pc = "done"
      BY <1>2, <1>4, <1>6, <2>1 DEF ConfigInv, Asks, File
    <3>2. PICK own \in Paths : own = File(p)
      BY <1>1
    <3>3. \A g \in Paths : g # own /\ file_exists(g) => file_exists(g)' /\ read_file(g)' = read_file(g)
      BY <1>1, <1>2, <1>6, <3>2, RenameFacts
    <3>4. dir' = [dir EXCEPT ![own] = tmp[own]]
      BY <1>2, <1>6, <3>2 DEF RenameTmp
    <3>5. \A g \in Paths : g # own => file_exists(g)' = file_exists(g)
      BY <1>1, <3>4 DEF file_exists, NamesAreDistinct
    <3>6. read_file(own)' = data[tmp[own]]
      BY <1>1, <1>2, <1>6, <3>2, RenamePublishes
    <3>7. proc'[p] = s /\ before'[p] = before[p]
      BY <1>2, Becomes
    <3>8. Found(p)' = Found(p) /\ Changed(p)' = Changed(p)
      BY <1>4, <3>7, FoundStays
    <3>9. ASSUME NEW f \in Paths, f # own PROVE IsAsItWas(p, f)'
      <4>1. IsAsItWas(p, f)
        BY <1>1, <3>1, <3>9 DEF ChangesItsFile, At
      <4>2. QED  BY <3>3, <3>5, <3>7, <3>9, <4>1, AsItWasStays
    <3>10. proc[p].cut \/ data[tmp[own]] = iniparse_write(Changed(p))
      BY <1>1, <3>1, <3>2 DEF ChangesItsFile, At
    <3>11. proc[p].change.op = "unset" => EntryAt(Found(p), proc[p].change.sec, proc[p].change.key) # 0
      BY <1>1, <3>1 DEF ChangesItsFile
    <3>12. QED
      BY <1>4, <3>1, <3>2, <3>6, <3>7, <3>8, <3>9, <3>10, <3>11 DEF ChangesItsFile, At
  <2>2. QED  BY <1>2, <2>1, OnlyItsOwn
<1>7. QED  BY <1>2, <1>3, <1>5, <1>6

LEMMA UnlinkLockKeepsConfigs ==
  ASSUME SetupInv, ConfigInv, NEW p \in Procs, UnlinkLock(p)
  PROVE  ConfigInv'
<1>1. proc[p].pc = "unlock" /\ NamesAreDistinct /\ IsCommand(proc[p]) /\ File(p) \in Paths
  BY SavesAFile DEF UnlinkLock, At, Saves
<1>2. PICK s : s = [proc[p] EXCEPT !.pc = "unlink"] /\ Become(p, s)
  BY DEF UnlinkLock, Goto
<1>3. s.pc = "unlink" /\ s.op = proc[p].op /\ s.change = proc[p].change
  BY <1>1, <1>2, GotoFacts DEF Saves
<1>4. dir' = dir /\ \A g \in Paths : file_exists(g) => file_exists(g)' /\ read_file(g)' = read_file(g)
  BY <1>1, UnlinkTmpFacts DEF UnlinkLock
<1>5. \A g \in Paths : file_exists(g)' = file_exists(g)
  BY <1>4 DEF file_exists
<1>6. QED  BY <1>1, <1>2, <1>3, <1>4, <1>5, ConfigStep

LEMMA UnlinkConfigKeepsConfigs ==
  ASSUME SetupInv, ConfigInv, NEW p \in Procs, UnlinkConfig(p)
  PROVE  ConfigInv'
<1>1. proc[p].pc = "unlink" /\ IsCommand(proc[p])
  BY SavesAFile DEF UnlinkConfig, At, Saves
<1>2. PICK pc, s : s = [proc[p] EXCEPT !.pc = pc] /\ Become(p, s) /\ pc = IF proc[p].op = "init" THEN "rollback" ELSE "failed"
  BY DEF UnlinkConfig, Fail, Goto
<1>3. pc \in {"rollback", "failed"}
  BY <1>2
<1>4. s.pc = pc /\ s.op = proc[p].op /\ s.change = proc[p].change
  BY <1>1, <1>2, <1>3, GotoFacts DEF Inits
<1>5. ASSUME Asks(p) PROVE \A f \in Paths : file_exists(f)' = file_exists(f) /\ read_file(f)' = read_file(f)
  <2>1. UNCHANGED fileVars
    BY <1>5 DEF UnlinkConfig, Asks
  <2>2. QED  BY <2>1 DEF fileVars, file_exists, read_file
<1>6. QED  BY <1>1, <1>2, <1>3, <1>4, <1>5, ConfigStep

LEMMA StartsKeepConfigs ==
  ASSUME SetupInv, NEW p \in Procs, StartInit(p) \/ StartConfig(p)
  PROVE  ConfigInv'
<1>1. PICK s : Begin(p, s) /\ (s.op = "init" \/ s.pc = "load")
  <2>1. CASE StartInit(p)
    <3>1. [Idle EXCEPT !.pc = "path", !.op = "init"].op = "init"
      BY DEF Idle
    <3>2. QED  BY <2>1, <3>1 DEF StartInit
  <2>2. CASE StartConfig(p)
    <3>1. PICK c : Begin(p, [Idle EXCEPT !.pc = "load", !.op = c.op, !.change = c])
      BY <2>2 DEF StartConfig
    <3>2. [Idle EXCEPT !.pc = "load", !.op = c.op, !.change = c].pc = "load"
      BY DEF Idle
    <3>3. QED  BY <3>1, <3>2
  <2>3. QED  BY <2>1, <2>2
<1>2. /\ proc' = [proc EXCEPT ![p] = s] /\ UNCHANGED fileVars
      /\ before' = [q \in Procs |-> IF q # p THEN <<>>
                                    ELSE [dirs |-> dirs,
                                          files |-> [f \in {f \in Paths : file_exists(f)} |-> read_file(f)]]]
  BY <1>1 DEF Begin
<1>3. \A f \in Paths : file_exists(f)' = file_exists(f) /\ read_file(f)' = read_file(f)
  BY <1>2 DEF fileVars, file_exists, read_file
<1>4. proc'[p] = s
  BY <1>2 DEF SetupInv, FilesInv, SetupTypeOK
<1>5. ASSUME NEW q \in Procs, before'[q] # <<>>, Asks(q)' PROVE ChangesItsFile(q)'
  <2>1. q = p /\ s.pc = "load"
    BY <1>1, <1>2, <1>4, <1>5 DEF Asks
  <2>2. before'[p].files = [f \in {f \in Paths : file_exists(f)} |-> read_file(f)]
    BY <1>2
  <2>3. Had(p)' = {f \in Paths : file_exists(f)}
    BY <2>2 DEF Had
  <2>4. \A f \in Paths : IsAsItWas(p, f)'
    BY <1>3, <2>2, <2>3 DEF IsAsItWas
  <2>5. QED  BY <1>4, <2>1, <2>4 DEF ChangesItsFile, At
<1>6. QED  BY <1>5 DEF ConfigInv

(* Files, commands and what they knew at the start are as they were. *)
LEMMA StutterConfigs ==
  ASSUME ConfigInv, UNCHANGED setupVars
  PROVE  ConfigInv'
<1>1. dir' = dir /\ tmp' = tmp /\ data' = data /\ fd' = fd /\ proc' = proc /\ before' = before
  BY DEF setupVars, fileVars
<1>2. \A f \in Paths : file_exists(f)' = file_exists(f) /\ read_file(f)' = read_file(f)
  BY <1>1 DEF file_exists, read_file
<1>3. ASSUME NEW p \in Procs, before'[p] # <<>>, Asks(p)' PROVE ChangesItsFile(p)'
  <2>1. ChangesItsFile(p)
    BY <1>1, <1>3 DEF ConfigInv, Asks
  <2>2. Found(p)' = Found(p) /\ Changed(p)' = Changed(p)
    BY <1>1, FoundStays
  <2>3. \A f \in Paths : IsAsItWas(p, f)' <=> IsAsItWas(p, f)
    BY <1>1, <1>2 DEF IsAsItWas, Had
  <2>4. read_file(proc[p].change.file)' = read_file(proc[p].change.file)
    BY <1>1 DEF read_file, file_exists
  <2>5. QED  BY <1>1, <2>1, <2>2, <2>3, <2>4 DEF ChangesItsFile, At
<1>4. QED  BY <1>3 DEF ConfigInv

(* As long as nobody disturbs it, a qgit config has every file as it found   *)
(* it until its last step, and in the lock file what it read, changed.       *)
THEOREM ConfigInvariant == Spec => [](SetupInv /\ ConfigInv)
<1>1. Init => ConfigInv
  BY DEF Init, ConfigInv
<1>2. SetupInv /\ ConfigInv /\ [Next]_setupVars => ConfigInv'
  <2>1. SUFFICES ASSUME SetupInv, ConfigInv, [Next]_setupVars PROVE ConfigInv'
    OBVIOUS
  <2>2. CASE UNCHANGED setupVars
    BY <2>1, <2>2, StutterConfigs
  <2>3. CASE Next
    <3>1. PICK p \in Procs :
            \/ StartInit(p) \/ CheckPath(p) \/ CheckRepodir(p) \/ CreateStructure(p) \/ CreateConfig(p)
            \/ CreateFiles(p) \/ FopenInPlace(p) \/ FprintInPlace(p) \/ OpenRepository(p)
            \/ Rollback(p) \/ Rmdirr(p) \/ RmdirrEnds(p) \/ RmdirrFails(p)
            \/ Mkdir(p) \/ FopenLock(p) \/ FprintLock(p) \/ RenameLock(p) \/ UnlinkLock(p)
            \/ UnlinkConfig(p) \/ StartConfig(p) \/ LoadConfig(p) \/ Exit(p) \/ DieMapping(p) \/ Kill(p)
      BY <2>3 DEF Next
    <3>2. CASE \/ CheckPath(p) \/ CheckRepodir(p) \/ CreateStructure(p) \/ CreateConfig(p)
               \/ CreateFiles(p) \/ FopenInPlace(p) \/ FprintInPlace(p) \/ OpenRepository(p)
               \/ Rollback(p) \/ Rmdirr(p) \/ RmdirrEnds(p) \/ Mkdir(p)
      BY <2>1, <3>2, InitStepsKeepConfigs
    <3>3. CASE LoadConfig(p)
      BY <2>1, <3>3, LoadConfigKeepsConfigs
    <3>4. CASE FopenLock(p) \/ FprintLock(p) \/ RenameLock(p)
      BY <2>1, <3>4, FopenLockKeepsConfigs, FprintLockKeepsConfigs, RenameLockKeepsConfigs
    <3>5. CASE UnlinkLock(p) \/ UnlinkConfig(p)
      BY <2>1, <3>5, UnlinkLockKeepsConfigs, UnlinkConfigKeepsConfigs
    <3>6. CASE StartInit(p) \/ StartConfig(p)
      BY <2>1, <3>6, StartsKeepConfigs
    <3>7. CASE Exit(p) \/ DieMapping(p) \/ Kill(p) \/ RmdirrFails(p)
      BY <3>7 DEF Exit, DieMapping, Kill, Ends, RmdirrFails, ConfigInv
    <3>8. QED  BY <3>1, <3>2, <3>3, <3>4, <3>5, <3>6, <3>7
  <2>4. QED  BY <2>1, <2>2, <2>3
<1>3. QED  BY <1>1, <1>2, SetupInvariant, PTL DEF Spec

(* A qgit config that nobody disturbed and that failed, at whatever step,    *)
(* left both files as they were; one that succeeded left the other as it was *)
(* and wrote to its own the entries that it found, changed, or its write did *)
(* not reach the disk (cmd/config, config_save, iniparse_writeto).           *)
THEOREM ConfigsReplaceTheirFiles == Spec => []ConfigReplacesItsFile
<1>1. ASSUME SetupInv, ConfigInv PROVE ConfigReplacesItsFile
  <2>1. SUFFICES ASSUME NEW p \in Procs, Asks(p), before[p] # <<>>
                 PROVE  LET c == proc[p].change IN
                        /\ At(p, "failed") => \A f \in Paths : read_file(f) = Was(p, f)
                        /\ At(p, "done") =>
                             /\ \A f \in Paths \ {c.file} : read_file(f) = Was(p, f)
                             /\ proc[p].cut \/ read_file(c.file) = iniparse_write(Changed(p))
                             /\ c.op = "unset" => EntryAt(Found(p), c.sec, c.key) # 0
    BY DEF ConfigReplacesItsFile, Alone
  <2>2. ChangesItsFile(p)
    BY <1>1, <2>1 DEF ConfigInv
  <2>3. ASSUME NEW f \in Paths, IsAsItWas(p, f) PROVE read_file(f) = Was(p, f)
    BY <2>1, <2>3 DEF IsAsItWas, Was, read_file
  <2>4. QED  BY <2>2, <2>3 DEF ChangesItsFile, At
<1>2. QED  BY <1>1, ConfigInvariant, PTL

----------------------------------------------------------------------------
(* What files and lists are made of *)

(* What is in the files *)
LinesInFiles == \A i \in Inodes : data[i] \in Contents

LEMMA ReclaimedLines ==
  ASSUME NEW c, \A i \in Inodes : c[i] \in Contents, NEW d, NEW t, NEW f,
         data' = Reclaimed(c, d, t, f)
  PROVE  LinesInFiles'
BY DEF LinesInFiles, Reclaimed, Contents

LEMMA WriteLines ==
  ASSUME NamesAreDistinct, LinesInFiles, NEW p, NEW c \in Contents, WriteAndClose(p, c)
  PROVE  LinesInFiles'
<1>1. \A i \in Inodes : [data EXCEPT ![fd[p]] = c][i] \in Contents
  BY DEF NamesAreDistinct, LinesInFiles
<1>. QED  BY <1>1, ReclaimedLines DEF WriteAndClose

LEMMA EmptyLines ==
  ASSUME NamesAreDistinct, LinesInFiles, NEW i, data' = [data EXCEPT ![i] = Empty]
  PROVE  LinesInFiles'
BY DEF NamesAreDistinct, LinesInFiles, Contents

LEMMA OpenLines ==
  ASSUME NamesAreDistinct, LinesInFiles, NEW p, NEW f, OpenTmp(p, f)
  PROVE  LinesInFiles'
BY EmptyLines DEF OpenTmp

LEMMA RelinkLines ==
  ASSUME LinesInFiles, NEW p, NEW f,
         RenameTmp(f) \/ UnlinkTmp(f) \/ Unlink(f) \/ CloseAll(p) \/ UNCHANGED fileVars
  PROVE  LinesInFiles'
<1>1. CASE UNCHANGED fileVars
  BY <1>1 DEF fileVars, LinesInFiles
<1>2. CASE RenameTmp(f) \/ UnlinkTmp(f) \/ Unlink(f) \/ CloseAll(p)
  BY <1>2, ReclaimedLines DEF RenameTmp, UnlinkTmp, Unlink, CloseAll, LinesInFiles
<1>. QED  BY <1>1, <1>2

(* A step keeps the lists and what the command found when its own list is    *)
(* one, and what it is about to save came from lines.                        *)
LEMMA TextStep ==
  ASSUME SetupInv, TextInv, LinesInFiles', NEW p \in Procs, NEW s, Become(p, s), HasAList(s),
         before[p] # <<>> /\ s.op \in {"set", "unset"} /\ s.pc \in Saves \cup {"done"} /\ s.change.file \in Had(p)
           => before[p].files[s.change.file] \in Seq(Lines)
  PROVE  TextInv'
<1>1. proc'[p] = s /\ before'[p] = before[p]
  BY Becomes
<1>2. \A q \in Procs : q # p => before'[q] = <<>> /\ proc'[q] = proc[q]
  BY DEF Become, SetupInv, FilesInv, SetupTypeOK
<1>3. FilesAreLines'
  BY <1>1, <1>2 DEF FilesAreLines, TextInv, LinesInFiles
<1>4. ASSUME before[p] # <<>> PROVE FoundLines(p)'
  <2>1. \A g \in Had(p) : before[p].files[g] \in Contents
    BY <1>4 DEF TextInv, FoundLines
  <2>2. Had(p)' = Had(p)
    BY <1>1 DEF Had
  <2>. QED  BY <1>1, <1>4, <2>1, <2>2 DEF FoundLines, Asks
<1>. QED  BY <1>1, <1>2, <1>3, <1>4 DEF TextInv

LEMMA InitsKeepText ==
  ASSUME SetupInv, TextInv, LinesInFiles', NEW p \in Procs, proc[p].pc \in Inits, NEW s, Become(p, s),
         s.op = proc[p].op, s.ini = proc[p].ini \/ IsIni(s.ini)
  PROVE  TextInv'
<1>1. proc[p].op = "init"
  BY Becomes DEF MakesSense
<1>2. IsIni(s.ini)
  BY <1>1 DEF TextInv, FilesAreLines, HasAList, AskedReadably
<1>3. HasAList(s)
  BY <1>2, ListsAreAny DEF HasAList
<1>. QED  BY <1>1, <1>3, TextStep

(* A step of saving, whoever does it. *)
LEMMA SavesKeepText ==
  ASSUME SetupInv, TextInv, LinesInFiles', NEW p \in Procs, proc[p].pc \in Saves, NEW s, Become(p, s),
         s.op = proc[p].op, s.change = proc[p].change, s.ini = proc[p].ini \/ IsIni(s.ini)
  PROVE  TextInv'
<1>1. HasAList(s)
  BY ListsAreAny DEF TextInv, FilesAreLines, HasAList, AskedReadably
<1>2. ASSUME before[p] # <<>>, s.op \in {"set", "unset"}, s.change.file \in Had(p)
      PROVE  before[p].files[s.change.file] \in Seq(Lines)
  BY <1>2 DEF TextInv, FoundLines, Asks
<1>. QED  BY <1>1, <1>2, TextStep

LEMMA GoKeepsText ==
  ASSUME SetupInv, TextInv, LinesInFiles', NEW p \in Procs, proc[p].pc \in Inits \cup Saves, NEW pc, Goto(p, pc)
  PROVE  TextInv'
<1>1. PICK s : s = [proc[p] EXCEPT !.pc = pc] /\ Become(p, s)
  BY DEF Goto
<1>2. IsCommand(proc[p])
  BY <1>1, Becomes
<1>3. s.op = proc[p].op /\ s.change = proc[p].change /\ s.ini = proc[p].ini
  BY <1>1, <1>2 DEF IsCommand
<1>. QED  BY <1>1, <1>3, InitsKeepText, SavesKeepText

LEMMA FailKeepsText ==
  ASSUME SetupInv, TextInv, LinesInFiles', NEW p \in Procs, proc[p].pc \in Inits \cup Saves, Fail(p)
  PROVE  TextInv'
BY GoKeepsText DEF Fail

LEMMA AskKeepsText ==
  ASSUME SetupInv, TextInv, LinesInFiles', NEW p \in Procs, proc[p].pc \in Inits, NEW d, NEW then, Mkdirp(p, d, then)
  PROVE  TextInv'
<1>1. PICK s : s = Asked(proc[p], d, then) /\ Become(p, s)
  BY DEF Mkdirp, Asked
<1>2. IsCommand(proc[p])
  BY <1>1, Becomes
<1>3. s.op = proc[p].op /\ s.ini = proc[p].ini
  BY <1>1, <1>2 DEF IsCommand, Asked
<1>. QED  BY <1>1, <1>3, InitsKeepText

LEMMA MakeKeepsText ==
  ASSUME SetupInv, TextInv, LinesInFiles', NEW p \in Procs, proc[p].pc \in Inits, Made(p)
  PROVE  TextInv'
<1>1. PICK s : Become(p, s) /\ s.op = proc[p].op /\ s.ini = proc[p].ini
  <2>1. IsCommand(proc[p])
    BY DEF SetupInv, FilesInv, SetupTypeOK
  <2>2. CASE Len(proc[p].mk) > 1
    <3>1. Become(p, Popped(proc[p]))
      BY <2>2 DEF Made, Popped
    <3>2. Popped(proc[p]).op = proc[p].op /\ Popped(proc[p]).ini = proc[p].ini
      BY <2>1 DEF IsCommand, Popped
    <3>. QED  BY <3>1, <3>2
  <2>3. CASE ~(Len(proc[p].mk) > 1)
    <3>1. PICK n, w, r : Become(p, [proc[p] EXCEPT !.pc = proc[p].then, !.mk = <<>>, !.again = FALSE,
                                      !.next = n, !.work_created = w, !.repodir_created = r])
      BY <2>3 DEF Made
    <3>4. PICK t : t = [proc[p] EXCEPT !.pc = proc[p].then, !.mk = <<>>, !.again = FALSE,
                                !.next = n, !.work_created = w, !.repodir_created = r]
      OBVIOUS
    <3>2. t.op = proc[p].op /\ t.ini = proc[p].ini
      BY <2>1, <3>4 DEF IsCommand
    <3>. QED  BY <3>1, <3>2, <3>4
  <2>. QED  BY <2>2, <2>3
<1>. QED  BY <1>1, InitsKeepText

LEMMA FilesFacts ==
  ASSUME SetupInv, TextInv, NEW p \in Procs
  PROVE  NamesAreDistinct /\ LinesInFiles /\ HasAList(proc[p]) /\ IsCommand(proc[p]) /\ MakesSense(proc[p])
BY DEF SetupInv, FilesInv, SetupTypeOK, CommandsMakeSense, TextInv, FilesAreLines, LinesInFiles

LEMMA InitStepsKeepText ==
  ASSUME SetupInv, TextInv, NEW p \in Procs,
         \/ CheckPath(p) \/ CheckRepodir(p) \/ CreateStructure(p) \/ CreateConfig(p)
         \/ CreateFiles(p) \/ FopenInPlace(p) \/ FprintInPlace(p) \/ OpenRepository(p)
         \/ Rollback(p) \/ Rmdirr(p) \/ RmdirrEnds(p) \/ Mkdir(p)
  PROVE  TextInv'
<1>1. proc[p].pc \in Inits
  BY DEF CheckPath, CheckRepodir, CreateStructure, CreateConfig, CreateFiles, FopenInPlace,
         FprintInPlace, OpenRepository, Rollback, Rmdirr, RmdirrEnds, Mkdir, At, Inits
<1>2. NamesAreDistinct /\ LinesInFiles /\ HasAList(proc[p]) /\ IsCommand(proc[p]) /\ MakesSense(proc[p])
  BY FilesFacts
<1>q. UNCHANGED fileVars => LinesInFiles'
  BY <1>2, RelinkLines
<1>3. CASE CheckPath(p) \/ CheckRepodir(p)
  <2>1. LinesInFiles'
    BY <1>q, <1>3 DEF CheckPath, CheckRepodir, OnlyReads
  <2>. QED  BY <1>1, <1>3, <2>1, GoKeepsText, AskKeepsText DEF CheckPath, CheckRepodir
<1>4. CASE CreateStructure(p)
  <2>1. \/ \E d : Mkdirp(p, d, "dirs")
        \/ Become(p, [proc[p] EXCEPT !.pc = "config", !.next = 1])
        \/ Become(p, [proc[p] EXCEPT !.next = @ + 1])
    BY <1>4 DEF CreateStructure
  <2>2. /\ [proc[p] EXCEPT !.pc = "config", !.next = 1].op = proc[p].op
        /\ [proc[p] EXCEPT !.pc = "config", !.next = 1].ini = proc[p].ini
        /\ [proc[p] EXCEPT !.next = @ + 1].op = proc[p].op
        /\ [proc[p] EXCEPT !.next = @ + 1].ini = proc[p].ini
    BY <1>2 DEF IsCommand
  <2>3. LinesInFiles'
    BY <1>q, <1>4 DEF CreateStructure, OnlyReads
  <2>. QED  BY <1>1, <2>1, <2>2, <2>3, AskKeepsText, InitsKeepText
<1>5. CASE CreateConfig(p)
  <2>1. \/ Goto(p, "files")
        \/ Become(p, [proc[p] EXCEPT !.pc = "lock", !.ini = DefaultConfig])
    BY <1>5 DEF CreateConfig
  <2>2. /\ [proc[p] EXCEPT !.pc = "lock", !.ini = DefaultConfig].op = proc[p].op
        /\ [proc[p] EXCEPT !.pc = "lock", !.ini = DefaultConfig].ini = DefaultConfig
    BY <1>2 DEF IsCommand
  <2>3. LinesInFiles'
    BY <1>q, <1>5 DEF CreateConfig, OnlyReads
  <2>. QED  BY <1>1, <2>1, <2>2, <2>3, GoKeepsText, InitsKeepText, ContentsAreLines
<1>6. CASE CreateFiles(p)
  <2>1. PICK s : Become(p, s) /\ (\/ s = [proc[p] EXCEPT !.pc = "open"]
                                  \/ s = [proc[p] EXCEPT !.next = @ + 1]
                                  \/ s = [proc[p] EXCEPT !.pc = "create"])
    BY <1>6 DEF CreateFiles
  <2>2. s.op = proc[p].op /\ s.ini = proc[p].ini
    BY <1>2, <2>1 DEF IsCommand
  <2>3. LinesInFiles'
    BY <1>q, <1>6 DEF CreateFiles, OnlyReads
  <2>. QED  BY <1>1, <2>1, <2>2, <2>3, InitsKeepText
<1>7. CASE FopenInPlace(p)
  <2>1. LinesInFiles'
    <3>1. data' = data \/ \E i : data' = [data EXCEPT ![i] = Empty]
      BY <1>7 DEF FopenInPlace
    <3>. QED  BY <1>2, <3>1, EmptyLines DEF LinesInFiles
  <2>2. Goto(p, "fill") \/ Fail(p)
    BY <1>7 DEF FopenInPlace
  <2>. QED  BY <1>1, <2>1, <2>2, GoKeepsText, FailKeepsText
<1>8. CASE FprintInPlace(p)
  <2>1. PICK s, c : /\ Become(p, s) /\ WriteAndClose(p, c)
                    /\ \/ s = [proc[p] EXCEPT !.pc = "files", !.next = @ + 1]
                       \/ s = [proc[p] EXCEPT !.pc = "files", !.next = @ + 1, !.cut = TRUE]
                    /\ c \in {Initial[InPlace[proc[p].next]], Empty}
    BY <1>8 DEF FprintInPlace
  <2>2. s.op = proc[p].op /\ s.ini = proc[p].ini
    BY <1>2, <2>1 DEF IsCommand
  <2>3. c \in Contents
    <3>1. proc[p].next \in 1..Len(InPlace)
      BY <1>2, <1>8 DEF FprintInPlace, At, MakesSense, IsCommand
    <3>2. InPlace[proc[p].next] \in Range(InPlace)
      BY <3>1, EachFileIsMadeOnce DEF Range
    <3>. QED  BY <2>1, <3>2, ContentsAreLines DEF Contents
  <2>4. LinesInFiles'
    BY <1>2, <2>1, <2>3, WriteLines
  <2>. QED  BY <1>1, <2>1, <2>2, <2>4, InitsKeepText
<1>9. CASE OpenRepository(p) \/ RmdirrEnds(p)
  <2>1. LinesInFiles'
    BY <1>q, <1>9 DEF OpenRepository, RmdirrEnds, OnlyReads
  <2>. QED  BY <1>1, <1>9, <2>1, GoKeepsText, FailKeepsText DEF OpenRepository, RmdirrEnds
<1>10. CASE Rollback(p)
  <2>1. PICK s, w :
          /\ Become(p, s)
          /\ \/ s = [proc[p] EXCEPT !.pc = "failed"]
             \/ s = [proc[p] EXCEPT !.pc = "remove", !.target = Work, !.todo = w, !.work_created = FALSE]
             \/ s = [proc[p] EXCEPT !.pc = "remove", !.target = Repo, !.todo = w, !.repodir_created = FALSE]
    BY <1>10 DEF Rollback, Goto
  <2>2. s.op = proc[p].op /\ s.ini = proc[p].ini
    BY <1>2, <2>1 DEF IsCommand
  <2>3. LinesInFiles'
    BY <1>q, <1>10 DEF Rollback, OnlyReads
  <2>. QED  BY <1>1, <2>1, <2>2, <2>3, InitsKeepText
<1>11. CASE Rmdirr(p)
  <2>1. PICK x : /\ Become(p, [proc[p] EXCEPT !.todo = @ \ {x}, !.pc = IF x = proc[p].target THEN "rollback" ELSE @])
                 /\ UNCHANGED fileVars \/ Unlink(x) \/ UnlinkTmp(Front(x))
    BY <1>11, Zenon DEF Rmdirr
  <2>2. PICK s : s = [proc[p] EXCEPT !.todo = @ \ {x}, !.pc = IF x = proc[p].target THEN "rollback" ELSE @]
    OBVIOUS
  <2>3. s.op = proc[p].op /\ s.ini = proc[p].ini
    BY <1>2, <2>2 DEF IsCommand
  <2>4. LinesInFiles'
    BY <1>2, <2>1, RelinkLines
  <2>. QED  BY <1>1, <2>1, <2>2, <2>3, <2>4, InitsKeepText
<1>12. CASE Mkdir(p)
  <2>1. \/ Fail(p) \/ Made(p)
        \/ Become(p, [proc[p] EXCEPT !.mk = Append(@, Front(Last(proc[p].mk)))])
    BY <1>12 DEF Mkdir
  <2>2. /\ [proc[p] EXCEPT !.mk = Append(@, Front(Last(proc[p].mk)))].op = proc[p].op
        /\ [proc[p] EXCEPT !.mk = Append(@, Front(Last(proc[p].mk)))].ini = proc[p].ini
    BY <1>2 DEF IsCommand
  <2>3. LinesInFiles'
    BY <1>q, <1>12 DEF Mkdir
  <2>. QED  BY <1>1, <2>1, <2>2, <2>3, FailKeepsText, MakeKeepsText, InitsKeepText
<1>. QED  BY <1>3, <1>4, <1>5, <1>6, <1>7, <1>8, <1>9, <1>10, <1>11, <1>12

----------------------------------------------------------------------------
(* Reading and changing a configuration *)

LEMMA NothingIsIni == IsIni(<<>>) /\ \A V : Holds(<<>>, V)
BY EmptyFacts DEF IsIni, Holds

(* What qgit config makes of a list is a list. *)
LEMMA ChangedIsIni ==
  ASSUME NEW ini, IsIni(ini), NEW c \in Changes, c.op = "set" => IsReadable(c), NEW new,
         new = IF c.op = "set" THEN qgit_config_set_string(ini, c) ELSE qgit_config_delete(ini, c),
         c.op = "unset" => EntryAt(ini, c.sec, c.key) # 0
  PROVE  /\ IsIni(new)
         /\ c.op = "set" => IsSet(ini, new, c.sec, c.key, c.val)
         /\ c.op = "unset" => IsUnset(ini, new, c.sec, c.key)
<1>1. /\ c.op \in {"set", "unset"} /\ c.sec \in SecNames /\ c.key \in KeyNames
      /\ c.op = "set" => c.val \in Texts
  BY ChangesAreOfFiles, FoundIsReadable DEF IsReadable
<1>2. CASE c.op = "set"
  <2>1. IsSet(ini, new, c.sec, c.key, c.val)
    BY <1>1, <1>2 DEF IsSet, qgit_config_set_string
  <2>. QED  BY <1>2, <2>1, SetIsListed
<1>3. CASE c.op = "unset"
  <2>1. IsUnset(ini, new, c.sec, c.key)
    BY <1>1, <1>3 DEF IsUnset, qgit_config_delete
  <2>. QED  BY <1>3, <2>1, UnsetIsListed
<1>. QED  BY <1>1, <1>2, <1>3

(* Whatever it was asked to set, it is a list. *)
LEMMA ChangedIsAList ==
  ASSUME NEW ini, IsIni(ini), NEW c \in Changes, NEW new,
         new = IF c.op = "set" THEN qgit_config_set_string(ini, c) ELSE qgit_config_delete(ini, c),
         c.op = "unset" => EntryAt(ini, c.sec, c.key) # 0
  PROVE  new \in Seq(AnySections)
<1>1. CASE c.op = "set"
  <2>1. c.sec \in Text /\ c.key \in Text /\ c.val \in Text
    BY ChangesAreOfFiles
  <2>. QED  BY <1>1, <2>1, ListsAreAny, SetType DEF qgit_config_set_string
<1>2. CASE c.op # "set"
  BY <1>2, ChangedIsIni, ListsAreAny
<1>. QED  BY <1>1, <1>2

(* A file that was opened holds lines. *)
LEMMA OpenedHoldsLines ==
  ASSUME SetupInv, TextInv, NEW c \in Changes, OpensConfigs(c), file_exists(c.file)
  PROVE  read_file(c.file) \in Seq(Lines)
<1>1. PICK f \in Paths : f = c.file /\ f \in {CONFIG, GLOBAL}
  BY ChangesAreOfFiles, EachFileIsMadeOnce
<1>2. read_file(f) = data[dir[f]] /\ dir[f] \in Inodes
  BY <1>1 DEF SetupInv, FilesInv, NamesAreDistinct, read_file, file_exists, Entry
<1>3. read_file(f) \in Contents
  BY <1>2 DEF TextInv, FilesAreLines
<1>4. qgit_config_open_ondisk(f)
  <2>1. CASE f = CONFIG
    BY <1>1, <2>1 DEF OpensConfigs, RepositoryOpens
  <2>2. CASE f = GLOBAL
    BY <1>1, <2>2 DEF OpensConfigs, open_global_config_safe
  <2>. QED  BY <1>1, <2>1, <2>2
<1>5. read_file(f) # Empty
  BY <1>4 DEF qgit_config_open_ondisk, iniparse_open, IsMapped
<1>. QED  BY <1>1, <1>3, <1>5 DEF Contents

LEMMA LoadConfigKeepsText ==
  ASSUME SetupInv, ConfigInv, TextInv, NEW p \in Procs, LoadConfig(p)
  PROVE  TextInv'
<1>1. OnlyReads /\ proc[p].pc = "load"
  BY DEF LoadConfig, At
<1>2. LinesInFiles /\ HasAList(proc[p]) /\ IsCommand(proc[p]) /\ MakesSense(proc[p])
  BY FilesFacts
<1>3. LinesInFiles'
  BY <1>1, <1>2, RelinkLines DEF OnlyReads
<1>4. CASE Goto(p, "failed")
  <2>1. PICK s : s = [proc[p] EXCEPT !.pc = "failed"] /\ Become(p, s)
    BY <1>4 DEF Goto
  <2>2. s.pc = "failed" /\ s.ini = proc[p].ini /\ s.op = proc[p].op /\ s.change = proc[p].change
    BY <1>2, <2>1, GotoFacts
  <2>3. s.pc \notin Saves \cup {"done"} /\ HasAList(s)
    BY <1>2, <2>2 DEF Saves, HasAList, AskedReadably
  <2>. QED  BY <1>2, <1>3, <2>1, <2>2, <2>3, TextStep
<1>5. CASE ~Goto(p, "failed")
  <2>1. PICK c : c = proc[p].change
    OBVIOUS
  <2>2. c \in Changes /\ c.op = proc[p].op
    BY <1>1, <1>2, <2>1 DEF MakesSense
  <2>3. PICK ini : ini = IF file_exists(c.file) THEN iniparse_parse(read_file(c.file)).ini ELSE <<>>
    OBVIOUS
  <2>4. OpensConfigs(c) /\ (c.op = "unset" => EntryAt(ini, c.sec, c.key) # 0)
    BY <1>5, <2>1, <2>3 DEF LoadConfig
  <2>5. PICK new, s : /\ new = IF c.op = "set" THEN qgit_config_set_string(ini, c) ELSE qgit_config_delete(ini, c)
                      /\ s = WithIni(proc[p], "lock", new) /\ Become(p, s)
    BY <1>5, <2>1, <2>3 DEF LoadConfig, WithIni
  <2>6. file_exists(c.file) => read_file(c.file) \in Seq(Lines)
    BY <2>2, <2>4, OpenedHoldsLines
  <2>7. IsIni(ini)
    BY <2>3, <2>6, ParsedIsIni, NothingIsIni
  <2>8. /\ new \in Seq(AnySections)
        /\ (c.op = "set" => IsReadable(c)) => IsIni(new)
    BY <2>2, <2>4, <2>5, <2>7, ChangedIsAList, ChangedIsIni
  <2>9. s.pc = "lock" /\ s.op = proc[p].op /\ s.change = c /\ s.ini = new
    BY <1>2, <2>1, <2>5 DEF WithIni, IsCommand
  <2>11. HasAList(s)
    BY <2>2, <2>8, <2>9 DEF HasAList, AskedReadably
  <2>10. ASSUME before[p] # <<>>, s.op \in {"set", "unset"}, c.file \in Had(p)
         PROVE  before[p].files[c.file] \in Seq(Lines)
    <3>1. c.file \in Paths
      BY <2>2, ChangesAreOfFiles, EachFileIsMadeOnce
    <3>2. ChangesItsFile(p)
      BY <2>9, <2>10 DEF ConfigInv, Asks
    <3>3. IsAsItWas(p, c.file)
      BY <1>1, <3>1, <3>2 DEF ChangesItsFile, At
    <3>. QED  BY <2>6, <2>10, <3>3 DEF IsAsItWas
  <2>. QED  BY <1>3, <2>5, <2>9, <2>10, <2>11, TextStep
<1>. QED  BY <1>4, <1>5

LEMMA OverIsLines ==
  ASSUME NEW new \in Seq(Lines), NEW old \in Contents
  PROVE  Over(new, old) \in Seq(Lines)
<1>1. CASE old = Empty
  BY <1>1 DEF Over
<1>2. CASE old # Empty
  <2>1. old \in Seq(Lines)
    BY <1>2 DEF Contents
  <2>2. PICK m, n : m = Len(new) + 1 /\ n = Len(old)
    OBVIOUS
  <2>3. m \in 1..(n + 1) \/ m > n
    BY <2>1, <2>2
  <2>4. PICK rest : rest = SubSeq(old, m, n)
    OBVIOUS
  <2>5. rest \in Seq(Lines)
    BY <2>1, <2>2, <2>4
  <2>. QED  BY <1>2, <2>2, <2>4, <2>5, ConcatFacts DEF Over
<1>. QED  BY <1>1, <1>2

LEMMA SaveStepsKeepText ==
  ASSUME SetupInv, TextInv, NEW p \in Procs,
         FopenLock(p) \/ FprintLock(p) \/ RenameLock(p) \/ UnlinkLock(p) \/ UnlinkConfig(p)
  PROVE  TextInv'
<1>1. proc[p].pc \in Saves
  BY DEF FopenLock, FprintLock, RenameLock, UnlinkLock, UnlinkConfig, At, Saves
<1>2. NamesAreDistinct /\ LinesInFiles /\ HasAList(proc[p]) /\ IsCommand(proc[p])
  BY FilesFacts
<1>3. CASE FopenLock(p)
  <2>1. LinesInFiles'
    BY <1>2, <1>3, OpenLines, RelinkLines DEF FopenLock
  <2>2. \E pc : Goto(p, pc)
    BY <1>3 DEF FopenLock
  <2>. QED  BY <1>1, <2>1, <2>2, GoKeepsText
<1>4. CASE FprintLock(p)
  <2>1. PICK s, c :
          /\ WriteAndClose(p, c) /\ Become(p, s)
          /\ \/ s = [proc[p] EXCEPT !.pc = "rename", !.ini = <<>>]
             \/ s = [proc[p] EXCEPT !.pc = "rename", !.ini = <<>>, !.cut = TRUE]
          /\ c = Empty \/ c = Over(iniparse_write(proc[p].ini), data[fd[p]])
    BY <1>4 DEF FprintLock
  <2>2. s.op = proc[p].op /\ s.change = proc[p].change /\ s.ini = <<>>
    BY <1>2, <2>1 DEF IsCommand
  <2>3. CASE fd[p] \in Inodes
    <3>1. data[fd[p]] \in Contents
      BY <1>2, <2>3 DEF LinesInFiles
    <3>2. iniparse_write(proc[p].ini) \in Seq(Lines)
      BY <1>2, WriteType DEF HasAList
    <3>3. c \in Contents
      BY <2>1, <3>1, <3>2, OverIsLines DEF Contents
    <3>4. LinesInFiles'
      BY <1>2, <2>1, <3>3, WriteLines
    <3>. QED  BY <1>1, <2>1, <2>2, <3>4, NothingIsIni, SavesKeepText
  <2>4. CASE fd[p] \notin Inodes
    <3>1. \A i \in Inodes : [data EXCEPT ![fd[p]] = c][i] \in Contents
      BY <1>2, <2>4 DEF NamesAreDistinct, LinesInFiles
    <3>2. LinesInFiles'
      BY <2>1, <3>1, ReclaimedLines DEF WriteAndClose
    <3>. QED  BY <1>1, <2>1, <2>2, <3>2, NothingIsIni, SavesKeepText
  <2>. QED  BY <2>3, <2>4
<1>5. CASE RenameLock(p)
  <2>1. LinesInFiles'
    BY <1>2, <1>5, RelinkLines DEF RenameLock
  <2>2. \E pc : Goto(p, pc)
    BY <1>5 DEF RenameLock
  <2>. QED  BY <1>1, <2>1, <2>2, GoKeepsText
<1>6. CASE UnlinkLock(p) \/ UnlinkConfig(p)
  <2>1. LinesInFiles'
    BY <1>2, <1>6, RelinkLines DEF UnlinkLock, UnlinkConfig
  <2>2. Goto(p, "unlink") \/ Fail(p)
    BY <1>6 DEF UnlinkLock, UnlinkConfig
  <2>. QED  BY <1>1, <2>1, <2>2, GoKeepsText, FailKeepsText
<1>. QED  BY <1>3, <1>4, <1>5, <1>6

----------------------------------------------------------------------------
(* From the first state on *)

LEMMA StartsKeepText ==
  ASSUME SetupInv, TextInv, NEW p \in Procs, StartInit(p) \/ StartConfig(p)
  PROVE  TextInv'
<1>1. PICK s : Begin(p, s) /\ s.ini = <<>> /\ s.pc \notin Saves \cup {"done"}
  <2>1. CASE StartInit(p)
    <3>1. PICK s : s = [Idle EXCEPT !.pc = "path", !.op = "init"]
      OBVIOUS
    <3>2. s.ini = <<>> /\ s.pc \notin Saves \cup {"done"}
      BY <3>1 DEF Idle, Saves
    <3>. QED  BY <2>1, <3>1, <3>2 DEF StartInit
  <2>2. CASE StartConfig(p)
    <3>1. PICK c : Begin(p, [Idle EXCEPT !.pc = "load", !.op = c.op, !.change = c])
      BY <2>2 DEF StartConfig
    <3>2. PICK s : s = [Idle EXCEPT !.pc = "load", !.op = c.op, !.change = c]
      OBVIOUS
    <3>3. s.ini = <<>> /\ s.pc \notin Saves \cup {"done"}
      BY <3>2 DEF Idle, Saves
    <3>. QED  BY <3>1, <3>2, <3>3
  <2>. QED  BY <2>1, <2>2
<1>2. /\ proc' = [proc EXCEPT ![p] = s] /\ UNCHANGED fileVars
      /\ before' = [q \in Procs |-> IF q # p THEN <<>>
                                    ELSE [dirs |-> dirs,
                                          files |-> [f \in {f \in Paths : file_exists(f)} |-> read_file(f)]]]
  BY <1>1 DEF Begin
<1>3. NamesAreDistinct /\ LinesInFiles
  BY FilesFacts
<1>4. LinesInFiles'
  BY <1>2, <1>3, RelinkLines
<1>5. proc'[p] = s /\ \A q \in Procs : q # p => proc'[q] = proc[q]
  BY <1>2 DEF SetupInv, FilesInv, SetupTypeOK
<1>6. FilesAreLines'
  BY <1>1, <1>4, <1>5, NothingIsIni, ListsAreAny DEF FilesAreLines, HasAList, LinesInFiles, TextInv
<1>7. FoundLines(p)'
  <2>1. before'[p].files = [f \in {f \in Paths : file_exists(f)} |-> read_file(f)]
    BY <1>2
  <2>2. ASSUME NEW g \in Had(p)' PROVE before'[p].files[g] \in Contents
    <3>1. g \in Paths /\ file_exists(g) /\ before'[p].files[g] = read_file(g)
      BY <2>1 DEF Had
    <3>2. read_file(g) = data[dir[g]] /\ dir[g] \in Inodes
      BY <1>3, <3>1 DEF NamesAreDistinct, read_file, file_exists, Entry
    <3>. QED  BY <1>3, <3>1, <3>2 DEF LinesInFiles
  <2>. QED  BY <1>1, <1>5, <2>2 DEF FoundLines
<1>8. \A q \in Procs : before'[q] # <<>> => q = p
  BY <1>2
<1>. QED  BY <1>6, <1>7, <1>8 DEF TextInv

LEMMA EndsKeepText ==
  ASSUME SetupInv, TextInv, NEW p \in Procs, Exit(p) \/ DieMapping(p) \/ Kill(p)
  PROVE  TextInv'
<1>1. /\ proc' = [proc EXCEPT ![p] = Idle] /\ before' = [q \in Procs |-> <<>>]
      /\ UNCHANGED fileVars \/ CloseAll(p)
  BY DEF Exit, DieMapping, Kill, Ends
<1>2. LinesInFiles'
  BY <1>1, FilesFacts, RelinkLines
<1>3. \A q \in Procs : proc'[q] = Idle \/ proc'[q] = proc[q]
  BY <1>1 DEF SetupInv, FilesInv, SetupTypeOK
<1>4. HasAList(Idle)
  BY NothingIsIni, ListsAreAny DEF Idle, HasAList
<1>5. FilesAreLines'
  BY <1>2, <1>3, <1>4 DEF FilesAreLines, LinesInFiles, TextInv
<1>. QED  BY <1>1, <1>5 DEF TextInv

LEMMA RmdirrFailsKeepsText ==
  ASSUME SetupInv, TextInv, NEW p \in Procs, RmdirrFails(p)
  PROVE  TextInv'
<1>1. /\ proc' = [proc EXCEPT ![p].pc = "rollback"] /\ before' = [q \in Procs |-> <<>>]
      /\ UNCHANGED fileVars
  BY DEF RmdirrFails, OnlyReads
<1>2. IsCommand(proc[p]) /\ proc = [q \in Procs |-> proc[q]]
  BY DEF SetupInv, FilesInv, SetupTypeOK
<1>3. /\ proc'[p].ini = proc[p].ini /\ proc'[p].op = proc[p].op /\ proc'[p].change = proc[p].change
      /\ \A q \in Procs : q # p => proc'[q] = proc[q]
  BY <1>1, <1>2 DEF IsCommand
<1>4. \A q \in Procs : HasAList(proc'[q])
  BY <1>3 DEF TextInv, FilesAreLines, HasAList, AskedReadably
<1>5. LinesInFiles'
  BY <1>1, FilesFacts, RelinkLines
<1>. QED  BY <1>1, <1>4, <1>5 DEF TextInv, FilesAreLines, LinesInFiles

LEMMA StutterText ==
  ASSUME TextInv, UNCHANGED setupVars
  PROVE  TextInv'
<1>1. data' = data /\ proc' = proc /\ before' = before
  BY DEF setupVars, fileVars
<1>. QED  BY <1>1 DEF TextInv, FilesAreLines, FoundLines, Had, Asks

LEMMA InitText ==
  ASSUME Init
  PROVE  TextInv
<1>1. PICK files \in FirstFiles, there \in FirstDirs :
        LET held == {f \in Paths : files[f] # Missing}
            place == CHOOSE g \in [held -> Inodes] : IsInjective(g)
            owner(i) == {f \in held : place[f] = i}
        IN /\ data = [i \in Inodes |-> IF owner(i) = {} THEN Empty ELSE files[CHOOSE f \in owner(i) : TRUE]]
           /\ proc = [p \in Procs |-> Idle] /\ before = [p \in Procs |-> <<>>]
  BY DEF Init
<1>5. PICK held : held = {f \in Paths : files[f] # Missing}
  OBVIOUS
<1>6. PICK place : place = CHOOSE g \in [held -> Inodes] : IsInjective(g)
  OBVIOUS
<1>2. \A f \in Paths : files[f] # Missing => files[f] \in Contents
  BY ContentsAreLines
<1>3. ASSUME NEW i \in Inodes PROVE data[i] \in Contents
  <2>1. PICK O : O = {f \in held : place[f] = i}
    OBVIOUS
  <2>2. data[i] = IF O = {} THEN Empty ELSE files[CHOOSE f \in O : TRUE]
    BY <1>1, <1>5, <1>6, <2>1
  <2>3. O # {} => (CHOOSE f \in O : TRUE) \in O
    OBVIOUS
  <2>4. \A f \in O : files[f] \in Contents
    BY <1>2, <1>5, <2>1
  <2>. QED  BY <2>2, <2>3, <2>4 DEF Contents
<1>4. HasAList(Idle)
  BY NothingIsIni, ListsAreAny DEF Idle, HasAList
<1>. QED  BY <1>1, <1>3, <1>4 DEF TextInv, FilesAreLines

(* Whatever was killed or cut, and whatever names and values were asked for, *)
(* files are made of lines or empty, a qgit config never goes on from a file *)
(* that it could not open, and what a command has in memory has one place    *)
(* for each section and readable names, but where others were asked for      *)
(* (iniparse_parse, open_global_config_safe, repository_open).               *)
THEOREM TextInvariant == Spec => [](SetupInv /\ ConfigInv /\ TextInv)
<1>1. SetupInv /\ ConfigInv /\ TextInv /\ [Next]_setupVars => TextInv'
  <2>1. SUFFICES ASSUME SetupInv, ConfigInv, TextInv, [Next]_setupVars PROVE TextInv'
    OBVIOUS
  <2>2. CASE UNCHANGED setupVars
    BY <2>1, <2>2, StutterText
  <2>3. CASE Next
    <3>1. PICK p \in Procs :
            \/ StartInit(p) \/ CheckPath(p) \/ CheckRepodir(p) \/ CreateStructure(p) \/ CreateConfig(p)
            \/ CreateFiles(p) \/ FopenInPlace(p) \/ FprintInPlace(p) \/ OpenRepository(p)
            \/ Rollback(p) \/ Rmdirr(p) \/ RmdirrEnds(p) \/ RmdirrFails(p)
            \/ Mkdir(p) \/ FopenLock(p) \/ FprintLock(p) \/ RenameLock(p) \/ UnlinkLock(p)
            \/ UnlinkConfig(p) \/ StartConfig(p) \/ LoadConfig(p) \/ Exit(p) \/ DieMapping(p) \/ Kill(p)
      BY <2>3 DEF Next
    <3>2. CASE \/ CheckPath(p) \/ CheckRepodir(p) \/ CreateStructure(p) \/ CreateConfig(p)
               \/ CreateFiles(p) \/ FopenInPlace(p) \/ FprintInPlace(p) \/ OpenRepository(p)
               \/ Rollback(p) \/ Rmdirr(p) \/ RmdirrEnds(p) \/ Mkdir(p)
      BY <2>1, <3>2, InitStepsKeepText
    <3>3. CASE LoadConfig(p)
      BY <2>1, <3>3, LoadConfigKeepsText
    <3>4. CASE FopenLock(p) \/ FprintLock(p) \/ RenameLock(p) \/ UnlinkLock(p) \/ UnlinkConfig(p)
      BY <2>1, <3>4, SaveStepsKeepText
    <3>5. CASE StartInit(p) \/ StartConfig(p)
      BY <2>1, <3>5, StartsKeepText
    <3>6. CASE Exit(p) \/ DieMapping(p) \/ Kill(p) \/ RmdirrFails(p)
      BY <2>1, <3>6, EndsKeepText, RmdirrFailsKeepsText
    <3>. QED  BY <3>1, <3>2, <3>3, <3>4, <3>5, <3>6
  <2>. QED  BY <2>1, <2>2, <2>3
<1>2. Init => TextInv
  BY InitText
<1>. QED  BY <1>1, <1>2, ConfigInvariant, PTL DEF Spec

(* Whatever list a command is about to write that was not asked to set a     *)
(* name or value that no line can hold: the text it makes of it is split and *)
(* read again without an error, as the same list of entries but for the      *)
(* spaces around their values (iniparse_writeto, iniparse_parse).            *)
THEOREM SavedConfigsReadBack == Spec => []SavedConfigReadsBack
<1>1. ASSUME TextInv PROVE SavedConfigReadsBack
  <2>1. \A p \in Procs : AskedReadably(proc[p]) => ReadsBack(proc[p].ini)
    BY <1>1, ReadBack DEF TextInv, FilesAreLines, HasAList
  <2>. QED  BY <2>1 DEF SavedConfigReadsBack, ReadsBack, TrimAll
<1>. QED  BY <1>1, TextInvariant, PTL

----------------------------------------------------------------------------
(* A change that is saved *)

(* What UndisturbedConfigIsTransaction says of the list a qgit config found  *)
(* and the list it left.                                                     *)
DoesAsAsked(was, is, c) ==
  LET name == <<c.sec, c.key>>
      Others == (NamesOf(was) \cup NamesOf(is)) \ {name}
      Entries(ini) == {i \in 1..Len(iniparse_fprint(ini)) :
                         iniparse_fprint(ini)[i].sec = c.sec /\ iniparse_fprint(ini)[i].key = c.key}
  IN /\ c.op = "set" => Value(is, name) = Trimmed(c.val)
     /\ c.op = "unset" => Cardinality(Entries(is)) = Cardinality(Entries(was)) - 1
     /\ \A other \in Others :
          Value(is, other) = SavedAs(Value(was, other), other \in NamesOf(was))

LEMMA NamesAreNamed ==
  ASSUME NEW ini, IsIni(ini)
  PROVE  /\ \A s, k : <<s, k>> \in NamesOf(ini) <=> Named(iniparse_fprint(ini), s, k)
         /\ \A name \in NamesOf(ini) : \E s \in SecNames, k \in KeyNames : name = <<s, k>>
<1>1. PICK list \in Seq(IniItems) : list = iniparse_fprint(ini)
  BY ListsFacts DEF IsIni
<1>2. Listed(ini) = {list[i] : i \in 1..Len(list)}
  BY <1>1 DEF Listed, Range
<1>3. \A i \in 1..Len(list) : list[i].sec \in SecNames /\ list[i].key \in KeyNames
  <2>1. \A i \in 1..Len(list) : list[i] \in IniItems
    BY ONLY <1>1, list \in Seq(IniItems)
  <2>. QED  BY ONLY <2>1 DEF IniItems
<1>4. ASSUME NEW s, NEW k PROVE <<s, k>> \in NamesOf(ini) <=> Named(list, s, k)
  BY <1>2 DEF NamesOf, Named
<1>5. \A name \in NamesOf(ini) : \E s \in SecNames, k \in KeyNames : name = <<s, k>>
  BY <1>2, <1>3 DEF NamesOf
<1>. QED  BY ONLY <1>1, <1>4, <1>5

LEMMA ChangeIsSaved ==
  ASSUME NEW was, IsIni(was), Holds(was, ReadVals), NEW c \in Changes, NEW new, NEW is,
         c.op = "set" => IsReadable(c),
         new = IF c.op = "set" THEN qgit_config_set_string(was, c) ELSE qgit_config_delete(was, c),
         c.op = "unset" => EntryAt(was, c.sec, c.key) # 0,
         is = iniparse_parse(iniparse_write(new)).ini
  PROVE  DoesAsAsked(was, is, c)
<1>1. PICK s, k : s = c.sec /\ k = c.key
  OBVIOUS
<1>2. s \in SecNames /\ k \in KeyNames /\ c.op \in {"set", "unset"}
  BY <1>1, ChangesAreOfFiles, FoundIsReadable DEF IsReadable
<1>3. /\ IsIni(new)
      /\ c.op = "set" => IsSet(was, new, s, k, c.val)
      /\ c.op = "unset" => IsUnset(was, new, s, k)
  BY <1>1, ChangedIsIni
<1>4. IsReadAgain(new, is)
  BY <1>3, ReadBack DEF ReadsBack, IsReadAgain
<1>5. KeepsOthers(iniparse_fprint(was), iniparse_fprint(new), s, k)
  BY <1>2, <1>3, SetIsListed, UnsetIsListed
<1>6. IsChange(was, new, is, s, k)
  BY <1>4, <1>5 DEF IsChange
<1>7. ASSUME c.op = "set" PROVE Value(is, <<s, k>>) = Trimmed(c.val)
  <2>1. FirstVal(iniparse_fprint(new), s, k, c.val)
    BY <1>3, <1>7, SetIsListed
  <2>2. iniparse_get(is, s, k) = Trimmed(c.val)
    BY <1>2, <1>4, <2>1, FirstIsRead
  <2>. QED  BY <2>2 DEF Value
<1>8. ASSUME c.op = "unset"
      PROVE  Cardinality(PlacesOf(iniparse_fprint(is), s, k)) = Cardinality(PlacesOf(iniparse_fprint(was), s, k)) - 1
  <2>1. Cardinality(PlacesOf(iniparse_fprint(new), s, k)) = Cardinality(PlacesOf(iniparse_fprint(was), s, k)) - 1
    BY <1>3, <1>8, UnsetIsListed
  <2>2. iniparse_fprint(new) \in Seq(IniItems)
    BY <1>3, ListsFacts DEF IsIni
  <2>3. PlacesOf(iniparse_fprint(is), s, k) = PlacesOf(iniparse_fprint(new), s, k)
    BY <1>4, <2>2, AsManyPlaces DEF IsReadAgain
  <2>. QED  BY <2>1, <2>3
<1>9. ASSUME NEW other \in (NamesOf(was) \cup NamesOf(is)) \ {<<s, k>>}
      PROVE  Value(is, other) = SavedAs(Value(was, other), other \in NamesOf(was))
  <2>1. IsIni(is)
    BY <1>4 DEF IsReadAgain
  <2>2. PICK s2 \in SecNames, k2 \in KeyNames : other = <<s2, k2>>
    BY <2>1, NamesAreNamed
  <2>3. Named(iniparse_fprint(was), s2, k2) \/ Named(iniparse_fprint(is), s2, k2)
    BY <2>1, <2>2, NamesAreNamed
  <2>4. <<s2, k2>> # <<s, k>>
    BY <2>2
  <2>5. /\ Named(iniparse_fprint(was), s2, k2)
        /\ iniparse_get(is, s2, k2) = SavedVal(iniparse_get(was, s2, k2))
    BY ONLY <1>6, <2>3, <2>4, s2 \in SecNames, k2 \in KeyNames, OthersAreRead
  <2>6. other \in NamesOf(was)
    BY <2>2, <2>5, NamesAreNamed
  <2>. QED  BY <2>2, <2>5, <2>6 DEF Value, SavedAs, SavedVal
<1>. QED  BY <1>1, <1>7, <1>8, <1>9, Zenon DEF DoesAsAsked, PlacesOf

(* A qgit config that nobody disturbed left every file as it was, but its    *)
(* own on success; asked to unset a name, or to set one and a value that a   *)
(* line can hold, it did that: the name reads as the value without spaces    *)
(* around it, or is unset once, and every other name reads as before         *)
(* (cmd/config, config_set_string, config_delete, config_save).              *)
THEOREM UndisturbedConfigsAreTransactions == Spec => []UndisturbedConfigIsTransaction
<1>1. ASSUME SetupInv, ConfigInv, TextInv, ConfigReplacesItsFile PROVE UndisturbedConfigIsTransaction
  <2>1. SUFFICES ASSUME NEW p \in Procs, Asks(p), AskedReadably(proc[p]), Alone(p, "done"), ~proc[p].cut
                 PROVE  DoesAsAsked(Ini(Was(p, proc[p].change.file)), Ini(read_file(proc[p].change.file)), proc[p].change)
    BY <1>1, Zenon DEF UndisturbedConfigIsTransaction, DoesAsAsked
  <2>2. PICK c, f : c = proc[p].change /\ f = c.file
    OBVIOUS
  <2>3. c \in Changes /\ (c.op = "set" => IsReadable(c))
    BY <1>1, <2>1, <2>2 DEF SetupInv, FilesInv, CommandsMakeSense, MakesSense, Asks, AskedReadably
  <2>4. before[p] # <<>> /\ proc[p].pc = "done"
    BY <2>1 DEF Alone, At
  <2>5. f \in Had(p) => before[p].files[f] \in Seq(Lines)
    BY <1>1, <2>1, <2>2, <2>4 DEF TextInv, FoundLines
  <2>6. Ini(Was(p, f)) = Found(p)
    <3>1. CASE f \in Had(p)
      <4>1. Was(p, f) = before[p].files[f]
        BY <2>4, <3>1 DEF Was
      <4>2. Was(p, f) \notin {Missing, Empty}
        BY <2>5, <3>1, <4>1, ContentsAreLines
      <4>. QED  BY <2>2, <3>1, <4>1, <4>2 DEF Ini, Found
    <3>2. CASE f \notin Had(p)
      BY <2>2, <3>2 DEF Was, Ini, Found
    <3>. QED  BY <3>1, <3>2
  <2>7. IsIni(Found(p)) /\ Holds(Found(p), ReadVals)
    BY <2>2, <2>5, ParsedIsIni, NothingIsIni DEF Found
  <2>8. read_file(f) = iniparse_write(Changed(p)) /\ (c.op = "unset" => EntryAt(Found(p), c.sec, c.key) # 0)
    BY <1>1, <2>1, <2>2 DEF ConfigReplacesItsFile
  <2>9. Changed(p) = IF c.op = "set" THEN qgit_config_set_string(Found(p), c) ELSE qgit_config_delete(Found(p), c)
    BY <2>2 DEF Changed
  <2>10. iniparse_write(Changed(p)) \in Seq(Lines)
    BY <2>3, <2>7, <2>8, <2>9, ChangedIsIni, ReadBack DEF ReadsBack
  <2>11. Ini(read_file(f)) = iniparse_parse(iniparse_write(Changed(p))).ini
    BY <2>8, <2>10, ContentsAreLines DEF Ini
  <2>12. DoesAsAsked(Found(p), Ini(read_file(f)), c)
    BY <2>3, <2>7, <2>8, <2>9, <2>11, ChangeIsSaved
  <2>. QED  BY <2>2, <2>6, <2>12
<1>. QED  BY <1>1, TextInvariant, ConfigsReplaceTheirFiles, PTL
=============================================================================
