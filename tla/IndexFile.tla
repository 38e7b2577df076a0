----------------------------- MODULE IndexFile -----------------------------
(***************************************************************************)
(* The index file and the commands that share it (libqgit/index, qgit add, *)
(* the tree of qgit commit).  A command reads the whole index when it      *)
(* opens the repository, works on its copy, and qgit add writes the copy   *)
(* back through "<index>.tmp" at its end; nothing is locked in between.    *)
(*                                                                         *)
(* A work tree file is its contents and what stat(2) tells of it (size,    *)
(* mtime, mode, inode, device): a write leaves any stat, also the one the  *)
(* file had, when the size stays and the clock has not moved.  The bytes   *)
(* of an index file are abstracted to its length, one unit for the header  *)
(* and one per entry, and to its entries; they are whole when the checksum *)
(* agrees.                                                                 *)
(***************************************************************************)
EXTENDS FileUtils, Sequences, SequencesExt

CONSTANTS INDEX,       \* path of the index file
          Files,       \* tracked paths, numbered in the order of strcmp
          Bytes,       \* contents of work tree files
          Gone,        \* contents, and stat, of a file that is not there
          Edited,      \* bound: the files that are written meanwhile
          Stats,       \* what stat(2) may tell of a work tree file
          MaxEdits,    \* bound: times work tree files are written
          MaxCommands, \* bound: commands run by all processes
          Faults       \* file accesses may fail and processes may be killed

ASSUME IndexIsPath == INDEX \in Paths
ASSUME FilesAreOrdered == Files \subseteq Nat
ASSUME SomeFile == Files # {} /\ Edited \subseteq Files
ASSUME GoneIsNoContents == Gone \notin Bytes \cup Stats
ASSUME SomeStat == Stats # {}
ASSUME BoundsAreNaturals == MaxEdits \in Nat /\ MaxCommands \in Nat

VARIABLES work,   \* [Files -> [bytes, stat]]: the work tree
          edits,  \* edits that may still be made
          blobs,  \* contents stored as blobs in the object database
          committed, \* what the trees of qgit commit refer to
          pc,     \* [Procs -> the file access that comes next]
          mem,    \* [Procs -> the entries in memory, in the order of the vector]
          todo,   \* [Procs -> the files qgit add has still to look at]
          cur,    \* [Procs -> the file at hand and the stat taken of it]
          left    \* commands that may still be run

commandVars == <<pc, mem, todo, cur, left>>
vars == <<fileVars, work, edits, blobs, committed, commandVars>>

IndexEntries == [path : Files, stat : Stats, oid : Bytes]
IndexContents == [entries : Seq(IndexEntries), len : Nat, whole : BOOLEAN]

ASSUME NothingIsNoIndex == Missing \notin IndexContents /\ Empty \notin IndexContents

Labels == {"idle", "stat", "blob", "write", "rename", "unlink", "tree"}

TypeOK ==
  /\ FileTypeOK(IndexContents)
  /\ work \in [Files -> [bytes : Bytes \cup {Gone}, stat : Stats]]
  /\ edits \in 0..MaxEdits
  /\ blobs \subseteq Bytes
  /\ committed \subseteq Files \X Bytes
  /\ pc \in [Procs -> Labels]
  /\ mem \in [Procs -> Seq(IndexEntries)]
  /\ todo \in [Procs -> SUBSET Files]
  /\ cur \in [Procs -> [path : Files, stat : Stats \cup {Gone}]]
  /\ left \in 0..MaxCommands

----------------------------------------------------------------------------
(* The index in memory *)

(* The position of the entry of a path, 0 if there is none. *)
Find(entries, path) ==
  IF \E i \in 1..Len(entries) : entries[i].path = path
  THEN CHOOSE i \in 1..Len(entries) :
         /\ entries[i].path = path
         /\ \A j \in 1..(i - 1) : entries[j].path # path
  ELSE 0

(* Mutant: the entry is given the new stat and keeps the old id. *)
Add2Refreshing(entries, e) ==
  LET i == Find(entries, e.path) IN
  IF i = 0 THEN Append(entries, e) ELSE [entries EXCEPT ![i].stat = e.stat]

(* qgit_index_add2: in the place of the entry of the same path, or at the end. *)
Add2(entries, e) ==
  LET i == Find(entries, e.path) IN
  IF i = 0 THEN Append(entries, e) ELSE [entries EXCEPT ![i] = e]

(* Mutant: only the inode is compared, which an edit in place keeps. *)
FileUnchangedInode(e, stat) == TRUE

(* file_unchanged *)
FileUnchanged(e, stat) == e.stat = stat

(* Mutant: the entries stay in the order they were added in. *)
Unsorted(entries) == {entries}

(* qgit_index_sort: what qsort may return. *)
Sortings(entries) ==
  LET Places == 1..Len(entries)
      InOrder(perm) == \A i, j \in Places :
        i < j => /\ perm[i] # perm[j]
                 /\ entries[perm[i]].path <= entries[perm[j]].path
  IN {[i \in Places |-> entries[perm[i]]] : perm \in {f \in [Places -> Places] : InOrder(f)}}

----------------------------------------------------------------------------
(* The index file *)

Image(entries) == [entries |-> entries, len |-> Len(entries) + 1, whole |-> TRUE]

(* The bytes of new over those of old, from the start of the file: what was *)
(* longer stays behind, after the checksum.                                  *)
Over(old, new) ==
  IF old # Empty /\ old.len > new.len
  THEN [new EXCEPT !.len = old.len, !.whole = FALSE]
  ELSE new

Cut(image) == [entries |-> <<>>, len |-> 1, whole |-> FALSE]

(* qgit_index_open: no file and an empty one are both an index without entries. *)
IsReadable(contents) == contents \in {Missing, Empty} \/ contents.whole
EntriesOf(contents) ==
  IF contents \in {Missing, Empty} THEN <<>> ELSE contents.entries

----------------------------------------------------------------------------
(* Commands *)

NoFile == [path |-> CHOOSE f \in Files : TRUE, stat |-> Gone]

Goto(p, label) == pc' = [pc EXCEPT ![p] = label]

(* die_errno, and the end of a command: the copy in memory is gone. *)
Exit(p) ==
  /\ Goto(p, "idle")
  /\ mem' = [mem EXCEPT ![p] = <<>>]
  /\ todo' = [todo EXCEPT ![p] = {}]
  /\ cur' = [cur EXCEPT ![p] = NoFile]
  /\ UNCHANGED left

(* qgit_repository_open reads the index; a file that does not parse ends the *)
(* command.                                                                   *)
Start(p, label, files) ==
  /\ pc[p] = "idle" /\ left > 0
  /\ left' = left - 1
  /\ LET contents == read_file(INDEX) IN
       IF IsReadable(contents)
       THEN /\ Goto(p, label)
            /\ mem' = [mem EXCEPT ![p] = EntriesOf(contents)]
            /\ todo' = [todo EXCEPT ![p] = files]
       ELSE UNCHANGED <<pc, mem, todo>>
  /\ UNCHANGED <<fileVars, work, edits, blobs, committed, cur>>

StartAdd(p, files) == Start(p, "stat", files)
StartCommit(p) == Start(p, "tree", {})

(* qgit_index_add, up to the stat: a missing file ends the command, one whose *)
(* entry has the same stat is skipped.                                        *)
StatFile(p, f) ==
  /\ pc[p] = "stat" /\ f \in todo[p]
  /\ LET i == Find(mem[p], f) IN
       IF work[f].bytes = Gone
       THEN Exit(p)
       ELSE /\ todo' = [todo EXCEPT ![p] = @ \ {f}]
            /\ IF i # 0 /\ FileUnchanged(mem[p][i], work[f].stat)
               THEN UNCHANGED <<pc, cur>>
               ELSE /\ Goto(p, "blob")
                         /\ cur' = [cur EXCEPT ![p] = [path |-> f, stat |-> work[f].stat]]
            /\ UNCHANGED <<mem, left>>
  /\ UNCHANGED <<fileVars, work, edits, blobs, committed>>

(* Mutant: the id of the blob is computed and the blob is not stored. *)
HashBlob(bytes) == UNCHANGED blobs

StoreBlob(bytes) == blobs' = blobs \cup {bytes}

(* qgit_blob_create_fromfile, and the entry from the stat taken before. *)
CreateBlob(p) ==
  /\ pc[p] = "blob"
  /\ LET f == cur[p].path IN
       IF work[f].bytes = Gone
       THEN Exit(p) /\ UNCHANGED blobs
       ELSE /\ StoreBlob(work[f].bytes)
            /\ mem' = [mem EXCEPT ![p] = Add2(@, [path |-> f, stat |-> cur[p].stat,
                                                  oid |-> work[f].bytes])]
            /\ Goto(p, "stat")
            /\ cur' = [cur EXCEPT ![p] = NoFile]
            /\ UNCHANGED <<todo, left>>
  /\ UNCHANGED <<fileVars, work, edits, committed>>

(* qgit_index_write sorts the vector and opens the temporary of write_file. *)
OpenIndexTmp(p) ==
  /\ pc[p] = "stat" /\ todo[p] = {}
  /\ OpenTmp(p, INDEX)
  /\ \E entries \in Sortings(mem[p]) : mem' = [mem EXCEPT ![p] = entries]
  /\ Goto(p, "write")
  /\ UNCHANGED <<work, edits, blobs, committed, todo, cur, left>>

WriteIndex(p) ==
  /\ pc[p] = "write"
  /\ WriteAndClose(p, Over(data[fd[p]], Image(mem[p])))
  /\ Goto(p, "rename")
  /\ UNCHANGED <<work, edits, blobs, committed, mem, todo, cur, left>>

(* rename(tmp, path); the temporary may be gone, taken by another process. *)
RenameIndex(p) ==
  /\ pc[p] = "rename"
  /\ IF CanRenameTmp(INDEX)
     THEN RenameTmp(INDEX) /\ Exit(p)
     ELSE Goto(p, "unlink") /\ UNCHANGED <<fileVars, mem, todo, cur, left>>
  /\ UNCHANGED <<work, edits, blobs, committed>>

UnlinkIndexTmp(p) ==
  /\ pc[p] = "unlink"
  /\ UnlinkTmp(INDEX)
  /\ Exit(p)
  /\ UNCHANGED <<work, edits, blobs, committed>>

(* qgit_tree_create_fromindex; IndexTree tells how the tree is built. *)
WriteTree(p) ==
  /\ pc[p] = "tree"
  /\ committed' = committed \cup {<<e.path, e.oid>> : e \in ToSet(mem[p])}
  /\ Exit(p)
  /\ UNCHANGED <<fileVars, work, edits, blobs>>

----------------------------------------------------------------------------
(* Faults and the world outside *)

(* A stat, a read, an object or the opening of the temporary fails. *)
AccessFails(p) ==
  /\ Faults /\ pc[p] \in {"stat", "blob", "tree"}
  /\ Exit(p)
  /\ UNCHANGED <<fileVars, work, edits, blobs, committed>>

(* write_all stops half-way, on a full disk; the temporary is closed. *)
WriteFails(p) ==
  /\ Faults /\ pc[p] = "write"
  /\ \E image \in {Cut(Image(mem[p])), Image(mem[p])} :
       WriteAndClose(p, Over(data[fd[p]], image))
  /\ Goto(p, "unlink")
  /\ UNCHANGED <<work, edits, blobs, committed, mem, todo, cur, left>>

Kill(p) ==
  /\ Faults /\ pc[p] # "idle"
  /\ CloseAll(p)
  /\ Exit(p)
  /\ UNCHANGED <<work, edits, blobs, committed>>

(* The user writes or removes a file; what stat(2) tells of it afterwards may *)
(* be what it told before (the stat of a file that is gone is never looked at). *)
Edit(f, bytes, stat) ==
  /\ edits > 0 /\ bytes # work[f].bytes
  /\ edits' = edits - 1
  /\ work' = [work EXCEPT ![f] = [bytes |-> bytes, stat |-> stat]]
  /\ UNCHANGED <<fileVars, blobs, committed, commandVars>>

Init ==
  /\ dir = [x \in Paths |-> NoInode] /\ tmp = [x \in Paths |-> NoInode]
  /\ data = [i \in Inodes |-> Empty] /\ fd = [p \in Procs |-> NoInode]
  /\ work \in [Files -> [bytes : Bytes, stat : Stats]]
  /\ edits = MaxEdits
  /\ blobs = {} /\ committed = {}
  /\ pc = [p \in Procs |-> "idle"] /\ mem = [p \in Procs |-> <<>>]
  /\ todo = [p \in Procs |-> {}]
  /\ cur = [p \in Procs |-> NoFile]
  /\ left = MaxCommands

Step(p) ==
  \/ \E files \in SUBSET Files : StartAdd(p, files)
  \/ StartCommit(p)
  \/ \E f \in Files : StatFile(p, f)
  \/ CreateBlob(p)
  \/ OpenIndexTmp(p)
  \/ WriteIndex(p)
  \/ RenameIndex(p)
  \/ UnlinkIndexTmp(p)
  \/ WriteTree(p)
  \/ AccessFails(p)
  \/ WriteFails(p)
  \/ Kill(p)

Next ==
  \/ \E p \in Procs : Step(p)
  \/ \E f \in Edited, bytes \in Bytes \cup {Gone}, stat \in Stats : Edit(f, bytes, stat)

Spec == Init /\ [][Next]_vars
=============================================================================
