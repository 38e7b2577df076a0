---------------------------- MODULE IndexHistory ----------------------------
(***************************************************************************)
(* What several commands over one index file keep true.  History variables *)
(* remember what a command was asked for and whether another one came in   *)
(* between: fresh while the index is still the one the command has read,   *)
(* lone while no other command has the temporary open; and which stats a   *)
(* file has worn, so that an edit stat(2) cannot tell from an earlier one  *)
(* is known.                                                               *)
(***************************************************************************)
EXTENDS IndexFile

VARIABLES asked,  \* [Procs -> the files qgit add was given]
          since,  \* [Procs -> [Files -> stats since the command started]]
          fresh,  \* [Procs -> the index is the one it has read]
          lone,   \* [Procs -> no other writer since it started]
          worn,   \* [Files -> the stats the file has had]
          again   \* files whose last edit left a stat they had had before

history == <<asked, since, fresh, lone, worn, again>>
hvars == <<vars, history>>

Writing(p) == pc[p] \in {"write", "rename", "unlink"}
Starts(p) == pc[p] = "idle" /\ pc'[p] # "idle"
Ends(p) == pc'[p] = "idle"
Opens(p) == pc[p] = "stat" /\ pc'[p] = "write"

Meet(p, q) == (Opens(p) /\ Writing(q)) \/ (Opens(q) /\ Writing(p))

(* The action in which qgit add takes effect. *)
Publishes(p) == pc[p] = "rename" /\ dir' # dir

HInit ==
  /\ Init
  /\ asked = [p \in Procs |-> {}]
  /\ since = [p \in Procs |-> [f \in Files |-> {}]]
  /\ fresh = [p \in Procs |-> FALSE] /\ lone = [p \in Procs |-> FALSE]
  /\ worn = [f \in Files |-> {work[f].stat}] /\ again = {}

HNext ==
  /\ Next
  /\ asked' = [p \in Procs |-> CASE Starts(p) -> todo'[p]
                                 [] Ends(p) -> {}
                                 [] OTHER -> asked[p]]
  /\ since' = [p \in Procs |-> [f \in Files |->
                 IF Ends(p) THEN {} ELSE since[p][f] \cup {work'[f].stat}]]
  /\ fresh' = [p \in Procs |->
                 \/ Starts(p)
                 \/ ~Ends(p) /\ fresh[p] /\ read_file(INDEX)' = read_file(INDEX)]
  /\ lone' = [p \in Procs |->
                 \/ Starts(p)
                 \/ ~Ends(p) /\ lone[p] /\ ~\E q \in Procs \ {p} : Meet(p, q)]
  /\ worn' = [f \in Files |-> worn[f] \cup {work'[f].stat}]
  /\ again' = {f \in Files : IF work'[f] = work[f] THEN f \in again
                                                   ELSE work'[f].stat \in worn[f]}

HSpec == HInit /\ [][HNext]_hvars

----------------------------------------------------------------------------
(* Properties *)

Published == EntriesOf(read_file(INDEX))

(* An entry tells the truth: its blob is stored, its stat is one the file has  *)
(* had, and if the file has it still, the blob is the contents of the file.    *)
Truthful(e) ==
  /\ e.oid \in blobs
  /\ e.stat \in worn[e.path]
  /\ e.stat = work[e.path].stat /\ e.path \notin again => e.oid = work[e.path].bytes
AllTruthful(entries) == \A k \in 1..Len(entries)   : Truthful(entries[k])

Ordered(entries) ==
  \A i, j \in 1..Len(entries) : i < j => entries[i].path < entries[j].path
Unique(entries) ==
  \A i, j \in 1..Len(entries) : i # j => entries[i].path # entries[j].path

FileIsSound(i) ==
  data[i] # Empty => AllTruthful(data[i].entries) /\ Ordered(data[i].entries)

(* A stat in hand was taken before the read that follows (index_add.c:68-79). *)
CommandIsSound(p) ==
  /\ AllTruthful(mem[p]) /\ Unique(mem[p])
  /\ pc[p] = "write" => fd[p] \in Inodes /\ Ordered(mem[p])
  /\ pc[p] = "blob" => cur[p].stat \in worn[cur[p].path]

(* Every stat a file has or had is remembered. *)
WornOK ==
  /\ worn \in [Files -> SUBSET Stats] /\ again \subseteq Files
  /\ \A f \in Files : work[f].stat \in worn[f]

(* The inductive invariant: every copy of the index, in a file or in memory,  *)
(* tells the truth, whoever wrote it (index_add.c:68-97, index_write.c:76).   *)
IndexInv ==
  /\ TypeOK /\ WornOK
  /\ \A i \in Inodes : FileIsSound(i)
  /\ \A p \in Procs : CommandIsSound(p)
  /\ \A e \in committed : e[2] \in blobs

(* An id in the published index, or in a tree made of one, is the id of a blob *)
(* that is stored: the blob is written before the entry, the entry before the  *)
(* index, whoever dies in between (index_add.c:79-97, add.c:46-52).            *)
IndexedBlobsAreStored ==
  /\ \A e \in ToSet(Published) : e.oid \in blobs
  /\ \A e \in committed : e[2] \in blobs

(* An entry whose stat is that of the file holds the contents of the file, so *)
(* skipping the file in index_add.c:71-77 loses no change, unless the last    *)
(* edit of the file left a stat the file had had before (the same size within *)
(* one tick of the clock, or a time set back): file_unchanged compares size,  *)
(* mtime, mode, inode and device only, and such an edit is lost.  It is the   *)
(* only one: an edit between the stat and the read is not.                    *)
UnchangedIsUnchanged ==
  \A e \in ToSet(Published) :
    e.path \notin again /\ e.stat = work[e.path].stat => e.oid = work[e.path].bytes

(* The published index is sorted and has one entry per path, whatever mixture *)
(* of commands wrote it (index_add2.c:33, index_write.c:76).                  *)
PublishedIsSorted == Ordered(Published)

(* qgit add whose index nobody replaced and whose temporary nobody shared is a *)
(* transaction: the new index can be read, it has for each file it was given   *)
(* an entry with a stat the file had at or after the start of the command, and *)
(* for the others what it had before (add.c:46-52, index_write.c:110).         *)
UndisturbedAddIsTransaction ==
  [][\A p \in Procs :
       Publishes(p) /\ fresh[p] /\ lone[p]
       => LET old == ToSet(Published)
              new == ToSet(Published)'
          IN /\ IsReadable(read_file(INDEX))'
             /\ {e \in new : e.path \notin asked[p]}
                  = {e \in old : e.path \notin asked[p]}
             /\ \A f \in asked[p] :
                  \E e \in new : e.path = f /\ e.stat \in since[p][f]]_hvars
----------------------------------------------------------------------------
(* What qgit add knows at each place of its run, beside IndexInv: the         *)
(* invariant behind the transaction.                                          *)

Adding(p) == pc[p] \in {"stat", "blob", "write", "rename"}

(* The entries of the files that p was not asked for. *)
Others(p, entries) == {e \in ToSet(entries) : e.path \notin asked[p]}

(* Its copy has an entry of f as recent as the start of the command. *)
HasAdded(p, f) ==
  \E e \in ToSet(mem[p]) : e.path = f /\ e.stat \in since[p][f]

AddKnows(p) ==
  /\ todo[p] \subseteq asked[p] /\ asked[p] \subseteq Files
  /\ \A f \in Files : work[f].stat \in since[p][f]
  /\ pc[p] = "blob" =>
       cur[p].path \in asked[p] /\ cur[p].stat \in since[p][cur[p].path]
  /\ \A f \in asked[p] \ todo[p] :
       (pc[p] = "blob" /\ f = cur[p].path) \/ HasAdded(p, f)
  /\ Writing(p) => todo[p] = {}
  /\ fresh[p] => Others(p, mem[p]) = Others(p, Published)

(* The temporary is its own, from the truncation to the rename. *)
TmpIsOwn(p) ==
  /\ Writing(p) => \A q \in Procs \ {p} : ~Writing(q)
  /\ pc[p] = "write" => tmp[INDEX] = fd[p] /\ data[fd[p]] = Empty
  /\ pc[p] = "rename" =>
       tmp[INDEX] # NoInode /\ data[tmp[INDEX]] = Image(mem[p])

AddInv ==
  /\ since \in [Procs -> [Files -> SUBSET Stats]]
  /\ \A p \in Procs : /\ Adding(p) => AddKnows(p)
                      /\ lone[p] => TmpIsOwn(p)
=============================================================================
