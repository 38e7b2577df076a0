------------------------------ MODULE LooseOdb ------------------------------
(***************************************************************************)
(* The object database (src/src/libqgit/odb) over directories of loose     *)
(* objects.  An object is written in place: open with O_TRUNC, write, and  *)
(* on failure unlink.  Writers and readers of one object share its file    *)
(* without a lock, and a writer of an object that is already stored        *)
(* truncates and rewrites the file other objects and references rely on.   *)
(*                                                                         *)
(* The compressed bytes of an object are Blocks equal pieces.  They are a  *)
(* function of the object, so a file is described by the set of its pieces *)
(* that have been written and by its length; a hole left by a truncation   *)
(* between two writes reads as zeros.  zlib and the checksum of its format *)
(* accept the whole file only.                                             *)
(***************************************************************************)
EXTENDS Integers, FiniteSets, Sequences, SequencesExt

CONSTANTS Procs,       \* processes with the object database open
          Objects,     \* objects, by their SHA-1
          Abbrevs,     \* abbreviated ids
          Match,       \* [Abbrevs -> set of the objects they abbreviate]
          Fans,        \* the two digits that name a fanout directory
          FanOf,       \* [Objects \cup Abbrevs -> Fans]
          Dirs,        \* directories of loose objects
          Priorities,  \* priorities to attach them with
          Inodes,      \* inodes of the file system
          NoInode,     \* no directory entry
          Blocks,      \* length of the file of an object
          Faults       \* writes may fail and processes may be killed

ASSUME BlocksAssumption == Blocks \in Nat \ {0}
ASSUME PrioritiesAssumption == Priorities \subseteq Int
ASSUME SomeObject == Objects # {}
ASSUME NoInodeFresh == NoInode \notin Inodes
ASSUME FanAssumption ==
  /\ Match \in [Abbrevs -> SUBSET Objects]
  /\ FanOf \in [Objects \cup Abbrevs -> Fans]

VARIABLES backends,  \* sequence of [dir, priority], in the order of searching
          fan,       \* [Dirs -> the fanout directories made in it]
          entry,     \* [Dirs -> [Objects -> inode or NoInode]]
          written,   \* [Inodes -> the pieces written since the last truncation]
          length,    \* [Inodes -> st_size]
          pc,        \* [Procs -> the file access that comes next]
          reg        \* [Procs -> what the process holds in memory]

fileVars == <<fan, entry, written, length>>
vars == <<backends, fan, entry, written, length, pc, reg>>

Pieces == 1..Blocks
Entry == Inodes \cup {NoInode}

WriterLabels == {"statDir", "mkdir", "open", "write", "unlink"}
ReaderLabels == {"scan", "stat", "openRead", "read", "exists"}
Answers == {"none", "ok", "notfound", "error", "ambiguous", "killed"}

(* op: the call; want: what it is asked for; obj: the object at hand; at: the *)
(* position in backends; ino: the open file; off: the file offset; len: the   *)
(* length found by stat; good: every piece read so far was a written one.     *)
Registers ==
  [op : {"none", "read", "prefix", "exists", "write"},
   want : Objects \cup Abbrevs, obj : Objects, at : Nat, ino : Entry,
   off : 0..Blocks, len : 0..Blocks, good : BOOLEAN, answer : Answers]

TypeOK ==
  /\ backends \in Seq([dir : Dirs, priority : Priorities])
  /\ fan \in [Dirs -> SUBSET Fans]
  /\ entry \in [Dirs -> [Objects -> Entry]]
  /\ written \in [Inodes -> SUBSET Pieces]
  /\ length \in [Inodes -> 0..Blocks]
  /\ pc \in [Procs -> {"idle"} \cup WriterLabels \cup ReaderLabels]
  /\ reg \in [Procs -> Registers]
  /\ \A p \in Procs : pc[p] # "idle" => reg[p].at \in 1..Len(backends)

----------------------------------------------------------------------------
(* The list of backends *)

(* Mutant: in the order they are attached in. *)
AddBackendLast(list, b) == Append(list, b)

(* odb_add_backend: before the first backend of a lower priority. *)
AddBackend(list, b) ==
  LET lower == {i \in 1..Len(list) : b.priority > list[i].priority} IN
  IF lower = {} THEN Append(list, b)
  ELSE InsertAt(list, CHOOSE i \in lower : \A j \in lower : i <= j, b)


Attached == {backends[i].dir : i \in 1..Len(backends)}

(* qgit attaches one directory (odb_open); users of the library attach more, *)
(* between two calls.                                                        *)
Attach(d, n) ==
  /\ d \notin Attached
  /\ \A p \in Procs : pc[p] = "idle"
  /\ backends' = AddBackend(backends, [dir |-> d, priority |-> n])
  /\ UNCHANGED <<fan, entry, written, length, pc, reg>>

----------------------------------------------------------------------------
(* Helpers *)

DirOf(p) == backends[reg[p].at].dir
FileOf(p) == entry[DirOf(p)][reg[p].obj]

InUse(i) ==
  \/ \E d \in Dirs, o \in Objects : entry[d][o] = i
  \/ \E p \in Procs : pc[p] # "idle" /\ reg[p].ino = i
FreeInodes == {i \in Inodes : ~InUse(i)}

Whole(i) == written[i] = Pieces

(* The file system reclaims a file without name and descriptor; w and n are  *)
(* the contents and lengths after the step.                                  *)
Reclaim(w, n) ==
  /\ written' = [i \in Inodes |-> IF InUse(i)' THEN w[i] ELSE {}]
  /\ length' = [i \in Inodes |-> IF InUse(i)' THEN n[i] ELSE 0]

Goto(p, label) == pc' = [pc EXCEPT ![p] = label]

Fresh(op, want, o, answer) ==
  [op |-> op, want |-> want, obj |-> o, at |-> 1, ino |-> NoInode, off |-> 0,
   len |-> 0, good |-> TRUE, answer |-> answer]
AnyObject == CHOOSE o \in Objects : TRUE

Return(p, answer) ==
  /\ Goto(p, "idle")
  /\ reg' = [reg EXCEPT ![p] = Fresh("none", AnyObject, AnyObject, answer)]

(* A call goes on with the next backend, from the first step of its search; *)
(* after the last one it answers what it has not found.                     *)
NextBackend(p, label, answer) ==
  IF reg[p].at < Len(backends)
  THEN /\ Goto(p, label)
       /\ reg' = [reg EXCEPT ![p].at = @ + 1, ![p].ino = NoInode]
  ELSE Return(p, answer)

Begin(p, op, want, o, label) ==
  /\ pc[p] = "idle"
  /\ backends # <<>>
  /\ Goto(p, label)
  /\ reg' = [reg EXCEPT ![p] = Fresh(op, want, o, "none")]
  /\ UNCHANGED <<backends, fan, entry, written, length>>

----------------------------------------------------------------------------
(* qgit_odb_write, qgit_loose_backend_write, zlib_compressf *)

StartWrite(p, o) == Begin(p, "write", o, o, "statDir")

(* dir_exists(dirpath) *)
StatDir(p) ==
  /\ pc[p] = "statDir"
  /\ Goto(p, IF FanOf[reg[p].obj] \in fan[DirOf(p)] THEN "open" ELSE "mkdir")
  /\ UNCHANGED <<backends, fan, entry, written, length, reg>>

(* mkdir fails with EEXIST when another process made the directory since. *)
Mkdir(p) ==
  /\ pc[p] = "mkdir"
  /\ IF FanOf[reg[p].obj] \in fan[DirOf(p)]
     THEN NextBackend(p, "statDir", "error") /\ UNCHANGED fan
     ELSE /\ fan' = [fan EXCEPT ![DirOf(p)] = @ \cup {FanOf[reg[p].obj]}]
          /\ Goto(p, "open")
          /\ UNCHANGED reg
  /\ UNCHANGED <<backends, entry, written, length>>

OpenOn(p, i) ==
  /\ pc[p] = "open"
  /\ i \in Inodes
  /\ entry' = [entry EXCEPT ![DirOf(p)][reg[p].obj] = i]
  /\ written' = [written EXCEPT ![i] = {}]
  /\ length' = [length EXCEPT ![i] = 0]
  /\ reg' = [reg EXCEPT ![p].ino = i, ![p].off = 0]
  /\ Goto(p, "write")
  /\ UNCHANGED <<backends, fan>>

(* open(path, O_WRONLY | O_CREAT | O_TRUNC): the file of the object if there *)
(* is one, and a new file otherwise.                                         *)
Open(p) ==
  \/ pc[p] = "open" /\ FileOf(p) # NoInode /\ OpenOn(p, FileOf(p))
  \/ /\ pc[p] = "open"
     /\ FileOf(p) = NoInode
     /\ FreeInodes # {}
     /\ OpenOn(p, CHOOSE i \in FreeInodes : TRUE)

(* Mutant: a short write is taken for a complete one. *)
WriteOnce(p) ==
  /\ pc[p] = "write"
  /\ LET n == reg[p].off + 1
         i == reg[p].ino
     IN /\ Return(p, "ok")
        /\ UNCHANGED <<backends, fan, entry>>
        /\ Reclaim([written EXCEPT ![i] = @ \cup {n}],
                   [length EXCEPT ![i] = IF n > @ THEN n ELSE @])

(* write_all: one piece; after the last one the file is closed. *)
Write(p) ==
  /\ pc[p] = "write"
  /\ LET n == reg[p].off + 1
         i == reg[p].ino
     IN /\ IF n = Blocks THEN Return(p, "ok")
           ELSE /\ reg' = [reg EXCEPT ![p].off = n]
                /\ UNCHANGED pc
        /\ UNCHANGED <<backends, fan, entry>>
        /\ Reclaim([written EXCEPT ![i] = @ \cup {n}],
                   [length EXCEPT ![i] = IF n > @ THEN n ELSE @])

WriteError(p) ==
  /\ Faults
  /\ pc[p] = "write"
  /\ Goto(p, "unlink")
  /\ reg' = [reg EXCEPT ![p].ino = NoInode]
  /\ UNCHANGED <<backends, fan, entry>>
  /\ Reclaim(written, length)

(* unlink(path): the name, whatever file it has come to stand for. *)
Unlink(p) ==
  /\ pc[p] = "unlink"
  /\ entry' = [entry EXCEPT ![DirOf(p)][reg[p].obj] = NoInode]
  /\ NextBackend(p, "statDir", "error")
  /\ UNCHANGED <<backends, fan>>
  /\ Reclaim(written, length)

----------------------------------------------------------------------------
(* qgit_odb_read, _read_header, _read_prefix, _exists; zlib_decompressf *)

StartRead(p, o) == Begin(p, "read", o, o, "stat")

StartPrefix(p, a) == Begin(p, "prefix", a, AnyObject, "scan")

StartExists(p, o) == Begin(p, "exists", o, o, "exists")

FirstStep(op) == IF op = "prefix" THEN "scan" ELSE "stat"

(* Mutant: the other backends are not asked. *)
NotFoundAtOnce(p) == Return(p, "notfound")

NotFound(p) == NextBackend(p, FirstStep(reg[p].op), "notfound")

(* opendir and readdir.  Without the fanout directory the call fails with the *)
(* ENOENT of opendir, which is not QGITERR_OBJNOTFOUND.                        *)
Scan(p) ==
  LET a == reg[p].want
      found == {o \in Match[a] : entry[DirOf(p)][o] # NoInode}
  IN /\ pc[p] = "scan"
     /\ \/ /\ FanOf[a] \notin fan[DirOf(p)]
           /\ Return(p, "error")
        \/ /\ FanOf[a] \in fan[DirOf(p)]
           /\ found = {}
           /\ NotFound(p)
        \/ /\ FanOf[a] \in fan[DirOf(p)]
           /\ Cardinality(found) > 1
           /\ Return(p, "ambiguous")
        \/ /\ FanOf[a] \in fan[DirOf(p)]
           /\ \E o \in Objects : /\ found = {o}
                                 /\ reg' = [reg EXCEPT ![p].obj = o]
           /\ Goto(p, "stat")
     /\ UNCHANGED <<backends, fan, entry, written, length>>

(* stat: an empty file is refused with EINVAL. *)
Stat(p) ==
  /\ pc[p] = "stat"
  /\ \/ FileOf(p) = NoInode /\ NotFound(p)
     \/ FileOf(p) # NoInode /\ length[FileOf(p)] = 0 /\ Return(p, "error")
     \/ /\ FileOf(p) # NoInode
        /\ length[FileOf(p)] > 0
        /\ reg' = [reg EXCEPT ![p].len = length[FileOf(p)]]
        /\ Goto(p, "openRead")
  /\ UNCHANGED <<backends, fan, entry, written, length>>

OpenRead(p) ==
  /\ pc[p] = "openRead"
  /\ \/ FileOf(p) = NoInode /\ NotFound(p)
     \/ /\ FileOf(p) # NoInode
        /\ reg' = [reg EXCEPT ![p].ino = FileOf(p), ![p].off = 0,
                              ![p].good = TRUE]
        /\ Goto(p, "read")
  /\ UNCHANGED <<backends, fan, entry, written, length>>

(* read_all, up to the length that stat found: a shorter file is EIO, and what *)
(* was read is inflated and parsed after the last piece.                      *)
Read(p) ==
  LET n == reg[p].off + 1
      fine == reg[p].good /\ n \in written[reg[p].ino]
  IN /\ pc[p] = "read"
     /\ \/ /\ n > length[reg[p].ino]
           /\ Return(p, "error")
        \/ /\ n <= length[reg[p].ino]
           /\ n < reg[p].len
           /\ reg' = [reg EXCEPT ![p].off = n, ![p].good = fine]
           /\ UNCHANGED pc
        \/ /\ n <= length[reg[p].ino]
           /\ n = reg[p].len
           /\ Return(p, IF fine /\ n = Blocks THEN "ok" ELSE "error")
     /\ UNCHANGED <<backends, fan, entry>>
     /\ Reclaim(written, length)

(* qgit_loose_backend_exists: stat, whatever the file holds. *)
Exists(p) ==
  /\ pc[p] = "exists"
  /\ IF FileOf(p) # NoInode THEN Return(p, "ok")
     ELSE NextBackend(p, "exists", "notfound")
  /\ UNCHANGED <<backends, fan, entry, written, length>>

----------------------------------------------------------------------------
(* A process is killed at any point; its files stay as they are. *)
Crash(p) ==
  /\ Faults
  /\ pc[p] # "idle"
  /\ Return(p, "killed")
  /\ UNCHANGED <<backends, fan, entry>>
  /\ Reclaim(written, length)

Fault(p) == WriteError(p) \/ Crash(p)

Call(p) ==
  \/ \E o \in Objects : StartWrite(p, o) \/ StartRead(p, o) \/ StartExists(p, o)
  \/ \E a \in Abbrevs : StartPrefix(p, a)

Step(p) ==
  \/ StatDir(p) \/ Mkdir(p) \/ Open(p) \/ Write(p) \/ Unlink(p)
  \/ Scan(p) \/ Stat(p) \/ OpenRead(p) \/ Read(p) \/ Exists(p)

AttachAny == \E d \in Dirs, n \in Priorities : Attach(d, n)

Init ==
  /\ backends = <<>>
  /\ fan = [d \in Dirs |-> {}]
  /\ entry = [d \in Dirs |-> [o \in Objects |-> NoInode]]
  /\ written = [i \in Inodes |-> {}]
  /\ length = [i \in Inodes |-> 0]
  /\ pc = [p \in Procs |-> "idle"]
  /\ reg = [p \in Procs |-> Fresh("none", AnyObject, AnyObject, "none")]

Next ==
  \/ AttachAny
  \/ \E p \in Procs : Call(p) \/ Step(p) \/ Fault(p)

Spec == Init /\ [][Next]_vars
=============================================================================
