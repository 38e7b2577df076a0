----------------------------- MODULE OdbHistory -----------------------------
(***************************************************************************)
(* LooseOdb with history variables: whose file a failed or killed writer   *)
(* has left in doubt, and what a read has met on its way.  They change     *)
(* nothing in the behaviours of LooseOdb.                                  *)
(***************************************************************************)
EXTENDS LooseOdb

VARIABLES hurt,  \* [Dirs -> objects a writer failed on, not rewritten alone since]
          sure,  \* [Procs -> its read began with the object stored and unhurt,
                 \*           and no writer has failed on the object since]
          met    \* [Procs -> a writer of the object was at work during its read]

hvars == <<vars, hurt, sure, met>>

(* p has opened the file of object o in directory d and not finished with it. *)
AtWork(p, d, o) ==
  pc[p] \in {"write", "unlink"} /\ DirOf(p) = d /\ reg[p].obj = o

Alone(p) == \A q \in Procs \ {p} : ~AtWork(q, DirOf(p), reg[p].obj)

HurtBy(p) == [hurt EXCEPT ![DirOf(p)] = @ \cup {reg[p].obj}]
HealedBy(p) == [hurt EXCEPT ![DirOf(p)] = @ \ {reg[p].obj}]

(* The failure of a writer hurts its object; a rewriting that begins alone    *)
(* makes it good again.                                                      *)
Mark(p) ==
  hurt' = CASE pc[p] = "write" /\ pc'[p] = "unlink" -> HurtBy(p)
            [] pc[p] = "write" /\ pc'[p] = "idle" /\ reg'[p].answer = "killed"
                 -> HurtBy(p)
            [] pc[p] = "open" /\ pc'[p] = "write" /\ Alone(p) -> HealedBy(p)
            [] OTHER -> hurt

Stored(o) == \E d \in Attached : entry[d][o] # NoInode /\ o \notin hurt[d]

Reading(p) == pc[p] # "idle" /\ reg[p].op = "read"
Meets(p) ==
  Reading(p) /\ \E q \in Procs, d \in Dirs : AtWork(q, d, reg[p].obj)
Doubtful(p) == Reading(p) /\ \E d \in Dirs : reg[p].obj \in hurt[d]

Watch ==
  /\ sure' = [p \in Procs |->
                /\ Reading(p)' /\ ~Doubtful(p)'
                /\ IF pc[p] = "idle" THEN Stored(reg[p].obj)' ELSE sure[p]]
  /\ met' = [p \in Procs |->
               Meets(p)' \/ (Reading(p)' /\ pc[p] # "idle" /\ met[p])]

HInit == /\ Init
         /\ hurt = [d \in Dirs |-> {}]
         /\ sure = [p \in Procs |-> FALSE]
         /\ met = [p \in Procs |-> FALSE]

HNext ==
  \/ AttachAny /\ UNCHANGED <<hurt, sure, met>>
  \/ \E p \in Procs : (Call(p) \/ Step(p) \/ Fault(p)) /\ Mark(p) /\ Watch

HSpec == HInit /\ [][HNext]_hvars

----------------------------------------------------------------------------
(* Safety *)

(* An object file that no writer is at work on, and no writer has failed on,  *)
(* holds the whole object, although writers truncate it and write it from     *)
(* their own offsets at the same time: a hole that one truncation leaves is   *)
(* always still to be filled by the writer that made it.                      *)
StoredIsWhole ==
  \A d \in Dirs : \A o \in Objects \ hurt[d] :
    \/ entry[d][o] = NoInode
    \/ Whole(entry[d][o])
    \/ \E p \in Procs : AtWork(p, d, o)

(* The parts of the inductive invariant behind it.  A writer of an unhurt    *)
(* file has open the file that is linked, and no other.                      *)
WritersAreLinked ==
  \A p \in Procs, d \in Dirs : \A o \in Objects \ hurt[d] :
    AtWork(p, d, o) => pc[p] = "write" /\ reg[p].ino = entry[d][o]

(* The pieces behind the offset of p are all in the file: no truncation since *)
(* p has opened it.                                                          *)
Covered(p) == 1..reg[p].off \subseteq written[reg[p].ino]

(* An unhurt file that is not whole has a writer like that, who will fill it. *)
LastTruncationIsCovered ==
  \A d \in Dirs : \A o \in Objects \ hurt[d] :
    \/ entry[d][o] = NoInode
    \/ Whole(entry[d][o])
    \/ \E p \in Procs : AtWork(p, d, o) /\ pc[p] = "write" /\ Covered(p)

(* Two objects never share a file, and a writer has open a file of its object. *)
FilesAreDistinct ==
  \A d, e \in Dirs : \A o, u \in Objects :
    entry[d][o] = entry[e][u] /\ entry[d][o] # NoInode => d = e /\ o = u

WritersKeepApart ==
  \A p \in Procs, d \in Dirs, o \in Objects :
    pc[p] = "write" /\ reg[p].ino = entry[d][o] => AtWork(p, d, o)

WritersAreOpen ==
  \A p \in Procs :
    pc[p] = "write" => reg[p].ino # NoInode /\ reg[p].off < Blocks

WriterInv ==
  /\ WritersAreOpen
  /\ WritersAreLinked
  /\ LastTruncationIsCovered
  /\ FilesAreDistinct
  /\ WritersKeepApart

(* What a read knows at each place of its run, beside WriterInv.  The pieces  *)
(* of a file lie within its length.                                          *)
PiecesAreWithin == \A i \in Inodes : written[i] \subseteq 1..length[i]

(* The object is stored in the directory at hand or in one still to come. *)
Ahead(p) ==
  \E j \in 1..Len(backends) :
    reg[p].at <= j /\ entry[backends[j].dir][reg[p].obj] # NoInode

(* What it has open is the whole file, and so far it has read nothing else. *)
ReadsWhole(p) ==
  /\ pc[p] \in {"openRead", "read"} => reg[p].len = Blocks
  /\ pc[p] = "read" => /\ reg[p].ino = FileOf(p) /\ FileOf(p) # NoInode
                       /\ Whole(reg[p].ino)
                       /\ reg[p].good /\ reg[p].off < Blocks

ReaderInv ==
  /\ PiecesAreWithin
  /\ \A p \in Procs :
       /\ Reading(p) => pc[p] \in {"stat", "openRead", "read"}
       /\ sure[p] => Reading(p) /\ ~Doubtful(p) /\ Ahead(p)
       /\ Meets(p) => met[p]
       /\ sure[p] /\ ~met[p] => ReadsWhole(p)

(* A read of an object that is stored, and on which no writer fails, never   *)
(* answers that there is none; and it delivers the object, or meets a writer  *)
(* that is rewriting it.                                                      *)
ReadFindsStored ==
  [][\A p \in Procs :
       Reading(p) /\ pc'[p] = "idle" /\ sure[p] /\ reg'[p].answer # "killed"
         => /\ reg'[p].answer # "notfound"
            /\ reg'[p].answer = "ok" \/ met[p]]_hvars

(* The backends are searched by descending priority. *)
SearchedByPriority ==
  \A i, j \in 1..Len(backends) :
    i < j => backends[i].priority >= backends[j].priority

----------------------------------------------------------------------------
(* What the documentation says of abbreviated ids *)

StoredMatches(a) ==
  {o \in Match[a] : \E d \in Attached : entry[d][o] # NoInode}

Answered(p, op) ==
  pc[p] # "idle" /\ pc'[p] = "idle" /\ reg[p].op = op

(* odb_backend.h:51 "Behaves like read but accepts a prefix": read goes on to *)
(* the next backend until the object is found.                                *)
PrefixFindsStored ==
  [][\A p \in Procs :
       Answered(p, "prefix") /\ Cardinality(StoredMatches(reg[p].want)) = 1
         => reg'[p].answer = "ok"]_hvars
=============================================================================
