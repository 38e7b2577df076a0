---------------------------- MODULE RefTxnProofs ----------------------------
(***************************************************************************)
(* For every number of processes, commands and references.  First RefInv   *)
(* and TmpInv: every reference names a stored object, history has no holes *)
(* and an empty file or a temporary has a process that will finish it.     *)
(* Then TxnInv: a command whose files nobody else has changed is one       *)
(* transaction of RefDb, and fails only when RefDb refuses it, because     *)
(* what it has in memory is what the files say now; and a repository with  *)
(* one process implements RefDb.                                           *)
(***************************************************************************)
EXTENDS RefHistory, FiniteSetTheorems, WellFoundedInduction, TLAPS

----------------------------------------------------------------------------
(* The file layer *)

(* Forgetting the contents of reclaimed inodes only empties files. *)
LEMMA ReclaimedEmpties ==
  ASSUME NEW contents, NEW d, NEW t, NEW f, NEW i \in Inodes
  PROVE  Reclaimed(contents, d, t, f)[i] \in {contents[i], Empty}
BY DEF Reclaimed

LEMMA ReclaimedType ==
  ASSUME NEW S, Empty \in S,
         NEW contents \in [Inodes -> S], NEW d, NEW t, NEW f
  PROVE  Reclaimed(contents, d, t, f) \in [Inodes -> S]
BY DEF Reclaimed

(* A file is missing, or holds what its inode holds. *)
LEMMA ReadFileType ==
  ASSUME TypeOK, NEW n \in Names
  PROVE  /\ read_file(n) \in Contents \cup {Empty, Missing}
         /\ read_file(n) \in Contents => dir[n] \in Inodes /\ read_file(n) = data[dir[n]]
BY PathsAreNames, SortsAreDisjoint
DEF TypeOK, FileTypeOK, read_file, file_exists, Entry, Contents

LEMMA ReadIsStored ==
  ASSUME RefInv, NEW n \in Names, read_file(n) \in Oids
  PROVE  read_file(n) \in Stored(store)
BY ReadFileType DEF RefInv, Contents

----------------------------------------------------------------------------
(* A step in the memory of p alone: it keeps RefInv when the values p now    *)
(* holds are those its new label calls for.                                  *)
LEMMA QuietStep ==
  ASSUME RefInv, UNCHANGED <<fileVars, store, counters>>,
         NEW p \in Procs,
         NEW l \in (Stopped \cup Running) \ {"write"},
         NEW c \in CommandType, NEW r \in Registers,
         Consistent(l, c, r),
         pc' = [pc EXCEPT ![p] = l],
         cmd' = [cmd EXCEPT ![p] = c],
         reg' = [reg EXCEPT ![p] = r]
  PROVE  RefInv'
<1>1. TypeOK'
  BY DEF RefInv, TypeOK, FileTypeOK, fileVars, counters
<1>2. HistoryIsStored' /\ \A i \in Inodes : data'[i] \in Oids => data'[i] \in Stored(store')
  BY DEF RefInv, HistoryIsStored, fileVars, ClosedStore, Stored, Commits
<1>3. ASSUME NEW q \in Procs
      PROVE  Consistent(pc[q], cmd[q], reg[q])'
  <2>1. Consistent(pc'[q], cmd'[q], reg'[q])
    BY DEF RefInv, TypeOK
  <2>. QED  BY <2>1 DEF Consistent
<1>4. ASSUME NEW q \in Procs, pc'[q] = "write"
      PROVE  fd'[q] \in Inodes
  BY <1>4 DEF RefInv, TypeOK, fileVars
<1>. QED  BY <1>1, <1>2, <1>3, <1>4 DEF RefInv

(* The two ways a step ends: on with the command, or out of it. *)
LEMMA GotoStep ==
  ASSUME RefInv, Quiet, NEW p \in Procs,
         NEW l \in (Stopped \cup Running) \ {"write"}, Goto(p, l),
         NEW r \in Registers, reg' = [reg EXCEPT ![p] = r],
         Consistent(l, cmd[p], r)
  PROVE  RefInv'
<1>1. cmd[p] \in CommandType /\ cmd' = [cmd EXCEPT ![p] = cmd[p]]
  BY DEF RefInv, TypeOK, Goto
<1>. QED  BY <1>1, QuietStep DEF Goto, Quiet

LEMMA CommitIsTyped == Commit \in CommandType /\ Blank \in Registers
BY SortsAreDisjoint
DEF Commit, CommandType, WellFormed, Ops, Names, Blank, Registers

LEMMA ExitStep ==
  ASSUME RefInv, Quiet, NEW p \in Procs,
         NEW s \in {"ok", "fail", "killed"}, Exit(p, s)
  PROVE  RefInv'
<1>1. Consistent(s, Commit, Blank)
  BY DEF Consistent
<1>2. s \in (Stopped \cup Running) \ {"write"}
  BY DEF Stopped
<1>. QED  BY <1>1, <1>2, CommitIsTyped, QuietStep DEF Exit, Quiet

(* Reference r is held by p, as it was read from a file. *)
LEMMA HoldStep ==
  ASSUME RefInv, Quiet, NEW p \in Procs,
         NEW n \in Names, NEW v \in Contents,
         NEW l \in Running \ {"write"}, Hold(p, n, v, l),
         Consistent(l, cmd[p], [reg[p] EXCEPT !.at = n, !.val = v])
  PROVE  RefInv'
<1>. DEFINE r == [reg[p] EXCEPT !.at = n, !.val = v]
<1>1. r \in Registers /\ reg' = [reg EXCEPT ![p] = r]
  BY DEF RefInv, TypeOK, Registers, Hold
<1>. HIDE DEF r
<1>. QED  BY <1>1, GotoStep DEF Hold, r

LEMMA AimStep ==
  ASSUME RefInv, Quiet, NEW p \in Procs, NEW n \in Names,
         NEW l \in Running \ {"write"}, Aim(p, n, l),
         Consistent(l, cmd[p], [reg[p] EXCEPT !.dest = n])
  PROVE  RefInv'
<1>. DEFINE r == [reg[p] EXCEPT !.dest = n]
<1>1. r \in Registers /\ reg' = [reg EXCEPT ![p] = r]
  BY DEF RefInv, TypeOK, Registers, Aim
<1>. HIDE DEF r
<1>. QED  BY <1>1, GotoStep DEF Aim, r

LEMMA StayStep ==
  ASSUME RefInv, Quiet, NEW p \in Procs,
         NEW l \in Running \ {"write"}, Stay(p, l),
         Consistent(l, cmd[p], reg[p])
  PROVE  RefInv'
<1>1. reg[p] \in Registers /\ reg' = [reg EXCEPT ![p] = reg[p]]
  BY DEF RefInv, TypeOK, Stay
<1>. QED  BY <1>1, GotoStep DEF Stay

----------------------------------------------------------------------------
(* HEAD, and the start of commit, branch and tag *)

LEMMA HaveTipStep ==
  ASSUME RefInv, Quiet, NEW p \in Procs, NEW v \in Oids, HaveTip(p, v),
         v \in Stored(store)
  PROVE  RefInv'
<1>1. CASE Die(p)
  BY <1>1, ExitStep DEF Die
<1>2. CASE /\ Op(p) = "commit" /\ v \in Commits(store)
           /\ reg' = [reg EXCEPT ![p].parent = v] /\ Goto(p, "object")
  <2>. DEFINE r == [reg[p] EXCEPT !.parent = v]
  <2>1. r \in Registers /\ reg' = [reg EXCEPT ![p] = r] /\ r.parent = v
    BY <1>2 DEF RefInv, TypeOK, Registers
  <2>. HIDE DEF r
  <2>2. Consistent("object", cmd[p], r)
    BY <1>2, <2>1 DEF Consistent, Op
  <2>. QED  BY <1>2, <2>1, <2>2, GotoStep DEF Stopped, Running
<1>3. CASE /\ Op(p) # "commit"
           /\ reg' = [reg EXCEPT ![p].new = v] /\ Goto(p, "peel")
  <2>. DEFINE r == [reg[p] EXCEPT !.new = v]
  <2>1. r \in Registers /\ reg' = [reg EXCEPT ![p] = r] /\ r.new = v
    BY <1>3 DEF RefInv, TypeOK, Registers, Contents
  <2>. HIDE DEF r
  <2>2. Consistent("peel", cmd[p], r)
    BY <1>3, <2>1 DEF Consistent, Contents
  <2>. QED  BY <1>3, <2>1, <2>2, GotoStep DEF Stopped, Running
<1>. QED  BY <1>1, <1>2, <1>3 DEF HaveTip

LEMMA LookupHeadStep ==
  ASSUME RefInv, NEW p \in Procs, LookupHead(p)
  PROVE  RefInv'
<1>. DEFINE v == read_file(HEAD)
<1>0. Quiet /\ HEAD \in Names /\ Consistent("head", cmd[p], reg[p]) /\ reg[p] \in Registers
  BY DEF LookupHead, Names, RefInv, TypeOK
<1>1. CASE Die(p)
  BY <1>0, <1>1, ExitStep DEF Die
<1>2. CASE v \in Contents /\ Op(p) = "move" /\ Hold(p, HEAD, v, "mvExists")
  <2>1. Consistent("mvExists", cmd[p], [reg[p] EXCEPT !.at = HEAD, !.val = v])
    BY <1>0, <1>2 DEF Consistent, Op, Registers
  <2>. QED  BY <1>0, <1>2, <2>1, HoldStep DEF Running
<1>3. CASE v \in Names /\ Op(p) # "move" /\ Hold(p, HEAD, v, "resolveHead")
  <2>1. Consistent("resolveHead", cmd[p], [reg[p] EXCEPT !.at = HEAD, !.val = v])
    BY <1>0, <1>3 DEF Consistent, Op, Registers
  <2>. QED  BY <1>0, <1>3, <2>1, HoldStep DEF Running, Contents
<1>4. CASE v \in Oids /\ HaveTip(p, v)
  BY <1>0, <1>4, HaveTipStep, ReadIsStored
<1>. QED  BY <1>1, <1>2, <1>3, <1>4 DEF LookupHead

(* A round of the resolving loop stays where it is, at a symbolic reference. *)
LEMMA FollowStep ==
  ASSUME RefInv, Quiet, NEW p \in Procs, Follow(p),
         pc[p] \in {"resolveHead", "resolveTip", "resolveRef", "resolveSummary"}
  PROVE  RefInv'
<1>. DEFINE v == read_file(reg[p].val)
<1>1. /\ Consistent(pc[p], cmd[p], reg[p]) /\ reg[p] \in Registers
      /\ reg[p].val \in Names /\ v \in Names
  BY DEF RefInv, TypeOK, Consistent, Follow
<1>2. Consistent(pc[p], cmd[p], [reg[p] EXCEPT !.at = reg[p].val, !.val = v])
  BY <1>1 DEF Consistent, Registers
<1>. QED  BY <1>1, <1>2, HoldStep DEF Follow, Running, Contents

(* The values in hand while a reference is being resolved. *)
LEMMA ResolvingFacts ==
  ASSUME RefInv, NEW p \in Procs,
         pc[p] \in {"resolveHead", "resolveTip", "resolveRef", "resolveSummary"}
  PROVE  /\ Consistent(pc[p], cmd[p], reg[p]) /\ reg[p] \in Registers
         /\ reg[p].val \in Names
BY DEF RefInv, TypeOK, Consistent

LEMMA ResolveHeadStep ==
  ASSUME RefInv, NEW p \in Procs, ResolveHead(p)
  PROVE  RefInv'
<1>. DEFINE v == read_file(reg[p].val)
<1>0. Quiet /\ pc[p] = "resolveHead" /\ Consistent("resolveHead", cmd[p], reg[p])
      /\ reg[p].val \in Names
  BY ResolvingFacts DEF ResolveHead
<1>1. CASE Follow(p)
  BY <1>0, <1>1, FollowStep
<1>2. CASE Op(p) = "commit" /\ Stay(p, "object")
  <2>1. Consistent("object", cmd[p], reg[p])
    BY <1>0, <1>2 DEF Consistent, Op
  <2>. QED  BY <1>0, <1>2, <2>1, StayStep DEF Running
<1>3. CASE Die(p)
  BY <1>0, <1>3, ExitStep DEF Die
<1>4. CASE v \in Oids /\ HaveTip(p, v)
  BY <1>0, <1>4, HaveTipStep, ReadIsStored
<1>. QED  BY <1>1, <1>2, <1>3, <1>4 DEF ResolveHead

LEMMA PeelStep ==
  ASSUME RefInv, NEW p \in Procs, Peel(p)
  PROVE  RefInv'
<1>. DEFINE o == reg[p].new
<1>0. Quiet /\ reg[p] \in Registers /\ pc[p] = "peel" /\ o \in Contents \cup {None}
  BY DEF RefInv, TypeOK, Peel, Registers
<1>1. CASE Die(p)
  BY <1>0, <1>1, ExitStep DEF Die
<1>2. CASE /\ o \in Stored(store) \ Commits(store)
           /\ reg' = [reg EXCEPT ![p].new = store[o].link]
           /\ Goto(p, "peel")
  <2>. DEFINE r == [reg[p] EXCEPT !.new = store[o].link]
  <2>1. store[o].link \in Stored(store)
    BY <1>2 DEF RefInv, HistoryIsStored, ClosedStore, Commits
  <2>2. r \in Registers /\ reg' = [reg EXCEPT ![p] = r] /\ r.new \in Contents
    BY <1>2, <2>1, ZenonT(40) DEF RefInv, TypeOK, Registers, Contents, Stored
  <2>. HIDE DEF r
  <2>3. Consistent("peel", cmd[p], r)
    BY <2>2 DEF Consistent
  <2>. QED  BY <1>0, <1>2, <2>2, <2>3, GotoStep DEF Stopped, Running
<1>3. CASE o \in Stored(store) /\ Stay(p, "exists")
  <2>1. Consistent("exists", cmd[p], reg[p])
    BY <1>3 DEF Consistent
  <2>. QED  BY <1>0, <1>3, <2>1, StayStep DEF Running
<1>4. CASE o \in Stored(store) /\ Op(p) = "atag" /\ Stay(p, "object")
  <2>1. Consistent("object", cmd[p], reg[p])
    BY <1>4 DEF Consistent, Op
  <2>. QED  BY <1>0, <1>4, <2>1, StayStep DEF Running
<1>5. o \in Commits(store) => o \in Stored(store)
  BY DEF Commits
<1>. QED  BY <1>1, <1>2, <1>3, <1>4, <1>5 DEF Peel

----------------------------------------------------------------------------
(* commit and tag -a store an object *)

(* A store closed under links stays closed when an object is added whose own *)
(* link is closed.                                                           *)
LEMMA AddObject ==
  ASSUME store \in [Oids -> Objects \cup {NoObject}], ClosedStore(store),
         NEW o \in Oids, NEW object \in Objects,
         store[o] \in {NoObject, object},
         IF object.type = "commit" THEN object.link \in Commits(store) \cup {None}
                                   ELSE object.link \in Stored(store),
         store' = [store EXCEPT ![o] = object]
  PROVE  /\ store' \in [Oids -> Objects \cup {NoObject}]
         /\ ClosedStore(store')
         /\ o \in Stored(store')
         /\ Stored(store) \subseteq Stored(store')
         /\ Commits(store) \subseteq Commits(store')
         /\ object.type = "commit" => o \in Commits(store')
<1>1. store' \in [Oids -> Objects \cup {NoObject}]
  OBVIOUS
<1>2. o \in Stored(store') /\ store'[o] = object
  BY SortsAreDisjoint DEF Stored
<1>3. \A x \in Stored(store) : x \in Stored(store') /\ store'[x] = store[x]
  BY <1>2 DEF Stored
<1>4. \A x \in Commits(store) : x \in Commits(store')
  BY <1>3 DEF Commits
<1>5. \A x \in Stored(store') : x \in Stored(store) \/ x = o
  BY DEF Stored
<1>6. ASSUME NEW x \in Stored(store')
      PROVE  IF store'[x].type = "commit"
             THEN store'[x].link \in Commits(store') \cup {None}
             ELSE store'[x].link \in Stored(store')
  <2>1. CASE x = o
    BY <1>2, <1>3, <1>4, <2>1
  <2>2. CASE x \in Stored(store)
    BY <1>3, <1>4, <2>2 DEF ClosedStore
  <2>. QED  BY <1>5, <1>6, <2>1, <2>2
<1>. QED  BY <1>1, <1>2, <1>3, <1>4, <1>6 DEF ClosedStore, Commits

LEMMA WriteObjectStep ==
  ASSUME RefInv, NEW p \in Procs, WriteObject(p)
  PROVE  RefInv'
<1>. DEFINE object == IF Op(p) = "commit" THEN CommitObject(p) ELSE TagObject(p)
            l == IF Op(p) = "commit" THEN "tip" ELSE "exists"
<1>1. PICK o \in Oids : /\ store[o] \in {NoObject, object}
                        /\ store' = [store EXCEPT ![o] = object]
                        /\ reg' = [reg EXCEPT ![p].new = o]
  BY DEF WriteObject
<1>. DEFINE r == [reg[p] EXCEPT !.new = o]
<1>2. /\ TypeOK /\ ClosedStore(store)
      /\ Goto(p, l) /\ UNCHANGED <<fileVars, counters>>
      /\ Consistent("object", cmd[p], reg[p]) /\ reg[p] \in Registers
  BY DEF WriteObject, RefInv, TypeOK, HistoryIsStored
<1>3. /\ object \in Objects
      /\ IF object.type = "commit" THEN object.link \in Commits(store) \cup {None}
                                   ELSE object.link \in Stored(store)
  BY <1>2 DEF Consistent, Op, Objects, Commits, Stored, CommitObject, TagObject
<1>4. r \in Registers /\ reg' = [reg EXCEPT ![p] = r] /\ r.new = o
  BY <1>1, <1>2 DEF TypeOK, Registers, Contents
<1>. HIDE DEF object, r
<1>5. /\ store' \in [Oids -> Objects \cup {NoObject}]
      /\ ClosedStore(store')
      /\ o \in Stored(store')
      /\ Stored(store) \subseteq Stored(store')
      /\ Commits(store) \subseteq Commits(store')
  BY <1>1, <1>2, <1>3, AddObject DEF TypeOK
<1>6. TypeOK'
  BY <1>2, <1>4, <1>5
  DEF TypeOK, FileTypeOK, fileVars, counters, Goto, Running
<1>7. ASSUME NEW q \in Procs
      PROVE  Consistent(pc[q], cmd[q], reg[q])'
  <2>1. CASE q = p
    <3>1. pc'[p] = l /\ reg'[p] = r
      BY <1>2, <1>4 DEF Goto, TypeOK
    <3>. QED  BY <1>4, <1>5, <2>1, <3>1 DEF Consistent
  <2>2. CASE q # p
    <3>1. pc'[q] = pc[q] /\ cmd'[q] = cmd[q] /\ reg'[q] = reg[q]
      BY <1>2, <1>4, <2>2 DEF Goto, TypeOK
    <3>2. Consistent(pc[q], cmd[q], reg[q])
      BY DEF RefInv
    <3>. QED  BY <1>5, <3>1, <3>2 DEF Consistent
  <2>. QED  BY <2>1, <2>2
<1>8. \A i \in Inodes : data'[i] \in Oids => data'[i] \in Stored(store')
  BY <1>2, <1>5 DEF RefInv, fileVars
<1>9. \A q \in Procs : pc'[q] = "write" => fd'[q] \in Inodes
  BY <1>2 DEF RefInv, TypeOK, Goto, fileVars
<1>. QED  BY <1>5, <1>6, <1>7, <1>8, <1>9 DEF RefInv, HistoryIsStored

----------------------------------------------------------------------------
(* commit finds the tip again, and reports *)

LEMMA LookupTipStep ==
  ASSUME RefInv, NEW p \in Procs, LookupTip(p)
  PROVE  RefInv'
<1>. DEFINE v == read_file(HEAD)
<1>0. /\ Quiet /\ HEAD \in Names /\ pc[p] = "tip" /\ reg[p] \in Registers
      /\ Consistent("tip", cmd[p], reg[p])
  BY DEF LookupTip, Names, RefInv, TypeOK
<1>1. CASE Die(p)
  BY <1>0, <1>1, ExitStep DEF Die
<1>2. ASSUME NEW l \in {"exists", "open"}, Aim(p, HEAD, l)
      PROVE  RefInv'
  <2>1. Consistent(l, cmd[p], [reg[p] EXCEPT !.dest = HEAD])
    BY <1>0 DEF Consistent, Registers
  <2>. QED  BY <1>0, <1>2, <2>1, AimStep DEF Running
<1>3. CASE /\ v \in Names
           /\ reg' = [reg EXCEPT ![p].at = HEAD, ![p].val = v, ![p].dest = v]
           /\ Goto(p, "resolveTip")
  <2>. DEFINE r == [reg[p] EXCEPT !.at = HEAD, !.val = v, !.dest = v]
  <2>1. /\ r \in Registers /\ reg' = [reg EXCEPT ![p] = r]
        /\ r.val \in Names /\ r.new = reg[p].new
    BY <1>0, <1>3 DEF RefInv, TypeOK, Registers, Contents
  <2>. HIDE DEF r
  <2>2. Consistent("resolveTip", cmd[p], r)
    BY <1>0, <2>1 DEF Consistent
  <2>. QED  BY <1>0, <1>3, <2>1, <2>2, GotoStep DEF Stopped, Running
<1>. QED  BY <1>1, <1>2, <1>3 DEF LookupTip

LEMMA ResolveTipStep ==
  ASSUME RefInv, NEW p \in Procs, ResolveTip(p)
  PROVE  RefInv'
<1>0. /\ Quiet /\ pc[p] = "resolveTip" /\ Consistent("resolveTip", cmd[p], reg[p])
      /\ reg[p].val \in Names /\ reg[p] \in Registers
  BY ResolvingFacts DEF ResolveTip
<1>1. CASE Follow(p)
  BY <1>0, <1>1, FollowStep
<1>2. CASE Stay(p, "exists")
  <2>1. Consistent("exists", cmd[p], reg[p])
    BY <1>0 DEF Consistent
  <2>. QED  BY <1>0, <1>2, <2>1, StayStep DEF Running
<1>3. CASE Die(p)
  BY <1>0, <1>3, ExitStep DEF Die
<1>4. CASE Aim(p, reg[p].val, "open")
  <2>1. Consistent("open", cmd[p], [reg[p] EXCEPT !.dest = reg[p].val])
    BY <1>0 DEF Consistent, Registers
  <2>. QED  BY <1>0, <1>4, <2>1, AimStep DEF Running
<1>. QED  BY <1>1, <1>2, <1>3, <1>4 DEF ResolveTip

LEMMA LookupSummaryStep ==
  ASSUME RefInv, NEW p \in Procs, LookupSummary(p)
  PROVE  RefInv'
<1>. DEFINE v == read_file(HEAD)
<1>0. Quiet /\ HEAD \in Names /\ reg[p] \in Registers
  BY DEF LookupSummary, Names, RefInv, TypeOK
<1>1. CASE Die(p) \/ Exit(p, "ok")
  BY <1>0, <1>1, ExitStep DEF Die
<1>2. CASE v \in Names /\ Hold(p, HEAD, v, "resolveSummary")
  <2>1. Consistent("resolveSummary", cmd[p], [reg[p] EXCEPT !.at = HEAD, !.val = v])
    BY <1>0, <1>2 DEF Consistent, Registers
  <2>. QED  BY <1>0, <1>2, <2>1, HoldStep DEF Running, Contents
<1>. QED  BY <1>1, <1>2 DEF LookupSummary

LEMMA ResolveSummaryStep ==
  ASSUME RefInv, NEW p \in Procs, ResolveSummary(p)
  PROVE  RefInv'
<1>0. Quiet /\ pc[p] = "resolveSummary"
  BY DEF ResolveSummary
<1>1. CASE Follow(p)
  BY <1>0, <1>1, FollowStep
<1>2. CASE Die(p) \/ Exit(p, "ok")
  BY <1>0, <1>2, ExitStep DEF Die
<1>. QED  BY <1>1, <1>2 DEF ResolveSummary

----------------------------------------------------------------------------
(* update-ref and branch -d *)

LEMMA LookupRefStep ==
  ASSUME RefInv, NEW p \in Procs, LookupRef(p)
  PROVE  RefInv'
<1>. DEFINE c == cmd[p]
            v == read_file(c.name)
            l == IF c.deref /\ v \in Names THEN "resolveRef" ELSE "verify"
<1>0. /\ Quiet /\ c \in CommandType /\ c.name \in Names /\ reg[p] \in Registers
      /\ reg[p].new = c.arg
      /\ v \in Contents \cup {Empty, Missing}
  BY ReadFileType DEF LookupRef, RefInv, TypeOK, CommandType, Consistent
<1>1. CASE Die(p)
  BY <1>0, <1>1, ExitStep DEF Die
<1>2. CASE c.arg \in Stored(store) /\ Aim(p, c.name, "exists")
  <2>1. Consistent("exists", c, [reg[p] EXCEPT !.dest = c.name])
    BY <1>0, <1>2 DEF Consistent, Registers
  <2>. QED  BY <1>0, <1>2, <2>1, AimStep DEF Running
<1>3. CASE v \in Contents /\ c.op = "remove" /\ Hold(p, c.name, v, "isHead")
  <2>1. Consistent("isHead", c, [reg[p] EXCEPT !.at = c.name, !.val = v])
    BY DEF Consistent
  <2>. QED  BY <1>0, <1>3, <2>1, HoldStep DEF Running
<1>4. CASE /\ v \in Contents /\ c.op \in {"update", "delete"}
           /\ c.op = "update" => c.old # Zero /\ c.arg \in Stored(store)
           /\ Hold(p, c.name, v, l)
  <2>1. Consistent(l, c, [reg[p] EXCEPT !.at = c.name, !.val = v])
    BY <1>0, <1>4 DEF Consistent, Registers
  <2>. QED  BY <1>0, <1>4, <2>1, HoldStep DEF Running
<1>. QED  BY <1>1, <1>2, <1>3, <1>4 DEF LookupRef

LEMMA ResolveRefStep ==
  ASSUME RefInv, NEW p \in Procs, ResolveRef(p)
  PROVE  RefInv'
<1>. DEFINE v == read_file(reg[p].val)
<1>0. /\ Quiet /\ pc[p] = "resolveRef" /\ Consistent("resolveRef", cmd[p], reg[p])
      /\ reg[p].val \in Names /\ reg[p] \in Registers
  BY ResolvingFacts DEF ResolveRef
<1>1. CASE Follow(p)
  BY <1>0, <1>1, FollowStep
<1>2. CASE Die(p)
  BY <1>0, <1>2, ExitStep DEF Die
<1>3. CASE v \in Oids /\ Hold(p, reg[p].val, v, "verify")
  <2>1. Consistent("verify", cmd[p], [reg[p] EXCEPT !.at = reg[p].val, !.val = v])
    BY <1>0 DEF Consistent, Registers
  <2>. QED  BY <1>0, <1>3, <2>1, HoldStep DEF Running, Contents
<1>. QED  BY <1>1, <1>2, <1>3 DEF ResolveRef

LEMMA VerifyOldStep ==
  ASSUME RefInv, NEW p \in Procs, VerifyOld(p)
  PROVE  RefInv'
<1>. DEFINE l == IF Op(p) = "delete" THEN "unlink" ELSE "open"
<1>0. /\ Quiet /\ Consistent("verify", cmd[p], reg[p]) /\ reg[p] \in Registers
      /\ reg[p].at \in Names
  BY DEF VerifyOld, RefInv, TypeOK, Registers
<1>1. CASE Die(p)
  BY <1>0, <1>1, ExitStep DEF Die
<1>2. CASE Aim(p, reg[p].at, l)
  <2>1. Consistent(l, cmd[p], [reg[p] EXCEPT !.dest = reg[p].at])
    BY <1>0 DEF Consistent, Registers, Op
  <2>. QED  BY <1>0, <1>2, <2>1, AimStep DEF Running
<1>. QED  BY <1>1, <1>2 DEF VerifyOld

LEMMA IsHeadStep ==
  ASSUME RefInv, NEW p \in Procs, IsHead(p)
  PROVE  RefInv'
<1>0. Quiet /\ cmd[p].name \in Names
  BY DEF IsHead, RefInv, TypeOK, CommandType
<1>1. CASE Die(p)
  BY <1>0, <1>1, ExitStep DEF Die
<1>2. CASE Aim(p, cmd[p].name, "unlink")
  <2>1. Consistent("unlink", cmd[p], [reg[p] EXCEPT !.dest = cmd[p].name])
    BY DEF Consistent
  <2>. QED  BY <1>0, <1>2, <2>1, AimStep DEF Running
<1>. QED  BY <1>1, <1>2 DEF IsHead

LEMMA CheckExistsStep ==
  ASSUME RefInv, NEW p \in Procs, CheckExists(p)
  PROVE  RefInv'
<1>0. Quiet /\ Consistent("exists", cmd[p], reg[p])
  BY DEF CheckExists, RefInv
<1>1. CASE Die(p)
  BY <1>0, <1>1, ExitStep DEF Die
<1>2. CASE Stay(p, "open")
  <2>1. Consistent("open", cmd[p], reg[p])
    BY <1>0 DEF Consistent
  <2>. QED  BY <1>0, <1>2, <2>1, StayStep DEF Running
<1>. QED  BY <1>1, <1>2 DEF CheckExists

LEMMA MoveExistsStep ==
  ASSUME RefInv, NEW p \in Procs, MoveExists(p)
  PROVE  RefInv'
<1>0. Quiet /\ Consistent("mvExists", cmd[p], reg[p])
  BY DEF MoveExists, RefInv
<1>1. CASE Die(p)
  BY <1>0, <1>1, ExitStep DEF Die
<1>2. CASE Stay(p, "mvRename")
  <2>1. Consistent("mvRename", cmd[p], reg[p])
    BY <1>0 DEF Consistent
  <2>. QED  BY <1>0, <1>2, <2>1, StayStep DEF Running
<1>. QED  BY <1>1, <1>2 DEF MoveExists

----------------------------------------------------------------------------
(* Steps that change files *)

(* The files stay files of stored values, when what is written is one. *)
FilesOK == /\ FileTypeOK(Contents)
           /\ \A i \in Inodes : data[i] \in Oids => data[i] \in Stored(store)

LEMMA FilesFact == RefInv => FilesOK
BY DEF RefInv, TypeOK, FilesOK

(* Data that was there, or nothing, keeps FilesOK. *)
LEMMA DataShrinks ==
  ASSUME FilesOK, UNCHANGED store,
         dir' \in [Paths -> Entry], tmp' \in [Paths -> Entry],
         fd' \in [Procs -> Entry], data' \in [Inodes -> Contents \cup {Empty}],
         \A i \in Inodes : data'[i] \in {data[i], Empty}
  PROVE  FilesOK'
BY SortsAreDisjoint DEF FilesOK, FileTypeOK

LEMMA ReclaimOK ==
  ASSUME FilesOK, NEW d, NEW t, NEW f
  PROVE  /\ Reclaimed(data, d, t, f) \in [Inodes -> Contents \cup {Empty}]
         /\ \A i \in Inodes : Reclaimed(data, d, t, f)[i] \in {data[i], Empty}
<1>1. data \in [Inodes -> Contents \cup {Empty}]
  BY DEF FilesOK, FileTypeOK
<1>. QED  BY <1>1, ReclaimedType, ReclaimedEmpties

LEMMA OpenTmpOK ==
  ASSUME FilesOK, UNCHANGED store, NEW p \in Procs, NEW path \in Names,
         OpenTmp(p, path)
  PROVE  FilesOK' /\ fd'[p] \in Inodes /\ \A q \in Procs \ {p} : fd'[q] = fd[q]
<1>1. CASE tmp[path] # NoInode
  BY <1>1, PathsAreNames, DataShrinks DEF OpenTmp, FilesOK, FileTypeOK, Entry
<1>2. CASE tmp[path] = NoInode
  <2>. DEFINE i == CHOOSE i \in FreeInodes : TRUE
  <2>1. /\ i \in Inodes
        /\ tmp' = [tmp EXCEPT ![path] = i]
        /\ fd' = [fd EXCEPT ![p] = i]
        /\ data' = [data EXCEPT ![i] = Empty]
        /\ UNCHANGED dir
    BY <1>2 DEF OpenTmp, FreeInodes
  <2>. HIDE DEF i
  <2>. QED  BY <2>1, PathsAreNames, DataShrinks DEF FilesOK, FileTypeOK, Entry
<1>. QED  BY <1>1, <1>2

LEMMA WriteAndCloseOK ==
  ASSUME FilesOK, UNCHANGED store, NEW p \in Procs,
         NEW v \in Stored(store) \cup Names, WriteAndClose(p, v)
  PROVE  FilesOK' /\ \A q \in Procs \ {p} : fd'[q] = fd[q]
<1>. DEFINE written == [data EXCEPT ![fd[p]] = v]
<1>1. /\ written \in [Inodes -> Contents \cup {Empty}]
      /\ \A i \in Inodes : written[i] \in Oids => written[i] \in Stored(store)
  BY SortsAreDisjoint DEF FilesOK, FileTypeOK, Contents, Stored
<1>2. /\ data' = Reclaimed(written, dir, tmp, fd')
      /\ fd' = [fd EXCEPT ![p] = NoInode] /\ UNCHANGED <<dir, tmp>>
  BY DEF WriteAndClose
<1>. HIDE DEF written
<1>3. /\ data' \in [Inodes -> Contents \cup {Empty}]
      /\ \A i \in Inodes : data'[i] \in {written[i], Empty}
  BY <1>1, <1>2, ReclaimedType, ReclaimedEmpties
<1>. QED  BY <1>1, <1>2, <1>3, SortsAreDisjoint DEF FilesOK, FileTypeOK, Entry

LEMMA UnlinkTmpOK ==
  ASSUME FilesOK, UNCHANGED store, NEW path \in Names, UnlinkTmp(path)
  PROVE  FilesOK' /\ fd' = fd
BY PathsAreNames, ReclaimOK, DataShrinks DEF UnlinkTmp, FilesOK, FileTypeOK, Entry

LEMMA RenameTmpOK ==
  ASSUME FilesOK, UNCHANGED store, NEW path \in Names, RenameTmp(path)
  PROVE  FilesOK' /\ fd' = fd
BY PathsAreNames, ReclaimOK, DataShrinks DEF RenameTmp, FilesOK, FileTypeOK, Entry

LEMMA UnlinkOK ==
  ASSUME FilesOK, UNCHANGED store, NEW path \in Names, Unlink(path)
  PROVE  FilesOK' /\ fd' = fd
BY PathsAreNames, ReclaimOK, DataShrinks DEF Unlink, FilesOK, FileTypeOK, Entry

LEMMA RenameOK ==
  ASSUME FilesOK, UNCHANGED store, NEW old \in Names, NEW n \in Names,
         Rename(old, n)
  PROVE  FilesOK' /\ fd' = fd
BY PathsAreNames, ReclaimOK, DataShrinks DEF Rename, FilesOK, FileTypeOK, Entry

LEMMA CloseAllOK ==
  ASSUME FilesOK, UNCHANGED store, NEW p \in Procs, CloseAll(p)
  PROVE  FilesOK' /\ \A q \in Procs \ {p} : fd'[q] = fd[q]
BY ReclaimOK, DataShrinks DEF CloseAll, FilesOK, FileTypeOK, Entry

(* A step of p that changes files keeps RefInv when it keeps FilesOK, and    *)
(* when p then holds what its new label calls for.                           *)
Bounded == begun' \in Nat /\ crashes' \in Nat /\ ioerrors' \in Nat

LEMMA FileStep ==
  ASSUME RefInv, FilesOK', UNCHANGED store, Bounded,
         NEW p \in Procs, \A q \in Procs \ {p} : fd'[q] = fd[q],
         NEW l \in Stopped \cup Running,
         l = "write" => fd'[p] \in Inodes,
         NEW c \in CommandType, NEW r \in Registers,
         Consistent(l, c, r),
         pc' = [pc EXCEPT ![p] = l],
         cmd' = [cmd EXCEPT ![p] = c],
         reg' = [reg EXCEPT ![p] = r]
  PROVE  RefInv'
<1>1. TypeOK'
  BY DEF RefInv, TypeOK, FilesOK, Bounded
<1>2. HistoryIsStored' /\ \A i \in Inodes : data'[i] \in Oids => data'[i] \in Stored(store')
  BY DEF RefInv, HistoryIsStored, FilesOK, ClosedStore, Stored, Commits
<1>3. ASSUME NEW q \in Procs
      PROVE  Consistent(pc[q], cmd[q], reg[q])'
  <2>1. Consistent(pc'[q], cmd'[q], reg'[q])
    BY DEF RefInv, TypeOK
  <2>. QED  BY <2>1 DEF Consistent
<1>4. ASSUME NEW q \in Procs, pc'[q] = "write"
      PROVE  fd'[q] \in Inodes
  BY <1>4 DEF RefInv, TypeOK
<1>. QED  BY <1>1, <1>2, <1>3, <1>4 DEF RefInv

LEMMA FileExitStep ==
  ASSUME RefInv, FilesOK', UNCHANGED store, Bounded,
         NEW p \in Procs, \A q \in Procs \ {p} : fd'[q] = fd[q],
         NEW s \in {"ok", "fail", "killed"}, Exit(p, s)
  PROVE  RefInv'
<1>1. Consistent(s, Commit, Blank) /\ s \in Stopped /\ s # "write"
  BY DEF Consistent, Stopped
<1>. QED  BY <1>1, CommitIsTyped, FileStep DEF Exit

LEMMA FileStayStep ==
  ASSUME RefInv, FilesOK', UNCHANGED store, Bounded,
         NEW p \in Procs, \A q \in Procs \ {p} : fd'[q] = fd[q],
         NEW l \in Running, l = "write" => fd'[p] \in Inodes,
         Stay(p, l), Consistent(l, cmd[p], reg[p])
  PROVE  RefInv'
<1>1. /\ reg[p] \in Registers /\ reg' = [reg EXCEPT ![p] = reg[p]]
      /\ cmd[p] \in CommandType /\ cmd' = [cmd EXCEPT ![p] = cmd[p]]
  BY DEF RefInv, TypeOK, Stay, Goto
<1>. QED  BY <1>1, FileStep, ZenonT(40) DEF Stay, Goto

LEMMA CountersStay == RefInv /\ UNCHANGED counters => Bounded
BY DEF RefInv, TypeOK, counters, Bounded

LEMMA OpenFileStep ==
  ASSUME RefInv, NEW p \in Procs, OpenFile(p)
  PROVE  RefInv'
<1>1. /\ OpenTmp(p, reg[p].dest) /\ UNCHANGED store /\ Bounded /\ Stay(p, "write")
      /\ reg[p].dest \in Names
      /\ Consistent("write", cmd[p], reg[p])
  BY CountersStay DEF OpenFile, RefInv, TypeOK, Registers, Consistent
<1>2. FilesOK' /\ fd'[p] \in Inodes /\ \A q \in Procs \ {p} : fd'[q] = fd[q]
  BY <1>1, OpenTmpOK, FilesFact
<1>. QED  BY <1>1, <1>2, FileStayStep DEF Running

LEMMA WriteFileStep ==
  ASSUME RefInv, NEW p \in Procs, WriteFile(p)
  PROVE  RefInv'
<1>1. /\ WriteAndClose(p, reg[p].new) /\ UNCHANGED store /\ Bounded /\ Stay(p, "rename")
      /\ reg[p].new \in Stored(store) \cup Names
      /\ Consistent("rename", cmd[p], reg[p])
  BY CountersStay DEF WriteFile, RefInv, Consistent
<1>2. FilesOK' /\ \A q \in Procs \ {p} : fd'[q] = fd[q]
  BY <1>1, WriteAndCloseOK, FilesFact
<1>. QED  BY <1>1, <1>2, FileStayStep DEF Running

LEMMA WriteErrorStep ==
  ASSUME RefInv, NEW p \in Procs, WriteError(p)
  PROVE  RefInv'
<1>1. /\ CloseAll(p) /\ UNCHANGED store /\ Stay(p, "unlinkTmp") /\ Bounded
      /\ Consistent("unlinkTmp", cmd[p], reg[p])
  BY DEF WriteError, RefInv, TypeOK, Bounded, Consistent
<1>2. FilesOK' /\ \A q \in Procs \ {p} : fd'[q] = fd[q]
  BY <1>1, CloseAllOK, FilesFact
<1>. QED  BY <1>1, <1>2, FileStayStep DEF Running

LEMMA RenameFileStep ==
  ASSUME RefInv, NEW p \in Procs, RenameFile(p)
  PROVE  RefInv'
<1>1. UNCHANGED store /\ Bounded /\ reg[p].dest \in Names
  BY CountersStay DEF RenameFile, RefInv, TypeOK, Registers
<1>2. \A l \in {"summary", "unlinkTmp"} : Consistent(l, cmd[p], reg[p])
  BY DEF Consistent
<1>3. CASE RenameTmp(reg[p].dest) /\ (Stay(p, "summary") \/ Exit(p, "ok"))
  <2>1. FilesOK' /\ fd' = fd
    BY <1>1, <1>3, RenameTmpOK, FilesFact
  <2>. QED  BY <1>1, <1>2, <1>3, <2>1, FileStayStep, FileExitStep DEF Running
<1>4. CASE Stay(p, "unlinkTmp") /\ UNCHANGED fileVars
  <2>1. FilesOK' /\ fd' = fd
    BY <1>1, <1>4, FilesFact DEF FilesOK, FileTypeOK, fileVars
  <2>. QED  BY <1>1, <1>2, <1>4, <2>1, FileStayStep DEF Running
<1>. QED  BY <1>3, <1>4 DEF RenameFile

(* A command that could not write dies, or puts the branch back. *)
LEMMA DiscardTmpStep ==
  ASSUME RefInv, NEW p \in Procs, DiscardTmp(p)
  PROVE  RefInv'
<1>1. UNCHANGED store /\ Bounded /\ reg[p].dest \in Names
  BY CountersStay DEF DiscardTmp, RefInv, TypeOK, Registers
<1>2. FilesOK' /\ fd' = fd
  BY <1>1, UnlinkTmpOK, FilesFact DEF DiscardTmp
<1>3. CASE Op(p) = "move" /\ Stay(p, "mvUndo")
  <2>1. Consistent("mvUndo", cmd[p], reg[p])
    BY <1>3 DEF Consistent, Op
  <2>. QED  BY <1>1, <1>2, <1>3, <2>1, FileStayStep DEF Running
<1>4. CASE Die(p)
  BY <1>1, <1>2, <1>4, FileExitStep DEF Die
<1>. QED  BY <1>3, <1>4 DEF DiscardTmp

LEMMA UnlinkRefStep ==
  ASSUME RefInv, NEW p \in Procs, UnlinkRef(p)
  PROVE  RefInv'
<1>1. UNCHANGED store /\ Bounded /\ reg[p].dest \in Names
  BY CountersStay DEF UnlinkRef, RefInv, TypeOK, Registers
<1>2. CASE Unlink(reg[p].dest) /\ Exit(p, "ok")
  BY <1>1, <1>2, UnlinkOK, FilesFact, FileExitStep
<1>3. CASE Die(p) /\ UNCHANGED fileVars
  <2>1. FilesOK' /\ fd' = fd
    BY <1>1, <1>3, FilesFact DEF FilesOK, FileTypeOK, fileVars
  <2>. QED  BY <1>1, <1>3, <2>1, FileExitStep DEF Die
<1>. QED  BY <1>2, <1>3 DEF UnlinkRef

LEMMA MoveNames ==
  ASSUME RefInv, NEW p \in Procs, Op(p) = "move"
  PROVE  cmd[p].name \in Names /\ cmd[p].arg \in Names
<1>1. cmd[p] \in CommandType
  BY DEF RefInv, TypeOK
<1>2. cmd[p].name \in Branches /\ cmd[p].arg \in Branches
  BY <1>1 DEF CommandType, WellFormed, Op
<1>. QED  BY <1>2 DEF Names

LEMMA MoveRenameStep ==
  ASSUME RefInv, NEW p \in Procs, MoveRename(p)
  PROVE  RefInv'
<1>1. /\ UNCHANGED store /\ Bounded /\ Consistent("mvRename", cmd[p], reg[p])
      /\ reg[p] \in Registers /\ cmd[p] \in CommandType
      /\ cmd[p].name \in Names /\ cmd[p].arg \in Names
  BY CountersStay, MoveNames DEF MoveRename, RefInv, TypeOK, Consistent, Op
<1>2. CASE Die(p) /\ UNCHANGED fileVars
  <2>1. FilesOK' /\ fd' = fd
    BY <1>1, <1>2, FilesFact DEF FilesOK, FileTypeOK, fileVars
  <2>. QED  BY <1>1, <1>2, <2>1, FileExitStep DEF Die
<1>3. CASE /\ Rename(cmd[p].name, cmd[p].arg)
           /\ Aim(p, HEAD, "open") \/ Exit(p, "ok")
  <2>1. FilesOK' /\ fd' = fd
    BY <1>1, <1>3, RenameOK, FilesFact
  <2>2. CASE Exit(p, "ok")
    BY <1>1, <2>1, <2>2, FileExitStep
  <2>3. CASE Aim(p, HEAD, "open")
    <3>. DEFINE r == [reg[p] EXCEPT !.dest = HEAD]
    <3>1. /\ r \in Registers /\ reg' = [reg EXCEPT ![p] = r]
          /\ r.new = reg[p].new
      BY <1>1, <2>3 DEF RefInv, TypeOK, Registers, Aim, Names
    <3>. HIDE DEF r
    <3>2. Consistent("open", cmd[p], r)
      BY <1>1, <3>1 DEF Consistent
    <3>3. cmd' = [cmd EXCEPT ![p] = cmd[p]]
      BY <2>3 DEF RefInv, TypeOK, Aim, Goto
    <3>. QED  BY <1>1, <2>1, <2>3, <3>1, <3>2, <3>3, FileStep DEF Aim, Goto, Running
  <2>. QED  BY <1>3, <2>2, <2>3
<1>. QED  BY <1>2, <1>3 DEF MoveRename

LEMMA MoveUndoStep ==
  ASSUME RefInv, NEW p \in Procs, MoveUndo(p)
  PROVE  RefInv'
<1>1. /\ UNCHANGED store /\ Bounded /\ Die(p)
      /\ cmd[p].name \in Names /\ cmd[p].arg \in Names
  BY CountersStay, MoveNames DEF MoveUndo, RefInv, Consistent, Op
<1>2. FilesOK' /\ fd' = fd
  <2>1. CASE Rename(cmd[p].arg, cmd[p].name)
    BY <1>1, <2>1, RenameOK, FilesFact
  <2>2. CASE UNCHANGED fileVars
    BY <1>1, <2>2, FilesFact DEF FilesOK, FileTypeOK, fileVars
  <2>. QED  BY <2>1, <2>2 DEF MoveUndo
<1>. QED  BY <1>1, <1>2, FileExitStep DEF Die

LEMMA CrashStep ==
  ASSUME RefInv, NEW p \in Procs, Crash(p)
  PROVE  RefInv'
<1>1. /\ CloseAll(p) /\ UNCHANGED store /\ Bounded /\ Exit(p, "killed")
  BY DEF Crash, RefInv, TypeOK, Bounded
<1>. QED  BY <1>1, CloseAllOK, FilesFact, FileExitStep

----------------------------------------------------------------------------
(* A command begins with what its first step needs. *)
LEMMA StartStep ==
  ASSUME RefInv, NEW p \in Procs, NEW c \in Commands, Start(p, c)
  PROVE  RefInv'
<1>. DEFINE r == [at |-> c.name, val |-> None, new |-> c.arg,
                  parent |-> None, dest |-> c.name]
            l == FirstLabel(c)
<1>1. /\ c \in CommandType /\ UNCHANGED <<fileVars, store>> /\ Bounded
      /\ pc' = [pc EXCEPT ![p] = l]
      /\ cmd' = [cmd EXCEPT ![p] = c]
      /\ reg' = [reg EXCEPT ![p] = r]
  BY CommandsAreTyped DEF Start, RefInv, TypeOK, Bounded
<1>2. r \in Registers
  BY <1>1 DEF CommandType, Registers, Contents
<1>3. /\ l \in {"head", "peel", "ref", "unlink", "exists"}
      /\ l = "peel" => c.arg \in Oids
      /\ l = "exists" => c.arg \in Names
  BY <1>1 DEF FirstLabel, CommandType, WellFormed, Ops
<1>4. r.new = c.arg /\ r.parent = None
  OBVIOUS
<1>. HIDE DEF r, l
<1>5. Consistent(l, c, r)
  BY <1>3, <1>4 DEF Consistent, Contents
<1>6. FilesOK' /\ fd' = fd
  BY <1>1, FilesFact DEF FilesOK, FileTypeOK, fileVars
<1>. QED  BY <1>1, <1>2, <1>3, <1>5, <1>6, FileStep DEF Running

----------------------------------------------------------------------------
(* The initial files are those InitRefs describes. *)
LEMMA InitRefInv == Init => RefInv
<1>. SUFFICES ASSUME Init PROVE RefInv
  OBVIOUS
<1>1. PICK refs \in InitRefs :
        /\ dir = [n \in Names |-> IF refs[n] = Missing THEN NoInode ELSE FirstInode[n]]
        /\ data = [i \in Inodes |->
                     IF \E n \in Names : FirstInode[n] = i /\ refs[n] # Missing
                     THEN refs[CHOOSE n \in Names : FirstInode[n] = i]
                     ELSE Empty]
  BY DEF Init
<1>2. refs \in [Names -> Stored(InitStore) \cup Names \cup {Missing}]
  BY InitIsClosed
<1>3. ASSUME NEW i \in Inodes
      PROVE  data[i] \in Stored(store) \cup Names \cup {Empty}
  <2>1. CASE \E n \in Names : FirstInode[n] = i /\ refs[n] # Missing
    <3>1. PICK n \in Names : FirstInode[n] = i /\ refs[n] # Missing
      BY <2>1
    <3>2. (CHOOSE m \in Names : FirstInode[m] = i) = n
      BY <3>1, InitIsClosed
    <3>. QED  BY <1>1, <1>2, <2>1, <3>1, <3>2 DEF Init
  <2>2. CASE ~\E n \in Names : FirstInode[n] = i /\ refs[n] # Missing
    BY <1>1, <2>2
  <2>. QED  BY <2>1, <2>2
<1>4. data \in [Inodes -> Contents \cup {Empty}]
  <2>1. \A i \in Inodes : data[i] \in Contents \cup {Empty}
    BY <1>3 DEF Stored, Contents
  <2>. QED  BY <1>1, <2>1
<1>5. FileTypeOK(Contents)
  BY <1>1, <1>4, PathsAreNames, InitIsClosed DEF Init, FileTypeOK, Entry
<1>6. TypeOK
  BY <1>5, InitIsClosed, CommitIsTyped DEF Init, TypeOK, Stopped
<1>7. \A i \in Inodes : data[i] \in Oids => data[i] \in Stored(store)
  BY <1>3, SortsAreDisjoint
<1>8. HistoryIsStored
  BY InitIsClosed DEF Init, HistoryIsStored
<1>9. ASSUME NEW p \in Procs
      PROVE  Consistent(pc[p], cmd[p], reg[p]) /\ pc[p] # "write"
  BY DEF Init, Consistent
<1>. QED  BY <1>6, <1>7, <1>8, <1>9 DEF RefInv

(* Every step of the system keeps RefInv. *)
LEMMA NextRefInv == RefInv /\ [Next]_vars => RefInv'
<1>. SUFFICES ASSUME RefInv, [Next]_vars PROVE RefInv'
  OBVIOUS
<1>1. ASSUME NEW p \in Procs, Step(p)
      PROVE  RefInv'
  BY <1>1, LookupHeadStep, ResolveHeadStep, PeelStep, WriteObjectStep,
     LookupTipStep, ResolveTipStep, LookupSummaryStep, ResolveSummaryStep,
     LookupRefStep, ResolveRefStep, VerifyOldStep, IsHeadStep,
     CheckExistsStep, OpenFileStep, WriteFileStep, WriteErrorStep,
     RenameFileStep, DiscardTmpStep, UnlinkRefStep, MoveExistsStep,
     MoveRenameStep, MoveUndoStep
  DEF Step
<1>2. ASSUME NEW p \in Procs, NEW c \in Commands, Start(p, c)
      PROVE  RefInv'
  BY <1>2, StartStep
<1>3. ASSUME NEW p \in Procs, Crash(p)
      PROVE  RefInv'
  BY <1>3, CrashStep
<1>4. ASSUME UNCHANGED vars
      PROVE  RefInv'
  BY <1>4 DEF vars, RefInv, TypeOK, FileTypeOK, HistoryIsStored, ClosedStore,
              Stored, Commits, Consistent
<1>. QED  BY <1>1, <1>2, <1>3, <1>4 DEF Next, AllDone

----------------------------------------------------------------------------
(* RefInv always holds: types, closed history, and what every command holds  *)
(* in memory at every point of its run.                                      *)
THEOREM RefInvariant == Spec => []RefInv
BY InitRefInv, NextRefInv, PTL DEF Spec

(* Every variable keeps its type. *)
THEOREM TypeCorrect == Spec => []TypeOK
<1>1. RefInv => TypeOK
  BY DEF RefInv
<1>. QED  BY <1>1, RefInvariant, PTL

(* No reference ever names an object that is not stored: commit and tag      *)
(* write the object before the reference, and update-ref and branch check    *)
(* the id they are given, whatever runs beside them, dies or fails.          *)
THEOREM ReferencesAreStored == Spec => []RefsAreStored
<1>1. RefInv => RefsAreStored
  BY ReadIsStored DEF RefsAreStored
<1>. QED  BY <1>1, RefInvariant, PTL

(* The parent of every commit is a stored commit, the target of every tag a  *)
(* stored object.                                                            *)
THEOREM HistoryHasNoHoles == Spec => []HistoryIsStored
<1>1. RefInv => HistoryIsStored
  BY DEF RefInv
<1>. QED  BY <1>1, RefInvariant, PTL

----------------------------------------------------------------------------
(* The files a reader may stumble upon: an empty reference is being written, *)
(* a temporary is about to be renamed.  TmpInv says which process answers    *)
(* for each, and is inductive beside RefInv: in each step that process       *)
(* either moves on with the file or is not the one that acts.                *)

(* The inodes that have a name keep their contents. *)
LEMMA LinkedKeeps ==
  ASSUME NEW contents, NEW d, NEW t, NEW f, NEW n \in Names
  PROVE  /\ d[n] \in Inodes => Reclaimed(contents, d, t, f)[d[n]] = contents[d[n]]
         /\ t[n] \in Inodes => Reclaimed(contents, d, t, f)[t[n]] = contents[t[n]]
BY PathsAreNames DEF Reclaimed, Linked

(* Only p moves. *)
Alone(p) == \A q \in Procs \ {p} : pc'[q] = pc[q] /\ reg'[q] = reg[q] /\ fd'[q] = fd[q]

(* A process that is not writing a file, and only moves published files      *)
(* about, answers for nothing.                                               *)
LEMMA BystanderStep ==
  ASSUME TmpInv, NEW p \in Procs, pc[p] \notin {"write", "rename", "unlinkTmp"}, Alone(p),
         UNCHANGED <<tmp, crashes, ioerrors>>,
         \A n \in Names : dir'[n] # NoInode =>
           \E m \in Names : dir[m] = dir'[n] /\ data'[dir'[n]] = data[dir[m]],
         \A n \in Names : tmp[n] # NoInode => data'[tmp[n]] = data[tmp[n]]
  PROVE  TmpInv'
<1>1. UnwrittenIsOpen(dir)'
  BY DEF TmpInv, UnwrittenIsOpen, Alone
<1>2. UnwrittenIsOpen(tmp)'
  BY DEF TmpInv, UnwrittenIsOpen, Alone
<1>3. NoDebrisWithoutCrash'
  BY DEF TmpInv, NoDebrisWithoutCrash, Alone
<1>. QED  BY <1>1, <1>2, <1>3 DEF TmpInv

(* The same, when no file changes. *)
LEMMA IdlerStep ==
  ASSUME TmpInv, NEW p \in Procs, pc[p] \notin {"write", "rename", "unlinkTmp"}, Alone(p),
         UNCHANGED <<fileVars, crashes, ioerrors>>
  PROVE  TmpInv'
BY BystanderStep DEF fileVars

(* Whatever p does to its own variables, the others keep theirs. *)
LEMMA ExitAlone ==
  ASSUME TypeOK, NEW p \in Procs, NEW s, Exit(p, s)
  PROVE  \A q \in Procs \ {p} : pc'[q] = pc[q] /\ reg'[q] = reg[q]
BY DEF TypeOK, Exit

LEMMA StayAlone ==
  ASSUME TypeOK, NEW p \in Procs, NEW l, Stay(p, l)
  PROVE  /\ \A q \in Procs \ {p} : pc'[q] = pc[q] /\ reg'[q] = reg[q]
         /\ pc'[p] = l /\ reg'[p] = reg[p]
BY DEF TypeOK, Stay, Goto

LEMMA AimAlone ==
  ASSUME TypeOK, NEW p \in Procs, NEW n, NEW l, Aim(p, n, l)
  PROVE  \A q \in Procs \ {p} : pc'[q] = pc[q] /\ reg'[q] = reg[q]
BY DEF TypeOK, Aim, Goto

LEMMA HoldAlone ==
  ASSUME TypeOK, NEW p \in Procs, NEW n, NEW v, NEW l, Hold(p, n, v, l)
  PROVE  \A q \in Procs \ {p} : pc'[q] = pc[q] /\ reg'[q] = reg[q]
BY DEF TypeOK, Hold, Goto

LEMMA HaveTipAlone ==
  ASSUME TypeOK, NEW p \in Procs, NEW v, HaveTip(p, v)
  PROVE  \A q \in Procs \ {p} : pc'[q] = pc[q] /\ reg'[q] = reg[q]
BY ExitAlone DEF TypeOK, HaveTip, Goto, Die

----------------------------------------------------------------------------
(* The steps that read, decide and store objects *)
Thinking(p) ==
  \/ LookupHead(p) \/ ResolveHead(p) \/ Peel(p) \/ WriteObject(p)
  \/ LookupTip(p) \/ ResolveTip(p) \/ LookupSummary(p) \/ ResolveSummary(p)
  \/ LookupRef(p) \/ ResolveRef(p) \/ VerifyOld(p) \/ IsHead(p)
  \/ CheckExists(p) \/ MoveExists(p)

LEMMA ThinkingAlone ==
  ASSUME TypeOK, NEW p \in Procs, Thinking(p)
  PROVE  \A q \in Procs \ {p} : pc'[q] = pc[q] /\ reg'[q] = reg[q]
<1>1. CASE LookupHead(p)
  <2>. DEFINE v == read_file(HEAD)
  <2>1. \/ Die(p) \/ HaveTip(p, v)
        \/ \E l \in {"mvExists", "resolveHead"} : Hold(p, HEAD, v, l)
    BY <1>1 DEF LookupHead
  <2>. QED  BY <2>1, ExitAlone, HaveTipAlone, HoldAlone DEF Die
<1>2. CASE ResolveHead(p)
  BY <1>2, ExitAlone, HaveTipAlone, HoldAlone, StayAlone DEF ResolveHead, Die, Follow
<1>3. CASE WriteObject(p)
  BY <1>3 DEF WriteObject, Goto, TypeOK
<1>4. CASE Peel(p)
  <2>1. \/ Die(p) \/ Stay(p, "exists") \/ Stay(p, "object")
        \/ (reg' = [reg EXCEPT ![p].new = store[reg[p].new].link] /\ Goto(p, "peel"))
    BY <1>4 DEF Peel
  <2>. QED  BY <2>1, ExitAlone, StayAlone DEF Die, Goto, TypeOK
<1>5. CASE LookupTip(p)
  <2>. DEFINE v == read_file(HEAD)
  <2>1. \/ Die(p) \/ Aim(p, HEAD, "exists") \/ Aim(p, HEAD, "open")
        \/ (/\ reg' = [reg EXCEPT ![p].at = HEAD, ![p].val = v, ![p].dest = v]
            /\ Goto(p, "resolveTip"))
    BY <1>5 DEF LookupTip
  <2>. QED  BY <2>1, ExitAlone, AimAlone DEF Die, Goto, TypeOK
<1>6. CASE ResolveTip(p)
  BY <1>6, ExitAlone, AimAlone, HoldAlone, StayAlone DEF ResolveTip, Die, Follow
<1>7. CASE LookupSummary(p)
  BY <1>7, ExitAlone, HoldAlone DEF LookupSummary, Die
<1>8. CASE ResolveSummary(p)
  BY <1>8, ExitAlone, HoldAlone DEF ResolveSummary, Die, Follow
<1>9. CASE LookupRef(p)
  BY <1>9, ExitAlone, AimAlone, HoldAlone DEF LookupRef, Die
<1>10. CASE ResolveRef(p)
  BY <1>10, ExitAlone, HoldAlone DEF ResolveRef, Die, Follow
<1>11. CASE VerifyOld(p)
  BY <1>11, ExitAlone, AimAlone DEF VerifyOld, Die
<1>12. CASE IsHead(p)
  BY <1>12, ExitAlone, AimAlone DEF IsHead, Die
<1>13. CASE CheckExists(p)
  BY <1>13, ExitAlone, StayAlone DEF CheckExists, Die
<1>14. CASE MoveExists(p)
  BY <1>14, ExitAlone, StayAlone DEF MoveExists, Die
<1>. QED  BY <1>1, <1>2, <1>3, <1>4, <1>5, <1>6, <1>7, <1>8, <1>9, <1>10,
             <1>11, <1>12, <1>13, <1>14 DEF Thinking

LEMMA ThinkingStep ==
  ASSUME TypeOK, TmpInv, NEW p \in Procs, Thinking(p)
  PROVE  TmpInv'
<1>1. UNCHANGED <<fileVars, crashes, ioerrors>> /\ pc[p] \notin {"write", "rename", "unlinkTmp"}
  BY DEF Thinking, LookupHead, ResolveHead, Peel, WriteObject, LookupTip,
     ResolveTip, LookupSummary, ResolveSummary, LookupRef, ResolveRef,
     VerifyOld, IsHead, CheckExists, MoveExists, Quiet, counters
<1>. QED  BY <1>1, ThinkingAlone, IdlerStep DEF Alone, fileVars

LEMMA StartIdles ==
  ASSUME TypeOK, TmpInv, NEW p \in Procs, NEW c \in Commands, Start(p, c)
  PROVE  TmpInv'
<1>1. /\ UNCHANGED <<fileVars, crashes, ioerrors>> /\ pc[p] \notin {"write", "rename", "unlinkTmp"}
      /\ \A q \in Procs \ {p} : pc'[q] = pc[q] /\ reg'[q] = reg[q]
  BY DEF Start, Stopped, TypeOK
<1>. QED  BY <1>1, IdlerStep DEF Alone, fileVars

----------------------------------------------------------------------------
(* The steps that change published files *)

LEMMA UnlinkRefTmp ==
  ASSUME RefInv, TmpInv, NEW p \in Procs, UnlinkRef(p)
  PROVE  TmpInv'
<1>1. /\ pc[p] \notin {"write", "rename", "unlinkTmp"} /\ UNCHANGED <<crashes, ioerrors>>
      /\ TypeOK /\ FileTypeOK(Contents) /\ FileTypeOK(Contents)'
      /\ reg[p].dest \in Names
  BY UnlinkRefStep DEF UnlinkRef, counters, RefInv, TypeOK, Registers
<1>2. CASE Unlink(reg[p].dest) /\ Exit(p, "ok")
  <2>1. \A n \in Names : dir'[n] # NoInode =>
          dir[n] = dir'[n] /\ data'[dir'[n]] = data[dir[n]]
    <3>1. /\ \A n \in Names : dir'[n] = IF n = reg[p].dest THEN NoInode ELSE dir[n]
          /\ data' = Reclaimed(data, dir', tmp, fd)
      BY <1>1, <1>2, PathsAreNames DEF Unlink, FileTypeOK
    <3>2. \A n \in Names : dir'[n] # NoInode => dir'[n] \in Inodes
      BY <1>1, PathsAreNames DEF FileTypeOK, Entry
    <3>. QED  BY <3>1, <3>2, LinkedKeeps
  <2>2. \A n \in Names : tmp[n] # NoInode => data'[tmp[n]] = data[tmp[n]]
    BY <1>1, <1>2, LinkedKeeps, PathsAreNames DEF Unlink, FileTypeOK, Entry
  <2>3. Alone(p) /\ UNCHANGED tmp
    BY <1>1, <1>2, ExitAlone DEF Alone, Unlink
  <2>. QED  BY <1>1, <2>1, <2>2, <2>3, BystanderStep
<1>3. CASE Die(p) /\ UNCHANGED fileVars
  BY <1>1, <1>3, ExitAlone, IdlerStep DEF Die, Alone, fileVars
<1>. QED  BY <1>2, <1>3 DEF UnlinkRef

(* A branch that moves takes its file along. *)
LEMMA MovedTmp ==
  ASSUME RefInv, TmpInv, NEW p \in Procs, pc[p] \notin {"write", "rename", "unlinkTmp"},
         NEW old \in Names, NEW n \in Names, file_exists(old), Rename(old, n),
         FileTypeOK(Contents)', UNCHANGED <<crashes, ioerrors>>,
         \A q \in Procs \ {p} : pc'[q] = pc[q] /\ reg'[q] = reg[q]
  PROVE  TmpInv'
<1>1. /\ dir' = [x \in Paths |-> CASE x = n -> dir[old]
                                   [] x = old /\ x # n -> NoInode
                                   [] OTHER -> dir[x]]
      /\ data' = Reclaimed(data, dir', tmp, fd)
      /\ UNCHANGED <<tmp, fd>>
  BY DEF Rename
<1>2. FileTypeOK(Contents)
  BY DEF RefInv, TypeOK
<1>3. ASSUME NEW m \in Names, dir'[m] # NoInode
      PROVE  \E k \in Names : dir[k] = dir'[m] /\ data'[dir'[m]] = data[dir[k]]
  <2>1. PICK k \in Names : dir[k] = dir'[m]
    BY <1>1, <1>3, PathsAreNames
  <2>2. data'[dir'[m]] = data[dir'[m]]
    BY <1>1, <1>3, LinkedKeeps, PathsAreNames DEF FileTypeOK, Entry
  <2>. QED  BY <2>1, <2>2
<1>4. \A m \in Names : tmp[m] # NoInode => data'[tmp[m]] = data[tmp[m]]
  BY <1>1, <1>2, LinkedKeeps, PathsAreNames DEF FileTypeOK, Entry
<1>. QED  BY <1>1, <1>3, <1>4, BystanderStep DEF Alone

LEMMA MoveRenameTmp ==
  ASSUME RefInv, TmpInv, NEW p \in Procs, MoveRename(p)
  PROVE  TmpInv'
<1>1. /\ pc[p] \notin {"write", "rename", "unlinkTmp"} /\ UNCHANGED <<crashes, ioerrors>>
      /\ TypeOK /\ FileTypeOK(Contents)'
      /\ cmd[p].name \in Names /\ cmd[p].arg \in Names
  BY MoveRenameStep, MoveNames DEF MoveRename, counters, RefInv, TypeOK, Consistent, Op
<1>2. CASE Die(p) /\ UNCHANGED fileVars
  BY <1>1, <1>2, ExitAlone, IdlerStep DEF Die, Alone, fileVars
<1>3. CASE /\ file_exists(cmd[p].name) /\ Rename(cmd[p].name, cmd[p].arg)
           /\ Aim(p, HEAD, "open") \/ Exit(p, "ok")
  BY <1>1, <1>3, ExitAlone, AimAlone, MovedTmp
<1>. QED  BY <1>2, <1>3 DEF MoveRename

LEMMA MoveUndoTmp ==
  ASSUME RefInv, TmpInv, NEW p \in Procs, MoveUndo(p)
  PROVE  TmpInv'
<1>1. /\ pc[p] \notin {"write", "rename", "unlinkTmp"} /\ UNCHANGED <<crashes, ioerrors>>
      /\ TypeOK /\ FileTypeOK(Contents)' /\ Die(p)
      /\ cmd[p].name \in Names /\ cmd[p].arg \in Names
  BY MoveUndoStep, MoveNames DEF MoveUndo, counters, RefInv, TypeOK, Consistent, Op
<1>2. CASE UNCHANGED fileVars
  BY <1>1, <1>2, ExitAlone, IdlerStep DEF Die, Alone, fileVars
<1>3. CASE file_exists(cmd[p].arg) /\ Rename(cmd[p].arg, cmd[p].name)
  BY <1>1, <1>3, ExitAlone, MovedTmp DEF Die
<1>. QED  BY <1>2, <1>3 DEF MoveUndo

----------------------------------------------------------------------------
(* The steps of write_file *)

(* The process that opens a temporary answers for it. *)
LEMMA OpenFileTmp ==
  ASSUME RefInv, TmpInv, NEW p \in Procs, OpenFile(p)
  PROVE  TmpInv'
<1>. DEFINE path == reg[p].dest
<1>1. /\ pc[p] \notin {"write", "rename", "unlinkTmp"} /\ UNCHANGED <<crashes, ioerrors>>
      /\ FileTypeOK(Contents) /\ path \in Names
      /\ pc'[p] = "write" /\ reg'[p] = reg[p]
      /\ \A q \in Procs \ {p} : pc'[q] = pc[q] /\ reg'[q] = reg[q]
  BY StayAlone DEF OpenFile, counters, RefInv, TypeOK, Registers
<1>2. PICK i \in Inodes :
        /\ fd' = [fd EXCEPT ![p] = i] /\ data' = [data EXCEPT ![i] = Empty]
        /\ tmp' = [tmp EXCEPT ![path] = i] /\ UNCHANGED dir
  <2>1. CASE tmp[path] # NoInode
    <3>1. tmp[path] \in Inodes /\ tmp = [tmp EXCEPT ![path] = tmp[path]]
      BY <1>1, <2>1, PathsAreNames DEF FileTypeOK, Entry
    <3>. QED  BY <2>1, <3>1 DEF OpenFile, OpenTmp
  <2>2. CASE tmp[path] = NoInode
    <3>1. (CHOOSE i \in FreeInodes : TRUE) \in Inodes
      BY <2>2 DEF OpenFile, OpenTmp, FreeInodes
    <3>. QED  BY <2>2, <3>1 DEF OpenFile, OpenTmp
  <2>. QED  BY <2>1, <2>2
<1>3. \A q \in Procs \ {p} : fd'[q] = fd[q]
  BY <1>1, <1>2 DEF FileTypeOK
<1>4. fd'[p] = i
  BY <1>1, <1>2 DEF FileTypeOK
<1>5. \A n \in Names : tmp'[n] = IF n = path THEN i ELSE tmp[n]
  BY <1>1, <1>2, PathsAreNames DEF FileTypeOK
<1>6. \A e \in Inodes : e # i => data'[e] = data[e]
  BY <1>1, <1>2 DEF FileTypeOK
<1>7. \A n \in Names : dir[n] \in Inodes \cup {NoInode} /\ tmp[n] \in Inodes \cup {NoInode}
  BY <1>1, PathsAreNames DEF FileTypeOK, Entry
<1>8. UnwrittenIsOpen(dir)'
  BY <1>1, <1>2, <1>3, <1>4, <1>6, <1>7 DEF TmpInv, UnwrittenIsOpen
<1>9. UnwrittenIsOpen(tmp)'
  BY <1>1, <1>3, <1>4, <1>5, <1>6, <1>7 DEF TmpInv, UnwrittenIsOpen
<1>10. NoDebrisWithoutCrash'
  BY <1>1, <1>5 DEF TmpInv, NoDebrisWithoutCrash
<1>. QED  BY <1>8, <1>9, <1>10 DEF TmpInv

(* Whoever shares the inode that p writes sees it full. *)
LEMMA WriteFileTmp ==
  ASSUME RefInv, TmpInv, NEW p \in Procs, WriteFile(p)
  PROVE  TmpInv'
<1>. DEFINE written == [data EXCEPT ![fd[p]] = reg[p].new]
<1>1. /\ pc[p] = "write" /\ UNCHANGED <<dir, tmp, crashes, ioerrors>>
      /\ FileTypeOK(Contents) /\ fd[p] \in Inodes
      /\ pc'[p] = "rename" /\ reg'[p] = reg[p]
      /\ \A q \in Procs \ {p} : pc'[q] = pc[q] /\ reg'[q] = reg[q]
      /\ fd' = [fd EXCEPT ![p] = NoInode]
      /\ data' = Reclaimed(written, dir, tmp, fd')
  BY StayAlone DEF WriteFile, WriteAndClose, counters, RefInv, TypeOK
<1>2. reg[p].new # Empty
  BY <1>1, SortsAreDisjoint DEF RefInv, Consistent, Stored
<1>3. \A q \in Procs \ {p} : fd'[q] = fd[q]
  BY <1>1 DEF FileTypeOK
<1>4. \A e \in Inodes : written[e] = IF e = fd[p] THEN reg[p].new ELSE data[e]
  BY <1>1 DEF FileTypeOK
<1>. HIDE DEF written
<1>5. \A n \in Names : /\ dir[n] # NoInode => dir[n] \in Inodes /\ data'[dir[n]] = written[dir[n]]
                       /\ tmp[n] # NoInode => tmp[n] \in Inodes /\ data'[tmp[n]] = written[tmp[n]]
  BY <1>1, LinkedKeeps, PathsAreNames DEF FileTypeOK, Entry
<1>6. ASSUME crashes' + ioerrors' = 0,
             NEW e \in Inodes, data'[e] = written[e], data'[e] = Empty,
             NEW n \in Names, e \in {dir[n], tmp[n]}, e # NoInode
      PROVE  \E q \in Procs : pc'[q] = "write" /\ fd'[q] = e
  <2>1. e # fd[p] /\ data[e] = Empty
    BY <1>2, <1>4, <1>6
  <2>2. PICK q \in Procs : pc[q] = "write" /\ fd[q] = e
    BY <1>1, <1>6, <2>1 DEF TmpInv, UnwrittenIsOpen
  <2>3. q # p
    BY <2>1, <2>2
  <2>. QED  BY <1>1, <1>3, <2>2, <2>3
<1>7. UnwrittenIsOpen(dir)' /\ UnwrittenIsOpen(tmp)'
  <2>1. UnwrittenIsOpen(dir)'
    BY <1>1, <1>5, <1>6 DEF UnwrittenIsOpen
  <2>2. UnwrittenIsOpen(tmp)'
    BY <1>1, <1>5, <1>6 DEF UnwrittenIsOpen
  <2>. QED  BY <2>1, <2>2
<1>8. NoDebrisWithoutCrash'
  BY <1>1 DEF TmpInv, NoDebrisWithoutCrash
<1>. QED  BY <1>7, <1>8 DEF TmpInv

LEMMA WriteErrorTmp ==
  ASSUME RefInv, TmpInv, NEW p \in Procs, WriteError(p)
  PROVE  TmpInv'
<1>1. /\ ioerrors' = ioerrors + 1 /\ UNCHANGED <<tmp, crashes>>
      /\ pc'[p] = "unlinkTmp" /\ reg'[p] = reg[p]
      /\ \A q \in Procs \ {p} : pc'[q] = pc[q] /\ reg'[q] = reg[q]
      /\ crashes \in Nat /\ ioerrors \in Nat
  BY StayAlone DEF WriteError, CloseAll, RefInv, TypeOK
<1>2. ~(crashes' + ioerrors' = 0)
  BY <1>1
<1>3. NoDebrisWithoutCrash'
  BY <1>1 DEF TmpInv, NoDebrisWithoutCrash, WriteError
<1>. QED  BY <1>2, <1>3 DEF TmpInv, UnwrittenIsOpen

(* A renamed temporary is answered for as it was under its temporary name. *)
LEMMA RenameFileTmp ==
  ASSUME RefInv, TmpInv, NEW p \in Procs, RenameFile(p)
  PROVE  TmpInv'
<1>. DEFINE path == reg[p].dest
<1>1. /\ pc[p] = "rename" /\ UNCHANGED <<crashes, ioerrors>>
      /\ FileTypeOK(Contents) /\ TypeOK /\ path \in Names
  BY DEF RenameFile, counters, RefInv, TypeOK, Registers
<1>2. CASE RenameTmp(path) /\ (Stay(p, "summary") \/ Exit(p, "ok"))
  <2>1. \A q \in Procs \ {p} : pc'[q] = pc[q] /\ reg'[q] = reg[q]
    BY <1>1, <1>2, ExitAlone, StayAlone
  <2>2. /\ \A n \in Names : dir'[n] = IF n = path THEN tmp[path] ELSE dir[n]
        /\ \A n \in Names : tmp'[n] = IF n = path THEN NoInode ELSE tmp[n]
        /\ data' = Reclaimed(data, dir', tmp', fd) /\ fd' = fd
    BY <1>1, <1>2, PathsAreNames DEF RenameTmp, FileTypeOK
  <2>3. \A n \in Names : dir[n] \in Inodes \cup {NoInode} /\ tmp[n] \in Inodes \cup {NoInode}
    BY <1>1, PathsAreNames DEF FileTypeOK, Entry
  <2>4. \A n \in Names : /\ dir'[n] # NoInode => data'[dir'[n]] = data[dir'[n]]
                         /\ tmp'[n] # NoInode => data'[tmp'[n]] = data[tmp'[n]]
    BY <1>1, <2>2, <2>3, LinkedKeeps
  <2>5. UnwrittenIsOpen(dir)'
    BY <1>1, <2>1, <2>2, <2>4 DEF TmpInv, UnwrittenIsOpen
  <2>6. UnwrittenIsOpen(tmp)'
    BY <1>1, <2>1, <2>2, <2>4 DEF TmpInv, UnwrittenIsOpen
  <2>7. NoDebrisWithoutCrash'
    BY <1>1, <2>1, <2>2 DEF TmpInv, NoDebrisWithoutCrash
  <2>. QED  BY <2>5, <2>6, <2>7 DEF TmpInv
<1>3. CASE Stay(p, "unlinkTmp") /\ UNCHANGED fileVars
  <2>1. /\ \A q \in Procs \ {p} : pc'[q] = pc[q] /\ reg'[q] = reg[q]
        /\ pc'[p] = "unlinkTmp" /\ reg'[p] = reg[p]
        /\ UNCHANGED <<dir, tmp, data, fd>>
    BY <1>1, <1>3, StayAlone DEF fileVars
  <2>2. UnwrittenIsOpen(dir)' /\ UnwrittenIsOpen(tmp)'
    BY <1>1, <2>1 DEF TmpInv, UnwrittenIsOpen
  <2>3. NoDebrisWithoutCrash'
    BY <1>1, <2>1 DEF TmpInv, NoDebrisWithoutCrash
  <2>. QED  BY <2>2, <2>3 DEF TmpInv
<1>. QED  BY <1>2, <1>3 DEF RenameFile

(* Nobody need answer for the temporary that p unlinks, whoever made it. *)
LEMMA DiscardTmpTmp ==
  ASSUME RefInv, TmpInv, NEW p \in Procs, DiscardTmp(p)
  PROVE  TmpInv'
<1>. DEFINE path == reg[p].dest
<1>1. /\ pc[p] = "unlinkTmp" /\ UNCHANGED <<dir, fd, crashes, ioerrors>>
      /\ FileTypeOK(Contents) /\ TypeOK /\ path \in Names
  BY DEF DiscardTmp, UnlinkTmp, counters, RefInv, TypeOK, Registers
<1>2. \A q \in Procs \ {p} : pc'[q] = pc[q] /\ reg'[q] = reg[q]
  BY <1>1, ExitAlone, StayAlone DEF DiscardTmp, Die
<1>3. /\ \A n \in Names : tmp'[n] = IF n = path THEN NoInode ELSE tmp[n]
      /\ data' = Reclaimed(data, dir, tmp', fd)
  BY <1>1, PathsAreNames DEF DiscardTmp, UnlinkTmp, FileTypeOK
<1>4. \A n \in Names : dir[n] \in Inodes \cup {NoInode} /\ tmp[n] \in Inodes \cup {NoInode}
  BY <1>1, PathsAreNames DEF FileTypeOK, Entry
<1>5. \A n \in Names : /\ dir[n] # NoInode => data'[dir[n]] = data[dir[n]]
                       /\ tmp'[n] # NoInode => data'[tmp'[n]] = data[tmp'[n]]
  BY <1>3, <1>4, LinkedKeeps
<1>6. UnwrittenIsOpen(dir)'
  BY <1>1, <1>2, <1>5 DEF TmpInv, UnwrittenIsOpen
<1>7. UnwrittenIsOpen(tmp)'
  BY <1>1, <1>2, <1>3, <1>5 DEF TmpInv, UnwrittenIsOpen
<1>8. NoDebrisWithoutCrash'
  BY <1>1, <1>2, <1>3 DEF TmpInv, NoDebrisWithoutCrash
<1>. QED  BY <1>6, <1>7, <1>8 DEF TmpInv

(* Nothing is claimed once a process was killed. *)
LEMMA CrashTmp ==
  ASSUME TypeOK, NEW p \in Procs, Crash(p)
  PROVE  TmpInv'
<1>1. crashes \in Nat /\ ioerrors \in Nat /\ crashes' = crashes + 1 /\ UNCHANGED ioerrors
  BY DEF Crash, TypeOK
<1>2. crashes' # 0 /\ crashes' + ioerrors' # 0
  BY <1>1
<1>. QED  BY <1>2 DEF TmpInv, UnwrittenIsOpen, NoDebrisWithoutCrash

----------------------------------------------------------------------------
LEMMA InitTmpInv == Init => TmpInv
<1>. SUFFICES ASSUME Init PROVE TmpInv
  OBVIOUS
<1>1. PICK refs \in InitRefs :
        /\ dir = [n \in Names |-> IF refs[n] = Missing THEN NoInode ELSE FirstInode[n]]
        /\ data = [i \in Inodes |->
                     IF \E n \in Names : FirstInode[n] = i /\ refs[n] # Missing
                     THEN refs[CHOOSE n \in Names : FirstInode[n] = i]
                     ELSE Empty]
  BY DEF Init
<1>2. refs \in [Names -> Stored(InitStore) \cup Names \cup {Missing}]
  BY InitIsClosed
<1>3. ASSUME NEW n \in Names, dir[n] # NoInode
      PROVE  data[dir[n]] # Empty
  <2>1. refs[n] # Missing /\ dir[n] = FirstInode[n] /\ FirstInode[n] \in Inodes
    BY <1>1, <1>3, InitIsClosed
  <2>2. (CHOOSE m \in Names : FirstInode[m] = FirstInode[n]) = n
    BY InitIsClosed
  <2>3. data[dir[n]] = refs[n]
    BY <1>1, <2>1, <2>2
  <2>. QED  BY <1>2, <2>1, <2>3, SortsAreDisjoint DEF Stored
<1>4. \A n \in Names : tmp[n] = NoInode
  BY DEF Init
<1>. QED  BY <1>3, <1>4 DEF TmpInv, UnwrittenIsOpen, NoDebrisWithoutCrash

LEMMA NextTmpInv == RefInv /\ TmpInv /\ [Next]_vars => TmpInv'
<1>. SUFFICES ASSUME RefInv, TmpInv, [Next]_vars PROVE TmpInv'
  OBVIOUS
<1>0. TypeOK
  BY DEF RefInv
<1>1. ASSUME NEW p \in Procs, Step(p)
      PROVE  TmpInv'
  <2>1. CASE Thinking(p)
    BY <1>0, <2>1, ThinkingStep
  <2>2. CASE UnlinkRef(p) \/ MoveRename(p) \/ MoveUndo(p)
    BY <2>2, UnlinkRefTmp, MoveRenameTmp, MoveUndoTmp
  <2>3. CASE OpenFile(p) \/ WriteFile(p) \/ WriteError(p) \/ RenameFile(p) \/ DiscardTmp(p)
    BY <2>3, OpenFileTmp, WriteFileTmp, WriteErrorTmp, RenameFileTmp, DiscardTmpTmp
  <2>. QED  BY <1>1, <2>1, <2>2, <2>3 DEF Step, Thinking
<1>2. ASSUME NEW p \in Procs, NEW c \in Commands, Start(p, c)
      PROVE  TmpInv'
  BY <1>0, <1>2, StartIdles
<1>3. ASSUME NEW p \in Procs, Crash(p)
      PROVE  TmpInv'
  BY <1>0, <1>3, CrashTmp
<1>4. ASSUME UNCHANGED vars
      PROVE  TmpInv'
  BY <1>4 DEF vars, TmpInv, UnwrittenIsOpen, NoDebrisWithoutCrash
<1>. QED  BY <1>1, <1>2, <1>3, <1>4 DEF Next, AllDone

----------------------------------------------------------------------------
(* Every empty file and every temporary has a process that answers for it. *)
THEOREM TmpInvariant == Spec => []TmpInv
BY RefInvariant, InitTmpInv, NextTmpInv, PTL DEF Spec

(* Without crashes and failed writes, a reference file that is empty is open *)
(* in a process about to write it, however many writers share the temporary. *)
THEOREM EmptyFilesAreBeingWritten == Spec => []EmptyIsUnfinishedWrite
<1>1. RefInv /\ TmpInv => EmptyIsUnfinishedWrite
  <2>. SUFFICES ASSUME RefInv, TmpInv, crashes + ioerrors = 0,
                       NEW n \in Names, read_file(n) = Empty
                PROVE  \E p \in Procs : pc[p] = "write" /\ fd[p] = dir[n]
    BY DEF EmptyIsUnfinishedWrite
  <2>1. dir[n] # NoInode /\ data[dir[n]] = Empty
    BY SortsAreDisjoint DEF read_file, file_exists
  <2>. QED  BY <2>1 DEF TmpInv, UnwrittenIsOpen
<1>. QED  BY <1>1, RefInvariant, TmpInvariant, PTL

(* Without crashes, no temporary file outlives the command it belongs to,    *)
(* failed writes and stolen temporaries included.                            *)
THEOREM NoDebris == Spec => []NoDebrisWithoutCrash
<1>1. TmpInv => NoDebrisWithoutCrash
  BY DEF TmpInv
<1>. QED  BY <1>1, TmpInvariant, PTL
----------------------------------------------------------------------------
(* Following links.  RefDb follows them as often as there are names; the     *)
(* code follows them until there is none.                                    *)

(* A set of natural numbers has a least element. *)
LEMMA LeastNumber ==
  ASSUME NEW S \in SUBSET Nat, S # {}
  PROVE  \E i \in S : \A j \in S : i <= j
<1>. DEFINE R == {ss \in Nat \X Nat : ss[1] < ss[2]}
<1>1. IsWellFoundedOn(R, Nat)
  BY NatLessThanWellFounded, Zenon DEF OpToRel
<1>2. \A m, n \in Nat : m < n => <<m, n>> \in R
  OBVIOUS
<1>. HIDE DEF R
<1>3. PICK n \in S : \A m \in S : ~(<<m, n>> \in R)
  BY <1>1, WFMin
<1>4. ASSUME NEW m \in S PROVE n <= m
  <2>1. m \in Nat /\ n \in Nat
    OBVIOUS
  <2>2. ~(m < n)
    BY <1>2, <1>3, <2>1
  <2>. QED  BY <2>1, <2>2
<1>. QED  BY <1>4

(* h is n, g[n], g[g[n]], ... up to N. *)
Hops(h, g, n, N) == h = [k \in 0..N |-> IF k = 0 THEN n ELSE g[h[k - 1]]]

LEMMA HopsExist ==
  ASSUME NEW X, NEW g \in [X -> X], NEW n \in X, NEW N \in Nat
  PROVE  \E h : Hops(h, g, n, N)
<1>. DEFINE Bad == {m \in Nat : ~\E h : Hops(h, g, n, m)}
<1>1. CASE Bad # {}
  <2>1. PICK m \in Bad : \A j \in Bad : m <= j
    <3>. Bad \in SUBSET Nat
      OBVIOUS
    <3>. HIDE DEF Bad
    <3>. QED  BY <1>1, LeastNumber
  <2>2. CASE m = 0
    <3>. DEFINE h == [k \in 0..0 |-> n]
    <3>1. h = [k \in 0..0 |-> IF k = 0 THEN n ELSE g[h[k - 1]]]
      OBVIOUS
    <3>2. Hops(h, g, n, 0)
      BY <3>1 DEF Hops
    <3>. QED  BY <2>1, <2>2, <3>2
  <2>3. CASE m # 0
    <3>1. m \in Nat /\ m - 1 \in Nat /\ m - 1 \notin Bad
      BY <2>1, <2>3
    <3>2. PICK h : Hops(h, g, n, m - 1)
      BY <3>1
    <3>. DEFINE h2 == [k \in 0..m |-> IF k = m THEN g[h[m - 1]] ELSE h[k]]
    <3>3. \A k \in 0..(m - 1) : h[k] = IF k = 0 THEN n ELSE g[h[k - 1]]
      BY <3>2 DEF Hops
    <3>4. \A k \in 0..m : h2[k] = IF k = 0 THEN n ELSE g[h2[k - 1]]
      BY <2>3, <3>1, <3>3
    <3>5. h2 = [k \in 0..m |-> IF k = 0 THEN n ELSE g[h2[k - 1]]]
      <4>1. h2 = [k \in 0..m |-> h2[k]]
        OBVIOUS
      <4>. HIDE DEF h2
      <4>. QED  BY <3>4, <4>1
    <3>6. Hops(h2, g, n, m)
      BY <3>5, Zenon DEF Hops
    <3>. QED  BY <2>1, <3>6
  <2>. QED  BY <2>2, <2>3
<1>2. CASE Bad = {}
  BY <1>2
<1>. QED  BY <1>1, <1>2

(* Links never leave X. *)
LEMMA HopsStay ==
  ASSUME NEW X, NEW g \in [X -> X], NEW n \in X, NEW N \in Nat, NEW h,
         h[0] = n,
         \A k \in 1..N : h[k - 1] \in X => h[k] = g[h[k - 1]]
  PROVE  \A k \in 0..N : h[k] \in X
<1>. DEFINE Bad == {k \in 0..N : h[k] \notin X}
<1>1. CASE Bad # {}
  <2>1. PICK k \in Bad : \A j \in Bad : k <= j
    <3>. Bad \in SUBSET Nat
      OBVIOUS
    <3>. HIDE DEF Bad
    <3>. QED  BY <1>1, LeastNumber
  <2>2. k # 0
    BY <2>1
  <2>3. k \in 1..N /\ k - 1 \in 0..N /\ k - 1 \notin Bad
    BY <2>1, <2>2
  <2>4. h[k - 1] \in X /\ h[k] = g[h[k - 1]]
    BY <2>3
  <2>. QED  BY <2>1, <2>4
<1>2. CASE Bad = {}
  BY <1>2
<1>. QED  BY <1>1, <1>2

LEMMA HopsType ==
  ASSUME NEW X, NEW g \in [X -> X], NEW n \in X, NEW N \in Nat, NEW h,
         Hops(h, g, n, N)
  PROVE  /\ h \in [0..N -> X]
         /\ h[0] = n
         /\ \A k \in 1..N : h[k] = g[h[k - 1]]
<1>1. /\ h[0] = n
      /\ \A k \in 1..N : h[k] = g[h[k - 1]]
      /\ h = [k \in 0..N |-> h[k]]
  <2>1. h = [k \in 0..N |-> IF k = 0 THEN n ELSE g[h[k - 1]]]
    BY ONLY Hops(h, g, n, N) DEF Hops
  <2>2. 0 \in 0..N /\ \A k \in 1..N : k \in 0..N /\ k # 0
    BY ONLY N \in Nat
  <2>3. \A k \in 0..N : h[k] = IF k = 0 THEN n ELSE g[h[k - 1]]
    BY ONLY <2>1
  <2>4. h = [k \in 0..N |-> h[k]]
    BY ONLY <2>1
  <2>. QED  BY ONLY <2>2, <2>3, <2>4
<1>2. \A k \in 0..N : h[k] \in X
  BY <1>1, HopsStay
<1>. QED  BY <1>1, <1>2

(* When the end x of the links is reached at all, it is reached with as many *)
(* hops as there are elements: the elements met before are all different.    *)
LEMMA HopsEnd ==
  ASSUME NEW X, IsFiniteSet(X), NEW g \in [X -> X], NEW n \in X, NEW x \in X,
         g[x] = x,
         \A S \in SUBSET X : n \in S /\ (\A y \in S : g[y] \in S) => x \in S,
         NEW h, Hops(h, g, n, Cardinality(X))
  PROVE  h[Cardinality(X)] = x
<1>. DEFINE N == Cardinality(X)
<1>1. N \in Nat
  BY FS_CardinalityType
<1>. HIDE DEF N
<1>2. /\ h \in [0..N -> X]
      /\ h[0] = n
      /\ \A k \in 1..N : h[k] = g[h[k - 1]]
  BY <1>1, HopsType DEF N
<1>3. \E i, j \in 0..N : i # j /\ h[i] = h[j]
  <2>1. IsFiniteSet(0..N) /\ Cardinality(0..N) = N + 1
    BY <1>1, FS_Interval
  <2>2. Cardinality(X) < Cardinality(0..N)
    BY <1>1, <2>1 DEF N
  <2>. DEFINE I == 0..N
  <2>3. h \in [I -> X] /\ IsFiniteSet(I) /\ IsFiniteSet(X) /\ Cardinality(X) < Cardinality(I)
    BY <1>2, <2>1, <2>2
  <2>. HIDE DEF I
  <2>4. \E i, j \in I : i # j /\ h[i] = h[j]
    BY ONLY <2>3, FS_PigeonHole, SMTT(30)
  <2>. QED  BY <2>4 DEF I
<1>4. PICK i \in 0..N, j \in 0..N : i < j /\ h[i] = h[j]
  <2>1. PICK a \in 0..N, b \in 0..N : a # b /\ h[a] = h[b]
    BY <1>3
  <2>2. a < b \/ b < a
    BY <1>1, <2>1
  <2>. QED  BY <2>1, <2>2
<1>. DEFINE S == {h[k] : k \in 0..(j - 1)}
<1>5. S \in SUBSET X /\ n \in S
  BY <1>1, <1>2, <1>4
<1>6. ASSUME NEW y \in S PROVE g[y] \in S
  <2>1. PICK k \in 0..(j - 1) : y = h[k]
    OBVIOUS
  <2>2. g[y] = h[k + 1] /\ k + 1 \in 1..N
    <3>1. k + 1 \in 1..N
      BY <1>1, <1>4, <2>1
    <3>2. h[k + 1] = g[h[(k + 1) - 1]] /\ (k + 1) - 1 = k
      BY <1>2, <3>1
    <3>. QED  BY <2>1, <3>1, <3>2
  <2>3. CASE k + 1 = j
    BY <1>1, <1>4, <2>2, <2>3
  <2>4. CASE k + 1 # j
    <3>1. k + 1 \in 0..(j - 1)
      BY <1>1, <1>4, <2>1, <2>4
    <3>. QED  BY <2>2, <3>1
  <2>. QED  BY <2>3, <2>4
<1>7. PICK k \in 0..(j - 1) : h[k] = x
  <2>. HIDE DEF S
  <2>1. x \in S
    BY <1>5, <1>6
  <2>. QED  BY <2>1 DEF S
<1>. DEFINE Left == {m \in k..N : h[m] # x}
<1>8. CASE Left # {}
  <2>1. PICK m \in Left : \A l \in Left : m <= l
    <3>. Left \in SUBSET Nat
      BY <1>1, <1>4, <1>7
    <3>. HIDE DEF Left
    <3>. QED  BY <1>8, LeastNumber
  <2>2. m # k /\ m - 1 \in k..N /\ m - 1 \notin Left /\ m \in 1..N
    BY <1>1, <1>4, <1>7, <2>1
  <2>. QED  BY <1>2, <2>1, <2>2
<1>9. CASE Left = {}
  BY <1>1, <1>4, <1>7, <1>9 DEF N
<1>. QED  BY <1>8, <1>9

(* One link from each name; and from each object, when it is a tag. *)
NextName == [y \in Names |-> IF read_file(y) \in Names THEN read_file(y) ELSE y]
NextObject == [o \in Oids |-> IF o \in Unpeeled THEN store[o].link ELSE o]

LEMMA FinalHops ==
  ASSUME NEW n \in Names
  PROVE  \E h : /\ Hops(h, NextName, n, Cardinality(Names))
                /\ Db!Final(n) = h[Cardinality(Names)]
<1>. DEFINE N == Cardinality(Names)
            Is(h) == h = [k \in 0..N |->
                       IF k = 0 THEN n
                       ELSE IF [x \in Names |-> read_file(x)][h[k - 1]] \in Names
                            THEN [x \in Names |-> read_file(x)][h[k - 1]] ELSE h[k - 1]]
            fin == CHOOSE h : Is(h)
<1>0. Db!Cardinality(Names) = Cardinality(Names)
  BY DEF Db!Cardinality, Cardinality, Db!IsFiniteSet, IsFiniteSet
<1>1. Db!Final(n) = fin[N]
  BY <1>0 DEF Db!Final
<1>2. N \in Nat
  BY FinitelyMany, FS_CardinalityType
<1>. HIDE DEF N
<1>3. NextName \in [Names -> Names]
  BY DEF NextName
<1>4. PICK h : Hops(h, NextName, n, N)
  BY <1>2, <1>3, HopsExist
<1>5. Is(h)
  <2>1. h \in [0..N -> Names]
    BY <1>2, <1>3, <1>4, HopsType
  <2>. QED  BY <1>2, <1>4, <2>1 DEF Hops, NextName
<1>6. Is(fin)
  <2>. HIDE DEF Is
  <2>. QED  BY <1>5
<1>7. Hops(fin, NextName, n, N)
  <2>. HIDE DEF fin
  <2>1. /\ fin[0] = n
        /\ \A k \in 1..N : fin[k - 1] \in Names => fin[k] = NextName[fin[k - 1]]
    BY <1>2, <1>6 DEF NextName
  <2>2. \A k \in 0..N : fin[k] \in Names
    BY <1>2, <1>3, <2>1, HopsStay
  <2>3. \A k \in 0..N : fin[k] = IF k = 0 THEN n ELSE NextName[fin[k - 1]]
    BY <1>2, <2>1, <2>2
  <2>4. fin = [k \in 0..N |-> fin[k]]
    BY <1>6
  <2>5. fin = [k \in 0..N |-> IF k = 0 THEN n ELSE NextName[fin[k - 1]]]
    BY <2>3, <2>4
  <2>. QED  BY <2>5, Zenon DEF Hops
<1>. QED  BY <1>1, <1>7 DEF N

LEMMA NextObjectType ==
  ASSUME RefInv
  PROVE  NextObject \in [Oids -> Oids]
BY DEF RefInv, HistoryIsStored, ClosedStore, NextObject, Unpeeled, Stored, Commits

LEMMA PeeledHops ==
  ASSUME RefInv, NEW o \in Oids
  PROVE  \E h : /\ Hops(h, NextObject, o, Cardinality(Oids))
                /\ Db!Peeled(o) = h[Cardinality(Oids)]
<1>. DEFINE N == Cardinality(Oids)
            Is(h) == h = [k \in 0..N |->
                       IF k = 0 THEN o
                       ELSE IF h[k - 1] \in Unpeeled THEN store[h[k - 1]].link
                            ELSE h[k - 1]]
            fin == CHOOSE h : Is(h)
<1>0. Db!Cardinality(Oids) = Cardinality(Oids) /\ Unpeeled = Db!Stored \ Db!Commits
  BY DEF Db!Cardinality, Cardinality, Unpeeled, Stored, Commits, Db!Stored, Db!Commits
<1>1. Db!Peeled(o) = fin[N]
  BY <1>0 DEF Db!Peeled
<1>2. N \in Nat
  BY FinitelyMany, FS_CardinalityType
<1>. HIDE DEF N
<1>3. NextObject \in [Oids -> Oids]
  BY NextObjectType
<1>4. PICK h : Hops(h, NextObject, o, N)
  BY <1>2, <1>3, HopsExist
<1>5. Is(h)
  <2>1. h \in [0..N -> Oids]
    BY <1>2, <1>3, <1>4, HopsType
  <2>2. \A x \in Oids : NextObject[x] = IF x \in Unpeeled THEN store[x].link ELSE x
    BY DEF NextObject
  <2>3. \A k \in 0..N : k # 0 => h[k - 1] \in Oids
    BY <1>2, <2>1
  <2>4. h = [k \in 0..N |-> IF k = 0 THEN o ELSE NextObject[h[k - 1]]]
    BY <1>4 DEF Hops
  <2>5. [k \in 0..N |-> IF k = 0 THEN o ELSE NextObject[h[k - 1]]]
        = [k \in 0..N |-> IF k = 0 THEN o
                          ELSE IF h[k - 1] \in Unpeeled THEN store[h[k - 1]].link
                               ELSE h[k - 1]]
    BY <2>2, <2>3
  <2>. QED  BY <2>4, <2>5, Zenon
<1>6. Is(fin)
  <2>. HIDE DEF Is
  <2>. QED  BY <1>5
<1>7. Hops(fin, NextObject, o, N)
  <2>. HIDE DEF fin
  <2>1. /\ fin[0] = o
        /\ \A k \in 1..N : fin[k - 1] \in Oids => fin[k] = NextObject[fin[k - 1]]
    BY <1>2, <1>6 DEF NextObject
  <2>2. \A k \in 0..N : fin[k] \in Oids
    BY <1>2, <1>3, <2>1, HopsStay
  <2>3. \A k \in 0..N : fin[k] = IF k = 0 THEN o ELSE NextObject[fin[k - 1]]
    BY <1>2, <2>1, <2>2
  <2>4. fin = [k \in 0..N |-> fin[k]]
    BY <1>6
  <2>5. fin = [k \in 0..N |-> IF k = 0 THEN o ELSE NextObject[fin[k - 1]]]
    BY <2>3, <2>4
  <2>. QED  BY <2>5, Zenon DEF Hops
<1>. QED  BY <1>1, <1>7 DEF N

(* A name on the way from n that is no link is what RefDb makes of n. *)
LEMMA FinalIsEnd ==
  ASSUME NEW n \in Names, NEW known, NEW x \in Path(n, known), read_file(x) \notin Names
  PROVE  Db!Final(n) = x
<1>1. x \in Names /\ NextName \in [Names -> Names] /\ NextName[x] = x
  BY DEF Path, NextName
<1>2. ASSUME NEW S \in SUBSET Names, n \in S, \A y \in S : NextName[y] \in S
      PROVE  x \in S
  <2>1. \A y \in S \cap known : read_file(y) \in Names => read_file(y) \in S
    BY <1>2 DEF NextName
  <2>. QED  BY <1>2, <2>1 DEF Path
<1>3. PICK h : /\ Hops(h, NextName, n, Cardinality(Names))
               /\ Db!Final(n) = h[Cardinality(Names)]
  BY FinalHops
<1>. QED  BY <1>1, <1>2, <1>3, HopsEnd, FinitelyMany

LEMMA PeeledIsEnd ==
  ASSUME RefInv, NEW o \in Oids, NEW x \in TagPath(o), x \notin Unpeeled
  PROVE  Db!Peeled(o) = x
<1>1. x \in Oids /\ NextObject \in [Oids -> Oids] /\ NextObject[x] = x
  BY NextObjectType DEF TagPath, NextObject
<1>2. ASSUME NEW S \in SUBSET Oids, o \in S, \A y \in S : NextObject[y] \in S
      PROVE  x \in S
  <2>1. \A y \in S \cap Unpeeled : store[y].link \in S
    BY <1>2 DEF NextObject
  <2>. QED  BY <1>2, <2>1 DEF TagPath
<1>3. PICK h : /\ Hops(h, NextObject, o, Cardinality(Oids))
               /\ Db!Peeled(o) = h[Cardinality(Oids)]
  BY PeeledHops
<1>. QED  BY <1>1, <1>2, <1>3, HopsEnd, FinitelyMany

(* What an undisturbed command has found is what RefDb finds. *)
LEMMA TipFound ==
  ASSUME NEW p \in Procs, NEW v \in HeadValues(p)
  PROVE  /\ Db!Tip = v
         /\ Db!Final(HEAD) \in FromHead(p) \cap seen[p]
         /\ read_file(Db!Final(HEAD)) = v
<1>1. PICK x \in FromHead(p) \cap seen[p] : read_file(x) \notin Names /\ v = read_file(x)
  BY DEF HeadValues
<1>2. HEAD \in Names /\ x \in Names
  BY DEF Names, FromHead, Path
<1>3. Db!Final(HEAD) = x
  BY <1>1, <1>2, FinalIsEnd DEF FromHead
<1>. QED  BY <1>1, <1>2, <1>3 DEF Db!Tip

LEMMA StartPointFound ==
  ASSUME NEW p \in Procs, NEW s \in StartPoints(p)
  PROVE  Db!StartPoint(cmd[p]) = s
BY TipFound DEF StartPoints, Db!StartPoint

LEMMA TargetFound ==
  ASSUME RefInv, NEW p \in Procs, cmd[p] \in CommandType, NEW x \in Targets(p)
  PROVE  Db!Target(cmd[p]) = x
<1>1. CASE cmd[p].deref
  <2>1. x \in FromName(p) /\ read_file(x) \in Oids /\ cmd[p].name \in Names
    BY <1>1 DEF Targets, CommandType
  <2>2. read_file(x) \notin Names
    BY <2>1, SortsAreDisjoint
  <2>. QED  BY <1>1, <2>1, <2>2, FinalIsEnd DEF FromName, Db!Target
<1>2. CASE ~cmd[p].deref
  BY <1>2 DEF Targets, Db!Target
<1>. QED  BY <1>1, <1>2

----------------------------------------------------------------------------
(* What a command knows grows with what it has seen. *)

(* The files it has accessed, and the objects, are what they were. *)
StoreGrows == \A o \in Stored(store) : o \in Stored(store)' /\ store'[o] = store[o]
Kept(p) ==
  /\ cmd'[p] = cmd[p]
  /\ seen[p] \subseteq seen'[p]
  /\ \A n \in seen[p] : read_file(n)' = read_file(n)
  /\ StoreGrows

LEMMA PathGrows ==
  ASSUME NEW n, NEW known, NEW known2, known \subseteq known2,
         \A y \in known : read_file(y)' = read_file(y)
  PROVE  Path(n, known) \subseteq Path(n, known2)'
<1>. SUFFICES ASSUME NEW x \in Path(n, known), NEW S \in SUBSET Names, n \in S,
                     \A y \in S \cap known2 :
                       read_file(y)' \in Names => read_file(y)' \in S
              PROVE  x \in S
  BY DEF Path
<1>1. \A y \in S \cap known : read_file(y) \in Names => read_file(y) \in S
  OBVIOUS
<1>. QED  BY <1>1 DEF Path

LEMMA StoreGrowsFacts ==
  ASSUME StoreGrows
  PROVE  /\ Stored(store) \subseteq Stored(store)'
         /\ Commits(store) \subseteq Commits(store)'
         /\ Unpeeled \subseteq Unpeeled'
         /\ \A o : TagPath(o) \subseteq TagPath(o)'
<1>1. /\ Stored(store) \subseteq Stored(store)'
      /\ Commits(store) \subseteq Commits(store)'
      /\ Unpeeled \subseteq Unpeeled'
      /\ \A o \in Unpeeled : store'[o] = store[o]
  BY DEF StoreGrows, Commits, Unpeeled
<1>2. ASSUME NEW o, NEW x \in TagPath(o) PROVE x \in TagPath(o)'
  <2>1. ASSUME NEW S \in SUBSET Oids, o \in S,
               \A y \in S \cap Unpeeled' : store'[y].link \in S
        PROVE  x \in S
    <3>1. \A y \in S \cap Unpeeled : store[y].link \in S
      BY <1>1, <2>1
    <3>. QED  BY <2>1, <3>1 DEF TagPath
  <2>. QED  BY <2>1 DEF TagPath
<1>. QED  BY <1>1, <1>2

Grown(p) ==
  /\ FromHead(p) \subseteq FromHead(p)'
  /\ FromName(p) \subseteq FromName(p)'
  /\ HeadValues(p) \subseteq HeadValues(p)'
  /\ StartPoints(p) \subseteq StartPoints(p)'
  /\ PeeledStarts(p) \subseteq PeeledStarts(p)'
  /\ Targets(p) \subseteq Targets(p)'

LEMMA Grow ==
  ASSUME NEW p \in Procs, Kept(p)
  PROVE  Grown(p)
<1>1. FromHead(p) \subseteq FromHead(p)'
  BY PathGrows DEF Kept, FromHead
<1>2. FromName(p) \subseteq FromName(p)'
  BY PathGrows DEF Kept, FromName
<1>3. HeadValues(p) \subseteq HeadValues(p)'
  BY <1>1 DEF Kept, HeadValues
<1>4. StartPoints(p) \subseteq StartPoints(p)'
  BY <1>3 DEF Kept, StartPoints
<1>5. PeeledStarts(p) \subseteq PeeledStarts(p)'
  BY <1>4, StoreGrowsFacts DEF Kept, PeeledStarts
<1>6. Targets(p) \subseteq Targets(p)'
  BY <1>2 DEF Kept, Targets
<1>. QED  BY <1>1, <1>2, <1>3, <1>4, <1>5, <1>6 DEF Grown

(* The first steps of each way, and the next ones. *)
Ways(p) ==
  /\ HEAD \in FromHead(p)
  /\ \A x \in FromHead(p) \cap seen[p] :
       /\ read_file(x) \in Names => read_file(x) \in FromHead(p)
       /\ read_file(x) \notin Names => read_file(x) \in HeadValues(p)
  /\ cmd[p] \in CommandType => cmd[p].name \in FromName(p)
  /\ \A x \in FromName(p) \cap seen[p] :
       read_file(x) \in Names => read_file(x) \in FromName(p)
  /\ StartPoints(p) = IF cmd[p].arg = HEAD THEN HeadValues(p) ELSE {cmd[p].arg}

LEMMA WaysNow == \A p \in Procs : Ways(p)
<1>. SUFFICES ASSUME NEW p \in Procs PROVE Ways(p)
  OBVIOUS
<1>1. ASSUME NEW n \in Names PROVE n \in Path(n, seen[p])
  BY DEF Path
<1>2. ASSUME NEW n, NEW x \in Path(n, seen[p]) \cap seen[p], read_file(x) \in Names
      PROVE  read_file(x) \in Path(n, seen[p])
  BY <1>2 DEF Path
<1>3. HEAD \in Names
  BY DEF Names
<1>. QED
  BY <1>1, <1>2, <1>3 DEF Ways, FromHead, FromName, HeadValues, StartPoints, CommandType

LEMMA WaysThen == (\A p \in Procs : Ways(p))'
BY WaysNow, PTL

LEMMA TagWays ==
  /\ \A o \in Oids : o \in TagPath(o)
  /\ \A o : \A x \in TagPath(o) \cap Unpeeled :
       store[x].link \in Oids => store[x].link \in TagPath(o)
<1>1. ASSUME NEW o \in Oids PROVE o \in TagPath(o)
  BY DEF TagPath
<1>2. ASSUME NEW o, NEW x \in TagPath(o) \cap Unpeeled, store[x].link \in Oids
      PROVE  store[x].link \in TagPath(o)
  BY <1>2 DEF TagPath
<1>. QED  BY <1>1, <1>2

----------------------------------------------------------------------------
(* A step of another process that changes none of the files q has accessed   *)
(* leaves q what it knows.                                                   *)

LEMMA ReadsGrow ==
  ASSUME NEW p \in Procs, Kept(p), NEW n, Reads(p, n)
  PROVE  Reads(p, n)' /\ read_file(n)' = read_file(n)
BY DEF Kept, Reads

LEMMA ParentGrows ==
  ASSUME NEW p \in Procs, Kept(p), reg'[p].parent = reg[p].parent
  PROVE  /\ ParentIsTip(p) => ParentIsTip(p)' /\ read_file(HEAD)' = read_file(HEAD)
         /\ CommitIsMade(p) /\ reg'[p].new = reg[p].new =>
              CommitIsMade(p)' /\ read_file(HEAD)' = read_file(HEAD)
<1>1. HeadValues(p) \subseteq HeadValues(p)' /\ Commits(store) \subseteq Commits(store)'
  BY Grow, StoreGrowsFacts DEF Kept, Grown
<1>2. ASSUME ParentIsTip(p) PROVE ParentIsTip(p)' /\ read_file(HEAD)' = read_file(HEAD)
  BY <1>1, <1>2, ReadsGrow DEF ParentIsTip
<1>3. \A o \in Commits(store) : store'[o] = store[o]
  BY DEF Kept, StoreGrows, Commits
<1>. QED  BY <1>1, <1>2, <1>3 DEF CommitIsMade

LEMMA BystanderPath ==
  ASSUME NEW q \in Procs, Kept(q), pc'[q] = pc[q], reg'[q] = reg[q], KnowsPath(q)
  PROVE  KnowsPath(q)'
<1>1. /\ FromHead(q) \subseteq FromHead(q)'
      /\ FromName(q) \subseteq FromName(q)'
      /\ Targets(q) \subseteq Targets(q)'
  BY Grow DEF Grown
<1>2. \A x \in Targets(q) : x \in seen[q]
  BY DEF Targets
<1>. QED  BY <1>1, <1>2, ReadsGrow DEF KnowsPath, Kept, Op

LEMMA BystanderValue ==
  ASSUME NEW q \in Procs, Kept(q), pc'[q] = pc[q], reg'[q] = reg[q], KnowsValue(q)
  PROVE  KnowsValue(q)'
<1>1. /\ StartPoints(q) \subseteq StartPoints(q)'
      /\ PeeledStarts(q) \subseteq PeeledStarts(q)'
      /\ Stored(store) \subseteq Stored(store)'
      /\ Commits(store) \subseteq Commits(store)'
      /\ Unpeeled \subseteq Unpeeled'
      /\ \A o \in Unpeeled : store'[o] = store[o]
      /\ Op(q)' = Op(q) /\ cmd'[q] = cmd[q]
  BY Grow, StoreGrowsFacts DEF Grown, Kept, StoreGrows, Unpeeled, Op
<1>. QED  BY <1>1, ParentGrows DEF KnowsValue

LEMMA BystanderPlace ==
  ASSUME NEW q \in Procs, Kept(q), pc'[q] = pc[q], reg'[q] = reg[q],
         KnowsPath(q), KnowsValue(q), KnowsPlace(q)
  PROVE  KnowsPlace(q)'
<1>1. /\ FromHead(q) \subseteq FromHead(q)'
      /\ HeadValues(q) \subseteq HeadValues(q)'
      /\ Targets(q) \subseteq Targets(q)'
      /\ Stored(store) \subseteq Stored(store)'
      /\ Op(q)' = Op(q) /\ cmd'[q] = cmd[q]
      /\ seen[q] \subseteq seen'[q]
      /\ \A n \in seen[q] : read_file(n)' = read_file(n)
  BY Grow, StoreGrowsFacts DEF Grown, Kept, Op
<1>2. \A x \in Targets(q) : x \in seen[q]
  BY DEF Targets
<1>3. pc[q] = "resolveTip" => HEAD \in seen[q]
  BY DEF KnowsPath
<1>4. pc[q] \in {"exists", "open", "write", "rename"} /\ Op(q) = "commit" => HEAD \in seen[q]
  BY DEF KnowsValue, CommitIsMade, ParentIsTip, Reads
<1>5. reg[q].dest \in Targets(q) /\ OldIsRead(q) => OldIsRead(q)'
  BY <1>1, <1>2 DEF OldIsRead
<1>6. OverFree(q) => OverFree(q)'
  BY <1>1 DEF OverFree
<1>7. \A n : Reads(q, n) => Reads(q, n)' /\ read_file(n)' = read_file(n)
  BY ReadsGrow
<1>8. ASSUME pc[q] \in {"resolveTip", "exists"} PROVE KnowsPlace(q)'
  BY <1>1, <1>3, <1>4, <1>8 DEF KnowsPlace
<1>9. ASSUME pc[q] \in {"open", "write", "rename"} PROVE KnowsPlace(q)'
  BY <1>1, <1>2, <1>4, <1>5, <1>6, <1>9 DEF KnowsPlace
<1>10. ASSUME pc[q] = "unlink" PROVE KnowsPlace(q)'
  BY <1>1, <1>2, <1>5, <1>7, <1>10 DEF KnowsPlace
<1>11. ASSUME pc[q] \notin {"resolveTip", "exists", "open", "write", "rename", "unlink"}
       PROVE  KnowsPlace(q)'
  BY <1>1, <1>7, <1>11 DEF KnowsPlace
<1>. QED  BY <1>8, <1>9, <1>10, <1>11

LEMMA BystanderKnows ==
  ASSUME NEW q \in Procs, Kept(q), pc'[q] = pc[q], reg'[q] = reg[q], fd'[q] = fd[q],
         \A n \in seen[q] : FileState(n)' = FileState(n),
         ioerrors > 0 => ioerrors' > 0,
         Knows(q)
  PROVE  Knows(q)'
<1>1. KnowsPath(q)' /\ KnowsValue(q)' /\ KnowsPlace(q)'
  BY BystanderPath, BystanderValue, BystanderPlace DEF Knows
<1>2. KnowsTmp(q)'
  BY DEF Kept, FileState, EntryData, Knows, KnowsTmp
<1>. QED  BY <1>1, <1>2 DEF Knows

----------------------------------------------------------------------------
(* What each file operation makes of the contents, no inode having two names. *)

SameContents == \A n \in Names : read_file(n)' = read_file(n)

LEMMA EntriesKeep ==
  ASSUME NEW contents, NEW d, NEW t, NEW f, NEW n \in Names
  PROVE  /\ d[n] \in Entry => (d[n] = NoInode \/
                               Reclaimed(contents, d, t, f)[d[n]] = contents[d[n]])
         /\ t[n] \in Entry => (t[n] = NoInode \/
                               Reclaimed(contents, d, t, f)[t[n]] = contents[t[n]])
BY LinkedKeeps DEF Entry

LEMMA OpenTmpReads ==
  ASSUME FilesOK, NamesApart, NEW p \in Procs, NEW path \in Names, OpenTmp(p, path)
  PROVE  NamesApart' /\ SameContents /\ tmp'[path] = fd'[p]
<1>1. CASE tmp[path] # NoInode
  BY <1>1, PathsAreNames
  DEF OpenTmp, FilesOK, FileTypeOK, NamesApart, SameContents, read_file, file_exists, Entry
<1>2. CASE tmp[path] = NoInode
  <2>. DEFINE i == CHOOSE i \in FreeInodes : TRUE
  <2>1. /\ i \in Inodes /\ i \notin Linked(dir, tmp, fd)
        /\ tmp' = [tmp EXCEPT ![path] = i]
        /\ fd' = [fd EXCEPT ![p] = i]
        /\ data' = [data EXCEPT ![i] = Empty]
        /\ UNCHANGED dir
    BY <1>2 DEF OpenTmp, FreeInodes
  <2>. HIDE DEF i
  <2>2. \A n \in Names : dir[n] # i /\ tmp[n] # i
    BY <2>1, PathsAreNames DEF Linked
  <2>3. NamesApart'
    BY <2>1, <2>2, PathsAreNames, NoInodeFresh DEF FilesOK, FileTypeOK, NamesApart
  <2>4. SameContents
    BY <2>1, <2>2, PathsAreNames
    DEF FilesOK, FileTypeOK, SameContents, read_file, file_exists, Entry
  <2>. QED  BY <2>1, <2>3, <2>4, PathsAreNames DEF FilesOK, FileTypeOK
<1>. QED  BY <1>1, <1>2

LEMMA WriteReads ==
  ASSUME FilesOK, NamesApart, NEW p \in Procs, NEW v, WriteAndClose(p, v)
  PROVE  /\ NamesApart'
         /\ \A path \in Names : tmp[path] = fd[p] /\ tmp[path] # NoInode =>
              SameContents /\ data'[tmp[path]] = v
<1>. DEFINE written == [data EXCEPT ![fd[p]] = v]
<1>1. /\ UNCHANGED <<dir, tmp>>
      /\ data' = Reclaimed(written, dir, tmp, fd')
  BY DEF WriteAndClose
<1>2. NamesApart'
  BY <1>1 DEF NamesApart
<1>3. ASSUME NEW n \in Names
      PROVE  /\ dir[n] = NoInode \/ data'[dir[n]] = written[dir[n]]
             /\ tmp[n] = NoInode \/ data'[tmp[n]] = written[tmp[n]]
  <2>. HIDE DEF written
  <2>1. dir[n] \in Entry /\ tmp[n] \in Entry
    BY PathsAreNames DEF FilesOK, FileTypeOK
  <2>. QED  BY <1>1, <2>1, EntriesKeep
<1>4. ASSUME NEW path \in Names, tmp[path] = fd[p], tmp[path] # NoInode
      PROVE  SameContents /\ data'[tmp[path]] = v
  <2>1. fd[p] \in Inodes /\ written[fd[p]] = v
    BY <1>4, PathsAreNames DEF FilesOK, FileTypeOK, Entry
  <2>2. ASSUME NEW n \in Names, dir[n] # NoInode PROVE data'[dir[n]] = data[dir[n]]
    <3>1. dir[n] # fd[p] /\ dir[n] \in Inodes
      BY <1>4, <2>2, PathsAreNames DEF NamesApart, FilesOK, FileTypeOK, Entry
    <3>. QED  BY <1>3, <2>2, <3>1 DEF FilesOK, FileTypeOK
  <2>. QED  BY <1>1, <1>3, <1>4, <2>1, <2>2 DEF SameContents, read_file, file_exists
<1>. QED  BY <1>2, <1>4

LEMMA CloseReads ==
  ASSUME FilesOK, NamesApart, NEW p \in Procs, CloseAll(p)
  PROVE  NamesApart' /\ SameContents
<1>1. UNCHANGED <<dir, tmp>> /\ data' = Reclaimed(data, dir, tmp, fd')
  BY DEF CloseAll
<1>2. \A n \in Names : dir[n] = NoInode \/ data'[dir[n]] = data[dir[n]]
  BY <1>1, EntriesKeep, PathsAreNames DEF FilesOK, FileTypeOK
<1>. QED  BY <1>1, <1>2 DEF NamesApart, SameContents, read_file, file_exists

LEMMA UnlinkTmpReads ==
  ASSUME FilesOK, NamesApart, NEW path \in Names, UnlinkTmp(path)
  PROVE  NamesApart' /\ SameContents
<1>1. UNCHANGED dir /\ data' = Reclaimed(data, dir, tmp', fd)
      /\ tmp' = [tmp EXCEPT ![path] = NoInode]
  BY DEF UnlinkTmp
<1>2. \A n \in Names : dir[n] = NoInode \/ data'[dir[n]] = data[dir[n]]
  BY <1>1, EntriesKeep, PathsAreNames DEF FilesOK, FileTypeOK
<1>3. NamesApart'
  BY <1>1, PathsAreNames DEF NamesApart, FilesOK, FileTypeOK
<1>. QED  BY <1>1, <1>2, <1>3 DEF SameContents, read_file, file_exists

LEMMA RenameTmpReads ==
  ASSUME FilesOK, NamesApart, NEW path \in Names, RenameTmp(path), CanRenameTmp(path)
  PROVE  /\ NamesApart'
         /\ \A n \in Names :
              read_file(n)' = IF n = path THEN data[tmp[path]] ELSE read_file(n)
<1>1. /\ dir' = [dir EXCEPT ![path] = tmp[path]]
      /\ tmp' = [tmp EXCEPT ![path] = NoInode]
      /\ data' = Reclaimed(data, dir', tmp', fd)
      /\ dir \in [Names -> Entry] /\ tmp \in [Names -> Entry]
  BY PathsAreNames DEF RenameTmp, FilesOK, FileTypeOK
<1>2. \A n \in Names : dir'[n] = NoInode \/ data'[dir'[n]] = data[dir'[n]]
  <2>. DEFINE d == dir'
  <2>1. data' = Reclaimed(data, d, tmp', fd) /\ \A n \in Names : d[n] \in Entry
    BY <1>1 DEF Entry
  <2>. HIDE DEF d
  <2>2. \A n \in Names : d[n] = NoInode \/ data'[d[n]] = data[d[n]]
    BY <2>1, EntriesKeep
  <2>. QED  BY <2>2 DEF d
<1>3. NamesApart'
  BY <1>1 DEF NamesApart
<1>. QED  BY <1>1, <1>2, <1>3 DEF CanRenameTmp, read_file, file_exists

LEMMA UnlinkReads ==
  ASSUME FilesOK, NamesApart, NEW path \in Names, Unlink(path)
  PROVE  /\ NamesApart'
         /\ \A n \in Names :
              read_file(n)' = IF n = path THEN Missing ELSE read_file(n)
<1>1. /\ dir' = [dir EXCEPT ![path] = NoInode]
      /\ tmp' = tmp
      /\ data' = Reclaimed(data, dir', tmp, fd)
      /\ dir \in [Names -> Entry] /\ tmp \in [Names -> Entry]
  BY PathsAreNames DEF Unlink, FilesOK, FileTypeOK
<1>2. \A n \in Names : dir'[n] = NoInode \/ data'[dir'[n]] = data[dir'[n]]
  <2>. DEFINE d == dir'
  <2>1. data' = Reclaimed(data, d, tmp, fd) /\ \A n \in Names : d[n] \in Entry
    BY <1>1 DEF Entry
  <2>. HIDE DEF d
  <2>2. \A n \in Names : d[n] = NoInode \/ data'[d[n]] = data[d[n]]
    BY <2>1, EntriesKeep
  <2>. QED  BY <2>2 DEF d
<1>3. NamesApart'
  BY <1>1 DEF NamesApart
<1>. QED  BY <1>1, <1>2, <1>3 DEF read_file, file_exists

Shifted(old, new, n) ==
  CASE n = new -> read_file(old) [] n = old /\ n # new -> Missing [] OTHER -> read_file(n)

LEMMA RenameReads ==
  ASSUME FilesOK, NamesApart, NEW old \in Names, NEW new \in Names, Rename(old, new),
         file_exists(old)
  PROVE  NamesApart' /\ \A n \in Names : read_file(n)' = Shifted(old, new, n)
<1>1. /\ dir' = [x \in Names |-> CASE x = new -> dir[old]
                                   [] x = old /\ x # new -> NoInode
                                   [] OTHER -> dir[x]]
      /\ tmp' = tmp
      /\ data' = Reclaimed(data, dir', tmp, fd)
      /\ dir \in [Names -> Entry] /\ tmp \in [Names -> Entry]
  BY PathsAreNames DEF Rename, FilesOK, FileTypeOK
<1>2. \A n \in Names : dir'[n] = CASE n = new -> dir[old]
                                   [] n = old /\ n # new -> NoInode
                                   [] OTHER -> dir[n]
  BY <1>1
<1>3. \A n \in Names : dir'[n] \in Entry
  BY <1>1, <1>2 DEF Entry
<1>4. \A n \in Names : dir'[n] = NoInode \/ data'[dir'[n]] = data[dir'[n]]
  <2>. DEFINE d == dir'
  <2>1. data' = Reclaimed(data, d, tmp, fd) /\ \A n \in Names : d[n] \in Entry
    BY <1>1, <1>3
  <2>. HIDE DEF d
  <2>2. \A n \in Names : d[n] = NoInode \/ data'[d[n]] = data[d[n]]
    BY <2>1, EntriesKeep
  <2>. QED  BY <2>2 DEF d
<1>5. NamesApart'
  BY <1>1, <1>2 DEF NamesApart
<1>. QED  BY <1>4, <1>2, <1>5 DEF Shifted, read_file, file_exists

----------------------------------------------------------------------------
(* What a step of p leaves alone: the memory of the others, the objects that  *)
(* are stored, the names of inodes.                                          *)

Acting(p) == (\E c \in Commands : Start(p, c)) \/ Step(p) \/ Crash(p)
Filing(p) ==
  \/ OpenFile(p) \/ WriteFile(p) \/ WriteError(p) \/ RenameFile(p) \/ DiscardTmp(p)
  \/ UnlinkRef(p) \/ MoveRename(p) \/ MoveUndo(p)

LEMMA StepCases ==
  ASSUME NEW p \in Procs
  PROVE  Step(p) <=> Thinking(p) \/ Filing(p)
BY DEF Step, Thinking, Filing

LEMMA CommandsAlone ==
  ASSUME TypeOK, NEW p \in Procs, Acting(p)
  PROVE  \A q \in Procs \ {p} : cmd'[q] = cmd[q]
<1>1. ASSUME NEW c, cmd' = [cmd EXCEPT ![p] = c] PROVE \A q \in Procs \ {p} : cmd'[q] = cmd[q]
  BY <1>1 DEF TypeOK
<1>2. CASE Thinking(p)
  BY <1>1, <1>2
  DEF Thinking, LookupHead, ResolveHead, Peel, WriteObject, LookupTip, ResolveTip,
      LookupSummary, ResolveSummary, LookupRef, ResolveRef, VerifyOld, IsHead,
      CheckExists, MoveExists, HaveTip, Follow, Hold, Aim, Stay, Goto, Die, Exit
<1>3. CASE Filing(p)
  BY <1>1, <1>3
  DEF Filing, OpenFile, WriteFile, WriteError, RenameFile, DiscardTmp, UnlinkRef,
      MoveRename, MoveUndo, Aim, Stay, Goto, Die, Exit
<1>4. CASE Crash(p) \/ \E c \in Commands : Start(p, c)
  BY <1>1, <1>4 DEF Crash, Start, Exit
<1>. QED  BY <1>2, <1>3, <1>4, StepCases DEF Acting

LEMMA FilingAlone ==
  ASSUME RefInv, NEW p \in Procs, Filing(p)
  PROVE  Alone(p)
<1>0. /\ FilesOK /\ TypeOK /\ reg[p].dest \in Names /\ Consistent(pc[p], cmd[p], reg[p])
  BY FilesFact DEF RefInv, TypeOK, Registers
<1>1. CASE OpenFile(p)
  BY <1>0, <1>1, OpenTmpOK, StayAlone DEF OpenFile, Alone
<1>2. CASE WriteFile(p)
  <2>1. reg[p].new \in Stored(store) \cup Names
    BY <1>0, <1>2 DEF WriteFile, Consistent
  <2>. QED  BY <1>0, <1>2, <2>1, WriteAndCloseOK, StayAlone DEF WriteFile, Alone
<1>3. CASE WriteError(p)
  BY <1>0, <1>3, CloseAllOK, StayAlone DEF WriteError, Alone
<1>4. CASE RenameFile(p)
  BY <1>0, <1>4, StayAlone, ExitAlone DEF RenameFile, RenameTmp, fileVars, Alone
<1>5. CASE DiscardTmp(p)
  BY <1>0, <1>5, StayAlone, ExitAlone DEF DiscardTmp, UnlinkTmp, Die, Alone
<1>6. CASE UnlinkRef(p)
  BY <1>0, <1>6, ExitAlone DEF UnlinkRef, Unlink, fileVars, Die, Alone
<1>7. CASE MoveRename(p)
  BY <1>0, <1>7, ExitAlone, AimAlone DEF MoveRename, Rename, fileVars, Die, Alone
<1>8. CASE MoveUndo(p)
  BY <1>0, <1>8, ExitAlone DEF MoveUndo, Rename, fileVars, Die, Alone
<1>. QED  BY <1>1, <1>2, <1>3, <1>4, <1>5, <1>6, <1>7, <1>8 DEF Filing

LEMMA ThinkingFiles ==
  ASSUME NEW p \in Procs, Thinking(p)
  PROVE  UNCHANGED <<fileVars, counters>>
BY DEF Thinking, LookupHead, ResolveHead, Peel, WriteObject, LookupTip,
   ResolveTip, LookupSummary, ResolveSummary, LookupRef, ResolveRef,
   VerifyOld, IsHead, CheckExists, MoveExists, Quiet

LEMMA ActsAlone ==
  ASSUME RefInv, NEW p \in Procs, Acting(p)
  PROVE  Alone(p) /\ \A q \in Procs \ {p} : cmd'[q] = cmd[q]
<1>0. TypeOK /\ FilesOK
  BY FilesFact DEF RefInv
<1>1. ASSUME Thinking(p) PROVE Alone(p)
  BY <1>0, <1>1, ThinkingAlone, ThinkingFiles DEF Alone, fileVars
<1>2. ASSUME NEW c \in Commands, Start(p, c) PROVE Alone(p)
  BY <1>0, <1>2 DEF Start, Alone, TypeOK, fileVars
<1>3. ASSUME Crash(p) PROVE Alone(p)
  BY <1>0, <1>3, CloseAllOK, ExitAlone DEF Crash, Alone
<1>. QED  BY <1>0, <1>1, <1>2, <1>3, CommandsAlone, FilingAlone, StepCases DEF Acting

LEMMA ActsStore ==
  ASSUME RefInv, NEW p \in Procs, Acting(p)
  PROVE  StoreGrows /\ (ioerrors > 0 => ioerrors' > 0)
<1>1. CASE WriteObject(p)
  BY <1>1 DEF WriteObject, StoreGrows, Stored, RefInv, TypeOK, counters
<1>2. CASE ~WriteObject(p)
  <2>1. store' = store
    BY <1>2
    DEF Acting, Start, Crash, Step, LookupHead, ResolveHead, Peel, LookupTip, ResolveTip,
        LookupSummary, ResolveSummary, LookupRef, ResolveRef, VerifyOld, IsHead,
        CheckExists, MoveExists, OpenFile, WriteFile, WriteError, RenameFile, DiscardTmp,
        UnlinkRef, MoveRename, MoveUndo, Quiet
  <2>2. ioerrors' = ioerrors \/ ioerrors' = ioerrors + 1
    <3>1. CASE Thinking(p)
      BY <3>1, ThinkingFiles DEF counters
    <3>2. CASE Filing(p)
      BY <3>2 DEF Filing, OpenFile, WriteFile, WriteError, RenameFile, DiscardTmp,
        UnlinkRef, MoveRename, MoveUndo, counters
    <3>3. CASE Crash(p) \/ \E c \in Commands : Start(p, c)
      BY <3>3 DEF Crash, Start
    <3>. QED  BY <3>1, <3>2, <3>3, StepCases DEF Acting
  <2>. QED  BY <2>1, <2>2 DEF StoreGrows, Stored, RefInv, TypeOK
<1>. QED  BY <1>1, <1>2

LEMMA FilesAlike ==
  ASSUME UNCHANGED fileVars
  PROVE  SameContents /\ (NamesApart => NamesApart')
BY DEF fileVars, SameContents, read_file, file_exists, NamesApart

LEMMA ActsApart ==
  ASSUME RefInv, NamesApart, NEW p \in Procs, Acting(p)
  PROVE  NamesApart'
<1>0. FilesOK /\ reg[p].dest \in Names /\ Consistent(pc[p], cmd[p], reg[p])
  BY FilesFact DEF RefInv, TypeOK, Registers
<1>1. CASE UNCHANGED fileVars
  BY <1>1, FilesAlike
<1>2. CASE OpenFile(p)
  BY <1>0, <1>2, OpenTmpReads DEF OpenFile
<1>3. CASE WriteFile(p)
  BY <1>0, <1>3, WriteReads DEF WriteFile
<1>4. CASE WriteError(p) \/ Crash(p)
  BY <1>0, <1>4, CloseReads DEF WriteError, Crash
<1>5. CASE RenameFile(p)
  BY <1>0, <1>1, <1>5, RenameTmpReads DEF RenameFile
<1>6. CASE DiscardTmp(p)
  BY <1>0, <1>6, UnlinkTmpReads DEF DiscardTmp
<1>7. CASE UnlinkRef(p)
  BY <1>0, <1>1, <1>7, UnlinkReads DEF UnlinkRef
<1>8. CASE MoveRename(p) \/ MoveUndo(p)
  <2>1. cmd[p].name \in Names /\ cmd[p].arg \in Names
    BY <1>0, <1>8, MoveNames DEF MoveRename, MoveUndo, Consistent, Op
  <2>. QED  BY <1>0, <1>1, <1>8, <2>1, RenameReads DEF MoveRename, MoveUndo
<1>9. CASE Thinking(p) \/ \E c \in Commands : Start(p, c)
  BY <1>1, <1>9, ThinkingFiles DEF Start
<1>. QED
  BY <1>2, <1>3, <1>4, <1>5, <1>6, <1>7, <1>8, <1>9, StepCases DEF Acting, Filing

----------------------------------------------------------------------------
(* The history variables *)

LEMMA AccessedNames ==
  ASSUME RefInv, NEW p \in Procs
  PROVE  Accessed(p) \subseteq Names
<1>1. reg[p] \in Registers /\ cmd[p].name \in Names /\ HEAD \in Names
  BY DEF RefInv, TypeOK, CommandType, Names
<1>2. pc[p] \in {"mvExists", "mvRename", "mvUndo"} => cmd[p].arg \in Names
  BY MoveNames DEF RefInv, Consistent, Op
<1>. QED  BY <1>1, <1>2, ResolvingFacts DEF Accessed, Registers

LEMMA RecordFacts ==
  ASSUME RefInv, HistoryTyped, NEW p \in Procs, Record(p)
  PROVE  /\ HistoryTyped'
         /\ seen'[p] = IF pc'[p] \in Stopped THEN {} ELSE seen[p] \cup Accessed(p)
         /\ disturbed'[p] <=> pc'[p] \in Running /\ disturbed[p]
         /\ \A q \in Procs \ {p} :
              /\ seen'[q] = seen[q]
              /\ disturbed'[q] <=> disturbed[q] \/ Changed \cap seen[q] # {}
<1>1. /\ seen'[p] = IF pc'[p] \in Stopped THEN {} ELSE seen[p] \cup Accessed(p)
      /\ \A q \in Procs \ {p} : seen'[q] = seen[q]
      /\ seen' \in [Procs -> SUBSET Names]
  BY AccessedNames DEF HistoryTyped, Record
<1>2. /\ disturbed'[p] <=> pc'[p] \in Running /\ disturbed[p]
      /\ \A q \in Procs \ {p} : disturbed'[q] <=> disturbed[q] \/ Changed \cap seen[q] # {}
  BY Zenon DEF Record
<1>3. disturbed' \in [Procs -> BOOLEAN]
  <2>. DEFINE D(q) == IF q = p THEN pc'[p] \in Running /\ disturbed[p]
                      ELSE disturbed[q] \/ Changed \cap seen[q] # {}
  <2>1. disturbed' = [q \in Procs |-> D(q)]
    BY Zenon DEF Record
  <2>2. \A q \in Procs : D(q) \in BOOLEAN
    BY Zenon DEF HistoryTyped
  <2>. HIDE DEF D
  <2>. QED  BY <2>1, <2>2, Zenon
<1>. QED  BY <1>1, <1>2, <1>3 DEF HistoryTyped

(* The other commands know what they knew, or have been disturbed. *)
LEMMA OthersKnow ==
  ASSUME RefInv, TxnInv, NEW p \in Procs, Acting(p), Record(p),
         NEW q \in Procs \ {p}, pc'[q] \in Running
  PROVE  disturbed'[q] \/ (Routed(q)' /\ Knows(q)')
<1>1. /\ pc'[q] = pc[q] /\ reg'[q] = reg[q] /\ fd'[q] = fd[q] /\ cmd'[q] = cmd[q]
      /\ StoreGrows /\ (ioerrors > 0 => ioerrors' > 0)
  BY ActsAlone, ActsStore DEF Alone
<1>2. disturbed[q] \/ (Routed(q) /\ Knows(q))
  BY <1>1 DEF TxnInv
<1>3. Routed(q) => Routed(q)'
  BY <1>1 DEF Routed, Op
<1>4. ASSUME ~disturbed'[q] PROVE Routed(q)' /\ Knows(q)'
  <2>1. /\ seen'[q] = seen[q] /\ ~disturbed[q] /\ Changed \cap seen[q] = {}
        /\ seen[q] \in SUBSET Names
    BY <1>4, RecordFacts DEF TxnInv, HistoryTyped
  <2>2. \A n \in seen[q] : FileState(n)' = FileState(n)
    BY <2>1 DEF Changed
  <2>3. \A n \in seen[q] : read_file(n)' = read_file(n)
    BY <2>2 DEF FileState, EntryData, read_file, file_exists
  <2>. QED  BY <1>1, <1>2, <1>3, <2>1, <2>2, <2>3, BystanderKnows DEF Kept
<1>. QED  BY <1>4

----------------------------------------------------------------------------
(* The steps of p itself, undisturbed.  First those that only read and       *)
(* decide: what p knew it knows still, and it has accessed one file more.    *)

Undisturbed(p) ==
  /\ RefInv /\ HistoryTyped /\ NamesApart
  /\ pc[p] \in Running /\ Routed(p) /\ Knows(p)
  /\ Record(p)

LEMMA UndisturbedFacts ==
  ASSUME NEW p \in Procs, Undisturbed(p)
  PROVE  /\ reg[p] \in Registers /\ cmd[p] \in CommandType /\ HEAD \in Names
         /\ cmd[p].name \in Names
         /\ Consistent(pc[p], cmd[p], reg[p])
         /\ DOMAIN pc = Procs /\ DOMAIN reg = Procs
BY CommandsAreTyped DEF Undisturbed, RefInv, TypeOK, CommandType, Names

LEMMA QuietFacts ==
  ASSUME NEW p \in Procs, Undisturbed(p), Quiet, UNCHANGED cmd, pc'[p] \in Running
  PROVE  /\ Kept(p) /\ Grown(p) /\ Ways(p)'
         /\ seen'[p] = seen[p] \cup Accessed(p)
         /\ \A n \in Names : read_file(n)' = read_file(n)
         /\ Stored(store)' = Stored(store) /\ Commits(store)' = Commits(store)
         /\ Unpeeled' = Unpeeled /\ store' = store
         /\ cmd'[p] = cmd[p] /\ Op(p)' = Op(p)
<1>1. seen'[p] = seen[p] \cup Accessed(p) /\ seen[p] \subseteq Names
  BY RecordFacts DEF Undisturbed, Running, Stopped, HistoryTyped
<1>2. SameContents /\ store' = store
  BY FilesAlike DEF Quiet
<1>3. Kept(p)
  BY <1>1, <1>2 DEF Kept, SameContents, StoreGrows, Stored
<1>4. Ways(p)'
  BY WaysThen
<1>. QED
  BY <1>1, <1>2, <1>3, <1>4, Grow DEF SameContents, Stored, Commits, Unpeeled, Op

(* HEAD is resolved. *)
LEMMA HaveTipKnows ==
  ASSUME NEW p \in Procs, Undisturbed(p), Quiet, NEW v \in Oids, HaveTip(p, v),
         pc'[p] \in Running, pc[p] \in {"head", "resolveHead"}, Op(p) # "move",
         v \in HeadValues(p)', HEAD \in seen'[p], read_file(HEAD) \in Contents
  PROVE  Routed(p)' /\ Knows(p)'
<1>0. /\ reg[p] \in Registers /\ HEAD \in Names /\ UNCHANGED cmd
      /\ DOMAIN pc = Procs /\ DOMAIN reg = Procs /\ Routed(p)
  BY UndisturbedFacts DEF HaveTip, Goto, Undisturbed, Die, Exit, Running
<1>1. /\ Ways(p)' /\ read_file(HEAD)' = read_file(HEAD)
      /\ Commits(store)' = Commits(store) /\ cmd'[p] = cmd[p] /\ Op(p)' = Op(p)
  BY <1>0, QuietFacts
<1>2. CASE /\ Op(p) = "commit" /\ v \in Commits(store)
           /\ reg' = [reg EXCEPT ![p].parent = v] /\ Goto(p, "object")
  <2>1. reg'[p].parent = v /\ pc'[p] = "object"
    BY <1>0, <1>2 DEF Goto, Registers
  <2>2. ParentIsTip(p)'
    BY <1>1, <1>2, <2>1 DEF ParentIsTip, Reads
  <2>3. Knows(p)'
    BY <1>1, <1>2, <2>1, <2>2
    DEF Knows, KnowsPath, KnowsValue, KnowsPlace, KnowsTmp
  <2>. QED  BY <1>0, <1>1, <1>2, <2>1, <2>3 DEF Routed, OpsAt, Op
<1>3. CASE /\ Op(p) # "commit"
           /\ reg' = [reg EXCEPT ![p].new = v] /\ Goto(p, "peel")
  <2>1. /\ reg'[p].new = v /\ reg'[p].dest = reg[p].dest /\ pc'[p] = "peel"
        /\ Op(p) \in {"branch", "tag", "atag"} /\ cmd[p].arg = HEAD
    BY <1>0, <1>3 DEF Goto, Registers, Routed, OpsAt
  <2>2. v \in StartPoints(p)'
    BY <1>1, <2>1 DEF Ways
  <2>3. Knows(p)'
    BY <2>1, <2>2 DEF Knows, KnowsPath, KnowsValue, KnowsPlace, KnowsTmp
  <2>. QED  BY <1>0, <1>1, <2>1, <2>3 DEF Routed, OpsAt, Op
<1>4. ~Die(p)
  BY <1>0 DEF Die, Exit, Running
<1>. QED  BY <1>2, <1>3, <1>4 DEF HaveTip

LEMMA LookupHeadKnows ==
  ASSUME NEW p \in Procs, Undisturbed(p), LookupHead(p), pc'[p] \in Running
  PROVE  Routed(p)' /\ Knows(p)'
<1>. DEFINE v == read_file(HEAD)
<1>0. /\ reg[p] \in Registers /\ HEAD \in Names /\ Quiet /\ pc[p] = "head"
      /\ DOMAIN pc = Procs /\ DOMAIN reg = Procs /\ Routed(p)
      /\ ~Die(p)
  BY UndisturbedFacts DEF LookupHead, Undisturbed, Die, Exit, Running
<1>1. UNCHANGED cmd
  BY <1>0 DEF LookupHead, Hold, HaveTip, Goto
<1>2. /\ Ways(p)' /\ read_file(HEAD)' = v /\ HEAD \in seen'[p]
      /\ cmd'[p] = cmd[p] /\ Op(p)' = Op(p)
  BY <1>0, <1>1, QuietFacts DEF Accessed
<1>3. CASE v \in Contents /\ Op(p) = "move" /\ Hold(p, HEAD, v, "mvExists")
  <2>1. /\ pc'[p] = "mvExists" /\ reg'[p].val = v
        /\ reg'[p].new = reg[p].new /\ reg'[p].dest = reg[p].dest
    BY <1>0, <1>3 DEF Hold, Goto, Registers
  <2>2. Knows(p)'
    BY <1>2, <1>3, <2>1
    DEF Knows, KnowsPath, KnowsValue, KnowsPlace, KnowsTmp, Reads
  <2>. QED  BY <1>0, <1>2, <1>3, <2>1, <2>2 DEF Routed, OpsAt, Op
<1>4. CASE v \in Names /\ Op(p) # "move" /\ Hold(p, HEAD, v, "resolveHead")
  <2>1. /\ pc'[p] = "resolveHead" /\ reg'[p].val = v
        /\ reg'[p].new = reg[p].new /\ reg'[p].dest = reg[p].dest
    BY <1>0, <1>4 DEF Hold, Goto, Registers
  <2>2. v \in FromHead(p)'
    BY <1>2, <1>4 DEF Ways
  <2>3. Knows(p)'
    BY <1>2, <1>4, <2>1, <2>2
    DEF Knows, KnowsPath, KnowsValue, KnowsPlace, KnowsTmp
  <2>. QED  BY <1>0, <1>2, <1>4, <2>1, <2>3 DEF Routed, OpsAt, Op
<1>5. CASE v \in Oids /\ Op(p) # "move" /\ HaveTip(p, v)
  <2>1. v \in HeadValues(p)'
    BY <1>2, <1>5, SortsAreDisjoint DEF Ways
  <2>. QED  BY <1>0, <1>2, <1>5, <2>1, HaveTipKnows DEF Contents
<1>. QED  BY <1>0, <1>3, <1>4, <1>5 DEF LookupHead

LEMMA FollowKnows ==
  ASSUME NEW p \in Procs, Undisturbed(p), Quiet, Follow(p),
         pc[p] \in {"resolveHead", "resolveTip", "resolveRef", "resolveSummary"}
  PROVE  Routed(p)' /\ Knows(p)'
<1>. DEFINE v == read_file(reg[p].val)
<1>0. /\ reg[p] \in Registers /\ reg[p].val \in Names /\ v \in Names
      /\ DOMAIN pc = Procs /\ DOMAIN reg = Procs /\ Routed(p) /\ Knows(p)
      /\ UNCHANGED cmd
  BY UndisturbedFacts, ResolvingFacts DEF Undisturbed, Follow, Hold, Goto
<1>1. /\ pc'[p] = pc[p] /\ reg'[p].val = v
      /\ reg'[p].new = reg[p].new /\ reg'[p].dest = reg[p].dest
      /\ reg'[p].parent = reg[p].parent
  BY <1>0 DEF Follow, Hold, Goto, Registers
<1>2. /\ Ways(p)' /\ Kept(p) /\ Grown(p)
      /\ reg[p].val \in seen'[p] /\ seen[p] \subseteq seen'[p]
      /\ cmd'[p] = cmd[p] /\ Op(p)' = Op(p)
      /\ \A n \in Names : read_file(n)' = read_file(n)
  <2>1. pc'[p] \in Running
    BY <1>1 DEF Running
  <2>. QED  BY <1>0, <2>1, QuietFacts DEF Accessed
<1>3. Routed(p)'
  BY <1>0, <1>1, <1>2 DEF Routed, Op
<1>4. KnowsPath(p)'
  <2>1. HEAD \in Names /\ cmd[p].name \in Names
    BY UndisturbedFacts
  <2>2. CASE pc[p] = "resolveRef"
    <3>1. v \in FromName(p)'
      BY <1>0, <1>2, <2>2 DEF Knows, KnowsPath, Grown, Ways
    <3>. QED  BY <1>0, <1>1, <1>2, <2>1, <2>2, <3>1 DEF Knows, KnowsPath
  <2>3. CASE pc[p] # "resolveRef"
    <3>1. v \in FromHead(p)'
      BY <1>0, <1>2, <2>3 DEF Knows, KnowsPath, Grown, Ways
    <3>. QED  BY <1>0, <1>1, <1>2, <2>1, <2>3, <3>1 DEF Knows, KnowsPath
  <2>. QED  BY <2>2, <2>3
<1>5. KnowsValue(p)'
  BY <1>0, <1>1, <1>2, ParentGrows DEF Knows, KnowsValue
<1>6. KnowsPlace(p)'
  BY <1>0, <1>1, <1>2, UndisturbedFacts DEF Knows, KnowsPlace, Grown
<1>. QED  BY <1>1, <1>3, <1>4, <1>5, <1>6 DEF Knows, KnowsTmp

LEMMA ResolveHeadKnows ==
  ASSUME NEW p \in Procs, Undisturbed(p), ResolveHead(p), pc'[p] \in Running
  PROVE  Routed(p)' /\ Knows(p)'
<1>. DEFINE v == read_file(reg[p].val)
<1>0. /\ reg[p] \in Registers /\ HEAD \in Names /\ Quiet /\ pc[p] = "resolveHead"
      /\ DOMAIN pc = Procs /\ DOMAIN reg = Procs /\ Routed(p) /\ Knows(p)
      /\ ~Die(p) /\ reg[p].val \in Names /\ Op(p) # "move" /\ reg[p].parent = None
  BY UndisturbedFacts DEF ResolveHead, Undisturbed, Die, Exit, Running, Consistent, Op
<1>1. CASE Follow(p)
  BY <1>0, <1>1, FollowKnows
<1>2. CASE ~Follow(p)
  <2>1. UNCHANGED cmd
    BY <1>0, <1>2 DEF ResolveHead, Stay, HaveTip, Goto
  <2>2. /\ Ways(p)' /\ Grown(p) /\ \A n \in Names : read_file(n)' = read_file(n)
        /\ reg[p].val \in seen'[p] /\ HEAD \in seen'[p]
        /\ read_file(HEAD) \in Names
        /\ reg[p].val \in FromHead(p)'
        /\ cmd'[p] = cmd[p] /\ Op(p)' = Op(p)
    BY <1>0, <2>1, QuietFacts DEF Accessed, Knows, KnowsPath, Grown, Kept
  <2>3. \A x \in FromHead(p)' \cap seen'[p] :
          read_file(x) \notin Names => read_file(x) \in HeadValues(p)'
    <3>1. FromHead(p)' \subseteq Names
      BY DEF FromHead, Path
    <3>. QED  BY <2>2, <3>1 DEF Ways
  <2>4. CASE Dangling(p) /\ Op(p) = "commit" /\ Stay(p, "object")
    <3>1. pc'[p] = "object" /\ reg'[p] = reg[p]
      BY <1>0, <2>4 DEF Stay, Goto
    <3>2. Missing \in HeadValues(p)'
      BY <1>0, <2>2, <2>4, <2>3, SortsAreDisjoint DEF Dangling
    <3>3. ParentIsTip(p)'
      BY <1>0, <2>2, <3>1, <3>2 DEF ParentIsTip, Reads, Contents
    <3>4. Knows(p)'
      BY <2>2, <2>4, <3>1, <3>3
      DEF Knows, KnowsPath, KnowsValue, KnowsPlace, KnowsTmp
    <3>. QED  BY <1>0, <2>2, <2>4, <3>1, <3>4 DEF Routed, OpsAt, Op
  <2>5. CASE v \in Oids /\ HaveTip(p, v)
    <3>1. v \in HeadValues(p)'
      BY <1>0, <2>2, <2>5, <2>3, SortsAreDisjoint
    <3>. QED  BY <1>0, <2>2, <2>5, <3>1, HaveTipKnows DEF Contents
  <2>. QED  BY <1>0, <1>2, <2>4, <2>5 DEF ResolveHead
<1>. QED  BY <1>1, <1>2

LEMMA PeelKnows ==
  ASSUME NEW p \in Procs, Undisturbed(p), Peel(p), pc'[p] \in Running
  PROVE  Routed(p)' /\ Knows(p)'
<1>. DEFINE o == reg[p].new
<1>0. /\ reg[p] \in Registers /\ Quiet /\ pc[p] = "peel"
      /\ DOMAIN pc = Procs /\ DOMAIN reg = Procs /\ Routed(p) /\ Knows(p)
      /\ ~Die(p) /\ RefInv
  BY UndisturbedFacts DEF Peel, Undisturbed, Die, Exit, Running
<1>1. UNCHANGED cmd
  BY <1>0 DEF Peel, Stay, Goto
<1>2. /\ Grown(p) /\ cmd'[p] = cmd[p] /\ Op(p)' = Op(p)
      /\ Stored(store)' = Stored(store) /\ Commits(store)' = Commits(store)
  BY <1>0, <1>1, QuietFacts
<1>3. \/ o \in StartPoints(p) \cap Oids
      \/ Op(p) = "branch" /\ o \in PeeledStarts(p) \cap Stored(store)
  BY <1>0 DEF Knows, KnowsValue
<1>4. o \in Stored(store) /\ Op(p) = "branch" => o \in PeeledStarts(p)
  <2>. SUFFICES ASSUME o \in Stored(store), o \in StartPoints(p) PROVE o \in PeeledStarts(p)
    BY <1>3
  <2>1. o \in TagPath(o)
    BY TagWays DEF Stored
  <2>. QED  BY <2>1 DEF PeeledStarts
<1>5. CASE /\ o \in Stored(store) \ Commits(store)
           /\ Op(p) = "branch"
           /\ reg' = [reg EXCEPT ![p].new = store[o].link]
           /\ Goto(p, "peel")
  <2>1. /\ pc'[p] = "peel" /\ reg'[p].new = store[o].link
        /\ reg'[p].dest = reg[p].dest
    BY <1>0, <1>5 DEF Goto, Registers
  <2>2. store[o].link \in Stored(store) /\ store[o].link \in Oids
    BY <1>0, <1>5 DEF RefInv, HistoryIsStored, ClosedStore, Stored, Commits
  <2>3. store[o].link \in PeeledStarts(p)
    <3>1. PICK s \in StartPoints(p) \cap Stored(store) : o \in TagPath(s)
      BY <1>4, <1>5 DEF PeeledStarts
    <3>2. store[o].link \in TagPath(s)
      BY <1>5, <2>2, <3>1, TagWays DEF Unpeeled
    <3>. QED  BY <3>1, <3>2 DEF PeeledStarts
  <2>4. Knows(p)'
    BY <1>2, <1>5, <2>1, <2>2, <2>3
    DEF Knows, KnowsPath, KnowsValue, KnowsPlace, KnowsTmp, Grown
  <2>. QED  BY <1>0, <1>2, <1>5, <2>1, <2>4 DEF Routed, OpsAt, Op
<1>6. ASSUME NEW l \in {"exists", "object"}, Stay(p, l),
             Op(p) = "branch" => o \in Commits(store) /\ l = "exists",
             Op(p) = "tag" => l = "exists",
             Op(p) = "atag" => l = "object",
             o \in Stored(store)
      PROVE  Routed(p)' /\ Knows(p)'
  <2>1. pc'[p] = l /\ reg'[p] = reg[p] /\ Op(p) \in {"branch", "tag", "atag"}
    BY <1>0, <1>6 DEF Stay, Goto, Routed, OpsAt
  <2>2. Knows(p)'
    BY <1>2, <1>3, <1>4, <1>6, <2>1
    DEF Knows, KnowsPath, KnowsValue, KnowsPlace, KnowsTmp, Grown
  <2>. QED  BY <1>0, <1>2, <1>6, <2>1, <2>2 DEF Routed, OpsAt, Op
<1>7. Commits(store) \subseteq Stored(store)
  BY DEF Commits
<1>. QED  BY <1>0, <1>5, <1>6, <1>7 DEF Peel

(* Storing an object disturbs nothing either. *)
LEMMA WriteObjectKnows ==
  ASSUME NEW p \in Procs, Undisturbed(p), WriteObject(p)
  PROVE  Routed(p)' /\ Knows(p)'
<1>. DEFINE object == IF Op(p) = "commit" THEN CommitObject(p) ELSE TagObject(p)
            l == IF Op(p) = "commit" THEN "tip" ELSE "exists"
<1>0. /\ reg[p] \in Registers /\ UNCHANGED <<fileVars, counters, cmd>> /\ pc[p] = "object"
      /\ DOMAIN pc = Procs /\ DOMAIN reg = Procs /\ Routed(p) /\ Knows(p)
      /\ RefInv /\ Goto(p, l) /\ Op(p) \in {"commit", "atag"}
      /\ Consistent(pc[p], cmd[p], reg[p]) /\ DOMAIN store = Oids
  BY UndisturbedFacts
  DEF WriteObject, Undisturbed, Goto, Routed, OpsAt, RefInv, TypeOK
<1>1. PICK o \in Oids : /\ store[o] \in {NoObject, object}
                        /\ store' = [store EXCEPT ![o] = object]
                        /\ reg' = [reg EXCEPT ![p].new = o]
  BY DEF WriteObject
<1>2. /\ pc'[p] = l /\ reg'[p].new = o /\ reg'[p].dest = reg[p].dest
      /\ reg'[p].parent = reg[p].parent
      /\ cmd'[p] = cmd[p] /\ Op(p)' = Op(p) /\ store'[o] = object
  BY <1>0, <1>1 DEF Goto, Registers, Op
<1>3. object \in Objects
  BY <1>0 DEF Consistent, Op, Objects, Commits, Stored, CommitObject, TagObject
<1>4. o \in Stored(store')
  BY <1>2, <1>3, SortsAreDisjoint DEF Stored
<1>5. Kept(p)
  <2>1. seen[p] \subseteq seen'[p] /\ seen[p] \subseteq Names
    BY <1>0, <1>2, RecordFacts DEF Undisturbed, Stopped, HistoryTyped
  <2>2. SameContents
    BY <1>0, FilesAlike
  <2>3. StoreGrows
    BY <1>0, ActsStore DEF Acting, Step
  <2>. QED  BY <1>2, <2>1, <2>2, <2>3 DEF Kept, SameContents
<1>6. Grown(p)
  BY <1>5, Grow
<1>7. CASE Op(p) = "commit"
  <2>1. ParentIsTip(p)
    BY <1>0, <1>7 DEF Knows, KnowsValue
  <2>2. ParentIsTip(p)'
    BY <1>2, <1>5, <2>1, ParentGrows
  <2>3. o \in Commits(store)' /\ store'[o].link = reg[p].parent
    BY <1>2, <1>4, <1>7 DEF Commits, CommitObject
  <2>4. CommitIsMade(p)'
    BY <1>2, <2>2, <2>3 DEF CommitIsMade
  <2>5. Knows(p)'
    BY <1>2, <1>7, <2>4 DEF Knows, KnowsPath, KnowsValue, KnowsPlace, KnowsTmp
  <2>. QED  BY <1>0, <1>2, <1>7, <2>5 DEF Routed, OpsAt, Op
<1>8. CASE Op(p) = "atag"
  <2>1. reg[p].new \in StartPoints(p)'
    BY <1>0, <1>6, <1>8 DEF Knows, KnowsValue, Grown
  <2>2. o \in Unpeeled' /\ store'[o].link = reg[p].new
    BY <1>2, <1>4, <1>8 DEF Unpeeled, Commits, TagObject
  <2>3. Knows(p)'
    BY <1>2, <1>8, <2>1, <2>2 DEF Knows, KnowsPath, KnowsValue, KnowsPlace, KnowsTmp
  <2>. QED  BY <1>0, <1>2, <1>8, <2>3 DEF Routed, OpsAt, Op
<1>. QED  BY <1>0, <1>7, <1>8

(* commit knows that HEAD still leads to the parent: it finds the file. *)
LEMMA LookupTipKnows ==
  ASSUME NEW p \in Procs, Undisturbed(p), LookupTip(p), pc'[p] \in Running
  PROVE  Routed(p)' /\ Knows(p)'
<1>. DEFINE v == read_file(HEAD)
<1>0. /\ reg[p] \in Registers /\ HEAD \in Names /\ Quiet /\ pc[p] = "tip"
      /\ DOMAIN pc = Procs /\ DOMAIN reg = Procs /\ Routed(p) /\ Knows(p)
      /\ ~Die(p) /\ Op(p) = "commit"
  BY UndisturbedFacts DEF LookupTip, Undisturbed, Die, Exit, Running, Routed, OpsAt
<1>1. UNCHANGED cmd
  BY <1>0 DEF LookupTip, Aim, Goto
<1>2. /\ Ways(p)' /\ Kept(p) /\ v = read_file(HEAD)' /\ HEAD \in seen'[p]
      /\ cmd'[p] = cmd[p] /\ Op(p)' = Op(p)
  BY <1>0, <1>1, QuietFacts DEF Accessed
<1>3. CommitIsMade(p) /\ v \in Contents
  BY <1>0 DEF Knows, KnowsValue, CommitIsMade, ParentIsTip, Reads
<1>4. CASE v \in Oids /\ Aim(p, HEAD, "open")
  <2>1. /\ pc'[p] = "open" /\ reg'[p].dest = HEAD /\ reg'[p].new = reg[p].new
        /\ reg'[p].parent = reg[p].parent
    BY <1>0, <1>4 DEF Aim, Goto, Registers
  <2>2. CommitIsMade(p)'
    BY <1>2, <1>3, <2>1, ParentGrows
  <2>3. Knows(p)'
    BY <1>0, <1>2, <1>4, <2>1, <2>2
    DEF Knows, KnowsPath, KnowsValue, KnowsPlace, KnowsTmp, Ways
  <2>. QED  BY <1>0, <1>2, <2>1, <2>3 DEF Routed, OpsAt, Op
<1>5. CASE /\ v \in Names
           /\ reg' = [reg EXCEPT ![p].at = HEAD, ![p].val = v, ![p].dest = v]
           /\ Goto(p, "resolveTip")
  <2>1. /\ pc'[p] = "resolveTip" /\ reg'[p].dest = v /\ reg'[p].new = reg[p].new
        /\ reg'[p].parent = reg[p].parent /\ reg'[p].val = v
    BY <1>0, <1>5 DEF Goto, Registers
  <2>2. CommitIsMade(p)'
    BY <1>2, <1>3, <2>1, ParentGrows
  <2>3. v \in FromHead(p)'
    BY <1>2, <1>5 DEF Ways
  <2>4. Knows(p)'
    BY <1>0, <1>2, <1>5, <2>1, <2>2, <2>3
    DEF Knows, KnowsPath, KnowsValue, KnowsPlace, KnowsTmp
  <2>. QED  BY <1>0, <1>2, <2>1, <2>4 DEF Routed, OpsAt, Op
<1>. QED  BY <1>0, <1>3, <1>4, <1>5, SortsAreDisjoint DEF LookupTip, Contents

LEMMA ResolveTipKnows ==
  ASSUME NEW p \in Procs, Undisturbed(p), ResolveTip(p), pc'[p] \in Running
  PROVE  Routed(p)' /\ Knows(p)'
<1>. DEFINE v == read_file(reg[p].val)
<1>0. /\ reg[p] \in Registers /\ HEAD \in Names /\ Quiet /\ pc[p] = "resolveTip"
      /\ DOMAIN pc = Procs /\ DOMAIN reg = Procs /\ Routed(p) /\ Knows(p)
      /\ ~Die(p) /\ reg[p].val \in Names /\ Op(p) = "commit"
  BY UndisturbedFacts
  DEF ResolveTip, Undisturbed, Die, Exit, Running, Consistent, Routed, OpsAt
<1>1. CASE Follow(p)
  BY <1>0, <1>1, FollowKnows
<1>2. CASE ~Follow(p)
  <2>1. UNCHANGED cmd
    BY <1>0, <1>2 DEF ResolveTip, Stay, Aim, Goto
  <2>2. /\ Ways(p)' /\ Kept(p) /\ \A n \in Names : read_file(n)' = read_file(n)
        /\ reg[p].val \in seen'[p] /\ HEAD \in seen'[p]
        /\ reg[p].val \in FromHead(p)'
        /\ read_file(HEAD)' = read_file(HEAD)
        /\ cmd'[p] = cmd[p] /\ Op(p)' = Op(p)
    BY <1>0, <2>1, QuietFacts DEF Accessed, Knows, KnowsPath, Grown, Kept
  <2>3. CommitIsMade(p) /\ reg[p].dest = read_file(HEAD)
    BY <1>0 DEF Knows, KnowsValue, KnowsPlace
  <2>4. CASE Dangling(p) /\ Stay(p, "exists")
    <3>1. pc'[p] = "exists" /\ reg'[p] = reg[p]
      BY <1>0, <2>4 DEF Stay, Goto
    <3>2. Missing \in HeadValues(p)'
      <4>1. \A x \in FromHead(p)' \cap seen'[p] :
              read_file(x) \notin Names => read_file(x) \in HeadValues(p)'
        <5>1. FromHead(p)' \subseteq Names
          BY DEF FromHead, Path
        <5>. QED  BY <2>2, <5>1 DEF Ways
      <4>. QED  BY <2>2, <2>4, <4>1, SortsAreDisjoint DEF Dangling
    <3>3. CommitIsMade(p)'
      BY <2>2, <2>3, <3>1, ParentGrows
    <3>4. Knows(p)'
      BY <1>0, <2>2, <2>3, <3>1, <3>2, <3>3
      DEF Knows, KnowsPath, KnowsValue, KnowsPlace, KnowsTmp
    <3>. QED  BY <1>0, <2>2, <3>1, <3>4 DEF Routed, OpsAt, Op
  <2>5. CASE v \in Oids /\ Aim(p, reg[p].val, "open")
    <3>1. /\ pc'[p] = "open" /\ reg'[p].dest = reg[p].val /\ reg'[p].new = reg[p].new
          /\ reg'[p].parent = reg[p].parent
      BY <1>0, <2>5 DEF Aim, Goto, Registers
    <3>2. CommitIsMade(p)'
      BY <2>2, <2>3, <3>1, ParentGrows
    <3>3. read_file(reg[p].dest)' \in Oids /\ reg'[p].dest \in FromHead(p)' \cap seen'[p]
      BY <1>0, <2>2, <2>5, <3>1
    <3>4. Knows(p)'
      BY <1>0, <2>2, <3>1, <3>2, <3>3
      DEF Knows, KnowsPath, KnowsValue, KnowsPlace, KnowsTmp
    <3>. QED  BY <1>0, <2>2, <3>1, <3>4 DEF Routed, OpsAt, Op
  <2>. QED  BY <1>0, <1>2, <2>4, <2>5 DEF ResolveTip
<1>. QED  BY <1>1, <1>2

LEMMA LookupSummaryKnows ==
  ASSUME NEW p \in Procs, Undisturbed(p), LookupSummary(p), pc'[p] \in Running
  PROVE  Routed(p)' /\ Knows(p)'
<1>. DEFINE v == read_file(HEAD)
<1>0. /\ reg[p] \in Registers /\ HEAD \in Names /\ Quiet /\ pc[p] = "summary"
      /\ DOMAIN pc = Procs /\ DOMAIN reg = Procs /\ Routed(p) /\ Knows(p)
      /\ ~Die(p) /\ ~Exit(p, "ok") /\ Op(p) = "commit"
  BY UndisturbedFacts DEF LookupSummary, Undisturbed, Die, Exit, Running, Routed, OpsAt
<1>1. v \in Names /\ Hold(p, HEAD, v, "resolveSummary")
  BY <1>0 DEF LookupSummary
<1>2. /\ Ways(p)' /\ Grown(p) /\ v = read_file(HEAD)' /\ HEAD \in seen'[p]
      /\ cmd'[p] = cmd[p] /\ Op(p)' = Op(p)
  BY <1>0, <1>1, QuietFacts DEF Accessed, Hold, Goto
<1>3. /\ pc'[p] = "resolveSummary" /\ reg'[p].val = v
      /\ reg'[p].new = reg[p].new /\ reg'[p].dest = reg[p].dest
  BY <1>0, <1>1 DEF Hold, Goto, Registers
<1>4. v \in FromHead(p)' /\ HeadValues(p)' \cap Oids # {}
  BY <1>0, <1>1, <1>2 DEF Ways, Grown, Knows, KnowsPlace
<1>5. Knows(p)'
  BY <1>1, <1>2, <1>3, <1>4 DEF Knows, KnowsPath, KnowsValue, KnowsPlace, KnowsTmp
<1>. QED  BY <1>0, <1>2, <1>3, <1>5 DEF Routed, OpsAt, Op

LEMMA ResolveSummaryKnows ==
  ASSUME NEW p \in Procs, Undisturbed(p), ResolveSummary(p), pc'[p] \in Running
  PROVE  Routed(p)' /\ Knows(p)'
<1>1. ~Die(p) /\ ~Exit(p, "ok") /\ Quiet /\ pc[p] = "resolveSummary"
  BY UndisturbedFacts DEF ResolveSummary, Die, Exit, Running
<1>. QED  BY <1>1, FollowKnows DEF ResolveSummary

LEMMA LookupRefKnows ==
  ASSUME NEW p \in Procs, Undisturbed(p), LookupRef(p), pc'[p] \in Running
  PROVE  Routed(p)' /\ Knows(p)'
<1>. DEFINE c == cmd[p]
            v == read_file(c.name)
            l == IF c.deref /\ v \in Names THEN "resolveRef" ELSE "verify"
<1>0. /\ reg[p] \in Registers /\ c \in CommandType /\ c.name \in Names /\ Quiet
      /\ pc[p] = "ref" /\ DOMAIN pc = Procs /\ DOMAIN reg = Procs
      /\ Routed(p) /\ Knows(p) /\ ~Die(p)
  BY UndisturbedFacts DEF LookupRef, Undisturbed, Die, Exit, Running
<1>1. UNCHANGED cmd
  BY <1>0 DEF LookupRef, Aim, Hold, Goto
<1>2. /\ Ways(p)' /\ v = read_file(c.name)' /\ c.name \in seen'[p]
      /\ cmd'[p] = c /\ Op(p)' = Op(p) /\ Stored(store)' = Stored(store)
  <2>1. seen'[p] = seen[p] \cup Accessed(p) /\ \A n \in Names : read_file(n)' = read_file(n)
    BY <1>0, <1>1, QuietFacts
  <2>. QED  BY <1>0, <1>1, <2>1, QuietFacts DEF Accessed
<1>3. CASE /\ v \in {Missing, Empty} /\ c.op = "update" /\ c.old \notin Oids
           /\ c.arg \in Stored(store)
           /\ Aim(p, c.name, "exists")
  <2>1. /\ pc'[p] = "exists" /\ reg'[p].dest = c.name /\ reg'[p].new = reg[p].new
    BY <1>0, <1>3 DEF Aim, Goto, Registers
  <2>2. Knows(p)'
    BY <1>2, <1>3, <2>1
    DEF Knows, KnowsPath, KnowsValue, KnowsPlace, KnowsTmp, Op
  <2>. QED  BY <1>0, <1>2, <1>3, <2>1, <2>2 DEF Routed, OpsAt, Op
<1>4. CASE v \in Contents /\ c.op = "remove" /\ Hold(p, c.name, v, "isHead")
  <2>1. /\ pc'[p] = "isHead" /\ reg'[p].dest = reg[p].dest /\ reg'[p].new = reg[p].new
    BY <1>0, <1>4 DEF Hold, Goto, Registers
  <2>2. Knows(p)'
    BY <1>2, <1>4, <2>1
    DEF Knows, KnowsPath, KnowsValue, KnowsPlace, KnowsTmp, Op, Reads
  <2>. QED  BY <1>0, <1>2, <1>4, <2>1, <2>2 DEF Routed, OpsAt, Op
<1>5. CASE /\ v \in Contents /\ c.op \in {"update", "delete"}
           /\ c.op = "update" => c.old # Zero /\ c.arg \in Stored(store)
           /\ Hold(p, c.name, v, l)
  <2>1. /\ pc'[p] = l /\ reg'[p].at = c.name /\ reg'[p].val = v
        /\ reg'[p].dest = reg[p].dest /\ reg'[p].new = reg[p].new
    BY <1>0, <1>5 DEF Hold, Goto, Registers
  <2>2. CASE c.deref /\ v \in Names
    <3>1. v \in FromName(p)' /\ pc'[p] = "resolveRef"
      BY <1>0, <1>2, <2>1, <2>2 DEF Ways
    <3>2. Knows(p)'
      BY <1>2, <1>5, <2>1, <2>2, <3>1
      DEF Knows, KnowsPath, KnowsValue, KnowsPlace, KnowsTmp, Op
    <3>. QED  BY <1>0, <1>2, <1>5, <2>1, <3>1, <3>2 DEF Routed, OpsAt, Op
  <2>3. CASE ~(c.deref /\ v \in Names)
    <3>1. pc'[p] = "verify"
      BY <2>1, <2>3
    <3>2. c.name \in Targets(p)'
      BY <1>0, <1>2, <1>5, <2>3 DEF Targets, Ways, Contents
    <3>3. reg'[p].at \in Targets(p)' /\ reg'[p].val = read_file(c.name)'
      BY <1>2, <2>1, <3>2
    <3>4. (reg[p].val = read_file(reg[p].at))'
      BY <1>2, <2>1, <3>3
    <3>5. Knows(p)'
      BY <1>2, <1>5, <2>1, <3>1, <3>3, <3>4
      DEF Knows, KnowsPath, KnowsValue, KnowsPlace, KnowsTmp, Op
    <3>. QED  BY <1>0, <1>2, <1>5, <2>1, <3>1, <3>5 DEF Routed, OpsAt, Op
  <2>. QED  BY <2>2, <2>3
<1>. QED  BY <1>0, <1>3, <1>4, <1>5 DEF LookupRef

LEMMA ResolveRefKnows ==
  ASSUME NEW p \in Procs, Undisturbed(p), ResolveRef(p), pc'[p] \in Running
  PROVE  Routed(p)' /\ Knows(p)'
<1>. DEFINE v == read_file(reg[p].val)
<1>0. /\ reg[p] \in Registers /\ Quiet /\ pc[p] = "resolveRef"
      /\ DOMAIN pc = Procs /\ DOMAIN reg = Procs /\ Routed(p) /\ Knows(p)
      /\ ~Die(p) /\ reg[p].val \in Names
  BY UndisturbedFacts
  DEF ResolveRef, Undisturbed, Die, Exit, Running, Consistent
<1>1. CASE Follow(p)
  BY <1>0, <1>1, FollowKnows
<1>2. CASE v \in Oids /\ Hold(p, reg[p].val, v, "verify")
  <2>1. /\ pc'[p] = "verify" /\ reg'[p].at = reg[p].val /\ reg'[p].val = v
        /\ reg'[p].dest = reg[p].dest /\ reg'[p].new = reg[p].new
    BY <1>0, <1>2 DEF Hold, Goto, Registers
  <2>2. /\ Grown(p) /\ \A n \in Names : read_file(n)' = read_file(n)
        /\ reg[p].val \in seen'[p]
        /\ cmd'[p] = cmd[p] /\ Op(p)' = Op(p)
    BY <1>0, <1>2, QuietFacts DEF Accessed, Hold, Goto
  <2>3. cmd[p].deref /\ reg[p].val \in FromName(p)'
        /\ (Op(p) = "update" => cmd[p].old # Zero)
    BY <1>0, <2>2 DEF Knows, KnowsPath, Grown
  <2>4. reg'[p].at \in Targets(p)' /\ (reg[p].val = read_file(reg[p].at))'
    <3>1. \A x \in Names : x \in FromName(p)' /\ x \in seen'[p] /\ read_file(x) \in Oids =>
            x \in Targets(p)'
      BY <2>2, <2>3 DEF Targets, Contents
    <3>. QED  BY <1>0, <1>2, <2>1, <2>2, <2>3, <3>1
  <2>5. Knows(p)'
    BY <2>1, <2>2, <2>3, <2>4 DEF Knows, KnowsPath, KnowsValue, KnowsPlace, KnowsTmp
  <2>. QED  BY <1>0, <2>1, <2>2, <2>5 DEF Routed, OpsAt, Op
<1>. QED  BY <1>0, <1>1, <1>2 DEF ResolveRef

LEMMA VerifyOldKnows ==
  ASSUME NEW p \in Procs, Undisturbed(p), VerifyOld(p), pc'[p] \in Running
  PROVE  Routed(p)' /\ Knows(p)'
<1>. DEFINE l == IF Op(p) = "delete" THEN "unlink" ELSE "open"
<1>0. /\ reg[p] \in Registers /\ Quiet /\ pc[p] = "verify"
      /\ DOMAIN pc = Procs /\ DOMAIN reg = Procs /\ Routed(p) /\ Knows(p)
      /\ OldMatches(p) /\ Aim(p, reg[p].at, l) /\ UNCHANGED cmd
      /\ Op(p) \in {"update", "delete"} /\ Consistent(pc[p], cmd[p], reg[p])
  BY UndisturbedFacts
  DEF VerifyOld, Undisturbed, Die, Exit, Running, Routed, OpsAt, Aim, Goto
<1>1. /\ pc'[p] = l /\ reg'[p].dest = reg[p].at /\ reg'[p].new = reg[p].new
  BY <1>0 DEF Aim, Goto, Registers
<1>2. /\ Grown(p) /\ \A n \in Names : read_file(n)' = read_file(n)
      /\ cmd'[p] = cmd[p] /\ Op(p)' = Op(p) /\ Stored(store)' = Stored(store)
  BY <1>0, QuietFacts
<1>3. reg[p].at \in Targets(p) /\ reg[p].val = read_file(reg[p].at) /\ reg[p].at \in Names
  BY <1>0 DEF Knows, KnowsPath, Registers
<1>4. reg'[p].dest \in Targets(p)'
  BY <1>1, <1>2, <1>3 DEF Grown
<1>5. OldIsRead(p)'
  <2>1. Op(p) = "update" => cmd[p].old # Zero
    BY <1>0 DEF Knows, KnowsPath
  <2>2. cmd[p].old \in Oids => cmd[p].old \in Stored(store) /\ read_file(reg[p].at) = cmd[p].old
    BY <1>0, <1>3 DEF OldMatches
  <2>. QED  BY <1>1, <1>2, <1>3, <2>1, <2>2 DEF OldIsRead, Op
<1>6. Op(p) = "update" => cmd[p].arg \in Stored(store)'
  BY <1>0, <1>2 DEF Consistent, Op, Routed
<1>7. Knows(p)'
  BY <1>0, <1>1, <1>2, <1>4, <1>5, <1>6
  DEF Knows, KnowsPath, KnowsValue, KnowsPlace, KnowsTmp
<1>. QED  BY <1>0, <1>1, <1>2, <1>7 DEF Routed, OpsAt, Op

LEMMA IsHeadKnows ==
  ASSUME NEW p \in Procs, Undisturbed(p), IsHead(p), pc'[p] \in Running
  PROVE  Routed(p)' /\ Knows(p)'
<1>. DEFINE v == read_file(HEAD)
<1>0. /\ reg[p] \in Registers /\ HEAD \in Names /\ Quiet /\ pc[p] = "isHead" /\ ~Die(p)
      /\ DOMAIN pc = Procs /\ DOMAIN reg = Procs /\ Routed(p) /\ Knows(p)
      /\ Op(p) = "remove" /\ RefInv
  BY UndisturbedFacts DEF IsHead, Undisturbed, Die, Exit, Running, Routed, OpsAt
<1>1. /\ Aim(p, cmd[p].name, "unlink") /\ UNCHANGED cmd
      /\ v \notin {Missing, Empty} /\ (cmd[p].force \/ v # cmd[p].name)
  BY <1>0 DEF IsHead, Aim, Goto
<1>2. v \in Contents
  BY <1>0, <1>1, ReadFileType DEF RefInv
<1>3. /\ pc'[p] = "unlink" /\ reg'[p].dest = cmd[p].name /\ reg'[p].new = reg[p].new
  BY <1>0, <1>1 DEF Aim, Goto, Registers
<1>4. /\ Kept(p) /\ v = read_file(HEAD)' /\ HEAD \in seen'[p]
      /\ cmd'[p] = cmd[p] /\ Op(p)' = Op(p)
  BY <1>0, <1>1, QuietFacts DEF Accessed
<1>5. Reads(p, cmd[p].name)'
  BY <1>0, <1>4, ReadsGrow DEF Knows, KnowsPath, Reads
<1>6. Knows(p)'
  BY <1>0, <1>1, <1>2, <1>3, <1>4, <1>5
  DEF Knows, KnowsPath, KnowsValue, KnowsPlace, KnowsTmp, Reads
<1>. QED  BY <1>0, <1>3, <1>4, <1>6 DEF Routed, OpsAt, Op

(* Only these may be forced. *)
LEMMA ForceFact ==
  ASSUME NEW p \in Procs, Undisturbed(p), Op(p) \in {"commit", "update"}
  PROVE  ~cmd[p].force
<1>1. cmd[p] \in CommandType
  BY UndisturbedFacts
<1>2. cmd[p].force \in BOOLEAN /\ WellFormed(cmd[p])
  BY <1>1 DEF CommandType
<1>. QED  BY <1>2 DEF WellFormed, Op

LEMMA ExistsRead ==
  ASSUME RefInv, NEW n \in Names
  PROVE  file_exists(n) <=> read_file(n) # Missing
<1>1. dir[n] # NoInode => data[dir[n]] # Missing
  BY PathsAreNames, SortsAreDisjoint DEF RefInv, TypeOK, FileTypeOK, Entry, Contents
<1>. QED  BY <1>1 DEF file_exists, read_file

LEMMA CheckExistsKnows ==
  ASSUME NEW p \in Procs, Undisturbed(p), CheckExists(p), pc'[p] \in Running
  PROVE  Routed(p)' /\ Knows(p)'
<1>. DEFINE n == reg[p].dest
<1>0. /\ n \in Names /\ HEAD \in Names /\ Quiet /\ pc[p] = "exists" /\ ~Die(p)
      /\ DOMAIN pc = Procs /\ Routed(p) /\ Knows(p) /\ RefInv
      /\ Op(p) \in {"commit", "update", "branch", "tag", "atag", "symref"}
  BY UndisturbedFacts
  DEF CheckExists, Undisturbed, Die, Exit, Running, Routed, OpsAt, Registers
<1>1. Stay(p, "open") /\ UNCHANGED cmd /\ (read_file(n) = Missing \/ cmd[p].force)
  BY <1>0, ExistsRead DEF CheckExists, Stay, Goto
<1>2. pc'[p] = "open" /\ reg'[p] = reg[p]
  BY <1>0, <1>1 DEF Stay, Goto
<1>3. /\ Ways(p)' /\ Kept(p) /\ Grown(p) /\ \A m \in Names : read_file(m)' = read_file(m)
      /\ n \in seen'[p] /\ read_file(HEAD)' = read_file(HEAD)
      /\ cmd'[p] = cmd[p] /\ Op(p)' = Op(p)
      /\ Stored(store)' = Stored(store) /\ Commits(store)' = Commits(store)
      /\ Unpeeled' = Unpeeled /\ store' = store
  BY <1>0, <1>1, QuietFacts DEF Accessed
<1>4. /\ n \in seen'[p] /\ reg'[p].dest = n
      /\ (read_file(reg[p].dest) = Missing)' <=> read_file(n) = Missing
  BY <1>0, <1>2, <1>3
<1>5. CASE Op(p) = "commit"
  <2>1. CommitIsMade(p) /\ n = read_file(HEAD) /\ read_file(n) = Missing
    BY <1>0, <1>1, <1>5, ForceFact DEF Knows, KnowsValue, KnowsPlace
  <2>2. CommitIsMade(p)' /\ HEAD \in seen'[p]
    BY <1>2, <1>3, <2>1, ParentGrows DEF CommitIsMade, ParentIsTip, Reads, Kept
  <2>3. n \in FromHead(p)'
    BY <1>0, <1>3, <2>1, <2>2 DEF Ways
  <2>4. Knows(p)'
    BY <1>2, <1>3, <1>4, <1>5, <2>1, <2>2, <2>3
    DEF Knows, KnowsPath, KnowsValue, KnowsPlace, KnowsTmp
  <2>. QED  BY <1>0, <1>2, <1>3, <2>4 DEF Routed, OpsAt, Op
<1>6. CASE Op(p) = "update"
  <2>1. /\ cmd[p].arg \in Stored(store) /\ n = cmd[p].name /\ cmd[p].old \notin Oids
        /\ read_file(n) = Missing
    BY <1>0, <1>1, <1>6, ForceFact DEF Knows, KnowsValue, KnowsPlace
  <2>2. (read_file(cmd[p].name) = Missing)'
    BY <1>0, <1>3, <2>1
  <2>3. Knows(p)'
    BY <1>2, <1>3, <1>4, <1>6, <2>1, <2>2
    DEF Knows, KnowsPath, KnowsValue, KnowsPlace, KnowsTmp
  <2>. QED  BY <1>0, <1>2, <1>3, <2>3 DEF Routed, OpsAt, Op
<1>7. CASE Op(p) \in {"branch", "tag", "atag", "symref"}
  <2>1. OverFree(p)'
    BY <1>1, <1>2, <1>3, <1>4 DEF OverFree
  <2>2. KnowsValue(p)'
    BY <1>0, <1>2, <1>3, <1>7 DEF Knows, KnowsValue, Grown
  <2>3. Knows(p)'
    BY <1>2, <1>3, <1>7, <2>1, <2>2
    DEF Knows, KnowsPath, KnowsPlace, KnowsTmp
  <2>. QED  BY <1>0, <1>2, <1>3, <2>3 DEF Routed, OpsAt, Op
<1>. QED  BY <1>0, <1>5, <1>6, <1>7

LEMMA MoveExistsKnows ==
  ASSUME NEW p \in Procs, Undisturbed(p), MoveExists(p), pc'[p] \in Running
  PROVE  Routed(p)' /\ Knows(p)'
<1>. DEFINE n == cmd[p].arg
<1>0. /\ HEAD \in Names /\ Quiet /\ pc[p] = "mvExists" /\ ~Die(p)
      /\ DOMAIN pc = Procs /\ Routed(p) /\ Knows(p) /\ RefInv /\ Op(p) = "move"
  BY UndisturbedFacts DEF MoveExists, Undisturbed, Die, Exit, Running, Routed, OpsAt
<1>1. n \in Names
  BY <1>0, MoveNames
<1>2. Stay(p, "mvRename") /\ UNCHANGED cmd /\ (read_file(n) = Missing \/ cmd[p].force)
  BY <1>0, <1>1, ExistsRead DEF MoveExists, Stay, Goto
<1>3. pc'[p] = "mvRename" /\ reg'[p] = reg[p]
  BY <1>0, <1>2 DEF Stay, Goto
<1>4. /\ Kept(p) /\ \A m \in Names : read_file(m)' = read_file(m)
      /\ n \in seen'[p] /\ read_file(HEAD)' = read_file(HEAD)
      /\ cmd'[p] = cmd[p] /\ Op(p)' = Op(p)
  BY <1>0, <1>2, QuietFacts DEF Accessed
<1>5. Reads(p, HEAD)' /\ reg'[p].val = read_file(HEAD)'
  BY <1>0, <1>3, <1>4, ReadsGrow DEF Knows, KnowsPlace
<1>6. cmd'[p].arg \in seen'[p] /\ ((read_file(cmd[p].arg) = Missing)' \/ cmd'[p].force)
  BY <1>1, <1>2, <1>4
<1>7. Knows(p)'
  BY <1>1, <1>2, <1>3, <1>4, <1>5, <1>6
  DEF Knows, KnowsPath, KnowsValue, KnowsPlace, KnowsTmp
<1>. QED  BY <1>0, <1>3, <1>4, <1>7 DEF Routed, OpsAt, Op

----------------------------------------------------------------------------
(* The steps of p on files.  Until the rename, no reference changes. *)

(* A step that leaves the contents of the references alone. *)
LEMMA SameFacts ==
  ASSUME NEW p \in Procs, Undisturbed(p), SameContents, UNCHANGED <<store, cmd>>,
         pc'[p] \in Running
  PROVE  /\ Kept(p) /\ Grown(p)
         /\ seen'[p] = seen[p] \cup Accessed(p)
         /\ cmd'[p] = cmd[p] /\ Op(p)' = Op(p)
<1>1. seen'[p] = seen[p] \cup Accessed(p) /\ seen[p] \subseteq Names
  BY RecordFacts DEF Undisturbed, Running, Stopped, HistoryTyped
<1>2. Kept(p)
  BY <1>1 DEF Kept, SameContents, StoreGrows, Stored
<1>. QED  BY <1>1, <1>2, Grow DEF Op

(* While the file is being written, the command knows value and place. *)
LEMMA WritingKeeps ==
  ASSUME NEW p \in Procs, Undisturbed(p), Kept(p), reg'[p] = reg[p],
         pc[p] \in {"open", "write"}, pc'[p] \in {"write", "rename"}
  PROVE  KnowsValue(p)' /\ KnowsPlace(p)' /\ KnowsPath(p)'
<1>0. Knows(p) /\ cmd'[p] = cmd[p] /\ Op(p)' = Op(p) /\ Grown(p)
  BY Grow DEF Undisturbed, Kept, Op
<1>1. KnowsValue(p)'
  <2>1. /\ Stored(store) \subseteq Stored(store)' /\ Commits(store) \subseteq Commits(store)'
        /\ Unpeeled \subseteq Unpeeled' /\ \A o \in Unpeeled : store'[o] = store[o]
    BY StoreGrowsFacts DEF Kept, StoreGrows, Unpeeled
  <2>. QED  BY <1>0, <2>1, ParentGrows DEF Knows, KnowsValue, Grown
<1>2. KnowsPlace(p)'
  <2>1. /\ Stored(store) \subseteq Stored(store)'
        /\ seen[p] \subseteq seen'[p]
        /\ \A n \in seen[p] : read_file(n)' = read_file(n)
        /\ \A x \in Targets(p) : x \in seen[p]
    BY StoreGrowsFacts DEF Kept, Targets
  <2>2. Op(p) = "commit" => HEAD \in seen[p]
    BY <1>0 DEF Knows, KnowsValue, CommitIsMade, ParentIsTip, Reads
  <2>3. reg[p].dest \in Targets(p) /\ OldIsRead(p) => OldIsRead(p)'
    BY <1>0, <2>1 DEF OldIsRead
  <2>4. OverFree(p) => OverFree(p)'
    BY <1>0, <2>1 DEF OverFree
  <2>. QED  BY <1>0, <2>1, <2>2, <2>3, <2>4 DEF Knows, KnowsPlace, Grown
<1>3. KnowsPath(p)'
  BY DEF KnowsPath
<1>. QED  BY <1>1, <1>2, <1>3

LEMMA OpenFileKnows ==
  ASSUME NEW p \in Procs, Undisturbed(p), OpenFile(p)
  PROVE  Routed(p)' /\ Knows(p)'
<1>0. /\ reg[p].dest \in Names /\ pc[p] = "open" /\ Stay(p, "write")
      /\ UNCHANGED <<store, cmd>> /\ DOMAIN pc = Procs /\ Routed(p)
      /\ FilesOK /\ NamesApart /\ OpenTmp(p, reg[p].dest)
  BY UndisturbedFacts, FilesFact DEF OpenFile, Undisturbed, Registers, Stay, Goto
<1>1. pc'[p] = "write" /\ reg'[p] = reg[p] /\ pc'[p] \in Running
  BY <1>0 DEF Stay, Goto, Running
<1>2. SameContents /\ tmp'[reg[p].dest] = fd'[p]
  BY <1>0, OpenTmpReads
<1>3. /\ Kept(p) /\ seen'[p] = seen[p] \cup Accessed(p)
      /\ cmd'[p] = cmd[p] /\ Op(p)' = Op(p)
  BY <1>0, <1>1, <1>2, SameFacts
<1>4. KnowsValue(p)' /\ KnowsPlace(p)' /\ KnowsPath(p)'
  BY <1>0, <1>1, <1>3, WritingKeeps
<1>5. KnowsTmp(p)'
  BY <1>0, <1>1, <1>2, <1>3 DEF KnowsTmp, Accessed
<1>. QED  BY <1>0, <1>1, <1>3, <1>4, <1>5 DEF Knows, Routed, OpsAt, Op

LEMMA WriteFileKnows ==
  ASSUME NEW p \in Procs, Undisturbed(p), WriteFile(p)
  PROVE  Routed(p)' /\ Knows(p)'
<1>0. /\ reg[p].dest \in Names /\ pc[p] = "write" /\ Stay(p, "rename")
      /\ UNCHANGED <<store, cmd>> /\ DOMAIN pc = Procs /\ Routed(p)
      /\ FilesOK /\ NamesApart /\ WriteAndClose(p, reg[p].new) /\ fd[p] \in Inodes
      /\ Knows(p)
  BY UndisturbedFacts, FilesFact DEF WriteFile, Undisturbed, Registers, Stay, Goto, RefInv
<1>1. pc'[p] = "rename" /\ reg'[p] = reg[p] /\ pc'[p] \in Running
  BY <1>0 DEF Stay, Goto, Running
<1>2. reg[p].dest \in seen[p] /\ tmp[reg[p].dest] = fd[p] /\ tmp[reg[p].dest] # NoInode
  BY <1>0, NoInodeFresh DEF Knows, KnowsTmp
<1>3. SameContents /\ data'[tmp[reg[p].dest]] = reg[p].new /\ tmp' = tmp
  <2>1. SameContents /\ data'[tmp[reg[p].dest]] = reg[p].new
    BY <1>0, <1>2, WriteReads
  <2>. QED  BY <1>0, <2>1 DEF WriteAndClose
<1>4. /\ Kept(p) /\ seen'[p] = seen[p] \cup Accessed(p)
      /\ cmd'[p] = cmd[p] /\ Op(p)' = Op(p)
  BY <1>0, <1>1, <1>3, SameFacts
<1>5. KnowsValue(p)' /\ KnowsPlace(p)' /\ KnowsPath(p)'
  BY <1>0, <1>1, <1>4, WritingKeeps
<1>6. KnowsTmp(p)'
  BY <1>0, <1>1, <1>2, <1>3, <1>4 DEF KnowsTmp
<1>. QED  BY <1>0, <1>1, <1>4, <1>5, <1>6 DEF Knows, Routed, OpsAt, Op

LEMMA WriteErrorKnows ==
  ASSUME NEW p \in Procs, Undisturbed(p), WriteError(p)
  PROVE  Routed(p)' /\ Knows(p)'
<1>1. /\ pc[p] = "write" /\ pc'[p] = "unlinkTmp" /\ reg' = reg /\ cmd' = cmd
      /\ ioerrors' > 0 /\ Routed(p)
  BY UndisturbedFacts DEF WriteError, Undisturbed, Stay, Goto, RefInv, TypeOK
<1>2. Knows(p)'
  BY <1>1 DEF Knows, KnowsPath, KnowsValue, KnowsPlace, KnowsTmp
<1>. QED  BY <1>1, <1>2 DEF Routed, OpsAt, Op

LEMMA DiscardTmpKnows ==
  ASSUME NEW p \in Procs, Undisturbed(p), DiscardTmp(p), pc'[p] \in Running
  PROVE  Routed(p)' /\ Knows(p)'
<1>1. /\ pc[p] = "unlinkTmp" /\ pc'[p] = "mvUndo" /\ reg' = reg /\ cmd' = cmd
      /\ ioerrors' = ioerrors /\ Routed(p) /\ Knows(p) /\ Op(p) = "move"
  BY UndisturbedFacts
  DEF DiscardTmp, Undisturbed, Stay, Goto, Die, Exit, Running, counters
<1>2. Knows(p)'
  BY <1>1 DEF Knows, KnowsPath, KnowsValue, KnowsPlace, KnowsTmp
<1>. QED  BY <1>1, <1>2 DEF Routed, OpsAt, Op

(* The rename itself.  A way to a file does not depend on what that file holds. *)
LEMMA PathSurvives ==
  ASSUME NEW n, NEW known, NEW known2, known \subseteq known2 \cap Names,
         NEW x \in Path(n, known),
         \A y \in Names \ {x} : read_file(y)' = read_file(y)
  PROVE  x \in Path(n, known2)'
<1>1. x \in Names
  BY DEF Path
<1>. SUFFICES ASSUME NEW S \in SUBSET Names, n \in S, x \notin S,
                     \A y \in S \cap known2 :
                       read_file(y)' \in Names => read_file(y)' \in S
              PROVE  FALSE
  BY <1>1 DEF Path
<1>2. \A y \in S \cap known : read_file(y) \in Names => read_file(y) \in S
  OBVIOUS
<1>. QED  BY <1>2 DEF Path

LEMMA RenameFacts ==
  ASSUME NEW p \in Procs, Undisturbed(p), RenameFile(p)
  PROVE  /\ CanRenameTmp(reg[p].dest)
         /\ reg[p].dest \in Names
         /\ \A n \in Names :
              read_file(n)' = IF n = reg[p].dest THEN reg[p].new ELSE read_file(n)
<1>1. /\ pc[p] = "rename" /\ reg[p].dest \in Names /\ FilesOK /\ NamesApart /\ Knows(p)
  BY UndisturbedFacts, FilesFact DEF RenameFile, Undisturbed, Registers
<1>2. CanRenameTmp(reg[p].dest) /\ data[tmp[reg[p].dest]] = reg[p].new
  BY <1>1 DEF Knows, KnowsTmp, CanRenameTmp
<1>3. RenameTmp(reg[p].dest)
  BY <1>2 DEF RenameFile
<1>. QED  BY <1>1, <1>2, <1>3, RenameTmpReads

LEMMA RenameFileKnows ==
  ASSUME NEW p \in Procs, Undisturbed(p), RenameFile(p), pc'[p] \in Running
  PROVE  Routed(p)' /\ Knows(p)'
<1>0. /\ pc[p] = "rename" /\ Routed(p) /\ Knows(p)
      /\ Op(p) = "commit" /\ pc'[p] = "summary" /\ reg' = reg /\ cmd' = cmd
      /\ DOMAIN pc = Procs
  BY UndisturbedFacts, RenameFacts
  DEF RenameFile, Undisturbed, Stay, Goto, Exit, Running
<1>1. /\ \A n \in Names :
           read_file(n)' = IF n = reg[p].dest THEN reg[p].new ELSE read_file(n)
      /\ reg[p].dest \in Names
  BY RenameFacts
<1>2. seen'[p] = seen[p] \cup Accessed(p) /\ seen[p] \subseteq Names
  BY <1>0, RecordFacts DEF Undisturbed, Stopped, HistoryTyped
<1>3. /\ reg[p].dest \in FromHead(p) /\ reg[p].dest \in seen[p]
      /\ reg[p].new \in Oids
  BY <1>0 DEF Knows, KnowsPlace, KnowsValue, CommitIsMade, Commits, Stored
<1>4. reg[p].dest \in FromHead(p)'
  <2>1. \A y \in Names \ {reg[p].dest} : read_file(y)' = read_file(y)
    BY <1>1
  <2>2. seen[p] \subseteq seen'[p] \cap Names /\ reg[p].dest \in Path(HEAD, seen[p])
    BY <1>2, <1>3 DEF FromHead
  <2>3. PICK n, later : n = reg[p].dest /\ later = seen'[p]
    OBVIOUS
  <2>4. n \in Path(HEAD, later)'
    BY <2>1, <2>2, <2>3, PathSurvives
  <2>. QED  BY <2>3, <2>4 DEF FromHead
<1>5. reg[p].new \in HeadValues(p)'
  <2>1. \E x \in FromHead(p)' \cap seen'[p] : read_file(x)' = reg[p].new
    BY <1>1, <1>2, <1>3, <1>4
  <2>. QED  BY <1>3, <2>1, SortsAreDisjoint DEF HeadValues
<1>6. Knows(p)'
  BY <1>0, <1>3, <1>5 DEF Knows, KnowsPath, KnowsValue, KnowsPlace, KnowsTmp
<1>. QED  BY <1>0, <1>6 DEF Routed, OpsAt, Op

(* HEAD follows the branch that was renamed. *)
LEMMA MoveFacts ==
  ASSUME NEW p \in Procs, Undisturbed(p), MoveRename(p) \/ MoveUndo(p)
  PROVE  /\ cmd[p].name \in Names /\ cmd[p].arg \in Names
         /\ HEAD # cmd[p].name /\ HEAD # cmd[p].arg
         /\ Op(p) = "move"
<1>1. Op(p) = "move" /\ cmd[p] \in CommandType /\ HEAD \in Names
  BY UndisturbedFacts DEF Undisturbed, Routed, OpsAt, MoveRename, MoveUndo
<1>2. cmd[p].name \in Branches /\ cmd[p].arg \in Branches
  BY <1>1 DEF CommandType, WellFormed, Op
<1>. QED  BY <1>1, <1>2, HeadIsNoBranch DEF Names

LEMMA MoveRenameKnows ==
  ASSUME NEW p \in Procs, Undisturbed(p), MoveRename(p), pc'[p] \in Running
  PROVE  Routed(p)' /\ Knows(p)'
<1>. DEFINE old == cmd[p].name
            n == cmd[p].arg
<1>0. /\ pc[p] = "mvRename" /\ Routed(p) /\ Knows(p) /\ RefInv /\ FilesOK /\ NamesApart
      /\ reg[p].val = old /\ Aim(p, HEAD, "open") /\ UNCHANGED cmd
      /\ file_exists(old) /\ Rename(old, n)
      /\ DOMAIN pc = Procs /\ DOMAIN reg = Procs /\ reg[p] \in Registers
  BY UndisturbedFacts, FilesFact
  DEF MoveRename, Undisturbed, Aim, Goto, Exit, Die, Running
<1>1. /\ pc'[p] = "open" /\ reg'[p].dest = HEAD /\ reg'[p].new = reg[p].new
      /\ cmd'[p] = cmd[p] /\ Op(p) = "move" /\ Op(p)' = Op(p)
  BY <1>0, MoveFacts DEF Aim, Goto, Registers, Op
<1>2. \A m \in Names : read_file(m)' = Shifted(old, n, m)
  BY <1>0, MoveFacts, RenameReads
<1>3. read_file(HEAD) = old /\ HEAD \in seen[p] /\ HEAD \in Names
  BY <1>0, UndisturbedFacts DEF Knows, KnowsPlace, Reads
<1>4. seen'[p] = seen[p] \cup {old, n}
  BY <1>0, <1>1, RecordFacts DEF Undisturbed, Stopped, Accessed
<1>5. read_file(HEAD)' = old
  BY <1>2, <1>3, MoveFacts DEF Shifted
<1>6. \A m \in Names : m = n => read_file(m)' # Missing
  BY <1>0, <1>2, MoveFacts, ExistsRead DEF Shifted
<1>7. (read_file(cmd[p].arg) # Missing)'
  BY <1>1, <1>6, MoveFacts
<1>8. Knows(p)'
  BY <1>1, <1>3, <1>4, <1>5, <1>7
  DEF Knows, KnowsPath, KnowsValue, KnowsPlace, KnowsTmp
<1>. QED  BY <1>0, <1>1, <1>8 DEF Routed, OpsAt, Op

----------------------------------------------------------------------------
(* TxnInv is inductive, beside RefInv. *)

LEMMA StartKnows ==
  ASSUME RefInv, NEW p \in Procs, NEW c \in Commands, Start(p, c)
  PROVE  Routed(p)' /\ Knows(p)'
<1>1. /\ c \in CommandType /\ DOMAIN pc = Procs /\ DOMAIN reg = Procs /\ DOMAIN cmd = Procs
  BY CommandsAreTyped DEF RefInv, TypeOK
<1>2. /\ pc'[p] = FirstLabel(c) /\ cmd'[p] = c
      /\ reg'[p].new = c.arg /\ reg'[p].dest = c.name
  BY <1>1 DEF Start
<1>3. /\ c.op \in Ops /\ WellFormed(c)
  BY <1>1 DEF CommandType
<1>4. Routed(p)'
  BY <1>2, <1>3 DEF Routed, OpsAt, Op, FirstLabel, Ops
<1>5. CASE FirstLabel(c) = "peel"
  <2>1. c.arg # HEAD /\ c.arg \in Oids
    BY <1>3, <1>5 DEF FirstLabel, WellFormed, Ops
  <2>2. c.arg \in StartPoints(p)'
    BY <1>2, <2>1 DEF StartPoints
  <2>. QED  BY <1>2, <1>4, <1>5, <2>1, <2>2
       DEF Knows, KnowsPath, KnowsValue, KnowsPlace, KnowsTmp
<1>6. CASE FirstLabel(c) = "exists"
  <2>1. c.op = "symref"
    BY <1>3, <1>6 DEF FirstLabel, Ops
  <2>. QED  BY <1>2, <1>4, <1>6, <2>1
       DEF Knows, KnowsPath, KnowsValue, KnowsPlace, KnowsTmp, Op
<1>7. CASE FirstLabel(c) = "unlink"
  <2>1. c.op = "untag"
    BY <1>3, <1>7 DEF FirstLabel, Ops
  <2>. QED  BY <1>2, <1>4, <1>7, <2>1
       DEF Knows, KnowsPath, KnowsValue, KnowsPlace, KnowsTmp, Op
<1>8. CASE FirstLabel(c) \in {"head", "ref"}
  BY <1>2, <1>4, <1>8 DEF Knows, KnowsPath, KnowsValue, KnowsPlace, KnowsTmp
<1>. QED  BY <1>3, <1>5, <1>6, <1>7, <1>8 DEF FirstLabel, Ops

LEMMA StepKnows ==
  ASSUME NEW p \in Procs, Undisturbed(p), Step(p), pc'[p] \in Running
  PROVE  Routed(p)' /\ Knows(p)'
<1>1. CASE Thinking(p)
  BY <1>1, LookupHeadKnows, ResolveHeadKnows, PeelKnows, WriteObjectKnows,
     LookupTipKnows, ResolveTipKnows, LookupSummaryKnows, ResolveSummaryKnows,
     LookupRefKnows, ResolveRefKnows, VerifyOldKnows, IsHeadKnows,
     CheckExistsKnows, MoveExistsKnows
  DEF Thinking
<1>2. CASE Filing(p)
  <2>1. ~UnlinkRef(p) /\ ~MoveUndo(p)
    BY UndisturbedFacts DEF UnlinkRef, MoveUndo, Die, Exit, Running
  <2>. QED
    BY <1>2, <2>1, OpenFileKnows, WriteFileKnows, WriteErrorKnows, RenameFileKnows,
       DiscardTmpKnows, MoveRenameKnows
    DEF Filing
<1>. QED  BY <1>1, <1>2, StepCases

LEMMA OwnKnows ==
  ASSUME RefInv, TxnInv, NEW p \in Procs, Acting(p), Record(p), pc'[p] \in Running
  PROVE  disturbed'[p] \/ (Routed(p)' /\ Knows(p)')
<1>1. ~Crash(p)
  BY DEF Crash, Exit, Running, RefInv, TypeOK
<1>2. CASE \E c \in Commands : Start(p, c)
  BY <1>2, StartKnows
<1>3. CASE Step(p)
  <2>1. pc[p] \in Running
    BY <1>3
    DEF Step, Running, LookupHead, ResolveHead, Peel, WriteObject, LookupTip, ResolveTip,
        LookupSummary, ResolveSummary, LookupRef, ResolveRef, VerifyOld, IsHead,
        CheckExists, OpenFile, WriteFile, WriteError, RenameFile, DiscardTmp, UnlinkRef,
        MoveExists, MoveRename, MoveUndo
  <2>2. disturbed[p] \/ Undisturbed(p)
    BY <2>1 DEF TxnInv, Undisturbed
  <2>3. disturbed'[p] <=> disturbed[p]
    BY RecordFacts DEF TxnInv
  <2>. QED  BY <1>3, <2>2, <2>3, StepKnows
<1>. QED  BY <1>1, <1>2, <1>3 DEF Acting

LEMMA InitTxnInv == HInit => TxnInv
<1>. SUFFICES ASSUME HInit PROVE TxnInv
  OBVIOUS
<1>1. HistoryTyped
  BY DEF HInit, HistoryTyped
<1>2. NamesApart
  BY InitIsClosed, NoInodeFresh DEF HInit, Init, NamesApart
<1>3. \A p \in Procs : pc[p] \notin Running
  BY DEF HInit, Init, Running
<1>. QED  BY <1>1, <1>2, <1>3 DEF TxnInv

LEMMA NextTxnInv == RefInv /\ TxnInv /\ [HNext]_hvars => TxnInv'
<1>. SUFFICES ASSUME RefInv, TxnInv, [HNext]_hvars PROVE TxnInv'
  OBVIOUS
<1>1. ASSUME NEW p \in Procs, Acting(p), Record(p) PROVE TxnInv'
  <2>1. HistoryTyped' /\ NamesApart'
    BY <1>1, RecordFacts, ActsApart DEF TxnInv
  <2>2. ASSUME NEW q \in Procs, pc'[q] \in Running
        PROVE  disturbed'[q] \/ (Routed(q)' /\ Knows(q)')
    BY <1>1, <2>2, OwnKnows, OthersKnow
  <2>. QED  BY <2>1, <2>2 DEF TxnInv
<1>2. ASSUME UNCHANGED hvars PROVE TxnInv'
  <2>1. HistoryTyped' /\ NamesApart'
    BY <1>2 DEF TxnInv, HistoryTyped, NamesApart, hvars, vars
  <2>2. ASSUME NEW q \in Procs, pc'[q] \in Running
        PROVE  disturbed'[q] \/ (Routed(q)' /\ Knows(q)')
    <3>1. /\ UNCHANGED <<fileVars, store, pc, cmd, reg, ioerrors, seen, disturbed>>
      BY <1>2 DEF hvars, vars, fileVars
    <3>2. SameContents /\ \A n \in Names : FileState(n)' = FileState(n)
      BY <3>1, FilesAlike DEF fileVars, FileState, EntryData
    <3>3. Kept(q) /\ seen[q] \subseteq Names
      BY <3>1, <3>2 DEF Kept, SameContents, StoreGrows, Stored, TxnInv, HistoryTyped
    <3>4. disturbed[q] \/ (Routed(q) /\ Knows(q))
      BY <2>2, <3>1 DEF TxnInv
    <3>5. Knows(q) => Knows(q)'
      BY <3>1, <3>2, <3>3, BystanderKnows DEF fileVars
    <3>. QED  BY <3>1, <3>4, <3>5 DEF Routed, Op
  <2>. QED  BY <2>1, <2>2 DEF TxnInv
<1>3. HNext => (\E p \in Procs : Acting(p) /\ Record(p)) \/ UNCHANGED hvars
  BY DEF HNext, Acting, AllDone, hvars
<1>. QED  BY <1>1, <1>2, <1>3

----------------------------------------------------------------------------
(* The steps that change references are the transactions of RefDb. *)

LEMMA DbFacts ==
  /\ Db!Stored = Stored(store) /\ Db!Commits = Commits(store)
  /\ \A n \in Names : Db!Readable(n) <=> read_file(n) \in Contents
  /\ \A n \in Names : \A c : Db!Free(n, c) <=> read_file(n) = Missing \/ c.force
BY DEF Db!Stored, Db!Commits, Stored, Commits, Db!Readable, Contents, Db!Free

LEMMA DbPut ==
  ASSUME NEW n \in Names, NEW v,
         \A m \in Names : read_file(m)' = IF m = n THEN v ELSE read_file(m)
  PROVE  Db!Put(n, v)
BY DEF Db!Put

LEMMA DbRemove ==
  ASSUME NEW n \in Names,
         \A m \in Names : read_file(m)' = IF m = n THEN Missing ELSE read_file(m)
  PROVE  Db!Remove(n)
BY DEF Db!Remove

LEMMA DbShift ==
  ASSUME NEW old \in Names, NEW new \in Names,
         \A m \in Names : read_file(m)' = Shifted(old, new, m)
  PROVE  Db!Shift(old, new)
<1>1. \A m \in Names : [x \in Names |-> read_file(x)][m] = read_file(m)
  OBVIOUS
<1>. QED  BY <1>1 DEF Db!Shift, Shifted

(* A name that is no link is its own end. *)
LEMMA OwnEnd ==
  ASSUME NEW n \in Names, read_file(n) \notin Names
  PROVE  Db!Final(n) = n
<1>1. n \in Path(n, Names)
  BY DEF Path
<1>. QED  BY <1>1, FinalIsEnd

(* What the rename of a reference file finds, and does. *)
LEMMA CommitTxn ==
  ASSUME NEW p \in Procs, Undisturbed(p), RenameFile(p), Op(p) = "commit"
  PROVE  Db!Txn(cmd[p])
<1>. DEFINE n == reg[p].dest
            v == reg[p].new
<1>1. /\ HEAD \in Names /\ n \in Names /\ Db!Put(n, v)
  BY UndisturbedFacts, RenameFacts, DbPut
<1>2. /\ read_file(HEAD) \in Contents
      /\ v \in Commits(store) /\ store[v].link = reg[p].parent
      /\ \/ reg[p].parent \in HeadValues(p) \cap Commits(store)
         \/ /\ reg[p].parent = None /\ Missing \in HeadValues(p)
            /\ read_file(HEAD) \in Names
      /\ n \in FromHead(p)
      /\ read_file(n) \in Oids \/ (read_file(n) = Missing /\ read_file(HEAD) = n)
  BY DEF Undisturbed, RenameFile, Knows, KnowsValue, KnowsPlace, CommitIsMade, ParentIsTip, Reads
<1>3. read_file(n) \notin Names
  BY <1>2, SortsAreDisjoint
<1>4. Db!Final(HEAD) = n /\ Db!Tip = read_file(n)
  BY <1>1, <1>2, <1>3, FinalIsEnd DEF FromHead, Db!Tip
<1>5. \A x \in HeadValues(p) : Db!Tip = x
  BY TipFound
<1>6. Db!Tip \in Commits(store) \/ (Db!Tip = Missing /\ Db!Final(HEAD) = read_file(HEAD))
  BY <1>2, <1>4, <1>5, SortsAreDisjoint
<1>7. Db!CommitAllowed
  BY <1>1, <1>2, <1>6, DbFacts DEF Db!CommitAllowed
<1>8. reg[p].parent = IF Db!Tip \in Oids THEN Db!Tip ELSE None
  BY <1>2, <1>5, SortsAreDisjoint DEF Commits, Stored
<1>9. Db!CommitEffect
  BY <1>1, <1>2, <1>4, <1>8, DbFacts DEF Db!CommitEffect
<1>. QED  BY <1>7, <1>9 DEF Db!Txn, Db!Allowed, Db!Effect, Op

LEMMA UpdateTxn ==
  ASSUME NEW p \in Procs, Undisturbed(p), RenameFile(p), Op(p) = "update"
  PROVE  Db!Txn(cmd[p])
<1>. DEFINE c == cmd[p]
            n == reg[p].dest
<1>0. RefInv /\ c \in CommandType /\ c.name \in Names /\ pc[p] = "rename"
      /\ Routed(p) /\ Knows(p)
  BY UndisturbedFacts DEF Undisturbed, RenameFile
<1>1. /\ n \in Names /\ reg[p].new = c.arg /\ Db!Put(n, c.arg)
      /\ c.arg \in Stored(store)
  BY <1>0, RenameFacts, DbPut DEF Routed, Knows, KnowsValue
<1>2. CASE n = c.name /\ read_file(c.name) = Missing /\ c.old \notin Oids
  <2>1. Db!Target(c) = n
    BY <1>0, <1>2, OwnEnd, SortsAreDisjoint DEF Db!Target
  <2>2. Db!UpdateAllowed(c)
    BY <1>0, <1>1, <1>2, DbFacts DEF Db!UpdateAllowed, Db!ExpectedValue
  <2>. QED  BY <1>1, <2>1, <2>2 DEF Db!Txn, Db!Allowed, Db!Effect, Op
<1>3. CASE n \in Targets(p) /\ OldIsRead(p)
  <2>1. Db!Target(c) = n
    BY <1>0, <1>3, TargetFound
  <2>2. /\ c.old # Zero
        /\ c.old \in Oids => c.old \in Stored(store) /\ read_file(n) = c.old
        /\ IF c.deref THEN read_file(n) \in Oids
                      ELSE n = c.name /\ read_file(n) \in Contents
    BY <1>3 DEF OldIsRead, Targets, Op
  <2>3. Db!UpdateAllowed(c)
    BY <1>0, <1>1, <2>1, <2>2, DbFacts DEF Db!UpdateAllowed, Db!ExpectedValue
  <2>. QED  BY <1>1, <2>1, <2>3 DEF Db!Txn, Db!Allowed, Db!Effect, Op
<1>. QED  BY <1>0, <1>2, <1>3 DEF Knows, KnowsPlace

LEMMA CreateTxn ==
  ASSUME NEW p \in Procs, Undisturbed(p), RenameFile(p),
         Op(p) \in {"branch", "tag", "atag", "symref"}
  PROVE  Db!Txn(cmd[p])
<1>. DEFINE c == cmd[p]
            v == reg[p].new
<1>0. RefInv /\ c \in CommandType /\ c.name \in Names /\ pc[p] = "rename"
      /\ Routed(p) /\ Knows(p)
  BY UndisturbedFacts DEF Undisturbed, RenameFile
<1>1. /\ reg[p].dest = c.name /\ Db!Put(c.name, v) /\ Db!Free(c.name, c)
  BY <1>0, RenameFacts, DbPut, DbFacts DEF Routed, Knows, KnowsPlace, OverFree
<1>2. \A s \in StartPoints(p) : Db!StartPoint(c) = s
  BY StartPointFound
<1>3. CASE Op(p) = "branch"
  <2>1. PICK s \in StartPoints(p) \cap Stored(store) : v \in TagPath(s) /\ v \in Commits(store)
    BY <1>0, <1>3 DEF Knows, KnowsValue, PeeledStarts
  <2>2. v = Db!Peeled(s)
    BY <1>0, <2>1, PeeledIsEnd DEF Unpeeled, Stored
  <2>3. Db!StartPoint(c) = s /\ Db!StartAllowed(c)
    BY <1>1, <1>2, <2>1, DbFacts DEF Db!StartAllowed
  <2>. QED  BY <1>1, <1>3, <2>2, <2>3 DEF Db!Txn, Db!Allowed, Db!Effect, Op
<1>4. CASE Op(p) = "tag"
  <2>1. v \in StartPoints(p) \cap Stored(store)
    BY <1>0, <1>4 DEF Knows, KnowsValue
  <2>2. Db!StartPoint(c) = v /\ Db!StartAllowed(c)
    BY <1>1, <1>2, <2>1, DbFacts DEF Db!StartAllowed
  <2>. QED  BY <1>1, <1>4, <2>2 DEF Db!Txn, Db!Allowed, Db!Effect, Op
<1>5. CASE Op(p) = "atag"
  <2>1. v \in Unpeeled /\ store[v].link \in StartPoints(p)
    BY <1>0, <1>5 DEF Knows, KnowsValue
  <2>2. store[v].link \in Stored(store)
    BY <1>0, <2>1 DEF RefInv, HistoryIsStored, ClosedStore, Unpeeled, Commits
  <2>3. Db!StartPoint(c) = store[v].link /\ Db!StartAllowed(c)
    BY <1>1, <1>2, <2>1, <2>2, DbFacts DEF Db!StartAllowed
  <2>4. Db!TagEffect(c)
    BY <1>1, <2>1, <2>3, DbFacts DEF Db!TagEffect, Unpeeled
  <2>. QED  BY <1>5, <2>3, <2>4 DEF Db!Txn, Db!Allowed, Db!Effect, Op
<1>6. CASE Op(p) = "symref"
  BY <1>0, <1>1, <1>6 DEF Routed, Db!Txn, Db!Allowed, Db!Effect, Op
<1>. QED  BY <1>3, <1>4, <1>5, <1>6

LEMMA MoveTxn ==
  ASSUME NEW p \in Procs, Undisturbed(p), RenameFile(p), Op(p) = "move"
  PROVE  Db!Txn(cmd[p])
<1>. DEFINE c == cmd[p]
<1>1. /\ reg[p].new = c.arg /\ reg[p].dest = HEAD /\ HEAD \in Names
      /\ read_file(HEAD) = c.name /\ read_file(c.arg) # Missing
      /\ c.arg \in Names /\ Db!Put(HEAD, c.arg)
  <2>1. /\ reg[p].new = c.arg /\ reg[p].dest = HEAD /\ HEAD \in Names
        /\ read_file(HEAD) = c.name /\ read_file(c.arg) # Missing
    BY UndisturbedFacts DEF Undisturbed, RenameFile, Routed, Knows, KnowsPlace
  <2>. QED  BY <2>1, RenameFacts, DbPut, MoveNames DEF Undisturbed
<1>. QED  BY <1>1 DEF Db!Txn, Db!MoveFollowUp, Op

(* What the unlink of one finds, and does. *)
LEMMA UnlinkTxn ==
  ASSUME NEW p \in Procs, Undisturbed(p), UnlinkRef(p), file_exists(reg[p].dest)
  PROVE  Db!Txn(cmd[p])
<1>. DEFINE c == cmd[p]
            n == reg[p].dest
<1>0. /\ RefInv /\ c \in CommandType /\ c.name \in Names /\ n \in Names /\ HEAD \in Names
      /\ pc[p] = "unlink" /\ Routed(p) /\ Knows(p) /\ FilesOK /\ NamesApart
      /\ Unlink(n)
  BY UndisturbedFacts, FilesFact DEF Undisturbed, UnlinkRef, Registers
<1>1. Db!Remove(n)
  BY <1>0, UnlinkReads, DbRemove
<1>2. CASE Op(p) = "delete"
  <2>1. n \in Targets(p) /\ OldIsRead(p)
    BY <1>0, <1>2 DEF Knows, KnowsPlace
  <2>2. Db!Target(c) = n
    BY <1>0, <2>1, TargetFound
  <2>3. /\ c.old \in Oids => c.old \in Stored(store) /\ read_file(n) = c.old
        /\ read_file(n) \in Contents /\ (c.deref => read_file(n) \in Oids)
    BY <2>1 DEF OldIsRead, Targets
  <2>4. Db!DeleteAllowed(c)
    BY <1>0, <2>2, <2>3, DbFacts DEF Db!DeleteAllowed, Db!ExpectedValue
  <2>. QED  BY <1>1, <1>2, <2>2, <2>4 DEF Db!Txn, Db!Allowed, Db!Effect, Op
<1>3. CASE Op(p) = "remove"
  <2>1. /\ n = c.name /\ read_file(n) \in Contents /\ read_file(HEAD) \in Contents
        /\ c.force \/ read_file(HEAD) # c.name
    BY <1>0, <1>3 DEF Knows, KnowsPlace, Routed, Reads
  <2>2. Db!RemoveAllowed(c)
    BY <1>0, <2>1, DbFacts DEF Db!RemoveAllowed
  <2>. QED  BY <1>1, <1>3, <2>1, <2>2 DEF Db!Txn, Db!Allowed, Db!Effect, Op
<1>4. CASE Op(p) = "untag"
  <2>1. n = c.name /\ read_file(n) # Missing
    BY <1>0, <1>4, ExistsRead DEF Routed
  <2>. QED  BY <1>0, <1>1, <1>4, <2>1 DEF Db!Txn, Db!Allowed, Db!Effect, Op
<1>. QED  BY <1>0, <1>2, <1>3, <1>4 DEF Routed, OpsAt

(* The branch is renamed, and renamed back when HEAD could not be written. *)
LEMMA MoveRenameTxn ==
  ASSUME NEW p \in Procs, Undisturbed(p), MoveRename(p), file_exists(cmd[p].name)
  PROVE  Db!Txn(cmd[p])
<1>. DEFINE c == cmd[p]
<1>0. /\ RefInv /\ c.name \in Names /\ c.arg \in Names /\ HEAD \in Names
      /\ pc[p] = "mvRename" /\ Knows(p) /\ FilesOK /\ NamesApart
      /\ Rename(c.name, c.arg) /\ Op(p) = "move"
  BY UndisturbedFacts, FilesFact, MoveFacts DEF Undisturbed, MoveRename
<1>1. Db!Shift(c.name, c.arg)
  BY <1>0, RenameReads, DbShift
<1>2. /\ read_file(HEAD) \in Contents /\ read_file(c.name) # Missing
      /\ read_file(c.arg) = Missing \/ c.force
  BY <1>0, ExistsRead DEF Knows, KnowsPlace, Reads
<1>3. Db!MoveAllowed(c)
  BY <1>0, <1>2, DbFacts DEF Db!MoveAllowed
<1>. QED  BY <1>0, <1>1, <1>3 DEF Db!Txn, Db!Allowed, Db!Effect, Op

LEMMA MoveUndoTxn ==
  ASSUME NEW p \in Procs, Undisturbed(p), MoveUndo(p), file_exists(cmd[p].arg)
  PROVE  Db!Txn(cmd[p])
<1>. DEFINE c == cmd[p]
<1>0. /\ RefInv /\ c.name \in Names /\ c.arg \in Names
      /\ FilesOK /\ NamesApart
      /\ Rename(c.arg, c.name) /\ Op(p) = "move"
  BY UndisturbedFacts, FilesFact, MoveFacts DEF Undisturbed, MoveUndo
<1>1. Db!Shift(c.arg, c.name)
  BY <1>0, RenameReads, DbShift
<1>2. read_file(c.arg) # Missing
  BY <1>0, ExistsRead
<1>. QED  BY <1>0, <1>1, <1>2 DEF Db!Txn, Db!MoveFollowUp, Op

(* Every other step leaves the references as they are. *)
LEMMA OtherSteps ==
  ASSUME RefInv, TxnInv, NEW p \in Procs, Acting(p), disturbed[p] = FALSE, Record(p),
         ~RenameFile(p), ~UnlinkRef(p), ~MoveRename(p), ~MoveUndo(p)
  PROVE  SameContents
<1>0. FilesOK /\ NamesApart /\ reg[p].dest \in Names
  BY FilesFact DEF TxnInv, RefInv, TypeOK, Registers
<1>1. CASE Thinking(p) \/ \E c \in Commands : Start(p, c)
  BY <1>1, ThinkingFiles, FilesAlike DEF Start
<1>2. CASE OpenFile(p)
  BY <1>0, <1>2, OpenTmpReads DEF OpenFile
<1>3. CASE WriteFile(p)
  <2>1. tmp[reg[p].dest] = fd[p] /\ fd[p] \in Inodes
    BY <1>3 DEF TxnInv, WriteFile, Running, Knows, KnowsTmp, RefInv
  <2>. QED  BY <1>0, <1>3, <2>1, WriteReads, NoInodeFresh DEF WriteFile
<1>4. CASE WriteError(p) \/ Crash(p)
  BY <1>0, <1>4, CloseReads DEF WriteError, Crash
<1>5. CASE DiscardTmp(p)
  BY <1>0, <1>5, UnlinkTmpReads DEF DiscardTmp
<1>. QED  BY <1>1, <1>2, <1>3, <1>4, <1>5, StepCases DEF Acting, Filing

LEMMA UndisturbedTxn ==
  ASSUME RefInv, TxnInv, NEW p \in Procs, Acting(p), disturbed[p] = FALSE, Record(p)
  PROVE  SameContents \/ Db!Txn(cmd[p])
<1>1. ASSUME RenameFile(p) \/ UnlinkRef(p) \/ MoveRename(p) \/ MoveUndo(p)
      PROVE  Undisturbed(p)
  BY <1>1 DEF TxnInv, Undisturbed, RenameFile, UnlinkRef, MoveRename, MoveUndo, Running
<1>2. CASE RenameFile(p)
  <2>1. Op(p) \in {"commit", "update", "branch", "tag", "atag", "symref", "move"}
    BY <1>1, <1>2 DEF Undisturbed, RenameFile, Routed, OpsAt
  <2>. QED  BY <1>1, <1>2, <2>1, CommitTxn, UpdateTxn, CreateTxn, MoveTxn
<1>3. CASE UnlinkRef(p)
  BY <1>1, <1>3, UnlinkTxn, FilesAlike DEF UnlinkRef
<1>4. CASE MoveRename(p)
  BY <1>1, <1>4, MoveRenameTxn, FilesAlike DEF MoveRename
<1>5. CASE MoveUndo(p)
  BY <1>1, <1>5, MoveUndoTxn, FilesAlike DEF MoveUndo
<1>. QED  BY <1>2, <1>3, <1>4, <1>5, OtherSteps

----------------------------------------------------------------------------
(* A command that is not disturbed and meets no failed write fails only when *)
(* RefDb refuses it.                                                         *)

LEMMA EndOfHead ==
  ASSUME NEW p \in Procs, NEW x \in FromHead(p), read_file(x) \notin Names
  PROVE  Db!Final(HEAD) = x /\ Db!Tip = read_file(x)
<1>1. HEAD \in Names /\ x \in Names
  BY DEF Names, FromHead, Path
<1>2. Db!Final(HEAD) = x
  BY <1>1, FinalIsEnd DEF FromHead
<1>. QED  BY <1>1, <1>2 DEF Db!Tip

LEMMA HeadOwnEnd ==
  ASSUME read_file(HEAD) \notin Names
  PROVE  Db!Final(HEAD) = HEAD /\ Db!Tip = read_file(HEAD)
<1>1. HEAD \in Names
  BY DEF Names
<1>2. Db!Final(HEAD) = HEAD
  BY <1>1, OwnEnd
<1>. QED  BY <1>1, <1>2 DEF Db!Tip

(* No commit and no start point, when HEAD resolves to something else. *)
LEMMA BadTip ==
  ASSUME NEW c, c.op \in {"commit", "branch", "tag", "atag"},
         c.op # "commit" => c.arg = HEAD /\ Db!Tip \notin Stored(store),
         c.op = "commit" => Db!Tip \notin Commits(store) /\ Db!Tip # Missing
  PROVE  ~Db!Allowed(c)
BY DbFacts DEF Db!Allowed, Db!CommitAllowed, Db!StartAllowed, Db!StartPoint

LEMMA NotStored == Missing \notin Oids /\ Empty \notin Oids /\ Missing # Empty
                   /\ Stored(store) \subseteq Oids /\ Commits(store) \subseteq Oids
                   /\ Missing \notin Contents /\ Empty \notin Contents
                   /\ {Missing, Empty} \cap Names = {}
BY SortsAreDisjoint DEF Stored, Commits, Contents

LEMMA LookupHeadRefused ==
  ASSUME NEW p \in Procs, Undisturbed(p), LookupHead(p), pc'[p] = "fail"
  PROVE  ~Db!Allowed(cmd[p])
<1>. DEFINE v == read_file(HEAD)
<1>0. /\ DOMAIN pc = Procs /\ HEAD \in Names /\ Routed(p) /\ pc[p] = "head"
      /\ Op(p) \in {"commit", "branch", "tag", "atag", "move"}
      /\ Op(p) \in {"branch", "tag", "atag"} => cmd[p].arg = HEAD
  BY UndisturbedFacts DEF LookupHead, Undisturbed, Routed, OpsAt
<1>1. \/ v \in {Missing, Empty}
      \/ v \in Oids /\ Op(p) = "commit" /\ v \notin Commits(store)
  BY <1>0 DEF LookupHead, Hold, HaveTip, Goto
<1>2. Db!Tip = v
  BY <1>1, HeadOwnEnd, SortsAreDisjoint
<1>3. CASE v \in {Missing, Empty} /\ Op(p) \in {"commit", "move"}
  BY <1>0, <1>3, DbFacts, NotStored
  DEF Db!Allowed, Db!CommitAllowed, Db!MoveAllowed, Op
<1>. QED  BY <1>0, <1>1, <1>2, <1>3, BadTip, NotStored DEF Op

LEMMA ResolveHeadRefused ==
  ASSUME NEW p \in Procs, Undisturbed(p), ResolveHead(p), pc'[p] = "fail"
  PROVE  ~Db!Allowed(cmd[p])
<1>. DEFINE v == read_file(reg[p].val)
<1>0. /\ DOMAIN pc = Procs /\ Routed(p) /\ pc[p] = "resolveHead"
      /\ Op(p) \in {"commit", "branch", "tag", "atag"}
      /\ Op(p) \in {"branch", "tag", "atag"} => cmd[p].arg = HEAD
      /\ reg[p].val \in FromHead(p)
  BY UndisturbedFacts DEF ResolveHead, Undisturbed, Routed, OpsAt, Knows, KnowsPath
<1>1. \/ v = Missing /\ Op(p) # "commit"
      \/ v = Empty
      \/ v \in Oids /\ Op(p) = "commit" /\ v \notin Commits(store)
  BY <1>0 DEF ResolveHead, Follow, Hold, HaveTip, Goto, Stay, Dangling, Unreadable
<1>2. Db!Tip = v
  BY <1>0, <1>1, EndOfHead, SortsAreDisjoint
<1>. QED  BY <1>0, <1>1, <1>2, BadTip, NotStored DEF Op

LEMMA PeelRefused ==
  ASSUME NEW p \in Procs, Undisturbed(p), Peel(p), pc'[p] = "fail"
  PROVE  ~Db!Allowed(cmd[p])
<1>0. /\ DOMAIN pc = Procs /\ Routed(p) /\ pc[p] = "peel" /\ Knows(p)
      /\ Op(p) \in {"branch", "tag", "atag"}
  BY UndisturbedFacts DEF Peel, Undisturbed, Routed, OpsAt
<1>1. reg[p].new \notin Stored(store)
  BY <1>0 DEF Peel, Goto, Stay
<1>2. Db!StartPoint(cmd[p]) \notin Stored(store)
  BY <1>0, <1>1, StartPointFound DEF Knows, KnowsValue
<1>. QED  BY <1>0, <1>2, DbFacts DEF Db!Allowed, Db!StartAllowed, Op

(* Once the commit is made, nothing keeps it from HEAD. *)
LEMMA TipRefused ==
  ASSUME NEW p \in Procs, Undisturbed(p),
         LookupTip(p) \/ ResolveTip(p) \/ LookupSummary(p) \/ ResolveSummary(p)
  PROVE  pc'[p] # "fail"
<1>0. DOMAIN pc = Procs /\ Knows(p) /\ HEAD \in Names
  BY UndisturbedFacts DEF Undisturbed
<1>1. \A v \in HeadValues(p) : Db!Tip = v
  BY TipFound
<1>2. CASE LookupTip(p)
  <2>1. read_file(HEAD) \in Contents
    BY <1>0, <1>2 DEF Knows, KnowsValue, CommitIsMade, ParentIsTip, Reads, LookupTip
  <2>. QED  BY <1>0, <1>2, <2>1, NotStored DEF LookupTip, Aim, Goto
<1>3. CASE ResolveTip(p)
  <2>1. reg[p].val \in FromHead(p) /\ (Db!Tip \in Commits(store) \/ Db!Tip = Missing)
    BY <1>0, <1>1, <1>3
    DEF Knows, KnowsPath, KnowsValue, CommitIsMade, ParentIsTip, ResolveTip
  <2>2. ~Unreadable(p)
    BY <2>1, EndOfHead, NotStored DEF Unreadable
  <2>. QED  BY <1>0, <1>3, <2>2 DEF ResolveTip, Follow, Hold, Stay, Aim, Goto
<1>4. CASE LookupSummary(p) \/ ResolveSummary(p)
  <2>1. Db!Tip \in Oids
    BY <1>0, <1>1, <1>4 DEF Knows, KnowsPlace, LookupSummary, ResolveSummary
  <2>2. CASE LookupSummary(p)
    <3>1. read_file(HEAD) \notin {Missing, Empty}
      BY <2>1, HeadOwnEnd, NotStored
    <3>. QED  BY <1>0, <2>2, <3>1 DEF LookupSummary, Exit, Hold, Goto
  <2>3. CASE ResolveSummary(p)
    <3>1. reg[p].val \in FromHead(p)
      BY <1>0, <2>3 DEF Knows, KnowsPath, ResolveSummary
    <3>2. ~Dangling(p) /\ ~Unreadable(p)
      BY <2>1, <3>1, EndOfHead, NotStored DEF Dangling, Unreadable
    <3>. QED  BY <1>0, <2>3, <3>2 DEF ResolveSummary, Exit, Follow, Hold, Goto
  <2>. QED  BY <1>4, <2>2, <2>3
<1>. QED  BY <1>2, <1>3, <1>4

LEMMA LookupRefRefused ==
  ASSUME NEW p \in Procs, Undisturbed(p), LookupRef(p), pc'[p] = "fail"
  PROVE  ~Db!Allowed(cmd[p])
<1>. DEFINE c == cmd[p]
            v == read_file(c.name)
<1>0. /\ DOMAIN pc = Procs /\ c.name \in Names /\ pc[p] = "ref"
      /\ c.op \in {"update", "delete", "remove"}
  BY UndisturbedFacts DEF LookupRef, Undisturbed, Routed, OpsAt, Op
<1>1. \/ c.op = "update" /\ c.arg \notin Stored(store)
      \/ v = Empty
      \/ v = Missing /\ (c.op # "update" \/ c.old \in Oids)
      \/ v \in Contents /\ c.op = "update" /\ c.old = Zero
  BY <1>0 DEF LookupRef, Hold, Aim, Goto
<1>2. v \notin Names => Db!Target(c) = c.name
  BY <1>0, OwnEnd DEF Db!Target
<1>3. CASE c.op = "update"
  BY <1>0, <1>1, <1>2, <1>3, DbFacts, NotStored
  DEF Db!Allowed, Db!UpdateAllowed, Db!ExpectedValue
<1>4. CASE c.op \in {"delete", "remove"}
  BY <1>0, <1>1, <1>2, <1>4, DbFacts, NotStored
  DEF Db!Allowed, Db!DeleteAllowed, Db!RemoveAllowed
<1>. QED  BY <1>0, <1>3, <1>4

LEMMA ResolveRefRefused ==
  ASSUME NEW p \in Procs, Undisturbed(p), ResolveRef(p), pc'[p] = "fail"
  PROVE  ~Db!Allowed(cmd[p])
<1>. DEFINE c == cmd[p]
            x == reg[p].val
<1>0. /\ DOMAIN pc = Procs /\ c.name \in Names /\ pc[p] = "resolveRef"
      /\ c.op \in {"update", "delete"} /\ c.deref
      /\ read_file(c.name) \in Names /\ x \in FromName(p)
  BY UndisturbedFacts
  DEF ResolveRef, Undisturbed, Routed, OpsAt, Op, Knows, KnowsPath
<1>1. read_file(x) \in {Missing, Empty}
  BY <1>0 DEF ResolveRef, Follow, Hold, Goto, Dangling, Unreadable
<1>2. x \in Path(c.name, seen[p]) /\ x \in Names /\ read_file(x) \notin Names
  BY <1>0, <1>1, NotStored DEF FromName, Path
<1>3. Db!Target(c) = x
  BY <1>0, <1>2, FinalIsEnd DEF Db!Target
<1>. QED  BY <1>0, <1>1, <1>2, <1>3, NotStored
     DEF Db!Allowed, Db!UpdateAllowed, Db!DeleteAllowed

LEMMA VerifyOldRefused ==
  ASSUME NEW p \in Procs, Undisturbed(p), VerifyOld(p), pc'[p] = "fail"
  PROVE  ~Db!Allowed(cmd[p])
<1>. DEFINE c == cmd[p]
            x == reg[p].at
<1>0. /\ DOMAIN pc = Procs /\ c \in CommandType /\ pc[p] = "verify" /\ RefInv
      /\ c.op \in {"update", "delete"} /\ x \in Targets(p) /\ reg[p].val = read_file(x)
  BY UndisturbedFacts
  DEF VerifyOld, Undisturbed, Routed, OpsAt, Op, Knows, KnowsPath
<1>1. ~OldMatches(p)
  BY <1>0 DEF VerifyOld, Aim, Goto
<1>2. Db!Target(c) = x /\ x \in Names
  BY <1>0, TargetFound DEF Targets, Undisturbed, HistoryTyped
<1>3. ~Db!ExpectedValue(c)
  BY <1>0, <1>1, <1>2, DbFacts DEF OldMatches, Db!ExpectedValue
<1>. QED  BY <1>0, <1>3 DEF Db!Allowed, Db!UpdateAllowed, Db!DeleteAllowed

LEMMA IsHeadRefused ==
  ASSUME NEW p \in Procs, Undisturbed(p), IsHead(p), pc'[p] = "fail"
  PROVE  ~Db!Allowed(cmd[p])
<1>0. /\ DOMAIN pc = Procs /\ HEAD \in Names /\ pc[p] = "isHead" /\ cmd[p].op = "remove"
  BY UndisturbedFacts DEF IsHead, Undisturbed, Routed, OpsAt, Op
<1>1. \/ read_file(HEAD) \in {Missing, Empty}
      \/ read_file(HEAD) = cmd[p].name /\ ~cmd[p].force
  BY <1>0 DEF IsHead, Aim, Goto
<1>. QED  BY <1>0, <1>1, DbFacts, NotStored DEF Db!Allowed, Db!RemoveAllowed

LEMMA CheckExistsRefused ==
  ASSUME NEW p \in Procs, Undisturbed(p), CheckExists(p), pc'[p] = "fail"
  PROVE  ~Db!Allowed(cmd[p])
<1>. DEFINE c == cmd[p]
            n == reg[p].dest
<1>0. /\ DOMAIN pc = Procs /\ c.name \in Names /\ n \in Names /\ pc[p] = "exists"
      /\ RefInv /\ Routed(p) /\ Knows(p) /\ HEAD \in Names
      /\ c.op \in {"commit", "update", "branch", "tag", "atag", "symref"}
  BY UndisturbedFacts DEF CheckExists, Undisturbed, Routed, OpsAt, Op, Registers
<1>1. read_file(n) # Missing /\ ~c.force
  BY <1>0, ExistsRead DEF CheckExists, Stay, Goto
<1>2. CASE c.op = "commit"
  <2>1. n = read_file(HEAD) /\ Missing \in HeadValues(p)
    BY <1>0, <1>2 DEF Knows, KnowsPlace, Op
  <2>2. Db!Tip = Missing /\ read_file(Db!Final(HEAD)) = Missing
    BY <2>1, TipFound
  <2>. QED  BY <1>0, <1>1, <1>2, <2>1, <2>2, DbFacts, NotStored
       DEF Db!Allowed, Db!CommitAllowed
<1>3. CASE c.op = "update"
  <2>1. read_file(c.name) = Empty
    BY <1>0, <1>1, <1>3 DEF Knows, KnowsPlace, Op
  <2>2. Db!Target(c) = c.name
    BY <1>0, <2>1, OwnEnd, NotStored DEF Db!Target
  <2>. QED  BY <1>0, <1>3, <2>1, <2>2, DbFacts, NotStored
       DEF Db!Allowed, Db!UpdateAllowed
<1>4. CASE c.op \in {"branch", "tag", "atag", "symref"}
  <2>1. n = c.name
    BY <1>0, <1>4 DEF Routed, Op
  <2>. QED  BY <1>0, <1>1, <1>4, <2>1, DbFacts
       DEF Db!Allowed, Db!StartAllowed
<1>. QED  BY <1>0, <1>2, <1>3, <1>4

LEMMA UnlinkRefRefused ==
  ASSUME NEW p \in Procs, Undisturbed(p), UnlinkRef(p), pc'[p] = "fail"
  PROVE  ~Db!Allowed(cmd[p])
<1>. DEFINE c == cmd[p]
            n == reg[p].dest
<1>0. /\ DOMAIN pc = Procs /\ c.name \in Names /\ n \in Names /\ pc[p] = "unlink"
      /\ RefInv /\ Routed(p) /\ Knows(p)
      /\ c.op \in {"delete", "remove", "untag"}
  BY UndisturbedFacts DEF UnlinkRef, Undisturbed, Routed, OpsAt, Op, Registers
<1>1. read_file(n) = Missing
  BY <1>0, ExistsRead DEF UnlinkRef, Exit
<1>2. c.op = "delete" => read_file(n) \in Contents
  BY <1>0 DEF Knows, KnowsPlace, Op, Targets
<1>3. c.op \in {"remove", "untag"} => n = c.name
  BY <1>0 DEF Routed, Op
<1>4. c.op = "remove" => read_file(n) \in Contents
  BY <1>0, <1>3 DEF Knows, KnowsPlace, Op, Reads
<1>5. c.op = "untag" /\ read_file(c.name) = Missing
  BY <1>0, <1>1, <1>2, <1>3, <1>4, NotStored
<1>. QED  BY <1>0, <1>5 DEF Db!Allowed

(* The renames of a move. *)
LEMMA MoveRefused ==
  ASSUME NEW p \in Procs, Undisturbed(p), MoveExists(p) \/ MoveRename(p), pc'[p] = "fail"
  PROVE  ~Db!Allowed(cmd[p])
<1>. DEFINE c == cmd[p]
<1>0. /\ DOMAIN pc = Procs /\ c \in CommandType /\ c.op = "move" /\ RefInv
      /\ HEAD \in Names
  BY UndisturbedFacts DEF MoveExists, MoveRename, Undisturbed, Routed, OpsAt, Op
<1>1. c.name \in Names /\ c.arg \in Names
  BY <1>0 DEF CommandType, WellFormed, Names
<1>2. CASE MoveExists(p)
  <2>1. read_file(c.arg) # Missing /\ ~c.force
    BY <1>0, <1>1, <1>2, ExistsRead DEF MoveExists, Stay, Goto
  <2>. QED  BY <1>0, <1>1, <2>1, DbFacts DEF Db!Allowed, Db!MoveAllowed
<1>3. CASE MoveRename(p)
  <2>1. read_file(c.name) = Missing
    BY <1>0, <1>1, <1>3, ExistsRead DEF MoveRename, Aim, Goto, Exit
  <2>. QED  BY <1>0, <1>1, <2>1 DEF Db!Allowed, Db!MoveAllowed
<1>. QED  BY <1>2, <1>3

(* The other steps do not fail, unless a write has failed before. *)
LEMMA NeverRefused ==
  ASSUME NEW p \in Procs, Undisturbed(p),
         \/ WriteObject(p) \/ OpenFile(p) \/ WriteFile(p) \/ WriteError(p)
         \/ RenameFile(p) \/ DiscardTmp(p) \/ MoveUndo(p)
  PROVE  pc'[p] # "fail" \/ ioerrors' # 0
<1>0. DOMAIN pc = Procs /\ Knows(p) /\ ioerrors \in Nat
  BY UndisturbedFacts DEF Undisturbed, RefInv, TypeOK
<1>1. CASE WriteObject(p) \/ OpenFile(p) \/ WriteFile(p) \/ WriteError(p)
  BY <1>0, <1>1 DEF WriteObject, OpenFile, WriteFile, WriteError, Stay, Goto
<1>2. CASE RenameFile(p)
  BY <1>0, <1>2, RenameFacts DEF RenameFile, Stay, Goto, Exit
<1>3. CASE DiscardTmp(p) \/ MoveUndo(p)
  BY <1>0, <1>3 DEF DiscardTmp, MoveUndo, Knows, KnowsTmp, counters
<1>. QED  BY <1>1, <1>2, <1>3

LEMMA UndisturbedRefused ==
  ASSUME RefInv, TxnInv, NEW p \in Procs, Acting(p), disturbed[p] = FALSE, Record(p),
         pc'[p] = "fail", ioerrors' = 0
  PROVE  ~Db!Allowed(cmd[p])
<1>0. DOMAIN pc = Procs
  BY DEF RefInv, TypeOK
<1>1. Step(p)
  <2>1. ~Crash(p)
    BY <1>0 DEF Crash, Exit
  <2>2. ~\E c \in Commands : Start(p, c)
    <3>. SUFFICES ASSUME NEW c \in Commands, Start(p, c) PROVE FALSE
      OBVIOUS
    <3>1. c.op \in Ops /\ FirstLabel(c) = "fail"
      BY <1>0, CommandsAreTyped DEF Start, CommandType
    <3>. QED  BY <3>1 DEF FirstLabel, Ops
  <2>. QED  BY <2>1, <2>2 DEF Acting
<1>2. pc[p] \in Running
  BY <1>1
  DEF Step, Running, LookupHead, ResolveHead, Peel, WriteObject, LookupTip, ResolveTip,
      LookupSummary, ResolveSummary, LookupRef, ResolveRef, VerifyOld, IsHead,
      CheckExists, OpenFile, WriteFile, WriteError, RenameFile, DiscardTmp, UnlinkRef,
      MoveExists, MoveRename, MoveUndo
<1>3. Undisturbed(p)
  BY <1>2 DEF TxnInv, Undisturbed
<1>. QED
  BY <1>1, <1>3, LookupHeadRefused, ResolveHeadRefused, PeelRefused, TipRefused,
     LookupRefRefused, ResolveRefRefused, VerifyOldRefused, IsHeadRefused,
     CheckExistsRefused, UnlinkRefRefused, MoveRefused, NeverRefused
  DEF Step

----------------------------------------------------------------------------
(* The properties of HSpec *)

LEMMA HistoryIsSpec == HSpec => Spec
<1>1. HInit => Init
  BY DEF HInit
<1>2. [HNext]_hvars => [Next]_vars
  <2>1. HNext => Next
    BY DEF HNext, Next
  <2>. QED  BY <2>1 DEF hvars
<1>. QED  BY <1>1, <1>2, PTL DEF HSpec, Spec

(* Only the process that acts moves. *)
LEMMA WhoActs ==
  ASSUME RefInv, HNext, NEW p \in Procs, Acts(p)
  PROVE  Acting(p) /\ Record(p)
<1>1. PICK q \in Procs : Acting(q) /\ Record(q)
  BY DEF HNext, Acting, AllDone, Acts, vars
<1>2. p = q
  BY <1>1, ActsAlone DEF Acts, Alone
<1>. QED  BY <1>1, <1>2

(* What an undisturbed command has in memory is what the files say now: the  *)
(* links it followed still lead where it got to, the values it compared are  *)
(* still there, the temporary it is to rename is its own.                    *)
THEOREM TxnInvariant == HSpec => []TxnInv
BY HistoryIsSpec, RefInvariant, InitTxnInv, NextTxnInv, PTL DEF HSpec

(* However the commands interleave, die and fail, one that nobody else has   *)
(* disturbed changes the references, when it does, as one transaction of     *)
(* RefDb: allowed at that moment, with the whole effect promised.            *)
THEOREM UndisturbedCommandsAreTransactions == HSpec => UndisturbedIsTransaction
<1>. DEFINE A == \A p \in Procs :
                   Acts(p) /\ RefsChange /\ ~disturbed[p] => Db!Txn(cmd[p])
<1>1. RefInv /\ TxnInv /\ [HNext]_hvars => [A]_hvars
  <2>. SUFFICES ASSUME RefInv, TxnInv, HNext, NEW p \in Procs,
                       Acts(p), RefsChange, ~disturbed[p]
                PROVE  Db!Txn(cmd[p])
    OBVIOUS
  <2>1. Acting(p) /\ Record(p)
    BY WhoActs
  <2>2. disturbed[p] = FALSE
    BY DEF TxnInv, HistoryTyped
  <2>3. SameContents \/ Db!Txn(cmd[p])
    BY <2>1, <2>2, UndisturbedTxn
  <2>. QED  BY <2>3 DEF SameContents, RefsChange
<1>2. HSpec => [][A]_hvars
  <2>. HIDE DEF A
  <2>. QED  BY <1>1, HistoryIsSpec, RefInvariant, TxnInvariant, PTL DEF HSpec
<1>. QED  BY <1>2 DEF UndisturbedIsTransaction

(* And it fails only when RefDb does not allow it at that moment, as long as *)
(* no write has failed: no command is refused for what it has misread.       *)
THEOREM UndisturbedCommandsFailOnlyIfRefused == HSpec => UndisturbedFailsOnlyIfRefused
<1>. DEFINE A == \A p \in Procs :
                   Acts(p) /\ pc'[p] = "fail" /\ ~disturbed[p] /\ ioerrors' = 0
                     => ~Db!Allowed(cmd[p])
<1>1. RefInv /\ TxnInv /\ [HNext]_hvars => [A]_hvars
  <2>. SUFFICES ASSUME RefInv, TxnInv, HNext, NEW p \in Procs,
                       Acts(p), pc'[p] = "fail", ~disturbed[p], ioerrors' = 0
                PROVE  ~Db!Allowed(cmd[p])
    OBVIOUS
  <2>1. Acting(p) /\ Record(p)
    BY WhoActs
  <2>2. disturbed[p] = FALSE
    BY DEF TxnInv, HistoryTyped
  <2>. QED  BY <2>1, <2>2, UndisturbedRefused
<1>2. HSpec => [][A]_hvars
  <2>. HIDE DEF A
  <2>. QED  BY <1>1, HistoryIsSpec, RefInvariant, TxnInvariant, PTL DEF HSpec
<1>. QED  BY <1>2 DEF UndisturbedFailsOnlyIfRefused

----------------------------------------------------------------------------
(* A process on its own is never disturbed, so the repository is RefDb. *)

Calm == \A p \in Procs : disturbed[p] = FALSE

LEMMA InitRefDb == HInit => Db!Init
<1>. SUFFICES ASSUME HInit PROVE Db!Init
  OBVIOUS
<1>1. PICK refs \in InitRefs :
        /\ dir = [n \in Names |-> IF refs[n] = Missing THEN NoInode ELSE FirstInode[n]]
        /\ data = [i \in Inodes |->
                     IF \E n \in Names : FirstInode[n] = i /\ refs[n] # Missing
                     THEN refs[CHOOSE n \in Names : FirstInode[n] = i]
                     ELSE Empty]
  BY DEF HInit, Init
<1>2. ASSUME NEW n \in Names PROVE read_file(n) = refs[n]
  <2>1. CASE refs[n] = Missing
    BY <1>1, <2>1 DEF read_file, file_exists
  <2>2. CASE refs[n] # Missing
    <3>1. FirstInode[n] \in Inodes /\ (CHOOSE m \in Names : FirstInode[m] = FirstInode[n]) = n
      BY InitIsClosed
    <3>2. dir[n] = FirstInode[n] /\ data[FirstInode[n]] = refs[n]
      BY <1>1, <2>2, <3>1
    <3>. QED  BY <3>1, <3>2, NoInodeFresh DEF read_file, file_exists
  <2>. QED  BY <2>1, <2>2
<1>3. [n \in Names |-> read_file(n)] = refs
  BY <1>2, InitIsClosed
<1>. QED  BY <1>3 DEF Db!Init, HInit, Init

LEMMA CalmStep ==
  ASSUME \A p, q \in Procs : p = q, RefInv, TxnInv, Calm, [HNext]_hvars
  PROVE  Calm'
<1>1. CASE UNCHANGED hvars
  BY <1>1 DEF hvars, Calm
<1>2. ASSUME NEW p \in Procs, Acting(p), Record(p) PROVE Calm'
  <2>1. HistoryTyped' /\ ~disturbed'[p]
    BY <1>2, RecordFacts DEF TxnInv, Calm
  <2>. QED  BY <2>1 DEF HistoryTyped, Calm
<1>. QED  BY <1>1, <1>2 DEF HNext, Acting, AllDone, hvars

(* Of all steps, WriteObject alone touches the store. *)
LEMMA StoreSteps ==
  ASSUME NEW p \in Procs, Acting(p), ~WriteObject(p)
  PROVE  store' = store
BY DEF Acting, Start, Crash, Step, LookupHead, ResolveHead, Peel, LookupTip, ResolveTip,
    LookupSummary, ResolveSummary, LookupRef, ResolveRef, VerifyOld, IsHead,
    CheckExists, MoveExists, OpenFile, WriteFile, WriteError, RenameFile, DiscardTmp,
    UnlinkRef, MoveRename, MoveUndo, Quiet

LEMMA StoresObject ==
  ASSUME RefInv, TxnInv, NEW p \in Procs, disturbed[p] = FALSE, WriteObject(p)
  PROVE  store' = store \/ Db!NewObject
<1>. DEFINE object == IF Op(p) = "commit" THEN CommitObject(p) ELSE TagObject(p)
<1>0. /\ Op(p) \in {"commit", "atag"} /\ Consistent(pc[p], cmd[p], reg[p])
      /\ store \in [Oids -> Objects \cup {NoObject}] /\ SameContents
  BY FilesAlike
  DEF WriteObject, TxnInv, Running, Routed, OpsAt, RefInv, TypeOK
<1>1. PICK o \in Oids : store[o] \in {NoObject, object} /\ store' = [store EXCEPT ![o] = object]
  BY DEF WriteObject
<1>2. /\ object \in Objects
      /\ object.type = "tag" => object.link \in Stored(store)
      /\ object.link \in Commits(store) \cup {None} \/ object.type = "tag"
  BY <1>0 DEF WriteObject, Consistent, Op, Objects, Commits, Stored, CommitObject, TagObject
<1>3. CASE store[o] = object
  BY <1>0, <1>1, <1>3
<1>4. CASE store[o] = NoObject
  <2>1. o \in Oids \ Stored(store)
    BY <1>4 DEF Stored
  <2>2. [n \in Names |-> read_file(n)]' = [n \in Names |-> read_file(n)]
    BY <1>0 DEF SameContents
  <2>. HIDE DEF object
  <2>. QED  BY <1>1, <1>2, <2>1, <2>2, DbFacts DEF Db!NewObject
<1>. QED  BY <1>1, <1>3, <1>4

LEMMA NextRefDb ==
  ASSUME RefInv, TxnInv, Calm, [HNext]_hvars
  PROVE  [Db!Next]_<<[n \in Names |-> read_file(n)], store>>
<1>. DEFINE refs == [n \in Names |-> read_file(n)]
<1>1. SameContents => refs' = refs
  BY DEF SameContents
<1>2. CASE UNCHANGED hvars
  BY <1>1, <1>2, FilesAlike DEF hvars, vars, fileVars
<1>3. ASSUME NEW p \in Procs, Acting(p), Record(p)
      PROVE  [Db!Next]_<<refs, store>>
  <2>0. disturbed[p] = FALSE
    BY DEF Calm
  <2>1. CASE RenameFile(p) \/ UnlinkRef(p) \/ MoveRename(p) \/ MoveUndo(p)
    <3>1. store' = store
      BY <2>1 DEF RenameFile, UnlinkRef, MoveRename, MoveUndo
    <3>2. cmd[p] \in Commands
      BY <2>0, <2>1
      DEF RenameFile, UnlinkRef, MoveRename, MoveUndo, TxnInv, Running, Routed
    <3>3. SameContents \/ Db!Txn(cmd[p])
      BY <1>3, <2>0, UndisturbedTxn
    <3>. QED  BY <1>1, <3>1, <3>2, <3>3 DEF Db!Next
  <2>2. CASE ~(RenameFile(p) \/ UnlinkRef(p) \/ MoveRename(p) \/ MoveUndo(p))
    <3>1. SameContents
      BY <1>3, <2>0, <2>2, OtherSteps
    <3>2. store' = store \/ Db!NewObject
      BY <1>3, <2>0, StoreSteps, StoresObject
    <3>. QED  BY <1>1, <3>1, <3>2 DEF Db!Next
  <2>. QED  BY <2>1, <2>2
<1>. QED  BY <1>2, <1>3 DEF HNext, Acting, AllDone, hvars

(* With one process, whatever is killed and whatever write fails, the files  *)
(* and the object database implement RefDb: every behaviour is a sequence of *)
(* its transactions, its new objects, and steps it does not see.             *)
THEOREM OneProcessImplementsRefDb ==
  ASSUME \A p, q \in Procs : p = q
  PROVE  HSpec => ImplementsRefDb
<1>1. HInit => Calm
  BY DEF HInit, Calm
<1>2. RefInv /\ TxnInv /\ Calm /\ [HNext]_hvars => Calm'
  BY CalmStep
<1>3. RefInv /\ TxnInv /\ Calm /\ [HNext]_hvars
        => [Db!Next]_<<[n \in Names |-> read_file(n)], store>>
  BY NextRefDb
<1>. QED
  BY <1>1, <1>2, <1>3, InitRefDb, HistoryIsSpec, RefInvariant, TxnInvariant, PTL
  DEF HSpec, ImplementsRefDb, Db!Spec
=============================================================================
