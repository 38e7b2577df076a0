----------------------------- MODULE RefHistory -----------------------------
(***************************************************************************)
(* RefStore with two history variables that record interference: which     *)
(* reference files a command has accessed so far, and whether another      *)
(* process has changed one of them since.  They change nothing in the      *)
(* behaviours of RefStore; the properties use them to say exactly when a   *)
(* command is the atomic transaction of RefDb.                             *)
(***************************************************************************)
EXTENDS RefStore

ASSUME HeadIsNoBranch == HEAD \notin Branches
ASSUME FinitelyMany == IsFiniteSet(Names) /\ IsFiniteSet(Oids)

VARIABLES seen,      \* [Procs -> the reference files accessed by its command]
          disturbed  \* [Procs -> another process has changed one of them]

hvars == <<vars, seen, disturbed>>

(* The reference files the next step of p looks at or changes. *)
Accessed(p) ==
  CASE pc[p] \in {"head", "tip", "summary", "isHead"} -> {HEAD}
    [] pc[p] \in {"resolveHead", "resolveTip", "resolveRef", "resolveSummary"} ->
         {reg[p].val}
    [] pc[p] = "ref" -> {cmd[p].name}
    [] pc[p] \in {"exists", "open", "write", "rename", "unlinkTmp",
                 "unlink"} -> {reg[p].dest}
    [] pc[p] = "mvExists" -> {cmd[p].arg}
    [] pc[p] \in {"mvRename", "mvUndo"} -> {cmd[p].name, cmd[p].arg}
    [] OTHER -> {}

EntryData(e) == IF e = NoInode THEN Missing ELSE data[e]
FileState(n) == <<dir[n], tmp[n], EntryData(dir[n]), EntryData(tmp[n])>>
Changed == {n \in Names : FileState(n)' # FileState(n)}

Record(p) ==
  /\ seen' = [seen EXCEPT ![p] =
                IF pc'[p] \in Stopped THEN {} ELSE @ \cup Accessed(p)]
  /\ disturbed' = [q \in Procs |->
                     IF q = p THEN pc'[p] \in Running /\ disturbed[p]
                     ELSE disturbed[q] \/ Changed \cap seen[q] # {}]

HInit == /\ Init
         /\ seen = [p \in Procs |-> {}]
         /\ disturbed = [p \in Procs |-> FALSE]

HNext ==
  \/ \E p \in Procs : /\ \/ \E c \in Commands : Start(p, c)
                         \/ Step(p)
                         \/ Crash(p)
                      /\ Record(p)
  \/ AllDone /\ UNCHANGED <<seen, disturbed>>

HSpec == HInit /\ [][HNext]_hvars

----------------------------------------------------------------------------

Db == INSTANCE RefDb WITH refs <- [n \in Names |-> read_file(n)]

(* With no other process at work, the repository implements RefDb, whatever  *)
(* is killed or fails on the way.                                            *)
ImplementsRefDb == Db!Spec

RefsChange == \E n \in Names : read_file(n)' # read_file(n)
Acts(p) == pc'[p] # pc[p]

(* With several processes: a command whose files nobody else has changed     *)
(* since it looked at them takes effect as one transaction, at the moment of *)
(* its rename or unlink, however the other commands interleave.              *)
UndisturbedIsTransaction ==
  [][\A p \in Procs :
       Acts(p) /\ RefsChange /\ ~disturbed[p] => Db!Txn(cmd[p])]_hvars

(* And such a command fails only when it had to: its condition did not hold. *)
UndisturbedFailsOnlyIfRefused ==
  [][\A p \in Procs :
       Acts(p) /\ pc'[p] = "fail" /\ ~disturbed[p] /\ ioerrors' = 0
         => ~Db!Allowed(cmd[p])]_hvars
----------------------------------------------------------------------------
(* What an undisturbed command knows of the files, at each place of its run: *)
(* the invariant behind the properties above.                                *)

(* The names on the way from n, as far as it leads through known files. *)
Path(n, known) ==
  {x \in Names : \A S \in SUBSET Names :
     n \in S /\ (\A y \in S \cap known : read_file(y) \in Names => read_file(y) \in S)
       => x \in S}

(* The objects on the way from o through tags. *)
Unpeeled == Stored(store) \ Commits(store)
TagPath(o) ==
  {x \in Oids : \A S \in SUBSET Oids :
     o \in S /\ (\A y \in S \cap Unpeeled : store[y].link \in S) => x \in S}

FromHead(p) == Path(HEAD, seen[p])
FromName(p) == Path(cmd[p].name, seen[p])

Reads(p, n) == n \in seen[p] /\ read_file(n) \in Contents

(* What HEAD resolves to, and the start point that is asked for. *)
HeadValues(p) ==
  {read_file(x) : x \in {x \in FromHead(p) \cap seen[p] : read_file(x) \notin Names}}
StartPoints(p) == IF cmd[p].arg = HEAD THEN HeadValues(p) ELSE {cmd[p].arg}
PeeledStarts(p) == UNION {TagPath(s) : s \in StartPoints(p) \cap Stored(store)}

(* The reference update-ref is to change. *)
Targets(p) ==
  {x \in seen[p] : /\ read_file(x) \in Contents
                   /\ IF cmd[p].deref THEN x \in FromName(p) /\ read_file(x) \in Oids
                                      ELSE x = cmd[p].name}

ParentIsTip(p) ==
  /\ Reads(p, HEAD)
  /\ \/ reg[p].parent \in HeadValues(p) \cap Commits(store)
     \/ /\ reg[p].parent = None /\ Missing \in HeadValues(p)
        /\ read_file(HEAD) \in Names

CommitIsMade(p) ==
  /\ ParentIsTip(p)
  /\ reg[p].new \in Commits(store)
  /\ store[reg[p].new].link = reg[p].parent

OldIsRead(p) ==
  /\ cmd[p].op = "update" => cmd[p].old # Zero
  /\ cmd[p].old \in Oids =>
       cmd[p].old \in Stored(store) /\ read_file(reg[p].dest) = cmd[p].old

OverFree(p) ==
  reg[p].dest \in seen[p] /\ (read_file(reg[p].dest) = Missing \/ cmd[p].force)

(* How far names have been followed. *)
KnowsPath(p) ==
  /\ pc[p] \in {"resolveHead", "resolveTip", "resolveSummary"} =>
       /\ HEAD \in seen[p] /\ read_file(HEAD) \in Names
       /\ reg[p].val \in FromHead(p)
  /\ pc[p] = "resolveRef" =>
       /\ cmd[p].deref
       /\ cmd[p].name \in seen[p] /\ read_file(cmd[p].name) \in Names
       /\ reg[p].val \in FromName(p)
  /\ pc[p] \in {"resolveRef", "verify"} /\ Op(p) = "update" => cmd[p].old # Zero
  /\ pc[p] = "verify" => reg[p].at \in Targets(p) /\ reg[p].val = read_file(reg[p].at)
  /\ pc[p] = "isHead" => Reads(p, cmd[p].name)

(* What is to be written. *)
KnowsValue(p) ==
  /\ pc[p] = "peel" =>
       \/ reg[p].new \in StartPoints(p) \cap Oids
       \/ Op(p) = "branch" /\ reg[p].new \in PeeledStarts(p) \cap Stored(store)
  /\ pc[p] = "object" =>
       /\ Op(p) = "commit" => ParentIsTip(p)
       /\ Op(p) = "atag" => reg[p].new \in StartPoints(p) \cap Stored(store)
  /\ pc[p] \in {"tip", "resolveTip"} => CommitIsMade(p)
  /\ pc[p] \in {"exists", "open", "write", "rename"} =>
       /\ Op(p) = "commit" => CommitIsMade(p)
       /\ Op(p) = "update" => cmd[p].arg \in Stored(store)
       /\ Op(p) = "branch" => reg[p].new \in PeeledStarts(p) \cap Commits(store)
       /\ Op(p) = "tag" => reg[p].new \in StartPoints(p) \cap Stored(store)
       /\ Op(p) = "atag" => /\ reg[p].new \in Unpeeled
                            /\ store[reg[p].new].link \in StartPoints(p)

(* Which file it goes to, and what that holds before. *)
KnowsPlace(p) ==
  /\ pc[p] = "resolveTip" => reg[p].dest = read_file(HEAD)
  /\ pc[p] = "exists" =>
       /\ Op(p) = "commit" => reg[p].dest = read_file(HEAD) /\ Missing \in HeadValues(p)
       /\ Op(p) = "update" =>
            /\ reg[p].dest = cmd[p].name /\ cmd[p].name \in seen[p]
            /\ read_file(cmd[p].name) \in {Missing, Empty} /\ cmd[p].old \notin Oids
  /\ pc[p] \in {"open", "write", "rename"} =>
       /\ Op(p) = "commit" =>
            /\ reg[p].dest \in FromHead(p) \cap seen[p]
            /\ \/ read_file(reg[p].dest) \in Oids
               \/ read_file(reg[p].dest) = Missing /\ read_file(HEAD) = reg[p].dest
       /\ Op(p) = "update" =>
            \/ /\ reg[p].dest = cmd[p].name /\ cmd[p].name \in seen[p]
               /\ read_file(cmd[p].name) = Missing /\ cmd[p].old \notin Oids
            \/ reg[p].dest \in Targets(p) /\ OldIsRead(p)
       /\ Op(p) \in {"branch", "tag", "atag", "symref"} => OverFree(p)
       /\ Op(p) = "move" =>
            /\ reg[p].dest = HEAD /\ {HEAD, cmd[p].arg} \subseteq seen[p]
            /\ read_file(HEAD) = cmd[p].name /\ read_file(cmd[p].arg) # Missing
  /\ pc[p] = "unlink" =>
       /\ Op(p) = "delete" => reg[p].dest \in Targets(p) /\ OldIsRead(p)
       /\ Op(p) = "remove" =>
            /\ Reads(p, cmd[p].name) /\ Reads(p, HEAD)
            /\ cmd[p].force \/ read_file(HEAD) # cmd[p].name
  /\ pc[p] \in {"mvExists", "mvRename"} => Reads(p, HEAD) /\ reg[p].val = read_file(HEAD)
  /\ pc[p] = "mvRename" =>
       cmd[p].arg \in seen[p] /\ (read_file(cmd[p].arg) = Missing \/ cmd[p].force)
  /\ pc[p] \in {"summary", "resolveSummary"} => HeadValues(p) \cap Oids # {}

(* The temporary is the command's own, and holds what was written. *)
KnowsTmp(p) ==
  /\ pc[p] = "write" => reg[p].dest \in seen[p] /\ tmp[reg[p].dest] = fd[p]
  /\ pc[p] = "rename" =>
       /\ reg[p].dest \in seen[p] /\ tmp[reg[p].dest] # NoInode
       /\ data[tmp[reg[p].dest]] = reg[p].new
  /\ pc[p] \in {"unlinkTmp", "mvUndo"} => ioerrors > 0

Knows(p) == KnowsPath(p) /\ KnowsValue(p) /\ KnowsPlace(p) /\ KnowsTmp(p)

(* The commands that come to a place. *)
OpsAt(l) ==
  CASE l = "head" -> {"commit", "branch", "tag", "atag", "move"}
    [] l = "resolveHead" -> {"commit", "branch", "tag", "atag"}
    [] l = "peel" -> {"branch", "tag", "atag"}
    [] l = "object" -> {"commit", "atag"}
    [] l \in {"tip", "resolveTip", "summary", "resolveSummary"} -> {"commit"}
    [] l = "ref" -> {"update", "delete", "remove"}
    [] l \in {"resolveRef", "verify"} -> {"update", "delete"}
    [] l = "isHead" -> {"remove"}
    [] l = "exists" -> {"commit", "update", "branch", "tag", "atag", "symref"}
    [] l \in {"open", "write", "rename", "unlinkTmp"} ->
         {"commit", "update", "branch", "tag", "atag", "symref", "move"}
    [] l = "unlink" -> {"delete", "remove", "untag"}
    [] l \in {"mvExists", "mvRename", "mvUndo"} -> {"move"}

Routed(p) ==
  /\ cmd[p] \in Commands
  /\ Op(p) \in OpsAt(pc[p])
  /\ pc[p] \in {"head", "resolveHead"} /\ Op(p) \in {"branch", "tag", "atag"} =>
       cmd[p].arg = HEAD
  /\ Op(p) \in {"update", "symref", "move"} => reg[p].new = cmd[p].arg
  /\ Op(p) \in {"branch", "tag", "atag", "symref", "remove", "untag"} =>
       reg[p].dest = cmd[p].name

(* No inode has two names. *)
NamesApart ==
  \A m, n \in Names :
    /\ dir[m] = dir[n] /\ dir[m] # NoInode => m = n
    /\ tmp[m] = tmp[n] /\ tmp[m] # NoInode => m = n
    /\ dir[m] = tmp[n] => dir[m] = NoInode

HistoryTyped == seen \in [Procs -> SUBSET Names] /\ disturbed \in [Procs -> BOOLEAN]

TxnInv ==
  /\ HistoryTyped
  /\ NamesApart
  /\ \A p \in Procs : pc[p] \in Running => disturbed[p] \/ (Routed(p) /\ Knows(p))
=============================================================================
