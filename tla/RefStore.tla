------------------------------ MODULE RefStore ------------------------------
(***************************************************************************)
(* The references of one repository and the qgit commands that change      *)
(* them, run by several processes at once.  There is no lock anywhere:     *)
(* every command is a sequence of file accesses, each one an action here,  *)
(* and the commands of different processes interleave between any two.     *)
(*                                                                         *)
(*   commit   qgit commit            update   qgit update-ref              *)
(*   delete   qgit update-ref -d     branch   qgit branch <name> <start>   *)
(*   tag      qgit tag <name>        atag     qgit tag -a <name>           *)
(*   remove   qgit branch -d         untag    qgit tag -d                  *)
(*   move     qgit_branch_move       symref   qgit_reference_create_symbolic *)
(*                                                                         *)
(* A reference file holds an object id (a direct reference) or the name of *)
(* another reference (a symbolic one).  The object database is abstracted  *)
(* to a map that only grows; a write to it is one step.                    *)
(***************************************************************************)
EXTENDS FileUtils

CONSTANTS HEAD, Branches, Tags,  \* the reference names
          Oids,                  \* object ids
          None, Zero,            \* no argument; the all-zero id on a command line
          NoObject,              \* an id under which nothing is stored
          Commands,              \* the commands processes may run
          InitRefs,              \* reference contents a behaviour may start from
          InitStore,             \* the objects it starts with
          FirstInode,            \* the inode of each file present at the start
          MaxCommands,           \* bound: commands begun, all processes together
          MaxCrashes,            \* bound: processes killed in mid-command
          MaxIOErrors            \* bound: writes that fail

Names == {HEAD} \cup Branches \cup Tags
Objects == [type : {"commit", "tag"}, link : Oids \cup {None}]
Contents == Oids \cup Names
Ops == {"commit", "update", "delete", "branch", "tag", "atag", "remove",
        "untag", "move", "symref"}

(* name: the reference named; arg: the new id, the start point, the new     *)
(* branch or the symbolic target; old: the expected value; deref and force: *)
(* the absence of --no-deref and the presence of -f.                        *)
WellFormed(c) ==
  /\ c.op = "update" => c.arg \in Oids
  /\ c.op \in {"branch", "tag", "atag"} => c.arg \in Oids \cup {HEAD}
  /\ c.op = "move" => c.name \in Branches /\ c.arg \in Branches
  /\ c.op = "symref" => c.arg \in Names
  /\ c.op \in {"commit", "delete", "remove", "untag"} => c.arg = None
  /\ c.force => c.op \in {"branch", "tag", "atag", "remove", "move", "symref"}

CommandType == {c \in [op : Ops, name : Names, arg : Oids \cup Names \cup {None},
                        old : Oids \cup {None, Zero},
                        deref : BOOLEAN, force : BOOLEAN] : WellFormed(c)}

Stored(s) == {o \in Oids : s[o] # NoObject}
Commits(s) == {o \in Stored(s) : s[o].type = "commit"}

(* The parent of a stored commit is a stored commit, the target of a stored *)
(* tag is a stored object.                                                   *)
ClosedStore(s) ==
  \A o \in Stored(s) :
    IF s[o].type = "commit" THEN s[o].link \in Commits(s) \cup {None}
                            ELSE s[o].link \in Stored(s)

ASSUME PathsAreNames == Paths = Names
ASSUME SortsAreDisjoint ==
  /\ Oids \cap Names = {}
  /\ {None, Zero, Missing, Empty} \cap (Oids \cup Names) = {}
  /\ None # Zero /\ Missing # Empty /\ Missing # None
  /\ NoObject \notin Objects
ASSUME CommandsAreTyped == Commands \subseteq CommandType
ASSUME InitIsClosed ==
  /\ InitStore \in [Oids -> Objects \cup {NoObject}]
  /\ ClosedStore(InitStore)
  /\ InitRefs \subseteq [Names -> Stored(InitStore) \cup Names \cup {Missing}]
  /\ FirstInode \in [Names -> Inodes]
  /\ \A m, n \in Names : FirstInode[m] = FirstInode[n] => m = n
ASSUME BoundsAreNaturals ==
  MaxCommands \in Nat /\ MaxCrashes \in Nat /\ MaxIOErrors \in Nat

VARIABLES store,    \* [Oids -> object or NoObject], the object database
          pc,       \* [Procs -> where the command stands]
          cmd,      \* [Procs -> the command being run]
          reg,      \* [Procs -> the values the command holds in memory]
          begun, crashes, ioerrors   \* counters, for the bounds

counters == <<begun, crashes, ioerrors>>
vars == <<dir, tmp, data, fd, store, pc, cmd, reg, begun, crashes, ioerrors>>

(* at and val: the reference in hand and its target as it was read; new: the *)
(* value to be written; parent: the parent of the commit being made; dest:   *)
(* the reference file to be written or unlinked.                             *)
Registers == [at : Names, val : Contents \cup {None},
              new : Contents \cup {None}, parent : Oids \cup {None},
              dest : Names]

Commit == [op |-> "commit", name |-> HEAD, arg |-> None, old |-> None,
           deref |-> TRUE, force |-> FALSE]
Blank == [at |-> HEAD, val |-> None, new |-> None, parent |-> None,
          dest |-> HEAD]

Stopped == {"idle", "ok", "fail", "killed"}
Running == {"head", "resolveHead", "peel", "object", "tip", "resolveTip",
            "summary", "resolveSummary", "ref", "resolveRef", "verify",
            "isHead", "exists", "open", "write", "rename", "unlinkTmp", "unlink",
            "mvExists", "mvRename", "mvUndo"}

TypeOK ==
  /\ FileTypeOK(Contents)
  /\ store \in [Oids -> Objects \cup {NoObject}]
  /\ pc \in [Procs -> Stopped \cup Running]
  /\ cmd \in [Procs -> CommandType]
  /\ reg \in [Procs -> Registers]
  /\ begun \in Nat /\ crashes \in Nat /\ ioerrors \in Nat

Init ==
  /\ \E refs \in InitRefs :
       /\ dir = [n \in Names |-> IF refs[n] = Missing THEN NoInode
                                 ELSE FirstInode[n]]
       /\ data = [i \in Inodes |->
                    IF \E n \in Names : FirstInode[n] = i /\ refs[n] # Missing
                    THEN refs[CHOOSE n \in Names : FirstInode[n] = i]
                    ELSE Empty]
  /\ tmp = [n \in Names |-> NoInode]
  /\ fd = [p \in Procs |-> NoInode]
  /\ store = InitStore
  /\ pc = [p \in Procs |-> "idle"]
  /\ cmd = [p \in Procs |-> Commit]
  /\ reg = [p \in Procs |-> Blank]
  /\ begun = 0 /\ crashes = 0 /\ ioerrors = 0

----------------------------------------------------------------------------
(* How a step of a command ends *)

Op(p) == cmd[p].op
Quiet == UNCHANGED <<fileVars, store, counters>>   \* nothing but memory changes

Goto(p, label) == pc' = [pc EXCEPT ![p] = label] /\ UNCHANGED cmd

(* The process exits, with its status: what it held in memory is gone. *)
Exit(p, status) ==
  /\ pc' = [pc EXCEPT ![p] = status]
  /\ cmd' = [cmd EXCEPT ![p] = Commit]
  /\ reg' = [reg EXCEPT ![p] = Blank]

Die(p) == Exit(p, "fail")

(* Hold the reference n, read as v, and go on. *)
Hold(p, n, v, label) ==
  reg' = [reg EXCEPT ![p].at = n, ![p].val = v] /\ Goto(p, label)

(* Decide that the next file written or unlinked is n, and go on. *)
Aim(p, n, label) == reg' = [reg EXCEPT ![p].dest = n] /\ Goto(p, label)

Stay(p, label) == UNCHANGED reg /\ Goto(p, label)

(* Mutant: the loop looks up the reference in hand, not its target. *)
FollowItself(p) == LET v == read_file(reg[p].at) IN
  v \in Names /\ Hold(p, reg[p].at, v, pc[p])

(* One round of the loop of qgit_reference_resolve: the target is symbolic. *)
Follow(p) == LET v == read_file(reg[p].val) IN
  v \in Names /\ Hold(p, reg[p].val, v, pc[p])

Dangling(p) == read_file(reg[p].val) = Missing   \* ends with ENOENT
Unreadable(p) == read_file(reg[p].val) = Empty   \* ends with BADREFFILE

----------------------------------------------------------------------------
(* A command begins. *)

(* Mutant: a start point given as an id is not looked up. *)
FirstLabelUnchecked(c) ==
  CASE c.op \in {"commit", "move"} -> "head"
    [] c.op \in {"branch", "tag"} -> IF c.arg = HEAD THEN "head" ELSE "exists"
    [] c.op = "atag" -> IF c.arg = HEAD THEN "head" ELSE "object"
    [] c.op \in {"update", "delete", "remove"} -> "ref"
    [] c.op = "untag" -> "unlink"
    [] c.op = "symref" -> "exists"

FirstLabel(c) ==
  CASE c.op \in {"commit", "move"} -> "head"
    [] c.op \in {"branch", "tag", "atag"} ->
         IF c.arg = HEAD THEN "head" ELSE "peel"
    [] c.op \in {"update", "delete", "remove"} -> "ref"
    [] c.op = "untag" -> "unlink"
    [] c.op = "symref" -> "exists"

Start(p, c) ==
  /\ pc[p] \in Stopped
  /\ begun < MaxCommands
  /\ begun' = begun + 1
  /\ cmd' = [cmd EXCEPT ![p] = c]
  /\ pc' = [pc EXCEPT ![p] = FirstLabel(c)]
  /\ reg' = [reg EXCEPT ![p] = [at |-> c.name, val |-> None, new |-> c.arg,
                                parent |-> None, dest |-> c.name]]
  /\ UNCHANGED <<fileVars, store, crashes, ioerrors>>

----------------------------------------------------------------------------
(* HEAD, as the start of commit, branch, tag and move *)

(* HEAD resolved to v: commit looks the parent up and goes on to write the   *)
(* commit; branch and tag have their start point.                            *)
HaveTip(p, v) ==
  \/ /\ Op(p) = "commit"
     /\ v \in Commits(store)
     /\ reg' = [reg EXCEPT ![p].parent = v]
     /\ Goto(p, "object")
  \/ /\ Op(p) = "commit"
     /\ v \notin Commits(store)
     /\ Die(p)
  \/ /\ Op(p) # "commit"
     /\ reg' = [reg EXCEPT ![p].new = v]
     /\ Goto(p, "peel")

LookupHead(p) ==
  /\ pc[p] = "head"
  /\ LET v == read_file(HEAD) IN
       \/ v \in {Missing, Empty} /\ Die(p)
       \/ v \in Contents /\ Op(p) = "move" /\ Hold(p, HEAD, v, "mvExists")
       \/ v \in Names /\ Op(p) # "move" /\ Hold(p, HEAD, v, "resolveHead")
       \/ v \in Oids /\ Op(p) # "move" /\ HaveTip(p, v)
  /\ Quiet

(* An unborn branch, where resolving ends with ENOENT, gives commit no parent. *)
ResolveHead(p) ==
  /\ pc[p] = "resolveHead"
  /\ \/ Follow(p)
     \/ Dangling(p) /\ Op(p) = "commit" /\ Stay(p, "object")
     \/ Dangling(p) /\ Op(p) # "commit" /\ Die(p)
     \/ Unreadable(p) /\ Die(p)
     \/ LET v == read_file(reg[p].val) IN v \in Oids /\ HaveTip(p, v)
  /\ Quiet

(* The start point must be stored; branch peels a tag to the commit under it. *)
Peel(p) ==
  /\ pc[p] = "peel"
  /\ LET o == reg[p].new IN
       \/ o \notin Stored(store) /\ Die(p)
       \/ /\ o \in Stored(store) \ Commits(store)
          /\ Op(p) = "branch"
          /\ reg' = [reg EXCEPT ![p].new = store[o].link]
          /\ Goto(p, "peel")
       \/ o \in Commits(store) /\ Op(p) = "branch" /\ Stay(p, "exists")
       \/ o \in Stored(store) /\ Op(p) = "tag" /\ Stay(p, "exists")
       \/ o \in Stored(store) /\ Op(p) = "atag" /\ Stay(p, "object")
  /\ Quiet

CommitObject(p) == [type |-> "commit", link |-> reg[p].parent]
TagObject(p) == [type |-> "tag", link |-> reg[p].new]

(* The commit, or the tag object, is stored before any reference is written. *)
(* An object is stored under the hash of its contents: a new id, or the id   *)
(* of an identical object stored earlier.                                    *)
WriteObject(p) ==
  /\ pc[p] = "object"
  /\ LET object == IF Op(p) = "commit" THEN CommitObject(p) ELSE TagObject(p) IN
       \E o \in Oids :
         /\ store[o] \in {NoObject, object}
         /\ store' = [store EXCEPT ![o] = object]
         /\ reg' = [reg EXCEPT ![p].new = o]
  /\ Goto(p, IF Op(p) = "commit" THEN "tip" ELSE "exists")
  /\ UNCHANGED <<fileVars, counters>>

----------------------------------------------------------------------------
(* qgit_commit_create updates HEAD, which it looks up and resolves afresh. *)

LookupTip(p) ==
  /\ pc[p] = "tip"
  /\ LET v == read_file(HEAD) IN
       \/ v = Missing /\ Aim(p, HEAD, "exists")
       \/ v = Empty /\ Die(p)
       \/ v \in Oids /\ Aim(p, HEAD, "open")
       \/ /\ v \in Names
          /\ reg' = [reg EXCEPT ![p].at = HEAD, ![p].val = v, ![p].dest = v]
          /\ Goto(p, "resolveTip")
  /\ Quiet

(* On an unborn branch the file created is the one HEAD itself names. *)
ResolveTip(p) ==
  /\ pc[p] = "resolveTip"
  /\ \/ Follow(p)
     \/ Dangling(p) /\ Stay(p, "exists")
     \/ Unreadable(p) /\ Die(p)
     \/ read_file(reg[p].val) \in Oids /\ Aim(p, reg[p].val, "open")
  /\ Quiet

(* The branch is resolved once more for the summary line; by now the commit  *)
(* is in place, and the command can still exit with a failure.               *)
LookupSummary(p) ==
  /\ pc[p] = "summary"
  /\ LET v == read_file(HEAD) IN
       \/ v \in {Missing, Empty} /\ Die(p)
       \/ v \in Oids /\ Exit(p, "ok")
       \/ v \in Names /\ Hold(p, HEAD, v, "resolveSummary")
  /\ Quiet

ResolveSummary(p) ==
  /\ pc[p] = "resolveSummary"
  /\ \/ Follow(p)
     \/ (Dangling(p) \/ Unreadable(p)) /\ Die(p)
     \/ read_file(reg[p].val) \in Oids /\ Exit(p, "ok")
  /\ Quiet

----------------------------------------------------------------------------
(* update-ref, update-ref -d and branch -d look up the reference they name. *)

(* update-ref on a reference that does not exist creates it, unless an old   *)
(* value was asked for; on one that exists, it refuses forty zeros.  The     *)
(* error of an empty file is not recorded in errno, where update-ref looks   *)
(* for ENOENT: what an earlier call left there decides, so either happens.   *)
LookupRef(p) ==
  /\ pc[p] = "ref"
  /\ LET c == cmd[p]
         v == read_file(c.name)
     IN \/ c.op = "update" /\ c.arg \notin Stored(store) /\ Die(p)
        \/ v = Empty /\ Die(p)
        \/ v = Missing /\ (c.op # "update" \/ c.old \in Oids) /\ Die(p)
        \/ /\ v \in {Missing, Empty} /\ c.op = "update" /\ c.old \notin Oids
           /\ c.arg \in Stored(store)
           /\ Aim(p, c.name, "exists")
        \/ v \in Contents /\ c.op = "update" /\ c.old = Zero /\ Die(p)
        \/ v \in Contents /\ c.op = "remove" /\ Hold(p, c.name, v, "isHead")
        \/ /\ v \in Contents /\ c.op \in {"update", "delete"}
           /\ c.op = "update" => c.old # Zero /\ c.arg \in Stored(store)
           /\ Hold(p, c.name, v,
                   IF c.deref /\ v \in Names THEN "resolveRef" ELSE "verify")
  /\ Quiet

ResolveRef(p) ==
  /\ pc[p] = "resolveRef"
  /\ \/ Follow(p)
     \/ (Dangling(p) \/ Unreadable(p)) /\ Die(p)
     \/ LET v == read_file(reg[p].val) IN
          v \in Oids /\ Hold(p, reg[p].val, v, "verify")
  /\ Quiet

(* Mutant: the old value is not compared. *)
OldUnchecked(p) == TRUE

(* The old value is compared with the value read above, not with the file. *)
OldMatches(p) ==
  cmd[p].old \in Oids => cmd[p].old \in Stored(store) /\ reg[p].val = cmd[p].old

VerifyOld(p) ==
  /\ pc[p] = "verify"
  /\ \/ OldMatches(p) /\ Aim(p, reg[p].at, IF Op(p) = "delete" THEN "unlink" ELSE "open")
     \/ ~OldMatches(p) /\ Die(p)
  /\ Quiet

(* Mutant: branch -d does not ask which branch is the current one. *)
IsHeadUnchecked(p) ==
  /\ pc[p] = "isHead"
  /\ Aim(p, cmd[p].name, "unlink")
  /\ Quiet

(* branch -d refuses the branch that HEAD names, unless it is forced. *)
IsHead(p) ==
  /\ pc[p] = "isHead"
  /\ LET v == read_file(HEAD)
         refused == v \in {Missing, Empty} \/ (v = cmd[p].name /\ ~cmd[p].force)
     IN \/ refused /\ Die(p)
        \/ ~refused /\ Aim(p, cmd[p].name, "unlink")
  /\ Quiet

----------------------------------------------------------------------------
(* Writing and removing reference files *)

(* Mutant: -f does not overwrite. *)
CheckExistsUnforced(p) ==
  /\ pc[p] = "exists"
  /\ \/ file_exists(reg[p].dest) /\ Die(p)
     \/ ~file_exists(reg[p].dest) /\ Stay(p, "open")
  /\ Quiet

(* qgit_reference_create_*: the existence check comes before write_file. *)
CheckExists(p) ==
  /\ pc[p] = "exists"
  /\ \/ file_exists(reg[p].dest) /\ ~cmd[p].force /\ Die(p)
     \/ (~file_exists(reg[p].dest) \/ cmd[p].force) /\ Stay(p, "open")
  /\ Quiet

OpenFile(p) ==
  /\ pc[p] = "open"
  /\ OpenTmp(p, reg[p].dest)
  /\ Stay(p, "write")
  /\ UNCHANGED <<store, counters>>

WriteFile(p) ==
  /\ pc[p] = "write"
  /\ WriteAndClose(p, reg[p].new)
  /\ Stay(p, "rename")
  /\ UNCHANGED <<store, counters>>

WriteError(p) ==
  /\ pc[p] = "write"
  /\ ioerrors < MaxIOErrors
  /\ ioerrors' = ioerrors + 1
  /\ CloseAll(p)
  /\ Stay(p, "unlinkTmp")
  /\ UNCHANGED <<store, begun, crashes>>

RenameFile(p) ==
  /\ pc[p] = "rename"
  /\ \/ /\ CanRenameTmp(reg[p].dest)
        /\ RenameTmp(reg[p].dest)
        /\ \/ Op(p) = "commit" /\ Stay(p, "summary")
           \/ Op(p) # "commit" /\ Exit(p, "ok")
     \/ /\ ~CanRenameTmp(reg[p].dest)
        /\ Stay(p, "unlinkTmp")
        /\ UNCHANGED fileVars
  /\ UNCHANGED <<store, counters>>

(* A command that could not write its file fails; a move puts the branch back. *)
DiscardTmp(p) ==
  /\ pc[p] = "unlinkTmp"
  /\ UnlinkTmp(reg[p].dest)
  /\ \/ Op(p) = "move" /\ Stay(p, "mvUndo")
     \/ Op(p) # "move" /\ Die(p)
  /\ UNCHANGED <<store, counters>>

UnlinkRef(p) ==
  /\ pc[p] = "unlink"
  /\ \/ file_exists(reg[p].dest) /\ Unlink(reg[p].dest) /\ Exit(p, "ok")
     \/ ~file_exists(reg[p].dest) /\ Die(p) /\ UNCHANGED fileVars
  /\ UNCHANGED <<store, counters>>

----------------------------------------------------------------------------
(* qgit_branch_move, from cmd.name to cmd.arg *)

MoveExists(p) ==
  /\ pc[p] = "mvExists"
  /\ LET refused == file_exists(cmd[p].arg) /\ ~cmd[p].force IN
       \/ refused /\ Die(p)
       \/ ~refused /\ Stay(p, "mvRename")
  /\ Quiet

(* The branch file is renamed; when HEAD, as it was read, named the branch,  *)
(* HEAD is then written.                                                     *)
MoveRename(p) ==
  /\ pc[p] = "mvRename"
  /\ LET old == cmd[p].name IN
       \/ ~file_exists(old) /\ Die(p) /\ UNCHANGED fileVars
       \/ /\ file_exists(old)
          /\ Rename(old, cmd[p].arg)
          /\ \/ reg[p].val = old /\ Aim(p, HEAD, "open")
             \/ reg[p].val # old /\ Exit(p, "ok")
  /\ UNCHANGED <<store, counters>>

(* HEAD could not be written: the branch is renamed back, the command fails. *)
MoveUndo(p) ==
  /\ pc[p] = "mvUndo"
  /\ \/ file_exists(cmd[p].arg) /\ Rename(cmd[p].arg, cmd[p].name)
     \/ ~file_exists(cmd[p].arg) /\ UNCHANGED fileVars
  /\ Die(p)
  /\ UNCHANGED <<store, counters>>

----------------------------------------------------------------------------

(* A process is killed between two system calls. *)
Crash(p) ==
  /\ pc[p] \in Running
  /\ crashes < MaxCrashes
  /\ crashes' = crashes + 1
  /\ CloseAll(p)
  /\ Exit(p, "killed")
  /\ UNCHANGED <<store, begun, ioerrors>>

(* All the commands there were to run have ended. *)
AllDone == /\ begun = MaxCommands
           /\ \A p \in Procs : pc[p] \in Stopped
           /\ UNCHANGED vars

Step(p) ==
  \/ LookupHead(p) \/ ResolveHead(p) \/ Peel(p) \/ WriteObject(p)
  \/ LookupTip(p) \/ ResolveTip(p) \/ LookupSummary(p) \/ ResolveSummary(p)
  \/ LookupRef(p) \/ ResolveRef(p) \/ VerifyOld(p) \/ IsHead(p)
  \/ CheckExists(p) \/ OpenFile(p) \/ WriteFile(p) \/ WriteError(p)
  \/ RenameFile(p) \/ DiscardTmp(p) \/ UnlinkRef(p)
  \/ MoveExists(p) \/ MoveRename(p) \/ MoveUndo(p)

Next ==
  \/ \E p \in Procs : \/ \E c \in Commands : Start(p, c)
                      \/ Step(p)
                      \/ Crash(p)
  \/ AllDone

Spec == Init /\ [][Next]_vars

(* The operating system runs every process, so no command stops in the       *)
(* middle unless it is killed; nothing obliges a process to begin another.   *)
FairSpec == Spec /\ \A p \in Procs : WF_vars(Step(p))

----------------------------------------------------------------------------
(* Safety *)

(* Every reference that holds an id holds the id of a stored object: an       *)
(* object is written before the first reference to it, under every           *)
(* interleaving, crash and failed write.                                      *)
RefsAreStored ==
  \A n \in Names : read_file(n) \in Oids => read_file(n) \in Stored(store)

(* The parent of every commit is a stored commit and the target of every tag *)
(* is a stored object: history has no holes.                                 *)
HistoryIsStored == ClosedStore(store)

(* A reference file that is empty is always an unfinished write: a process   *)
(* holds it open and is about to write it, unless one was killed or failed.  *)
(* A reader meets an empty reference only while two writers share the        *)
(* temporary file of one reference.                                          *)
EmptyIsUnfinishedWrite ==
  crashes + ioerrors = 0 =>
    \A n \in Names : read_file(n) = Empty =>
      \E p \in Procs : pc[p] = "write" /\ fd[p] = dir[n]

(* A temporary file belongs to a command in progress on its reference; only  *)
(* a killed process leaves one behind.                                       *)
NoDebrisWithoutCrash ==
  crashes = 0 =>
    \A n \in Names : tmp[n] # NoInode =>
      \E p \in Procs : pc[p] \in {"write", "rename", "unlinkTmp"} /\ reg[p].dest = n

----------------------------------------------------------------------------
(* What a command has in memory at each point of its run, which makes the    *)
(* properties above inductive.                                               *)
Consistent(l, c, r) ==
  /\ l \in {"resolveHead", "resolveTip", "resolveRef", "resolveSummary"} =>
       r.val \in Names
  /\ l = "resolveHead" => c.op # "move"
  /\ l \in {"head", "resolveHead"} => r.parent = None
  /\ l \in {"mvExists", "mvRename", "mvUndo"} => c.op = "move"
  /\ l \in {"resolveRef", "verify"} => c.op \in {"update", "delete"}
  /\ l \in {"ref", "head", "mvExists", "mvRename"} => r.new = c.arg
  /\ l \in {"resolveRef", "verify"} /\ c.op = "update" => r.new \in Stored(store)
  /\ l = "peel" => r.new \in Contents
  /\ l = "object" => IF c.op = "commit"
                     THEN r.parent \in Commits(store) \cup {None}
                     ELSE r.new \in Stored(store)
  /\ l \in {"tip", "resolveTip", "exists", "open", "write"} =>
       r.new \in Stored(store) \cup Names

RefInv ==
  /\ TypeOK
  /\ HistoryIsStored
  /\ \A i \in Inodes : data[i] \in Oids => data[i] \in Stored(store)
  /\ \A p \in Procs : Consistent(pc[p], cmd[p], reg[p])
  /\ \A p \in Procs : pc[p] = "write" => fd[p] \in Inodes

(* An inode with a name that is empty is open in a process about to write it. *)
UnwrittenIsOpen(entry) ==
  crashes + ioerrors = 0 =>
    \A n \in Names : entry[n] # NoInode /\ data[entry[n]] = Empty =>
      \E p \in Procs : pc[p] = "write" /\ fd[p] = entry[n]

TmpInv == UnwrittenIsOpen(dir) /\ UnwrittenIsOpen(tmp) /\ NoDebrisWithoutCrash

----------------------------------------------------------------------------
(* Every command ends.  The loop that resolves symbolic references has no    *)
(* bound, so this needs references that form no cycle.                       *)
CommandsEnd == \A p \in Procs : pc[p] \in Running ~> pc[p] \in Stopped
=============================================================================
