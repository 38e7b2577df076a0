------------------------------ MODULE RepoSetup ------------------------------
(***************************************************************************)
(* Making a repository (src/src/libqgit/repo, qgit init) and changing a    *)
(* configuration (qgit config), by processes that share a file system.     *)
(*                                                                         *)
(* A path is the sequence of its names.  The directories are a set of      *)
(* paths; the files are those of FileUtils: the two configurations are     *)
(* replaced through "<path>.lock", HEAD and the description are created in *)
(* place.  Objects, references and the index are left to other modules.    *)
(***************************************************************************)
EXTENDS IniFile, FileUtils

CONSTANTS Names,         \* of files and directories: a path is a sequence of them
          Work,          \* the work directory
          Structure,     \* dirs: the directories below Repo, in order
          InPlace,       \* HEAD and the description, in order
          CONFIG, GLOBAL, \* the configuration of the repository, ~/.qgitconfig
          Initial,       \* [InPlace -> what init writes there]
          DefaultConfig, \* what init writes to CONFIG, parsed
          FillsPages(_), \* the size of such contents is a multiple of the page size
          Changes,       \* what qgit config may be asked: [op, file, sec, key, val]
          FirstFiles,    \* the files there may be at first: [Paths -> contents or Missing]
          FirstDirs,     \* the directories there may be at first
          MaxCommands,   \* bound: commands begun
          MaxTroubles    \* bound: system calls that fail and processes killed

VARIABLES dirs,     \* directories that exist, the root among them
          proc,     \* [Procs -> the command under way]
          commands, troubles,
          before    \* [Procs -> directories and files at the start, <<>> once
                    \*  another process did a step or a clean-up failed]

setupVars == <<fileVars, dirs, proc, commands, troubles, before>>

Repo == Append(Work, ".qgit")
Lock(f) == Append(f, "lock")

Above(d) == {SubSeq(d, 1, i) : i \in 0..Len(d)}   \* d and the directories above
IsTree(D) == \A d \in D : Above(d) \subseteq D

(* The directories there may ever be. *)
Places ==
  (UNION FirstDirs) \cup (UNION {Above(d) : d \in Range(Structure) \cup {Repo}})

ASSUME NamesOfOurOwn == {".qgit", "lock"} \subseteq Names

ASSUME WorkIsBelowTheRoot == Work \in Seq(Names) /\ Work # <<>>

ASSUME StructureIsBelowRepo ==
  /\ Structure \in Seq(Seq(Names))
  /\ \A d \in Range(Structure) : IsStrictPrefix(Repo, d)

(* The files looked at are none of the directories. *)
ASSUME FilesAreNoDirectories ==
  /\ Paths \subseteq Seq(Names) /\ <<>> \notin Paths
  /\ \A f \in Paths : {f, Lock(f)} \cap Places = {} /\ Lock(f) \notin Paths

ASSUME EachFileIsMadeOnce ==
  /\ CONFIG \in Paths
  /\ InPlace \in Seq(Paths \ {CONFIG}) /\ IsInjective(InPlace)

ASSUME ChangesAreOfFiles ==
  \A c \in Changes :
    /\ c.op \in {"set", "unset"} /\ c.file \in {CONFIG, GLOBAL} /\ GLOBAL \in Paths
    /\ c.sec \in Text /\ c.key \in Text /\ c.val \in Text

(* What is in a file: nothing, after an fopen, or lines. *)
Contents == Seq(Lines) \cup {Empty}

ASSUME ContentsAreLines ==
  /\ {Empty, Missing} \cap Seq(Lines) = {}
  /\ \A files \in FirstFiles : \A f \in Paths : files[f] \in Contents \cup {Missing}
  /\ \A f \in Range(InPlace) : Initial[f] \in Seq(Lines)
  /\ IsIni(DefaultConfig)

(* At first there is a root, and no repository in another. *)
ASSUME FirstIsATree ==
  /\ \A D \in FirstDirs : D \subseteq Seq(Names) /\ <<>> \in D /\ IsTree(D)
  /\ \A d \in Places : IsStrictPrefix(Repo, d) => Last(d) # ".qgit"

ASSUME FirstFilesFit ==
  \A files \in FirstFiles :
    \E place \in [{f \in Paths : files[f] # Missing} -> Inodes] : IsInjective(place)

(* What there is at a directory and below, lock files under a name of their  *)
(* own.                                                                      *)
There(d) ==
  {x \in dirs \cup {f \in Paths : file_exists(f)} \cup {Lock(f) : f \in {f \in Paths : tmp[f] # NoInode}} :
     IsPrefix(d, x)}

Idle == [pc |-> "idle", op |-> "none", change |-> <<>>, mk |-> <<>>, again |-> FALSE,
         then |-> "idle", next |-> 1, work_created |-> FALSE, repodir_created |-> FALSE,
         ini |-> <<>>, target |-> <<>>, todo |-> {}, cut |-> FALSE]

File(p) == IF proc[p].op = "init" THEN CONFIG ELSE proc[p].change.file

(* A step of the command: where it goes on, with what else it remembers. *)
At(p, pc) == proc[p].pc = pc
Become(p, s) ==
  /\ proc' = [proc EXCEPT ![p] = s]
  /\ before' = [q \in Procs |-> IF q = p THEN before[q] ELSE <<>>]
  /\ UNCHANGED commands
Goto(p, pc) == Become(p, [proc[p] EXCEPT !.pc = pc])
Fail(p) == Goto(p, IF proc[p].op = "init" THEN "rollback" ELSE "failed")

NoFault == UNCHANGED troubles
Fault == troubles < MaxTroubles /\ troubles' = troubles + 1
OnlyReads == UNCHANGED <<fileVars, dirs>>

(* Start of a command, with the files as they are. *)
Begin(p, s) ==
  /\ At(p, "idle")
  /\ commands < MaxCommands
  /\ proc' = [proc EXCEPT ![p] = s]
  /\ commands' = commands + 1
  /\ before' = [q \in Procs |-> IF q # p THEN <<>>
                                 ELSE [dirs |-> dirs,
                                       files |-> [f \in {f \in Paths : file_exists(f)} |-> read_file(f)]]]
  /\ UNCHANGED <<fileVars, dirs, troubles>>

----------------------------------------------------------------------------
(* mkdirp, one action per mkdir(2): a stack of the directories to make; once *)
(* one that was missing above has been made, the rest is made by a plain     *)
(* mkdir, for which it is an error that the directory is there by then.      *)

Mkdirp(p, d, then) ==
  Become(p, [proc[p] EXCEPT !.pc = "mkdir", !.mk = <<d>>, !.again = FALSE, !.then = then])

Made(p) ==
  LET s == proc[p] IN
  IF Len(s.mk) > 1 THEN Become(p, [s EXCEPT !.mk = Front(@), !.again = TRUE])
  ELSE Become(p, [s EXCEPT !.pc = s.then, !.mk = <<>>, !.again = FALSE,
                           !.next = IF s.mk[1] \in Range(Structure) THEN @ + 1 ELSE @,
                           !.work_created = @ \/ s.mk = <<Work>>,
                           !.repodir_created = @ \/ s.mk = <<Repo>>])

Mkdir(p) ==
  LET d == Last(proc[p].mk) IN
  /\ At(p, "mkdir")
  /\ UNCHANGED fileVars
  /\ \/ /\ d \in dirs
        /\ IF proc[p].again THEN Fail(p) ELSE Made(p)
        /\ NoFault /\ UNCHANGED dirs
     \/ /\ d \notin dirs /\ Front(d) \notin dirs
        /\ IF proc[p].again THEN Fail(p) ELSE Become(p, [proc[p] EXCEPT !.mk = Append(@, Front(d))])
        /\ NoFault /\ UNCHANGED dirs
     \/ /\ d \notin dirs /\ Front(d) \in dirs
        /\ \/ dirs' = dirs \cup {d} /\ Made(p) /\ NoFault
           \/ UNCHANGED dirs /\ Fail(p) /\ Fault

----------------------------------------------------------------------------
(* iniparse_writeto, one action per system call *)

FopenLock(p) ==
  /\ At(p, "lock")
  /\ UNCHANGED dirs
  /\ \/ Front(File(p)) \in dirs /\ OpenTmp(p, File(p)) /\ Goto(p, "write") /\ NoFault
     \/ Front(File(p)) \notin dirs /\ UNCHANGED fileVars /\ Goto(p, "unlink") /\ NoFault
     \/ Front(File(p)) \in dirs /\ UNCHANGED fileVars /\ Goto(p, "unlink") /\ Fault

(* Another process may have written into the same lock file: what it wrote   *)
(* beyond the new lines stays.  Whether fprintf and fclose could write goes  *)
(* unnoticed.                                                                *)
Over(lines, old) == IF old = Empty THEN lines ELSE lines \o SubSeq(old, Len(lines) + 1, Len(old))

FprintLock(p) ==
  /\ At(p, "write")
  /\ UNCHANGED dirs
  /\ \/ /\ WriteAndClose(p, Over(iniparse_write(proc[p].ini), data[fd[p]]))
        /\ Become(p, [proc[p] EXCEPT !.pc = "rename", !.ini = <<>>]) /\ NoFault
     \/ /\ WriteAndClose(p, Empty)
        /\ Become(p, [proc[p] EXCEPT !.pc = "rename", !.ini = <<>>, !.cut = TRUE]) /\ Fault

RenameLock(p) ==
  /\ At(p, "rename")
  /\ UNCHANGED dirs
  /\ \/ /\ CanRenameTmp(File(p)) /\ RenameTmp(File(p)) /\ NoFault
        /\ Goto(p, IF proc[p].op = "init" THEN "files" ELSE "done")
     \/ ~CanRenameTmp(File(p)) /\ UNCHANGED fileVars /\ NoFault /\ Goto(p, "unlock")
     \/ CanRenameTmp(File(p)) /\ UNCHANGED fileVars /\ Fault /\ Goto(p, "unlock")

UnlinkLock(p) ==
  /\ At(p, "unlock") /\ UnlinkTmp(File(p)) /\ UNCHANGED dirs /\ NoFault
  /\ Goto(p, "unlink")

(* After a failure create_config unlinks the configuration itself. *)
UnlinkConfig(p) ==
  /\ At(p, "unlink")
  /\ IF proc[p].op = "init" /\ file_exists(CONFIG) THEN Unlink(CONFIG) ELSE UNCHANGED fileVars
  /\ UNCHANGED dirs /\ NoFault /\ Fail(p)

----------------------------------------------------------------------------
(* qgit init *)

StartInit(p) == Begin(p, [Idle EXCEPT !.pc = "path", !.op = "init"])

CheckPath(p) ==
  /\ At(p, "path") /\ OnlyReads /\ NoFault
  /\ IF Work \in dirs THEN Goto(p, "repodir") ELSE Mkdirp(p, Work, "repodir")

(* Mutant: the directory is taken to be new whether it was there or not. *)
CheckRepodirUnasked(p) ==
  /\ At(p, "repodir") /\ OnlyReads /\ NoFault
  /\ Mkdirp(p, Repo, "dirs")

CheckRepodir(p) ==
  /\ At(p, "repodir") /\ OnlyReads /\ NoFault
  /\ IF Repo \in dirs THEN Goto(p, "dirs") ELSE Mkdirp(p, Repo, "dirs")

(* create_structure *)
CreateStructure(p) ==
  LET s == proc[p] IN
  /\ At(p, "dirs") /\ OnlyReads /\ NoFault
  /\ IF s.next > Len(Structure) THEN Become(p, [s EXCEPT !.pc = "config", !.next = 1])
     ELSE IF Structure[s.next] \in dirs THEN Become(p, [s EXCEPT !.next = @ + 1])
     ELSE Mkdirp(p, Structure[s.next], "dirs")

CreateConfig(p) ==
  /\ At(p, "config") /\ OnlyReads /\ NoFault
  /\ IF file_exists(CONFIG) THEN Goto(p, "files")
     ELSE Become(p, [proc[p] EXCEPT !.pc = "lock", !.ini = DefaultConfig])

(* Mutant: HEAD and the description are written again. *)
CreateFilesAgain(p) ==
  LET s == proc[p] IN
  /\ At(p, "files") /\ OnlyReads /\ NoFault
  /\ Become(p, IF s.next > Len(InPlace) THEN [s EXCEPT !.pc = "open"]
               ELSE [s EXCEPT !.pc = "create"])

(* create_head, create_description *)
CreateFiles(p) ==
  LET s == proc[p] IN
  /\ At(p, "files") /\ OnlyReads /\ NoFault
  /\ Become(p, IF s.next > Len(InPlace) THEN [s EXCEPT !.pc = "open"]
               ELSE IF file_exists(InPlace[s.next]) THEN [s EXCEPT !.next = @ + 1]
               ELSE [s EXCEPT !.pc = "create"])

(* fopen(f, "w") of the published file *)
FopenInPlace(p) ==
  LET f == InPlace[proc[p].next] IN
  /\ At(p, "create") /\ UNCHANGED <<dirs, tmp>>
  /\ \/ /\ Front(f) \in dirs
        /\ \E i \in IF file_exists(f) THEN {dir[f]} ELSE {i \in FreeInodes : i = CHOOSE k \in FreeInodes : TRUE} :
             /\ dir' = [dir EXCEPT ![f] = i]
             /\ fd' = [fd EXCEPT ![p] = i]
             /\ data' = [data EXCEPT ![i] = Empty]
        /\ Goto(p, "fill") /\ NoFault
     \/ Front(f) \notin dirs /\ UNCHANGED <<dir, data, fd>> /\ Fail(p) /\ NoFault
     \/ Front(f) \in dirs /\ UNCHANGED <<dir, data, fd>> /\ Fail(p) /\ Fault

FprintInPlace(p) ==
  LET s == proc[p] IN
  /\ At(p, "fill") /\ UNCHANGED dirs
  /\ \/ /\ WriteAndClose(p, Initial[InPlace[s.next]]) /\ NoFault
        /\ Become(p, [s EXCEPT !.pc = "files", !.next = @ + 1])
     \/ /\ WriteAndClose(p, Empty) /\ Fault
        /\ Become(p, [s EXCEPT !.pc = "files", !.next = @ + 1, !.cut = TRUE])

(* An empty file is not opened.  One is mapped into memory with one byte     *)
(* more, which is written: where it fills its pages, that is behind the      *)
(* mapping, and the process dies.                                            *)
IsMapped(f) == read_file(f) \notin {Missing, Empty, <<>>}
DiesMapping(f) == IsMapped(f) /\ FillsPages(read_file(f))
iniparse_open(f) == IsMapped(f) /\ ~FillsPages(read_file(f))

qgit_config_open_ondisk(f) == iniparse_open(f) /\ iniparse_parse(read_file(f)).ok

(* qgit_repository_discover: the nearest directory above with a repository. *)
qgit_repository_discover(start) ==
  LET above == {i \in 0..Len(start) : Append(SubSeq(start, 1, i), ".qgit") \in dirs} IN
  IF above = {} THEN Missing
  ELSE Append(SubSeq(start, 1, CHOOSE i \in above : \A j \in above : j <= i), ".qgit")

(* qgit_repository_open; a missing index is an empty one. *)
RepositoryOpens == Repo \in dirs /\ qgit_config_open_ondisk(CONFIG)
RepositoryDies == Repo \in dirs /\ DiesMapping(CONFIG)

OpenRepository(p) ==
  /\ At(p, "open") /\ ~RepositoryDies /\ OnlyReads /\ NoFault
  /\ IF RepositoryOpens THEN Goto(p, "done") ELSE Fail(p)

(* What was made is removed, the work directory first. *)
Rollback(p) ==
  LET s == proc[p] IN
  /\ At(p, "rollback") /\ OnlyReads /\ NoFault
  /\ IF s.work_created
     THEN Become(p, [s EXCEPT !.pc = "remove", !.target = Work, !.todo = There(Work), !.work_created = FALSE])
     ELSE IF s.repodir_created
     THEN Become(p, [s EXCEPT !.pc = "remove", !.target = Repo, !.todo = There(Repo), !.repodir_created = FALSE])
     ELSE Goto(p, "failed")

(* rmdirr, one action per entry removed; todo are the entries it read. *)
Rmdirr(p) ==
  LET s == proc[p] IN
  /\ At(p, "remove") /\ NoFault
  /\ \E x \in There(s.target) :
       /\ There(x) = {x}
       /\ CASE x \in dirs -> dirs' = dirs \ {x} /\ UNCHANGED fileVars
            [] x \in Paths -> Unlink(x) /\ UNCHANGED dirs
            [] OTHER -> UnlinkTmp(Front(x)) /\ UNCHANGED dirs
       /\ Become(p, [s EXCEPT !.todo = @ \ {x}, !.pc = IF x = s.target THEN "rollback" ELSE @])

(* It gives up at an entry that is gone already, or when the directory got   *)
(* one that it did not read; there may be nothing to remove.                 *)
RmdirrEnds(p) ==
  LET s == proc[p] IN
  /\ At(p, "remove") /\ OnlyReads /\ NoFault
  /\ \/ There(s.target) = {}
     \/ s.todo \ There(s.target) # {}
     \/ s.todo = {s.target} /\ There(s.target) # {s.target}
  /\ Goto(p, "rollback")

(* One of its calls fails; nobody looks at that, and what it was to remove   *)
(* may stay: such an init is no longer one that nobody disturbed.            *)
RmdirrFails(p) ==
  /\ At(p, "remove") /\ OnlyReads /\ Fault
  /\ proc' = [proc EXCEPT ![p].pc = "rollback"]
  /\ before' = [q \in Procs |-> <<>>]
  /\ UNCHANGED commands

----------------------------------------------------------------------------
(* qgit config *)

StartConfig(p) ==
  \E c \in Changes : Begin(p, [Idle EXCEPT !.pc = "load", !.op = c.op, !.change = c])

(* A user's file that is missing is made in memory. *)
open_global_config_safe == file_exists(GLOBAL) => qgit_config_open_ondisk(GLOBAL)

(* The repository is found and opened if there is one, and the user's file   *)
(* if that exists, whichever of the two is asked for.                        *)
OpensConfigs(c) ==
  /\ qgit_repository_discover(Work) = Repo => RepositoryOpens
  /\ c.file = CONFIG => qgit_repository_discover(Work) = Repo
  /\ open_global_config_safe

(* The first file of the two that makes the process die. *)
ConfigDies ==
  LET repo == qgit_repository_discover(Work) = Repo IN
  \/ repo /\ RepositoryDies
  \/ (repo => RepositoryOpens) /\ DiesMapping(GLOBAL)

qgit_config_set_string(ini, c) == iniparse_set(ini, c.sec, c.key, c.val)
qgit_config_delete(ini, c) == iniparse_unset(ini, c.sec, c.key)

LoadConfig(p) ==
  LET c == proc[p].change
      ini == IF file_exists(c.file) THEN iniparse_parse(read_file(c.file)).ini ELSE <<>>
  IN /\ At(p, "load") /\ ~ConfigDies /\ OnlyReads /\ NoFault
     /\ IF ~OpensConfigs(c) \/ (c.op = "unset" /\ EntryAt(ini, c.sec, c.key) = 0)
        THEN Goto(p, "failed")
        ELSE Become(p, [proc[p] EXCEPT !.pc = "lock",
                          !.ini = IF c.op = "set" THEN qgit_config_set_string(ini, c)
                                  ELSE qgit_config_delete(ini, c)])

----------------------------------------------------------------------------

(* The end of a process, which forgets what it did. *)
Ends(p) ==
  /\ proc' = [proc EXCEPT ![p] = Idle]
  /\ before' = [q \in Procs |-> <<>>]
  /\ UNCHANGED <<dirs, commands>>

Exit(p) ==
  /\ proc[p].pc \in {"done", "failed"} /\ Ends(p)
  /\ UNCHANGED <<fileVars, troubles>>

(* By the signal of a mapping that is left, without any clean-up. *)
DieMapping(p) ==
  /\ (At(p, "open") /\ RepositoryDies) \/ (At(p, "load") /\ ConfigDies)
  /\ Ends(p) /\ CloseAll(p) /\ NoFault

Kill(p) ==
  /\ proc[p].pc \notin {"idle", "done", "failed"}
  /\ Fault /\ Ends(p) /\ CloseAll(p)

Init ==
  \E files \in FirstFiles, there \in FirstDirs :
    LET held == {f \in Paths : files[f] # Missing}
        place == CHOOSE g \in [held -> Inodes] : IsInjective(g)
        owner(i) == {f \in held : place[f] = i}
    IN /\ \A f \in held : Front(f) \in there
       /\ dirs = there
       /\ dir = [f \in Paths |-> IF f \in held THEN place[f] ELSE NoInode]
       /\ data = [i \in Inodes |-> IF owner(i) = {} THEN Empty ELSE files[CHOOSE f \in owner(i) : TRUE]]
       /\ tmp = [f \in Paths |-> NoInode] /\ fd = [p \in Procs |-> NoInode]
       /\ proc = [p \in Procs |-> Idle] /\ commands = 0 /\ troubles = 0
       /\ before = [p \in Procs |-> <<>>]

Next ==
  \E p \in Procs :
    \/ StartInit(p) \/ CheckPath(p) \/ CheckRepodir(p) \/ CreateStructure(p) \/ CreateConfig(p)
    \/ CreateFiles(p) \/ FopenInPlace(p) \/ FprintInPlace(p) \/ OpenRepository(p)
    \/ Rollback(p) \/ Rmdirr(p) \/ RmdirrEnds(p) \/ RmdirrFails(p)
    \/ Mkdir(p) \/ FopenLock(p) \/ FprintLock(p) \/ RenameLock(p) \/ UnlinkLock(p)
    \/ UnlinkConfig(p) \/ StartConfig(p) \/ LoadConfig(p)
    \/ Exit(p) \/ DieMapping(p) \/ Kill(p)

Spec == Init /\ [][Next]_setupVars

----------------------------------------------------------------------------
(* Properties *)

Had(p) == DOMAIN before[p].files   \* the files there were
Was(p, f) == IF before[p] = <<>> \/ f \notin Had(p) THEN Missing ELSE before[p].files[f]
Alone(p, pc) == before[p] # <<>> /\ At(p, pc)
IsInit(p) == proc[p].op = "init"

(* An init that nobody disturbed and that failed, wherever that was, leaves  *)
(* every file and directory it found, and takes away the work directory and  *)
(* .qgit if it made them; other directories that mkdirp made above the work  *)
(* directory stay (work_created, repodir_created and rmdirr in               *)
(* repository_init.c; the unlink in create_config).                          *)
FailedInitLeavesNoTrace ==
  \A p \in Procs : Alone(p, "failed") /\ IsInit(p) =>
    /\ before[p].dirs \subseteq dirs
    /\ dirs \cap {Work, Repo} \subseteq before[p].dirs
    /\ \A f \in Had(p) : read_file(f) = before[p].files[f]

(* An init that nobody disturbed and that succeeded leaves a repository all  *)
(* commands find and open, with every part of the structure, with the files  *)
(* that were there as they were and the others whole, whatever an init that  *)
(* was killed left behind; only a write that did not reach the disk goes     *)
(* unnoticed (repository_init.c, the order of its steps and tests).          *)
InitMakesRepository ==
  \A p \in Procs : Alone(p, "done") /\ IsInit(p) =>
    /\ RepositoryOpens
    /\ \A d \in Range(Structure) : qgit_repository_discover(d) = Repo
    /\ Range(Structure) \subseteq dirs
    /\ \A f \in Had(p) : read_file(f) = before[p].files[f]
    /\ proc[p].cut \/ \A f \in Range(InPlace) \ Had(p) : read_file(f) = Initial[f]

Ini(contents) == IF contents \in {Missing, Empty} THEN <<>> ELSE iniparse_parse(contents).ini
Listed(ini) == Range(iniparse_fprint(ini))
NamesOf(ini) == {<<e.sec, e.key>> : e \in Listed(ini)}
Value(ini, name) == iniparse_get(ini, name[1], name[2])
SavedAs(value, there) == IF there /\ value = NoValue THEN NoText ELSE value

(* The entries of its file as a qgit config found it, and as it makes them. *)
Found(p) ==
  LET f == proc[p].change.file IN
  IF f \in Had(p) THEN iniparse_parse(before[p].files[f]).ini ELSE <<>>

Changed(p) ==
  LET c == proc[p].change IN
  IF c.op = "set" THEN qgit_config_set_string(Found(p), c) ELSE qgit_config_delete(Found(p), c)

Asks(p) == proc[p].op \in {"set", "unset"}

(* A qgit config that nobody disturbed leaves every file as it was, but, on  *)
(* success, its own, which is the entries it found, changed: the other file  *)
(* is not touched although both are opened, a failure leaves nothing behind  *)
(* at whatever step it is, and what is unset was there (cmd/config,          *)
(* config_delete, config_save, iniparse_writeto).                            *)
ConfigReplacesItsFile ==
  \A p \in Procs : Asks(p) =>
    LET c == proc[p].change IN
    /\ Alone(p, "failed") => \A f \in Paths : read_file(f) = Was(p, f)
    /\ Alone(p, "done") =>
         /\ \A f \in Paths \ {c.file} : read_file(f) = Was(p, f)
         /\ proc[p].cut \/ read_file(c.file) = iniparse_write(Changed(p))
         /\ c.op = "unset" => EntryAt(Found(p), c.sec, c.key) # 0

(* A qgit config takes any text, but a file is parsed again: what it is to   *)
(* set is read again only if section, key and value are such as are read.    *)
(* "a=b" is no key, and a value with a newline is none.                      *)
IsReadable(c) == c.sec \in SecNames /\ c.key \in KeyNames /\ c.val \in Texts
AskedReadably(s) == s.op = "set" => IsReadable(s.change)

(* A qgit config that nobody disturbed leaves the other files, and on        *)
(* failure all, as they were.  When it is asked for a readable name and      *)
(* value it does what it was asked: the name reads as the value, without the *)
(* spaces around it, or is unset when it was there once, and every other     *)
(* name of the file reads as before, a key without a value as an empty one   *)
(* (cmd/config, config_set_string, config_delete, config_save).              *)
UndisturbedConfigIsTransaction ==
  /\ ConfigReplacesItsFile
  /\ \A p \in Procs : Asks(p) /\ AskedReadably(proc[p]) /\ Alone(p, "done") /\ ~proc[p].cut =>
       LET c == proc[p].change
           was == Ini(Was(p, c.file))
           is == Ini(read_file(c.file))
           name == <<c.sec, c.key>>
           Others == (NamesOf(was) \cup NamesOf(is)) \ {name}
           Entries(ini) == {i \in 1..Len(iniparse_fprint(ini)) :
                              iniparse_fprint(ini)[i].sec = c.sec /\ iniparse_fprint(ini)[i].key = c.key}
       IN /\ c.op = "set" => Value(is, name) = Trimmed(c.val)
          /\ c.op = "unset" => Cardinality(Entries(is)) = Cardinality(Entries(was)) - 1
          /\ \A other \in Others :
               Value(is, other) = SavedAs(Value(was, other), other \in NamesOf(was))

(* What a command is about to write, unless it was asked for what is not     *)
(* readable, reads back as the list it has in memory, without the spaces     *)
(* around the values: no line is taken for another, no section is opened too *)
(* late, no key of one read in another, however often the file was parsed,   *)
(* changed and written before (iniparse_writeto, iniparse_parse).            *)
SavedConfigReadsBack ==
  \A p \in Procs : proc[p].ini # <<>> /\ AskedReadably(proc[p]) =>
    LET saved == iniparse_parse(iniparse_write(proc[p].ini))
        list == iniparse_fprint(proc[p].ini)
    IN /\ saved.ok
       /\ iniparse_fprint(saved.ini) = [i \in DOMAIN list |-> [list[i] EXCEPT !.val = Trimmed(@)]]

----------------------------------------------------------------------------
(* What holds of the file system and of a command whatever the others do.    *)

Inits == {"path", "repodir", "mkdir", "dirs", "config", "files", "create", "fill", "open",
          "rollback", "remove"}
Saves == {"lock", "write", "rename", "unlock", "unlink"}

IsCommand(s) ==
  s \in [pc : {"idle", "load", "done", "failed"} \cup Inits \cup Saves,
         op : {"none", "init", "set", "unset"}, change : Changes \cup {<<>>},
         mk : Seq(Seq(Names)), again : BOOLEAN, then : {"idle", "repodir", "dirs"}, next : Nat \ {0},
         work_created : BOOLEAN, repodir_created : BOOLEAN, ini : {s.ini},
         target : {<<>>, Work, Repo}, todo : {s.todo}, cut : BOOLEAN]

SetupTypeOK ==
  /\ dirs \subseteq Places
  /\ proc = [p \in Procs |-> proc[p]] /\ \A p \in Procs : IsCommand(proc[p])
  /\ before = [p \in Procs |-> before[p]]

(* An inode has one name. *)
NamesAreDistinct ==
  /\ dir \in [Paths -> Entry] /\ tmp \in [Paths -> Entry] /\ fd \in [Procs -> Entry]
  /\ data = [i \in Inodes |-> data[i]]
  /\ \A f, g \in Paths :
       /\ dir[f] = dir[g] /\ dir[f] # NoInode => f = g
       /\ tmp[f] = tmp[g] /\ tmp[f] # NoInode => f = g
       /\ dir[f] = tmp[g] => dir[f] = NoInode

(* What exists is in a directory that exists. *)
DirsAreATree ==
  /\ <<>> \in dirs /\ IsTree(dirs)
  /\ \A f \in Paths : file_exists(f) \/ tmp[f] # NoInode => Front(f) \in dirs

(* The directories mkdirp still has to make: one of init's and those above. *)
MakesAStack(s) ==
  /\ s.mk # <<>> /\ s.mk[1] \in Range(Structure) \cup {Work, Repo}
  /\ Len(s.mk) <= Len(s.mk[1])
  /\ \A i \in 1..Len(s.mk) : s.mk[i] = SubSeq(s.mk[1], 1, Len(s.mk[1]) + 1 - i)

MakesSense(s) ==
  /\ s.pc \in Inits => s.op = "init"
  /\ s.pc \in Saves => s.op # "none"
  /\ s.pc = "load" => s.op \in {"set", "unset"}
  /\ s.op \in {"set", "unset"} => s.change \in Changes /\ s.change.op = s.op
  /\ s.pc = "mkdir" => MakesAStack(s)
  /\ s.pc \in {"create", "fill"} => s.next <= Len(InPlace)
  /\ s.pc = "remove" => s.target \in {Work, Repo}

CommandsMakeSense == \A p \in Procs : MakesSense(proc[p])

FilesInv == SetupTypeOK /\ NamesAreDistinct /\ DirsAreATree /\ CommandsMakeSense

----------------------------------------------------------------------------
(* What init knows, as long as nobody disturbs it.                           *)

Undisturbed(p) == before[p] # <<>> /\ IsInit(p)
Undoes == {"rollback", "remove", "failed"}
NeedsStructure == {"config", "files", "create", "fill", "open", "done"} \cup Saves

(* Nothing that was there is lost. *)
KeepsWhatWas(p) ==
  LET was == before[p] IN
  /\ was.dirs \subseteq dirs /\ IsTree(was.dirs)
  /\ \A f \in Had(p) :
       /\ f \in Paths /\ Front(f) \in was.dirs
       /\ file_exists(f) /\ read_file(f) = was.files[f]

(* The two directories that it would remove are new, and are known to be. *)
KnowsWhatIsNew(p) ==
  LET s == proc[p]
      old == before[p].dirs
      Removes(d) == At(p, "remove") /\ s.target = d
  IN /\ s.work_created => Work \notin old
     /\ s.repodir_created => Repo \notin old
     /\ Work \in dirs \ old => s.work_created \/ Removes(Work)
     /\ Repo \in dirs \ old => s.repodir_created \/ Removes(Repo)
     /\ At(p, "remove") => s.target \notin old /\ s.todo = There(s.target)
     /\ At(p, "failed") => ~s.work_created /\ ~s.repodir_created

(* Directories are made from the top. *)
MakesDirs(p) ==
  LET s == proc[p]
      Stands(n) == \A i \in 1..Len(Structure) : i < n => Structure[i] \in dirs
  IN /\ At(p, "mkdir") =>
          /\ \A i \in 1..Len(s.mk) : s.mk[i] \notin dirs
          /\ \/ s.mk[1] = Work /\ s.then = "repodir" /\ s.next = 1
             \/ s.mk[1] = Repo /\ s.then = "dirs" /\ Work \in dirs /\ s.next = 1
             \/ /\ s.next \in 1..Len(Structure) /\ s.mk[1] = Structure[s.next] /\ s.then = "dirs"
                /\ {Work, Repo} \subseteq dirs /\ Stands(s.next)
     /\ At(p, "path") => s.next = 1
     /\ At(p, "repodir") => Work \in dirs /\ s.next = 1
     /\ At(p, "dirs") => {Work, Repo} \subseteq dirs /\ Stands(s.next)
     /\ s.pc \in NeedsStructure => {Work, Repo} \cup Range(Structure) \subseteq dirs

(* The configuration is written where there was none, then the other files. *)
Written(s) ==
  CASE s.pc \in {"files", "create", "fill"} -> s.next - 1
    [] s.pc \in {"open", "done"} -> Len(InPlace)
    [] OTHER -> 0

OthersAreWritten(p) ==
  LET s == proc[p] IN
  \A i \in 1..Len(InPlace) : InPlace[i] \notin Had(p) =>
    IF i <= Written(s) THEN s.cut \/ read_file(InPlace[i]) = Initial[InPlace[i]]
    ELSE file_exists(InPlace[i]) => At(p, "fill") /\ i = s.next

MakesFiles(p) ==
  LET s == proc[p] IN
  /\ s.pc \in Saves => CONFIG \notin Had(p)
  /\ s.pc \in Saves \cup {"config"} => s.next = 1
  /\ At(p, "write") => fd[p] = tmp[CONFIG] /\ fd[p] # NoInode
  /\ s.pc \in {"create", "fill"} => InPlace[s.next] \notin Had(p)
  /\ At(p, "fill") => fd[p] = dir[InPlace[s.next]] /\ fd[p] # NoInode
  /\ s.pc \notin Undoes => OthersAreWritten(p)
  /\ At(p, "done") => RepositoryOpens

InitInv ==
  \A p \in Procs : Undisturbed(p) =>
    KeepsWhatWas(p) /\ KnowsWhatIsNew(p) /\ MakesDirs(p) /\ MakesFiles(p)

SetupInv == FilesInv /\ InitInv

----------------------------------------------------------------------------
(* What a qgit config knows, as long as nobody disturbs it.                  *)

IsAsItWas(p, f) ==
  /\ file_exists(f) <=> f \in Had(p)
  /\ file_exists(f) => read_file(f) = before[p].files[f]

(* The lock file is its own and holds what it read, changed. *)
ChangesItsFile(p) ==
  LET s == proc[p]
      c == s.change
      saved == iniparse_write(Changed(p))
  IN /\ \A f \in Paths : ~(At(p, "done") /\ f = c.file) => IsAsItWas(p, f)
     /\ s.pc \in {"lock", "write"} => s.ini = Changed(p)
     /\ At(p, "write") => fd[p] = tmp[c.file] /\ fd[p] # NoInode /\ data[fd[p]] = Empty
     /\ At(p, "rename") => s.cut \/ data[tmp[c.file]] = saved
     /\ At(p, "done") => s.cut \/ read_file(c.file) = saved
     /\ c.op = "unset" /\ s.pc \in {"lock", "write", "rename", "done"} =>
          EntryAt(Found(p), c.sec, c.key) # 0

ConfigInv == \A p \in Procs : before[p] # <<>> /\ Asks(p) => ChangesItsFile(p)

(* Files are made of lines, and what commands have in memory are lists, with *)
(* one place for each section and of readable names unless others were asked *)
(* for; a file that was opened was not empty.                                *)
HasAList(s) == s.ini \in Seq(AnySections) /\ (AskedReadably(s) => IsIni(s.ini))
FilesAreLines == (\A i \in Inodes : data[i] \in Contents) /\ \A p \in Procs : HasAList(proc[p])

FoundLines(p) ==
  LET f == proc[p].change.file IN
  /\ \A g \in Had(p) : before[p].files[g] \in Contents
  /\ Asks(p) /\ proc[p].pc \in Saves \cup {"done"} /\ f \in Had(p) => before[p].files[f] \in Seq(Lines)

TextInv == FilesAreLines /\ \A p \in Procs : before[p] # <<>> => FoundLines(p)
=============================================================================
