----------------------------- MODULE FileUtils -----------------------------
(***************************************************************************)
(* The file layer under the references (src/src/fileutils): a published    *)
(* file at every path, the single temporary "<path>.tmp" that write_file   *)
(* goes through, and the descriptor a process has open for writing.  Files *)
(* are inodes, because a descriptor keeps naming the inode it was opened   *)
(* on when another process renames it.                                     *)
(*                                                                         *)
(* The contents of a file are one value: every reference is written with   *)
(* one write(2) of a whole line, so the only partial contents a reader     *)
(* meets are those of a file opened with O_TRUNC and not yet written.      *)
(***************************************************************************)
EXTENDS Integers, FiniteSets

CONSTANTS Procs,    \* qgit processes (or libqgit users) sharing one repository
          Paths,    \* paths of the files that hold references
          Inodes,   \* inodes of the file system
          NoInode,  \* no directory entry, no open descriptor
          Empty,    \* contents of a file opened with O_TRUNC, nothing written
          Missing   \* ENOENT, as the outcome of a read

ASSUME NoInodeFresh == NoInode \notin Inodes

VARIABLES dir,   \* [Paths -> inode or NoInode]: the directory entry "<path>"
          tmp,   \* [Paths -> inode or NoInode]: the directory entry "<path>.tmp"
          data,  \* [Inodes -> contents]
          fd     \* [Procs -> inode or NoInode]: descriptor open for writing

fileVars == <<dir, tmp, data, fd>>

Entry == Inodes \cup {NoInode}

FileTypeOK(Contents) ==
  /\ dir \in [Paths -> Entry]
  /\ tmp \in [Paths -> Entry]
  /\ data \in [Inodes -> Contents \cup {Empty}]
  /\ fd \in [Procs -> Entry]

----------------------------------------------------------------------------
(* Queries *)

file_exists(path) == dir[path] # NoInode

read_file(path) == IF file_exists(path) THEN data[dir[path]] ELSE Missing

(* The inodes in use when d, t, f are the entries and descriptors.  The file *)
(* system reclaims the others; their contents are forgotten.                *)
Linked(d, t, f) ==
  {d[x] : x \in Paths} \cup {t[x] : x \in Paths} \cup {f[p] : p \in Procs}

Reclaimed(contents, d, t, f) ==
  [i \in Inodes |-> IF i \in Linked(d, t, f) THEN contents[i] ELSE Empty]

FreeInodes == Inodes \ Linked(dir, tmp, fd)

----------------------------------------------------------------------------
(* write_file, one action per system call *)

(* open(tmp, O_WRONLY | O_CREAT | O_TRUNC): the temporary may already exist, *)
(* left by a crash or in use by another process, and is then emptied.        *)
OpenTmp(p, path) ==
  \/ /\ tmp[path] # NoInode
     /\ fd' = [fd EXCEPT ![p] = tmp[path]]
     /\ data' = [data EXCEPT ![tmp[path]] = Empty]
     /\ UNCHANGED <<dir, tmp>>
  \/ /\ tmp[path] = NoInode
     /\ FreeInodes # {}
     /\ LET i == CHOOSE i \in FreeInodes : TRUE IN
          /\ tmp' = [tmp EXCEPT ![path] = i]
          /\ fd' = [fd EXCEPT ![p] = i]
          /\ data' = [data EXCEPT ![i] = Empty]
     /\ UNCHANGED dir

(* Mutant: the result of the write is not looked at. *)
CloseUnwritten(p, contents) ==
  /\ fd' = [fd EXCEPT ![p] = NoInode]
  /\ data' = Reclaimed(data, dir, tmp, fd')
  /\ UNCHANGED <<dir, tmp>>

(* write and close: the bytes go to the inode opened, wherever it is now. *)
WriteAndClose(p, contents) ==
  /\ fd' = [fd EXCEPT ![p] = NoInode]
  /\ data' = Reclaimed([data EXCEPT ![fd[p]] = contents], dir, tmp, fd')
  /\ UNCHANGED <<dir, tmp>>

(* rename(tmp, path); it fails when another process took the temporary. *)
CanRenameTmp(path) == tmp[path] # NoInode

RenameTmp(path) ==
  /\ dir' = [dir EXCEPT ![path] = tmp[path]]
  /\ tmp' = [tmp EXCEPT ![path] = NoInode]
  /\ data' = Reclaimed(data, dir', tmp', fd)
  /\ UNCHANGED fd

(* Mutant: the temporary of a failed write is not unlinked. *)
KeepTmp(path) == UNCHANGED fileVars

(* After a failure the temporary is unlinked by its name, whoever made it;   *)
(* that there is none goes unnoticed.                                        *)
UnlinkTmp(path) ==
  /\ tmp' = [tmp EXCEPT ![path] = NoInode]
  /\ data' = Reclaimed(data, dir, tmp', fd)
  /\ UNCHANGED <<dir, fd>>

----------------------------------------------------------------------------
(* System calls made on the published files themselves *)

Unlink(path) ==
  /\ dir' = [dir EXCEPT ![path] = NoInode]
  /\ data' = Reclaimed(data, dir', tmp, fd)
  /\ UNCHANGED <<tmp, fd>>

(* rename(old, new), which leaves a file renamed onto itself alone. *)
Rename(old, new) ==
  /\ dir' = [x \in Paths |-> CASE x = new -> dir[old]
                               [] x = old /\ x # new -> NoInode
                               [] OTHER -> dir[x]]
  /\ data' = Reclaimed(data, dir', tmp, fd)
  /\ UNCHANGED <<tmp, fd>>

(* The descriptor is closed, by the process or by its death; the files stay. *)
CloseAll(p) ==
  /\ fd' = [fd EXCEPT ![p] = NoInode]
  /\ data' = Reclaimed(data, dir, tmp, fd')
  /\ UNCHANGED <<dir, tmp>>
=============================================================================
