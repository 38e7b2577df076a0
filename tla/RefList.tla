------------------------------- MODULE RefList -------------------------------
(***************************************************************************)
(* Listing the references (qgit_reference_list and its callers: branch,    *)
(* tag, show-ref) while another process writes and deletes some.  The      *)
(* listing walks the directories under refs with readdir and stat; the     *)
(* writer is write_file, with a temporary beside the file, and unlink.     *)
(*                                                                         *)
(* A path is the sequence of its names below refs.  readdir returns each   *)
(* entry that stays in the directory once, and may or may not return one   *)
(* that comes or goes meanwhile, which may come again and be returned      *)
(* again; a file replaced by a rename stays.                               *)
(*                                                                         *)
(* Of what is in a file it matters whether qgit_reference_name_to_oid      *)
(* makes an id of it: it does not of one that was just truncated, of one   *)
(* that is malformed, and of a symbolic reference to such a file or to     *)
(* none, which may change with any other file.  Following a symbolic       *)
(* reference is one step here; RefStore has those of a look-up.            *)
(***************************************************************************)
EXTENDS Integers, Sequences, FiniteSets, SequencesExt

CONSTANTS RefPaths,   \* references that are written
          TmpPath,    \* [path of RefPaths -> path of its temporary]
          PathOrder,  \* all paths of files, in the order of strcmp on the whole path
          FirstPaths, \* sets of references there may be at first
          Symbolic,   \* paths of references that may be symbolic, no temporaries
          MaxChanges  \* bound: changes by the writer, none after the end of the listing

VARIABLES files,   \* paths of files under refs
          ids,     \* those that resolve to an id
          dirs,    \* paths of directories under refs
          listing, \* "none", "walking", "done", "failed", "shown" or "died"
          todo,    \* prefixes still to be walked
          stack,   \* directories open: [dir, due, got]
          entry,   \* what readdir returned and stat has not seen
          refs,    \* the names collected
          shown,   \* how many of them show-ref has printed
          always, ever, removed, \* files there throughout, at some time; one is gone
          unresolved, \* since the listing started: files that at some time did not resolve
          prefixes, changes

listVars == <<files, ids, dirs, listing, todo, stack, entry, refs, shown,
              always, ever, removed, unresolved, prefixes, changes>>
walkVars == <<listing, todo, stack, entry, refs, shown, prefixes>>

Flags == {<<"heads">>, <<"tags">>, <<"heads", "tags">>, <<"heads", "tags", "remotes">>}

ParentDir(path) == Front(path)
Children(dir) == {p \in files \cup dirs : p # <<>> /\ ParentDir(p) = dir}
Ancestors(path) == {SubSeq(path, 1, i) : i \in 1..(Len(path) - 1)}
Rank(path) == CHOOSE i \in DOMAIN PathOrder : PathOrder[i] = path

Kinds == {"heads", "tags", "remotes"}
AllPaths == RefPaths \cup {TmpPath[p] : p \in RefPaths} \cup UNION FirstPaths
PathNames == Kinds \cup UNION {ToSet(p) : p \in AllPaths}

(* A reference is below the directory of its kind, which create_structure    *)
(* makes and nothing removes.                                                *)
ASSUME PathsAreBelowKinds ==
  \A p \in AllPaths : p \in Seq(PathNames) /\ Len(p) >= 2 /\ p[1] \in Kinds

(* The temporary of write_file is in the directory of the file. *)
ASSUME TmpIsBeside == \A p \in RefPaths : ParentDir(TmpPath[p]) = ParentDir(p)

ASSUME OrderIsTotal ==
  /\ PathOrder \in Seq(AllPaths) /\ IsInjective(PathOrder)
  /\ AllPaths \subseteq ToSet(PathOrder)

(* No reference is at first a directory of another. *)
ASSUME FirstPathsFit ==
  \A paths \in FirstPaths : \A p \in paths : Ancestors(p) \cap paths = {}

----------------------------------------------------------------------------
(* qgit_reference_list *)

StartList(flags) ==
  /\ listing = "none"
  /\ listing' = "walking" /\ todo' = flags /\ prefixes' = flags
  /\ always' = files /\ ever' = files /\ removed' = FALSE /\ unresolved' = files \ ids
  /\ UNCHANGED <<files, ids, dirs, stack, entry, refs, shown, changes>>

(* The directory is pushed by foreach, which fails where it is not there. *)
Opendir(dir) ==
  IF dir \in dirs
  THEN /\ stack' = Append(stack, [dir |-> dir, due |-> Children(dir), got |-> {}])
       /\ UNCHANGED listing
  ELSE listing' = "failed" /\ UNCHANGED stack

OpenPrefix ==
  /\ listing = "walking" /\ stack = <<>> /\ todo # <<>>
  /\ Opendir(<<Head(todo)>>)
  /\ todo' = Tail(todo)
  /\ UNCHANGED <<files, ids, dirs, entry, refs, shown, always, ever, removed, unresolved, prefixes, changes>>

Readdir ==
  /\ listing = "walking" /\ stack # <<>> /\ entry = <<>>
  /\ LET top == Last(stack) IN
       \E e \in (Children(top.dir) \cup top.due) \ top.got :
         /\ entry' = e
         /\ stack' = [stack EXCEPT ![Len(stack)].got = @ \cup {e}]
  /\ UNCHANGED <<files, ids, dirs, listing, todo, refs, shown, always, ever, removed, unresolved, prefixes, changes>>

(* Mutant: a directory that ends ends the walk of the one around it. *)
ReaddirEndsAll ==
  /\ listing = "walking" /\ stack # <<>> /\ entry = <<>>
  /\ Last(stack).due \subseteq Last(stack).got
  /\ stack' = <<>>
  /\ UNCHANGED <<files, ids, dirs, listing, todo, entry, refs, shown, always, ever, removed, unresolved, prefixes, changes>>

ReaddirEnds ==
  /\ listing = "walking" /\ stack # <<>> /\ entry = <<>>
  /\ Last(stack).due \subseteq Last(stack).got
  /\ stack' = Front(stack)
  /\ UNCHANGED <<files, ids, dirs, listing, todo, entry, refs, shown, always, ever, removed, unresolved, prefixes, changes>>

(* stat: a directory is walked at once, a file is collected, and one that is *)
(* gone is an error.                                                         *)
Stat ==
  /\ listing = "walking" /\ entry # <<>>
  /\ entry' = <<>>
  /\ \/ entry \in dirs /\ Opendir(entry) /\ UNCHANGED refs
     \/ entry \in files /\ refs' = Append(refs, entry) /\ UNCHANGED <<listing, stack>>
     \/ entry \notin files \cup dirs /\ listing' = "failed" /\ UNCHANGED <<refs, stack>>
  /\ UNCHANGED <<files, ids, dirs, todo, shown, always, ever, removed, unresolved, prefixes, changes>>

(* How many of the names collected are before a path, or not behind it. *)
NamesBefore(p) == Cardinality({j \in DOMAIN refs : Rank(refs[j]) < Rank(p)})
NamesUpTo(p) == Cardinality({j \in DOMAIN refs : Rank(refs[j]) <= Rank(p)})

(* vec_sort with strcmp: the first name, the second and so on. *)
SortedRefs == [i \in DOMAIN refs |-> CHOOSE p \in ToSet(refs) : NamesBefore(p) < i /\ i <= NamesUpTo(p)]

SortRefs ==
  /\ listing = "walking" /\ stack = <<>> /\ todo = <<>>
  /\ listing' = "done"
  /\ refs' = SortedRefs
  /\ UNCHANGED <<files, ids, dirs, todo, stack, entry, shown, always, ever, removed, unresolved, prefixes, changes>>

(* The names qgit_branch_list and qgit_tag_list make of it. *)
ShortNames == [i \in DOMAIN refs |-> Tail(refs[i])]

(* show-ref resolves each reference and dies at one that is gone, or that *)
(* is there and gives no id.                                              *)
ShowRef ==
  /\ listing = "done"
  /\ IF shown = Len(refs) THEN listing' = "shown" /\ UNCHANGED shown
     ELSE IF refs[shown + 1] \in ids THEN shown' = shown + 1 /\ UNCHANGED listing
     ELSE listing' = "died" /\ UNCHANGED shown
  /\ UNCHANGED <<files, ids, dirs, todo, stack, entry, refs, always, ever, removed, unresolved, prefixes, changes>>

----------------------------------------------------------------------------
(* The writer *)

Ends == {"failed", "shown", "died"}

(* What symbolic references resolve to is changed with the other files. *)
Change(nextFiles, nextDirs, resolving) ==
  /\ changes < MaxChanges /\ changes' = changes + 1
  /\ listing \notin Ends
  /\ files' = nextFiles /\ dirs' = nextDirs
  /\ \E links \in SUBSET (Symbolic \cap nextFiles) :
       ids' = (resolving \ Symbolic) \cup links
  /\ unresolved' = unresolved \cup ((files \cup nextFiles) \ ids')
  /\ always' = always \cap nextFiles /\ ever' = ever \cup nextFiles
  /\ removed' = (removed \/ ~(files \subseteq nextFiles))
  /\ stack' = [i \in DOMAIN stack |->
                 [stack[i] EXCEPT !.due = @ \ (files \ nextFiles), !.got = @ \ (files \ nextFiles)]]
  /\ UNCHANGED <<listing, todo, entry, refs, shown, prefixes>>

(* ensure_parentdir and the open of write_file, which leaves it empty. *)
OpenTmp(p) ==
  /\ Ancestors(p) \cap files = {} /\ TmpPath[p] \notin files \cup dirs
  /\ Change(files \cup {TmpPath[p]}, dirs \cup Ancestors(p), ids)

(* The write, of a text that resolves; after one that does not, the          *)
(* temporary is as it was.                                                   *)
WriteTmp(p) ==
  /\ TmpPath[p] \in files
  /\ ids' = ids \cup {TmpPath[p]}
  /\ UNCHANGED <<walkVars, files, dirs, always, ever, removed, unresolved, changes>>

(* A directory is not replaced: the temporary is removed. *)
RenameTmp(p) ==
  /\ TmpPath[p] \in files
  /\ Change((files \ {TmpPath[p]}) \cup ({p} \ dirs), dirs,
            (ids \ {TmpPath[p], p}) \cup (IF TmpPath[p] \in ids THEN {p} \ dirs ELSE {}))

(* qgit_reference_delete, qgit_tag_delete: directories stay. *)
Delete(p) ==
  /\ p \in files
  /\ Change(files \ {p}, dirs, ids \ {p})

ListInit ==
  /\ files \in FirstPaths /\ ids \in SUBSET files
  /\ dirs = {<<kind>> : kind \in Kinds} \cup UNION {Ancestors(p) : p \in files}
  /\ listing = "none" /\ todo = <<>> /\ stack = <<>> /\ entry = <<>> /\ refs = <<>> /\ shown = 0
  /\ always = files /\ ever = files /\ removed = FALSE /\ unresolved = files \ ids
  /\ prefixes = <<>> /\ changes = 0

ListNext ==
  \/ \E flags \in Flags : StartList(flags)
  \/ OpenPrefix \/ Readdir \/ ReaddirEnds \/ Stat \/ SortRefs \/ ShowRef
  \/ \E p \in RefPaths : OpenTmp(p) \/ WriteTmp(p) \/ RenameTmp(p) \/ Delete(p)

ListSpec == ListInit /\ [][ListNext]_listVars

Walked(paths) == {p \in paths : \E i \in DOMAIN prefixes : prefixes[i] = p[1]}

(* A listing has every reference that is there throughout once, whatever the *)
(* directories around it do, names nothing that never was, is in order, and  *)
(* the short names of one kind tell its references apart; it fails only if a *)
(* file disappeared since it started, and show-ref dies only at a name that  *)
(* since then was gone or did not resolve (reference_list.c, show-ref.c:73). *)
(* A reference that is deleted and made again may be listed twice.  A        *)
(* temporary of write_file may be listed as a reference: its rename may make *)
(* the listing fail, and while it is empty show-ref dies at it.              *)
ListingIsFaithful ==
  /\ listing \in {"done", "shown", "died"} =>
       /\ Walked(always) \subseteq ToSet(refs)
       /\ ToSet(refs) \subseteq Walked(ever)
       /\ \A i, j \in DOMAIN refs : i < j =>
            /\ Rank(refs[i]) <= Rank(refs[j])
            /\ refs[i] = refs[j] => refs[i] \notin always
            /\ Len(prefixes) = 1 /\ ShortNames[i] = ShortNames[j] => refs[i] = refs[j]
  /\ listing = "failed" => removed
  /\ listing = "died" => shown < Len(refs) /\ refs[shown + 1] \in unresolved

----------------------------------------------------------------------------
(* What holds of every state, and is kept by every step. *)

ListTypeOK ==
  /\ files \subseteq AllPaths /\ always \subseteq files /\ files \subseteq ever /\ ever \subseteq AllPaths
  /\ \A d \in dirs : d \in Seq(PathNames) /\ d # <<>>
  /\ listing \in {"none", "walking", "done", "failed", "shown", "died"}
  /\ todo \in Seq(Kinds) /\ prefixes \in Seq(Kinds) /\ entry \in Seq(PathNames)
  /\ stack \in Seq([dir : dirs, due : SUBSET (files \cup dirs), got : SUBSET (files \cup dirs)])
  /\ refs \in Seq(AllPaths) /\ shown \in 0..Len(refs)
  /\ removed \in BOOLEAN /\ changes \in Nat

(* A file is no directory, and is in directories that are there. *)
FilesAreInDirs ==
  /\ files \cap dirs = {}
  /\ {<<kind>> : kind \in Kinds} \subseteq dirs
  /\ \A f \in files : Ancestors(f) \subseteq dirs

(* The path d is a directory above p, and the entry of d on the way to p. *)
Above(d, p) == Len(d) < Len(p) /\ SubSeq(p, 1, Len(d)) = d
Toward(d, p) == SubSeq(p, 1, Len(d) + 1)

(* A frame of the walk is a directory of a prefix taken, and what readdir    *)
(* returned is in the innermost; while nothing is removed, it is there.      *)
FramesFit ==
  /\ IsInjective(todo) /\ ToSet(todo) \subseteq ToSet(prefixes)
  /\ \A i \in DOMAIN stack :
       /\ stack[i].dir[1] \in ToSet(prefixes) \ ToSet(todo)
       /\ \A e \in stack[i].due : e # <<>> /\ ParentDir(e) = stack[i].dir
  /\ entry # <<>> => stack # <<>> /\ ParentDir(entry) = Last(stack).dir
  /\ listing = "none" => todo = <<>> /\ stack = <<>> /\ refs = <<>> /\ prefixes = <<>>
  /\ listing \in {"done", "shown", "died"} => todo = <<>> /\ stack = <<>>

(* Where the walk stands to a reference: readdir has it or a directory above *)
(* it in hand, has yet to return it, or has returned it in every directory   *)
(* open above it.                                                            *)
InHand(p) == entry # <<>> /\ (entry = p \/ Above(entry, p))
Ahead(p) == \E i \in DOMAIN stack :
  Above(stack[i].dir, p) /\ Toward(stack[i].dir, p) \in stack[i].due \ stack[i].got
IsReturned(p, i) == Above(stack[i].dir, p) => Toward(stack[i].dir, p) \in stack[i].got

IsReached(p) ==
  p[1] \in ToSet(prefixes) =>
    p \in ToSet(refs) \/ p[1] \in ToSet(todo) \/ InHand(p) \/ Ahead(p)

IsReachedOnce(p) ==
  /\ p \in ToSet(refs) =>
       p[1] \notin ToSet(todo) /\ ~InHand(p) /\ \A i \in DOMAIN stack : IsReturned(p, i)
  /\ InHand(p) => \A i \in DOMAIN stack : IsReturned(p, i)
  /\ \A i, j \in DOMAIN stack : i < j /\ Above(stack[j].dir, p) => IsReturned(p, i)
  /\ \A i, j \in DOMAIN refs : refs[i] = p /\ refs[j] = p => i = j

NamesWereThere ==
  /\ \A i \in DOMAIN refs : refs[i] \in ever /\ refs[i][1] \in ToSet(prefixes)
  /\ listing \in {"done", "shown", "died"} =>
       \A i, j \in DOMAIN refs : i < j => Rank(refs[i]) <= Rank(refs[j])

FailsIfRemoved ==
  /\ ~removed => ever = files
  /\ ~removed /\ entry # <<>> => entry \in files \cup dirs
  /\ listing = "failed" => removed

ListWalkInv ==
  /\ ListTypeOK /\ FilesAreInDirs /\ FramesFit
  /\ \A p \in always : IsReached(p) /\ IsReachedOnce(p)
  /\ NamesWereThere /\ FailsIfRemoved

(* What is not among the unresolved resolves; show-ref stands at a name that *)
(* was there.                                                                *)
DiesAtUnresolved ==
  /\ ids \subseteq files /\ ever \subseteq ids \cup unresolved
  /\ listing = "died" => shown < Len(refs) /\ refs[shown + 1] \in unresolved

ListInv == ListWalkInv /\ DiesAtUnresolved
===============================================================================
