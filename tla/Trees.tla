------------------------------- MODULE Trees -------------------------------
(***************************************************************************)
(* Trees (libqgit/object/tree) and what turns one into another form: the   *)
(* index in memory, the tree builder, checkout, and the listings of        *)
(* ls-tree and ls-files.                                                   *)
(*                                                                         *)
(* A name is a sequence of characters, because the two orders of names     *)
(* differ in one character only: an index is ordered by strcmp of whole    *)
(* paths, a tree by names with a '/' after the name of a directory.  A     *)
(* tree object stands for its id, a directory entry holds the tree itself. *)
(* Recursion over trees keeps this module out of reach of the proofs.      *)
(***************************************************************************)
EXTENDS Integers, Sequences, SequencesExt, FiniteSets

CONSTANTS IndexChoices, \* index entries that may be added: [path, stage, mode, oid]
          Names,        \* names that may be given to the tree builder
          Blobs,        \* ids of blobs
          Target,       \* path of the directory that is checked out to
          MaxDepth,     \* bound: directories nested by the tree builder
          MaxOps        \* bound: operations in a row

VARIABLES index,   \* entries of the index in memory, in the order of the vector
          tree,    \* the tree written or looked up last
          builder, \* entries of a tree builder
          disk,    \* [path, node]: what checkout left in the work tree
          ops      \* operations still to come

treeVars == <<index, tree, builder, disk, ops>>

----------------------------------------------------------------------------
(* Names and paths *)

Dash == 1
Slash == 2
Letter == 3

Normal == 0 \* QGIT_IDXENTRY_STAGE_NORMAL

(* strcmp(a, b) < 0: the end of a string is less than any character. *)
StrLess(a, b) ==
  LET At(s, i) == IF i > Len(s) THEN 0 ELSE s[i] IN
  \E i \in 1..Len(b) : At(a, i) < At(b, i) /\ \A j \in 1..(i - 1) : At(a, j) = At(b, j)

(* Mutant: the names alone. *)
TreeLessPlain(e, f) == StrLess(e.name, f.name)

(* tree_entry_cmp < 0: where the shorter name ends, a directory has a '/'. *)
TreeLess(e, f) ==
  LET len == IF Len(e.name) < Len(f.name) THEN Len(e.name) ELSE Len(f.name)
      Ending(g) == IF len < Len(g.name) THEN g.name[len + 1]
                   ELSE IF g.mode = "tree" THEN Slash ELSE 0
      SameUpTo(i) == \A j \in 1..i : e.name[j] = f.name[j]
  IN \/ \E i \in 1..len : SameUpTo(i - 1) /\ e.name[i] < f.name[i]
     \/ SameUpTo(len) /\ Ending(e) < Ending(f)

(* "%s%s%s" of root, a slash unless root is empty, and name. *)
Join(root, name) == root \o (IF root = <<>> THEN <<>> ELSE <<Slash>>) \o name

FirstSlash(s) == SelectInSeq(s, LAMBDA c : c = Slash)

(* strtok(path, "/"), the path cut at its slashes. *)
RECURSIVE Components(_)
Components(path) ==
  LET i == FirstSlash(path) IN
  IF i = 0 THEN IF path = <<>> THEN <<>> ELSE <<path>>
  ELSE Components(SubSeq(path, 1, i - 1)) \o Components(SubSeq(path, i + 1, Len(path)))

----------------------------------------------------------------------------
(* The tree builder *)

(* The position of a name in a tree or a builder, 0 if there is none. *)
ByName(entries, name) == SelectInSeq(entries, LAMBDA e : e.name = name)

(* Mutant: a second entry of the name beside the first. *)
InsertAppending(entries, name, mode, oid) ==
  Append(entries, [name |-> name, mode |-> mode, oid |-> oid])

(* qgit_treebuilder_insert: an entry of the same name is overwritten. *)
Insert(entries, name, mode, oid) ==
  LET i == ByName(entries, name)
      e == [name |-> name, mode |-> mode, oid |-> oid]
  IN IF i = 0 THEN Append(entries, e) ELSE [entries EXCEPT ![i] = e]

(* qgit_treebuilder_write: what the object holds. *)
Written(entries) == SortSeq(entries, TreeLess)

----------------------------------------------------------------------------
(* From the index to a tree *)

(* qgit_index_sort *)
Sorted(entries) == SortSeq(entries, LAMBDA e, f : StrLess(e.path, f.path))

(* write_tree: consumes the entries under prefix from the cursor on, and is *)
(* called again with the same cursor for a directory.                       *)
RECURSIVE WriteTree(_, _, _, _)
WriteTree(entries, cur, prefix, entriesOfTree) ==
  IF cur > Len(entries) THEN [tree |-> Written(entriesOfTree), cur |-> cur]
  ELSE LET e == entries[cur]
           rest == SubSeq(e.path, Len(prefix) + 1, Len(e.path))
           slash == FirstSlash(rest)
           dirname == SubSeq(rest, 1, slash - 1)
           sub == WriteTree(entries, cur, prefix \o dirname \o <<Slash>>, <<>>)
       IN IF e.stage # Normal THEN WriteTree(entries, cur + 1, prefix, entriesOfTree)
          ELSE IF ~IsPrefix(prefix, e.path)
          THEN [tree |-> Written(entriesOfTree), cur |-> cur]
          ELSE IF slash = 0
          THEN WriteTree(entries, cur + 1, prefix, Insert(entriesOfTree, rest, e.mode, e.oid))
          ELSE WriteTree(entries, sub.cur, prefix,
                         Insert(entriesOfTree, dirname, "tree", sub.tree))

(* qgit_tree_create_fromindex *)
CreateFromIndex(entries) == WriteTree(Sorted(entries), 1, <<>>, <<>>).tree

----------------------------------------------------------------------------
(* From a tree to its entries *)

(* foreach of tree_walk: the calls of the callback, in order.  The walk goes *)
(* into a tree unless the callback asked to skip it.                         *)
RECURSIVE Walk(_, _, _, _)
Walk(t, root, mode, descend) ==
  LET Visit(e) ==
        LET call == <<[root |-> root, entry |-> e]>> IN
        IF e.mode # "tree" THEN call
        ELSE IF mode = "pre"
        THEN call \o (IF descend THEN Walk(e.oid, Join(root, e.name), mode, descend) ELSE <<>>)
        ELSE Walk(e.oid, Join(root, e.name), mode, descend) \o call
  IN FlattenSeq([i \in 1..Len(t) |-> Visit(t[i])])

(* tree_walk_cb of qgit_index_read_tree: trees are left out. *)
ReadTree(t) ==
  LET calls == SelectSeq(Walk(t, <<>>, "pre", TRUE), LAMBDA c : c.entry.mode # "tree") IN
  [i \in 1..Len(calls) |->
     [path |-> Join(calls[i].root, calls[i].entry.name), stage |-> Normal,
      mode |-> calls[i].entry.mode, oid |-> calls[i].entry.oid]]

(* pretty_print_tree_entry of ls-tree: the paths it prints. *)
LsTree(t, recursive, showTrees) ==
  LET Shown(c) == c.entry.mode # "tree" \/ ~recursive \/ showTrees
      calls == SelectSeq(Walk(t, <<>>, "pre", recursive), Shown)
  IN [i \in 1..Len(calls) |-> Join(calls[i].root, calls[i].entry.name)]

(* cmd_ls_files: the paths under a prefix, which ends at a slash or is the path. *)
LsFiles(entries, prefix) ==
  LET Under(e) == /\ IsPrefix(prefix, e.path)
                  /\ Len(e.path) = Len(prefix) \/ e.path[Len(prefix) + 1] = Slash
  IN SelectSeq(entries, Under)

(* Mutant: the last name may be a file, which is passed over. *)
DescendPassing(trees, name) ==
  UNION {LET i == ByName(t, name) IN
         IF i = 0 THEN {} ELSE IF t[i].mode = "tree" THEN {t[i].oid} ELSE {t} : t \in trees}

(* One component of qgit_tree_get_subtree: none, or the tree of that name. *)
Descend(trees, name) ==
  UNION {LET i == ByName(t, name) IN
         IF i # 0 /\ t[i].mode = "tree" THEN {t[i].oid} ELSE {} : t \in trees}

(* qgit_tree_get_subtree *)
GetSubtree(t, path) == FoldLeft(Descend, {t}, Components(path))

----------------------------------------------------------------------------
(* To the work tree and back *)

Directory == "directory"

(* qgit_checkout_tree: what it creates, in order. *)
RECURSIVE Checkout(_, _)
Checkout(t, path) ==
  <<[path |-> path, node |-> Directory]>> \o
  FlattenSeq([i \in 1..Len(t) |->
    IF t[i].mode = "tree" THEN Checkout(t[i].oid, Join(path, t[i].name))
    ELSE <<[path |-> Join(path, t[i].name), node |-> t[i].oid]>>])

(* qgit_index_add2 *)
Add2(entries, e) ==
  LET i == SelectInSeq(entries, LAMBDA f : f.path = e.path) IN
  IF i = 0 THEN Append(entries, e) ELSE [entries EXCEPT ![i] = e]

(* Mutant: the directories below are left out. *)
AddPathShallow(entries, files, path) ==
  LET under == SetToSeq({f \in files : /\ IsPrefix(path \o <<Slash>>, f.path) /\ f.node # Directory
                                       /\ FirstSlash(SubSeq(f.path, Len(path) + 2, Len(f.path))) = 0})
      Add(acc, f) == Add2(acc, [path |-> f.path, stage |-> Normal, mode |-> "file", oid |-> f.node])
  IN FoldLeft(Add, entries, under)

(* add_path of a directory: its regular files, in the order of readdir. *)
AddPath(entries, files, path) ==
  LET under == SetToSeq({f \in files : IsPrefix(path \o <<Slash>>, f.path) /\ f.node # Directory})
      Add(acc, f) == Add2(acc, [path |-> f.path, stage |-> Normal, mode |-> "file", oid |-> f.node])
  IN FoldLeft(Add, entries, under)

----------------------------------------------------------------------------
(* Operations *)

RECURSIVE Depth(_)
Depth(t) ==
  IF \A i \in 1..Len(t) : t[i].mode # "tree" THEN 0
  ELSE 1 + (CHOOSE d \in 0..MaxDepth :
              /\ \E i \in 1..Len(t) : t[i].mode = "tree" /\ Depth(t[i].oid) = d
              /\ \A i \in 1..Len(t) : t[i].mode = "tree" => Depth(t[i].oid) <= d)

Step == ops > 0 /\ ops' = ops - 1

IndexAdd2(e) ==
  /\ Step /\ index' = Add2(index, e)
  /\ UNCHANGED <<tree, builder, disk>>

(* qgit_index_remove *)
IndexRemove(i) ==
  /\ Step /\ index' = RemoveAt(index, i)
  /\ UNCHANGED <<tree, builder, disk>>

IndexClear ==
  /\ Step /\ index' = <<>>
  /\ UNCHANGED <<tree, builder, disk>>

(* qgit_tree_create_fromindex also leaves the index sorted. *)
CreateTree ==
  /\ Step /\ index' = Sorted(index) /\ tree' = CreateFromIndex(index)
  /\ UNCHANGED <<builder, disk>>

(* qgit_index_read_tree *)
IndexReadTree ==
  /\ Step /\ index' = ReadTree(tree)
  /\ UNCHANGED <<tree, builder, disk>>

(* qgit_treebuilder_create, from nothing or from a tree. *)
BuilderCreate(source) ==
  /\ Step /\ builder' = source
  /\ UNCHANGED <<index, tree, disk>>

BuilderInsert(name, mode, oid) ==
  /\ Step /\ builder' = Insert(builder, name, mode, oid)
  /\ UNCHANGED <<index, tree, disk>>

(* qgit_treebuilder_remove; a name it does not have is an error. *)
BuilderRemove(name) ==
  /\ Step /\ ByName(builder, name) # 0
  /\ builder' = RemoveAt(builder, ByName(builder, name))
  /\ UNCHANGED <<index, tree, disk>>

(* qgit_treebuilder_clear *)
BuilderClear ==
  /\ Step /\ builder' = <<>>
  /\ UNCHANGED <<index, tree, disk>>

(* qgit_treebuilder_write leaves the builder sorted. *)
BuilderWrite ==
  /\ Step /\ builder' = Written(builder) /\ tree' = Written(builder)
  /\ UNCHANGED <<index, disk>>

(* qgit checkout refuses a path that exists; it stops at the first object it *)
(* cannot read or file it cannot write, and leaves what it created.          *)
CheckoutTree(n) ==
  /\ Step /\ \A f \in disk : f.path # Target
  /\ n <= Len(Checkout(tree, Target))
  /\ disk' = disk \cup Range(SubSeq(Checkout(tree, Target), 1, n))
  /\ UNCHANGED <<index, tree, builder>>

(* qgit add <directory> *)
AddTarget ==
  /\ Step /\ [path |-> Target, node |-> Directory] \in disk
  /\ index' = AddPath(index, disk, Target)
  /\ UNCHANGED <<tree, builder, disk>>

TreesInit == index = <<>> /\ tree = <<>> /\ builder = <<>> /\ disk = {} /\ ops = MaxOps

TreesNext ==
  \/ \E e \in IndexChoices : IndexAdd2(e)
  \/ \E i \in 1..Len(index) : IndexRemove(i)
  \/ IndexClear
  \/ CreateTree
  \/ IndexReadTree
  \/ \E source \in {<<>>, tree} : BuilderCreate(source)
  \/ \E name \in Names :
       \/ \E mode \in {"file", "link"}, b \in Blobs : BuilderInsert(name, mode, b)
       \/ Depth(tree) < MaxDepth /\ BuilderInsert(name, "tree", tree)
       \/ BuilderRemove(name)
  \/ BuilderClear
  \/ BuilderWrite
  \/ \E n \in 0..6 : CheckoutTree(n)
  \/ AddTarget

TreesSpec == TreesInit /\ [][TreesNext]_treeVars

----------------------------------------------------------------------------
(* Properties *)

Calls(t) == Range(Walk(t, <<>>, "pre", TRUE))
TreesIn(t) == {t} \cup {c.entry.oid : c \in {d \in Calls(t) : d.entry.mode = "tree"}}

(* Every tree that is written is canonical, whoever built it and in whatever *)
(* order: no name appears twice, and its files are met in the order of the   *)
(* index, so that an index read from a tree needs no sorting                 *)
(* (tree_entry_sort, qgit_treebuilder_insert).                               *)
TreesAreCanonical ==
  /\ \A t \in TreesIn(tree) : \A i, j \in 1..Len(t) : i < j => t[i].name # t[j].name
  /\ \A i \in 1..(Len(ReadTree(tree)) - 1) :
       StrLess(ReadTree(tree)[i].path, ReadTree(tree)[i + 1].path)

(* A file and a directory of one name: qgit add leaves the old entry in the *)
(* index, and the tree can hold only one of them.                            *)
Shadowed(entries, e) ==
  \E i \in 1..Len(entries) :
    entries[i].stage = Normal /\ IsPrefix(e.path \o <<Slash>>, entries[i].path)

(* The tree of an index holds its entries of stage 0, each with its mode and *)
(* id, except a file that shares its name with a directory: the directory    *)
(* wins, whichever was added last (write_tree).                              *)
TreeIsIndex ==
  LET Kept(e) == e.stage = Normal /\ ~Shadowed(index, e) IN
  ReadTree(CreateFromIndex(index)) = SelectSeq(Sorted(index), Kept)

(* What a tree looks like once it has been on disk: regular files only, and *)
(* no directory without a file.                                              *)
RECURSIVE Portable(_)
Portable(t) ==
  LET Plain(e) == IF e.mode = "tree" THEN [e EXCEPT !.oid = Portable(e.oid)]
                  ELSE [e EXCEPT !.mode = "file"]
  IN SelectSeq([i \in 1..Len(t) |-> Plain(t[i])], LAMBDA e : e.oid # <<>>)

(* A tree survives the way through the work tree: checked out, added and     *)
(* committed again it is the same tree, but for modes and empty directories  *)
(* (qgit_checkout_tree, add_path, write_tree, qgit_tree_get_subtree).        *)
CheckoutIsTree ==
  LET files == Range(Checkout(tree, Target))
      again == GetSubtree(CreateFromIndex(AddPath(<<>>, files, Target)), Target)
  IN again = {Portable(tree)} \ {<<>>}

(* Every way to look at a tree shows the same files: each entry of a walk is *)
(* found by its path and by nothing longer, the two walks meet the same      *)
(* entries with a directory before or after its contents, ls-tree -r prints  *)
(* what the index of the tree lists, and ls-files of a path prints the files *)
(* of the tree of that path, or the file (qgit_tree_walk, ls-files.c:57-63). *)
PathsResolve ==
  LET post == Walk(tree, <<>>, "post", TRUE)
      files == ReadTree(tree)
  IN /\ \A c \in Calls(tree) :
          LET dir == GetSubtree(tree, c.root)
              below == GetSubtree(tree, Join(c.root, c.entry.name))
          IN /\ \E t \in dir : t[ByName(t, c.entry.name)] = c.entry
             /\ below = IF c.entry.mode = "tree" THEN {c.entry.oid} ELSE {}
     /\ Range(post) = Calls(tree)
     /\ \A i, j \in 1..Len(post) :
          /\ post[i].entry.mode = "tree"
          /\ IsPrefix(Join(post[i].root, post[i].entry.name) \o <<Slash>>, post[j].root \o <<Slash>>)
          => j < i
     /\ \A c \in Calls(tree) :
          LET path == Join(c.root, c.entry.name)
              listed == LsFiles(files, path)
              inside == ReadTree(c.entry.oid)
          IN [i \in 1..Len(listed) |-> listed[i].path]
               = IF c.entry.mode = "tree" THEN [i \in 1..Len(inside) |-> Join(path, inside[i].path)]
                 ELSE <<path>>
     /\ LsTree(tree, TRUE, FALSE) = [i \in 1..Len(files) |-> files[i].path]
     /\ Len(LsTree(tree, FALSE, FALSE)) = Len(tree)

=============================================================================
