# Verification of qgit

qgit is a small Git in C: a library (`src/src/libqgit`) and a command line on
top of it (`src/src/cmd`).  A repository is a directory of files.  There is no
server, no thread and no lock: what makes it hard is that every command is a
sequence of system calls on files that other commands, in other processes, read
and write at the same time, and that a process may die between any two calls.

Paths below are relative to the repository, whose root is `src/`.

## Inventory

| component | state | operations | what makes it hard | what makes it correct |
|---|---|---|---|---|
| file replacement, `src/fileutils` | files, one `<path>.tmp` per path, descriptors | `read_file`, `write_file`, `mkdirp`, `rmdirr` | all writers share one temporary, opened with `O_TRUNC`; failures between open and rename; `stat` before `open` | a reader sees an old or a new version; no debris |
| references, `src/libqgit/refs`, `branch`, `object/tag` | `HEAD`, `refs/heads/*`, `refs/tags/*`, each an id or the name of another reference | lookup, resolve, create, set, delete, move | check, then act, without a lock; stale handles; undo after failure; cycles | a reference names a stored object; a command is all or nothing |
| commit, `cmd/commit`, `object/commit` | none of its own | parent, tree, object, branch, summary | reads `HEAD` three times | the commit is a child of the tip it replaces |
| object database, `src/libqgit/odb` | loose object files, list of backends by priority | read, read by prefix, write, exists | files written in place; directory creation; ambiguous prefixes | content addressed: an id always reads as the same object |
| index, `src/libqgit/index`, `cmd/add` | sorted array of entries, the index file | read, add, remove, write, read-tree, write-tree | read-modify-write of one file by several `add`; stat cache older than the blob | entries sorted and unique; the tree built is the tree of the entries |
| trees, `src/libqgit/object/tree` | | parse, build, sort, walk | recursion on path prefixes; Git's order of directories | round trip with the index |
| revision walk, `src/libqgit/revwalk` | heap of commits, set of ids seen | push of one root, next, reset, mode | shared ancestors, skewed and equal times, a parent that cannot be read | every reachable commit once; order by date; children before parents |
| revision syntax, `revparse.c` | | resolve a name to an object, peel | branch and tag of one name; prefixes | ambiguity is refused |
| repository, `src/libqgit/repo` | the directory skeleton | init, discover, open | init writes `HEAD` in place and is re-run on what a crash left | a second init repairs or leaves alone |
| configuration, `src/libqgit/config`, `src/iniparse` | a list of sections and keys, the file | get, set, delete, write | `<file>.lock` does not exclude | read after write |
| collections, `src/collection` | heap, hash table and set, vector, list, string builder | insertion, removal, growth, shrinking, search | indices, rehash, who releases an element | each is the set, map or sequence it stands for |
| object formats, `odb/rawobj`, `object/*_parse.c`, `*_create.c` | | format, parse | separators that may occur in the data, foreign header lines, time zones | what is written is read back; a text cut short is refused |
| ids, `src/libqgit/oid` | 20 bytes | to and from text, comparison of a prefix | an odd number of digits | bytes and text are the same id |
| argument parser, `src/argparse` | the context of a parse | `argparse_parse` | combined options, values that look like options | every way to write an option reads the same |
| checkout, `cmd/checkout` | a new directory | write a tree | stops half-way | the files are the tree |
| plumbing commands | none | print what the library returns | | |
| hashing, compression, credentials, messages | none | pure functions | | |

Interactions: commands call the library; the library calls `fileutils`; commit
and `tag -a` write to the object database before they write references; commit
builds a tree from the index; `log` walks what references name.  Everything
shared between processes is a file.

## Modules

| module | models | extends |
|---|---|---|
| `FileUtils` | the files: published entry, temporary, inode contents, descriptors; `write_file` by system call | |
| `RefStore` | the references and the commands that change them, by several processes, one action per file access | `FileUtils` |
| `RefDb` | abstract specification: a map of references and a set of objects, on which each command acts at once or not at all | |
| `RefHistory` | `RefStore` with history variables that record interference; the refinement `Db` of `RefDb`, the properties that use it, and the invariant behind them (`TxnInv`) | `RefStore` |
| `RefClaims` | what the documentation says of single commands | `RefHistory` |
| `RefTxnProofs` | proofs: types, closed history, stored references, empty files and temporaries; a command nobody disturbs is a transaction; one process implements `RefDb` | `RefHistory` |
| `LooseOdb` | the object database: the list of backends, and loose object files written in place, one action per system call | |
| `OdbHistory` | `LooseOdb` with history variables; its safety properties and what the documentation says of prefixes | `LooseOdb` |
| `OdbProofs` | proofs: writers of one file, whole objects, order of backends, reads | `OdbHistory` |
| `IndexFile` | the index file shared by concurrent `qgit add` and `qgit commit`, while the work tree is edited | `FileUtils` |
| `IndexHistory` | `IndexFile` with history variables; its properties | `IndexFile` |
| `IndexProofs` | proofs: order of the index, truth of its entries, stored blobs; an `add` nobody disturbs is a transaction | `IndexHistory` |
| `IniFile` | INI files: text cut into lines, parsing, change and writing | |
| `RepoSetup` | `qgit init` and `qgit config` by system call: directories, lock files, clean-up | `IniFile`, `FileUtils` |
| `IniProofs` | proofs: a line that is written is read as what was meant, if a line can hold it; a list that is written reads back; a change of one name leaves the others | `IniFile` |
| `SetupProofs` | proofs: an `init` nobody disturbs makes a repository or leaves no trace; a `config` nobody disturbs replaces its file and is a transaction on the names of it | `RepoSetup`, `IniProofs` |
| `PQueue` | abstract specification: a set from which an element with none before it is taken | |
| `Heap` | the binary heap of `src/collection`, one action per turn of a loop; the refinement of `PQueue` | |
| `SequentialProofs` | proofs: order of the heap, refinement of `PQueue`; the vector owns its elements; the list is its items; the table is a map | `Heap`, `Vector`, `SList`, `HashTable` |
| `Revwalk` | the revision walk over a priority queue of commits | |
| `Vector`, `SList`, `HashTable`, `StringBuf` | the other containers, beside the sequence or map they stand for | |
| `Trees` | the index in memory, trees and the tree builder, checkout, and the commands that list them | |
| `ObjectFormats` | the texts of objects and their parsers | |
| `OidText` | ids as bytes and as digits | |
| `TextProofs` | proofs: the builder's buffer is its text, its searches, parts and replacements agree; ids are their texts | `StringBuf`, `OidText` |
| `Revparse` | what a revision names, and what commands do with it | |
| `RefList` | the listing of references, and `show-ref` on it, beside a writer, one action per call on a directory | |
| `WalkProofs` | proofs: the revision walk yields once each, exactly the reachable, in order; a listing is faithful | `Revwalk`, `RefList` |
| `ArgParse` | command lines, beside what they mean | |
| `MCSequential` | the composition of `Heap` and of the modules from `Vector` on, one active at a time | these |
| `MCOdb` | `LooseOdb` in two scopes, and `OidText`, one of the three at a time | `MCLooseOdb`, `OidText` |
| `MCRefStore`, `MCRefs`, `MCLooseOdb`, `MCIndex`, `MCSetup`, `MCRevwalk`, `MCString` | small instances for TLC: repositories and sets of commands, keys, histories | |

How they meet: `FileUtils` is one specification of temporaries and inodes for
references, the index and the configuration, which all go through a
`<path>.tmp` or `<path>.lock` that does not exclude.  `Trees` is the array that
`IndexFile` reads and writes as one value; `Revparse` looks up in a map of
references, which `RefStore` says how it changes, and `RefList` how it is
walked; `OidText` is the abbreviation that `LooseOdb` searches for.
`RefStore` uses the object database as a map that only grows; `LooseOdb` says
how far the files bear that out.  `Revwalk` uses the heap as the priority queue
that `Heap` is shown to be, and the object database as the set of commits that
can be read.

### State and actions

A process `p` runs one command at a time: `cmd[p]` is the command line, `pc[p]`
the place in its code, named for what comes next, and `reg[p]` what it holds in
memory.  A step of a process is one access to a file (or the one write of an
object) with the decisions taken on its result, up to the next access; nothing
another process can see happens in between.

| place (`pc`) | action | code |
|---|---|---|
| `head`, `resolveHead` | `LookupHead`, `ResolveHead` | `repository_head`, `reference_resolve` at the start of commit, branch, tag, move |
| `peel` | `Peel` | `object_lookup`, `object_peel` of the start point |
| `object` | `WriteObject` | `odb_write` in `commit_create` and `tag_create` |
| `tip`, `resolveTip` | `LookupTip`, `ResolveTip` | the second lookup of `HEAD`, in `commit_create` |
| `summary`, `resolveSummary` | `LookupSummary`, `ResolveSummary` | the third, after the commit took effect |
| `ref`, `resolveRef`, `verify` | `LookupRef`, `ResolveRef`, `VerifyOld` | `update-ref`, `update-ref -d`; `ref` and `isHead` for `branch -d` |
| `exists` | `CheckExists` | the existence check of `reference_create_*` |
| `open`, `write`, `rename`, `unlinkTmp` | `OpenFile`, `WriteFile` or `WriteError`, `RenameFile`, `DiscardTmp` | `write_file` |
| `unlink` | `UnlinkRef` | `reference_delete`, `branch_delete`, `tag_delete` |
| `mvExists`, `mvRename`, `mvUndo` | `MoveExists`, `MoveRename`, `MoveUndo` | `branch_move` |

`Crash` kills a process anywhere.  Files are inodes, because a process that
opened `<path>.tmp` goes on writing that inode when another process has renamed
it to `<path>`.

In `LooseOdb` a process runs one call of the library at a time; `pc` and `reg`
are used in the same way.

| place (`pc`) | action | code |
|---|---|---|
| `idle` | `Attach` | `odb_add_backend`, `odb_open` |
| `statDir`, `mkdir` | `StatDir`, `Mkdir` | `loose_backend_write` |
| `open`, `write`, `unlink` | `Open`, `Write` or `WriteError`, `Unlink` | `zlib_compressf`, `write_all` |
| `scan` | `Scan` | `loose_backend_read_prefix` |
| `stat`, `openRead`, `read` | `Stat`, `OpenRead`, `Read` | `zlib_decompressf`, `read_all` |
| `exists` | `Exists` | `loose_backend_exists` |

The loops of `odb_read`, `odb_write`, `odb_read_prefix` and `odb_exists` over
the backends are `NextBackend`.

In `Heap`, `vec` is the vector of `struct heap`, counted from 1; `phase` and
`idx` say which loop is under way and where.  A call takes effect on the
contents at its first step (`Push`, `Pop`, `Clear`); `ShiftUp` and `ShiftDown`
are the turns of `shiftup` and `shiftdown`.

In `Revwalk`, `pq`, `visited` and `mode` are the members of `qgit_revwalk`; `pq`
counts each commit, because that none is queued twice is a property and not a
premise.  `hist` is the history in the object database, which does not change;
`root`, `emitted` and `failed` record what the present or last walk was asked
and has yielded.  `Push`, `NextCommit` or `Done`, `Reset` and `SetMode` are the
calls; `qgit_revwalk_push_head` is a push and `qgit_revwalk_set_sort` a reset,
since there is one order only.  `SetMode` is called on a blank walker, as the
documentation demands.

In `IndexFile`, `mem[p]` is the array a command read when it opened the
repository, `cur[p]` the entry of the file it is at, `todo[p]` the files still to
be added.

| place (`pc`) | action | code |
|---|---|---|
| `idle` | `StartAdd`, `StartCommit` | `index_open`, the whole file in one step |
| `stat` | `StatFile`, then `OpenIndexTmp` when nothing is left | `index_add`, `index_write` |
| `blob` | `CreateBlob` | `blob_create_fromfile`, `index_add2` |
| `write`, `rename`, `unlink` | `WriteIndex` or `WriteFails`, `RenameIndex`, `UnlinkIndexTmp` | `write_file` |
| `tree` | `WriteTree` | `tree_create_fromindex` in `cmd_commit` |

`Edit` is the user, `Kill` the end of a process anywhere, `AccessFails` a file
that cannot be read.  `file_unchanged` (`index_add.c:32-39`) compares size, time,
mode, inode and device, which are one value of `Stats`; an `Edit` may leave any of
them, also the one the file had, as an edit of the same size within a tick does.
`worn` in `IndexHistory` are the stats a file has had, and `again` the files whose
last edit left one of them: of those the code cannot know that they changed, and
the properties say nothing of what it then skips.

In `RepoSetup`, `dirs` are the directories, `proc[p]` the command of a process.

| place (`pc`) | action | code |
|---|---|---|
| `path`, `repodir`, `dirs`, `config`, `files`, `open` | `CheckPath`, `CheckRepodir`, `CreateStructure`, `CreateConfig`, `CreateFiles`, `OpenRepository` | the steps of `repository_init` |
| `mkdir` | `Mkdir` | one `mkdir(2)` of `mkdirp` |
| `create`, `fill` | `FopenInPlace`, `FprintInPlace` | `create_head`, `create_description` |
| `lock`, `write`, `rename`, `unlock`, `unlink` | `FopenLock`, `FprintLock`, `RenameLock`, `UnlinkLock`, `UnlinkConfig` | `iniparse_writeto`, `create_config` |
| `rollback`, `remove` | `Rollback`, `Rmdirr`, `RmdirrEnds`, `RmdirrFails` | the clean-up of `repository_init`, `rmdirr`, whose failing calls nobody looks at |
| `load` | `LoadConfig` | `cmd_config` up to the save |

`Kill` ends a process anywhere.  `DieMapping` is its end where a configuration is
opened: `iniparse.c:85-92` maps a file with one byte more than it has and writes
that byte, which is outside of the mapping when the file fills its pages
(`FillsPages`).  mkdirp may make directories above the work directory; a failed
`init` removes the work directory and `.qgit` only, so they stay.

The parts of `MCSequential` have no places: an action is a whole call, and the
variable beside the data (`list`, `items`, `map`, `text`, `wanted`, `meant`) is
what the calls so far should have left.  Calls that only look are in the
properties, which make them in every state: the searches of `StringBuf`, the
look-ups of `Trees` and `Revparse`, the comparisons of `OidText`.  Four have finer
steps: `Heap`, because its loops are what is proved; `HashTable`, whose insertion
moves one node at a time when it rehashes, during which no other call is made
(`arriving`); `StringBuf`, whose `string_replace_all` searches on in the text it
changes, one action for each turn (`replacing`); and `RefList`, because `opendir`, `readdir`, `stat` and the look-ups of `show-ref`
alternate with a writer's steps.  `readdir`
returns an entry that stays in the directory once; one that comes or goes during
the walk may be returned or not, and one that goes and comes again may be
returned again.  `ids` are the files that resolve to an id: a temporary does once
it is written, a symbolic reference as long as what it names does, and
`show-ref` dies at the first name that does not (`show-ref.c:73`).  The look-up
of `HEAD` by `show-ref --head` is left out.

### What is abstracted

- The contents of a reference file are one value.  A file opened with `O_TRUNC`
  and not yet written reads as `Empty`.  Two writers of one temporary leave the
  bytes of both when their lengths differ; the parser then reads the value
  written last (the first 40 digits, or the first word), which is what the model
  keeps.
- `read_file` is one step.  (It is `stat`, `open`, `read`; the difference shows
  only between two versions of different lengths.)
- The object database is a map that only grows.  An object has one link: the
  parent of a commit, the target of a tag.  Trees and blobs are in `IndexFile`
  and `Trees`.
- The error of an empty file is not recorded in `errno`; where the code tests
  `errno` without having cleared it, both outcomes are possible.
- In `LooseOdb` the bytes of an object file are `Blocks` pieces, each written or
  a hole.  All writers of an object write the same bytes at the same offsets, so
  a piece has no other contents.  Inflating succeeds on the whole file only,
  which is what the checksum of zlib is for.
- In `IndexFile` the bytes of an index are its length, its entries and whether
  its checksum agrees; a write over a longer file leaves the end of that file
  (`Over`), and is then refused by the reader.
- In `IniFile` a text is a sequence of characters, of which those that mean
  something to the parser are told apart: the space, the newline, `[`, `]`, `=`, `;`
  and `#`.  What is written is text, `SplitLines` cuts it at its newlines, and
  `LineOf` is what the parser takes a line for.  Nothing is quoted or escaped:
  `WrittenSection` and `WrittenEntry` are the texts of `write.c:85-90`, cut into
  lines.  `SecNames`, `KeyNames` and `Texts` are the names and values that the
  parser can take from a line.
- In `ObjectFormats` a text is a sequence of words; every character a parser
  looks for is a word of its own.  In `OidText` an id has two bytes.
- In `Trees` names are sequences of characters among which are one that is
  before the slash and one behind it; the id of an object is the object.
- Left out: invalid names, too long paths, failures of `malloc`, a branch name
  that is a directory of another (except in `RefList`), remote branches, the
  normalisation of the paths given to `qgit add`, and layout.

## Runs

| run | question | instance | result |
|---|---|---|---|
| `refs_pair` | do references and history stay whole, who answers for empty files and temporaries, and is a command that nobody disturbs a transaction? | 2 processes, any 2 of 24 commands, 4 repositories, 1 crash, 1 failed write | holds |
| `refs_alone` | does a single process implement `RefDb`? | 1 process, 3 commands, 1 crash, 1 failed write | holds |
| `refs_end` | does every command end? | 2 processes, 10 commands that make no cycle, 1 crash, 1 failed write | holds |
| `refs_swap`, `refs_torn` | does the code keep what the documentation says? | the smallest instance that shows it | violated, see Findings |
| `odb` | is a stored object whole, can it be read while others rewrite it, is it found in whichever backend it is, and are ids the texts they are asked by? | 3 processes, 1 object of 2 pieces, 1 directory, failed writes and kills at any time; 2 processes, 2 objects, 2 directories attached in any order; ids of 2 bytes | holds, 413549 states |
| `odb_fanout` | is a prefix searched in every backend, as an id is? | 2 objects of one prefix; 2 backends | violated, see Findings |
| `index_writers` | is what `add` publishes true of blobs and files, and is an `add` nobody disturbs a transaction? | 2 processes, 3 commands, 2 files, one edited meanwhile with either of 2 stats; failures and kills at any time | holds |
| `setup` | what do `init` and `config` leave when they fail, are killed, or meet each other? | 2 processes, 2 commands, 2 troubles; no work directory, no repository, half a one, or one with any of 5 configurations, an empty one or none | holds, 658701 states |
| `revwalk` | what does a walk yield, in which order, and does it end? | every history of 4 commits with up to 2 parents each, 3 times (2 when a commit is missing), any root, both modes | holds |
| `sequential` | does each part that works in memory do what it stands for? | see below | holds, 507871 states |
| `string_erase_far` | is what `string_erase` is asked to remove cut to what there is? | texts of up to 4 bytes, 8 numbers of `size_t` | violated, see Findings |

Bounds.  `MaxCommands`, `MaxCrashes` and `MaxIOErrors` bound the commands
begun, the processes killed and the writes that fail.  Two processes suffice
for every interference between a check and an act.  For a temporary that is made
by one process, renamed by another and unlinked by a third, three are needed;
`EmptyIsUnfinishedWrite` and `NoDebrisWithoutCrash` are proved for any number.
The references are
`HEAD`, two branches and a tag: enough for a symbolic reference to a symbolic
reference, a move, a branch that is current and one that is not.  Two objects
are stored at the start and two or three ids are free; free ids are
interchangeable, hence the symmetry, which is not used with liveness.  The
repositories a run starts from: `HEAD` on a branch, on an unborn branch, on a
symbolic branch, and detached.  Commands that name an id nothing is stored
under yet are included, because another process may store it meanwhile.

In `IndexFile` three commands are an `add` that is overtaken by two others.  One
edit is enough to fall between the stat of a file and its reading, and to leave
the stat as it was.  Only one file is edited; the other shows what happens to
entries a command was not asked for.

In `RepoSetup` two troubles are a write that fails and the clean-up that is
killed.  The work directory may have a parent to be made; the skeleton is one
directory, and `HEAD` stands for the files made in place.  The configurations have
a key without a value, a section that comes twice, a comment, a line that cannot
be read, and one fills its pages.  What `config` is asked to set has a value with
outer spaces and a `=`, and a name with a `=` and a value with a newline, which are
not read back.

`sequential` starts with a choice of the part whose calls are made; the rest
keeps still, so the parts add up and are not multiplied.  The heap needs
seven elements (below); a vector of five with a smallest capacity
of 2 grows twice; a listing meets two changes of two references, one in a
directory of its own, which is enough for one to go between `readdir` and `stat`, or
between the listing and its look-up, and for a temporary to be listed; four keys with three hashes make the table rehash with a
chain; texts of up to 4 characters, a NUL among them, hold overlapping matches;
`size_t` has eight numbers, so that a sum of two may be none; trees are two levels deep with names in which the order of directories and of
whole paths differ; a command line has up to 3 arguments over 5 options; ids are short
enough for every text over two digits, an invalid one, and one digit too many.

In `LooseOdb` nothing is counted, and the number of calls is not bounded.  Two
pieces suffice for a hole in front of a written piece, three processes for two
writers that overtake each other and a reader.

Seven elements make a heap of three levels, in which an element can sink twice
and pass a parent with one child.  Four commits make a diamond and a merge
whose side is an ancestor of its other side; with three times a parent can be
newer than, as new as, or older than its child.  A walk needs no other bound.

Fairness.  `FairSpec` of `RefStore` assumes weak fairness of the steps of each
process: the operating system runs every process, and no call blocks, since
there are no locks.  It does not assume that a process begins another command, nor that a
write succeeds.  `FairSpec` of `Revwalk` assumes weak fairness of
`qgit_revwalk_next`: `log` calls it until it says that there is no more.

### Properties

- `RefsAreStored`, `HistoryIsStored`: no reference dangles and history has no
  holes, at any moment.
- `UndisturbedIsTransaction`, `UndisturbedFailsOnlyIfRefused`: the correctness
  condition that this code without locks does meet.  A command is disturbed when
  another process has changed a reference file, or its temporary, that the
  command has already accessed.  A command that is not disturbed takes effect as
  one step of `RefDb`, at its rename or unlink, and fails only when `RefDb`
  refuses it.
- `ImplementsRefDb`: alone, the implementation refines `RefDb`.  Crashes are
  included: a killed command has taken effect or not.  `branch -m` is the
  exception that `RefDb` has to name (`MoveFollowUp`): the branch and `HEAD`
  change in two steps.
- `EmptyIsUnfinishedWrite`, `NoDebrisWithoutCrash`: files in intermediate states
  have a process that will finish them.
- `CommandsEnd`: every command ends.
- `StoredIsWhole`: writing in place without a lock does not destroy
  an object, as long as no writer fails on it.  `hurt` marks the objects a writer
  has failed on; a rewriting that begins alone makes one good again.
- `ReadFindsStored`: a read that begins with the object stored, and during which
  no writer fails on it, never answers that there is none.  It delivers the
  object unless it met a writer; the documentation does not exclude that it
  fails then, and it can.
- `SearchedByPriority`: the order of the backends.
- `IndexedBlobsAreStored`: an entry in the published index, or in a tree made of
  it, names a blob that is stored.
- `UnchangedIsUnchanged`: an entry with the stat of its file has the contents of
  its file, so what `add` skips has not changed, unless the last edit of the file
  left a stat it had had before.  `index_add.c:32-39` misses such an edit: of the
  same size, within the tick of the time stamp.  The stat is taken before the file
  is read; the other order would break the property for all other edits.
- `PublishedIsSorted`: in the order of paths, one entry each.
- `UndisturbedAddIsTransaction`: an `add` whose index nobody replaced and whose
  temporary nobody shared changes exactly the entries it was asked for.  One that
  is disturbed may undo another's entries, which the code does not prevent.
- `FailedInitLeavesNoTrace`, `InitMakesRepository`: the two outcomes of an `init`
  that nobody disturbs, from whatever an earlier one left.  A write whose failure
  `fprintf` hid is excepted (`cut`).  A file that was there stays as it was, also a
  `HEAD` that an `init` killed between `fopen` and `fprintf` left empty: no later
  `init` mends it.  A clean-up in which a call fails counts as disturbed.
- `UndisturbedConfigIsTransaction`, `SavedConfigReadsBack`: a change of one name
  leaves the others, and a file that is written reads as what was in memory, if
  what was asked for can be read (`AskedReadably`): a section without `]`, a key
  without `=` that does not start as a section or a comment does, neither with
  spaces at its ends, and no newline in any of them.  `qgit config` takes other
  names and values as well, and writes them as they are: `core.a=b` set to `c`
  sets `a` to `b=c`.  The first property has a part about files that holds of those
  too (`ConfigReplacesItsFile`): the other file stays, a failure leaves both, and
  what is written is the text of what was read, changed.
- `ListingIsFaithful`: a listing has what was there throughout, once, and nothing
  that never was, in order, and fails only if a file disappeared.  What was
  deleted and made again during the walk may be in it twice.  `show-ref` dies only
  at a name that was gone, or gave no id, at some time since the listing began: a
  temporary of a writer that is still empty is such a name, a dangling or
  malformed reference is another.
- `IsPriorityQueue`: what `heap_pop` hands out is first.
- `VectorOwnsItsElements`, `ListIsItsItems`, `TableIsMap`, `BufferIsText`,
  `SearchesAgree`: a container is the sequence, map or text that the calls should
  have left, and every element or node is held or was released, once; splitting,
  joining and searching a text agree with each other.
- `TreesAreCanonical`, `TreeIsIndex`, `CheckoutIsTree`, `PathsResolve`: index,
  tree and work tree are three forms of the same files.  Where they are not, the
  properties say so: a file that is shadowed by a directory of its name, modes,
  empty directories.
- `ObjectsReadBack`, `OidsAreTheirText`, `RevisionsAlwaysResolve`,
  `ArgumentsAreRead`: texts and what they mean.
- `EachOnce`, `WalkIsExact`: a walk yields each reachable commit once.  When a
  parent cannot be read the commit popped is lost, so completeness is claimed of
  walks that end without failure.
- `NewestFirst`, `ChildrenFirst`: what the order of time means for a history,
  with the condition on the times under which it holds.  With a parent newer
  than its child the order is not by time, and with equal times a commit may come
  before one of its children.
- `WalkEnds`: a walk ends and leaves a walker that can be used again.

### Findings

Four are shown by a run.

1. `update-ref` with an old value is not a compare-and-swap (`CompareAndSwap`).
   Every command that checks before it acts has the same gap: two `qgit branch x`
   may both succeed, two `qgit commit` may both succeed and one is lost, and
   `branch -d` may delete the branch that has become current meanwhile.
   `UndisturbedIsTransaction` is the condition under which none of this happens.
2. Two writers of one reference may publish an empty file
   (`CreatedAtomically`); if the second is killed the file stays empty.
3. A backend without the fanout directory ends the search for a prefix
   (`PrefixFindsStored`).
4. `string_erase` of so many bytes that their end is no `size_t` clamps nothing,
   because `string.c:334` adds before it compares, although `string.h:252` promises
   it, and moves bytes behind the end of the buffer (`BufferIsText` under
   `FarSpec`).  No caller in the repository does this; all other runs and the
   theorems use `StringSpec`, whose calls have an end that is a `size_t`.
   `string_substr` (`string.c:548`) has the same sum and is not modelled.

The rest was met while modelling; the model has the behaviour, and the
properties are stated so as to say where it shows.

- `update-ref HEAD <id>` fails on an unborn branch, although `src/README.md:751`
  says it follows the symbolic reference.  `UpdateAllowed` of `RefDb` demands
  that the branch is there, or `--no-deref`.
- Symbolic references that form a cycle are followed for ever: `Follow` has no
  bound, and `CommandsEnd` is checked with commands that make no cycle.
- A signature with `<` in the name or `>` in the address is written into commits
  that cannot be read again (`Readable` in `ObjectFormats`).
- Two `qgit add` that share a temporary may publish an empty index, or one
  with the end of another, which the next command refuses; `index.h:97` says the write is
  atomic.  `UndisturbedAddIsTransaction` excepts a shared temporary.
- `qgit add` of a path that was a directory leaves the old entries, and the file
  is not in the tree (`Shadowed` in `Trees`).
- A listing shows the temporary of a writer as a reference, and fails when a
  file goes between `readdir` and `stat`; `show-ref` dies at a name that does not
  resolve.
- A configuration key without `=` is written back with one, and names and values
  are written unescaped (`write.c:85-90`), whatever `qgit config` was given;
  `config.h:43` says only that keys have the format `<section>.<name>`.
- A configuration whose size is a multiple of the page size kills the process
  that opens it (`iniparse.c:92`; `DieMapping`).
- `argparse.h:35` has `--flag<value>` among the ways to write an option;
  `parser.c:373-378` takes it for an unknown option (`WriteJoined` in `ArgParse`).
  `ArgumentsAreRead` is about the others.
- An edit that leaves the stat of a file as it was is not seen by `qgit add`
  (`again` in `IndexHistory`).
- `fprintf` and `fclose` are not asked whether they succeeded: an `init` or a
  `config` on a full disk succeeds and leaves a short file (`cut`).

Not modelled: a prefix that is unique in each of two backends is not refused;
the iterator of the hash table ends at once when the first bucket is empty
(nothing in the library iterates).

## Proofs

TLAPS checks the theorems below for every value of the constants: every set of
processes, references, commands, repositories, objects, directories and bounds.
The assumptions they use are named in the modules that declare the constants,
and TLC evaluates them on the instances of the runs.

Each safety theorem has the same form.  An invariant of the whole state is
defined beside the properties (`RefInv`, `TxnInv`, `WriterInv`, `ReaderInv`,
`IndexInv`, `AddInv`, `SetupInv`, `ConfigInv`, `ListInv`, `VectorInv`, `SListInv`,
`TableInv`, `StringInv`, `SearchInv`, `OidInv`, `HeapInv`, `WalkInv`);
it holds at first, one lemma for each action shows that a step keeps it, and the
property follows from it, or, for an action property, from it and the one step
that could break it.

### References

From the assumptions named in `FileUtils` and `RefStore`: `NoInode` is no inode;
ids, names and markers are disjoint; the commands are well formed; the behaviour
starts from a repository whose history is closed and whose references are stored
ids or names.

| theorem | statement |
|---|---|
| `RefInvariant` | `Spec => []RefInv` |
| `TypeCorrect` | `Spec => []TypeOK` |
| `ReferencesAreStored` | `Spec => []RefsAreStored` |
| `HistoryHasNoHoles` | `Spec => []HistoryIsStored` |
| `TmpInvariant` | `Spec => []TmpInv` |
| `EmptyFilesAreBeingWritten` | `Spec => []EmptyIsUnfinishedWrite` |
| `NoDebris` | `Spec => []NoDebrisWithoutCrash` |

`RefsAreStored` is not inductive: whether a reference is written with a stored
id depends on what the command has in memory, and that on where it stands.
`RefInv` adds `Consistent`, which says what is known of the registers at each
place (at `open`, the value to be written is stored or a name; at `object`, the
parent or the target is stored), and that every inode, reachable or not, holds a
stored id, because a temporary becomes a reference by a rename.  A step that
changes only memory keeps `RefInv` by `QuietStep`, one that changes files by
`FileStep`; each action has a lemma that supplies what these need.

`TmpInv` is inductive beside `RefInv`.  Its witnesses are processes: the one
with the empty inode open at `write`, the one at `write`, `rename` or
`unlinkTmp` on the reference of a temporary.  A process elsewhere is a bystander
(`BystanderStep`); the steps of `write_file` are treated one by one.

### Transactions on references

With two assumptions of `RefHistory` more: `HEAD` is not the name of a branch
(`HeadIsNoBranch`; the commands put `refs/heads/` before it), and there are
finitely many names and ids (`FinitelyMany`; a repository is finite):

| theorem | statement |
|---|---|
| `TxnInvariant` | `HSpec => []TxnInv` |
| `UndisturbedCommandsAreTransactions` | `HSpec => UndisturbedIsTransaction` |
| `UndisturbedCommandsFailOnlyIfRefused` | `HSpec => UndisturbedFailsOnlyIfRefused` |
| `OneProcessImplementsRefDb` | with one process, `HSpec => ImplementsRefDb`, the refinement of `RefDb` |

`TxnInv` says of a command that is not disturbed what it knows at each place:
what it has read still stands in the files it has read it from (`KnowsPath`,
`KnowsPlace`), the value to be written is one that `RefDb` would write
(`KnowsValue`), and the temporary is its own and holds it (`KnowsTmp`).  A step
of another process keeps this or disturbs the command, because all of it is about
files the command has accessed; that is what `seen` is for.  `NamesApart`, no
inode with two names, is what lets a rename change one reference only.  `RefDb`
follows links as often as there are names and the code until there is none; that
the two agree where the code arrives is shown by the least number of links that
is enough.  With one process no command is ever disturbed, and each step is a
step of `RefDb` or none: the rename and the unlink are the steps, everything else
leaves references and objects alone, but for the object of a commit or a tag.

### Object database

From the assumptions named in `LooseOdb`: files have at
least one piece, there is an object, priorities are integers, `NoInode` is no
inode:

| theorem | statement |
|---|---|
| `OdbTypeCorrect` | `HSpec => []TypeOK` |
| `WritersAreInOrder` | `HSpec => []WriterInv` |
| `ObjectsAreWhole` | `HSpec => []StoredIsWhole` |
| `BackendsAreOrdered` | `HSpec => []SearchedByPriority` |
| `ReadersAreOnTheWay` | `HSpec => []ReaderInv` |
| `ReadsFindTheStored` | `HSpec => ReadFindsStored` |

`StoredIsWhole` says only that an incomplete file has a writer, and that writer
might have been overtaken by a truncation of another.  `WriterInv` adds that one
of the writers has not been (`LastTruncationIsCovered`): the pieces behind its
offset are all there, and it will write those in front of it.  The one that
truncated last is always such a writer.  The steps fall into three classes:
those that leave the files alone or leave one in doubt (`LeaveStep`), `Write`
(`WriteStep`) and `Open` (`OpenStep`).

`ReaderInv` says of a read that began with the object stored that the object is
in the directory it searches or in one still to come (`Ahead`): a directory in
which it finds nothing cannot have been that one, and a backend attached
meanwhile moves the place along with the list.  If it has met no writer, what it
has open is the whole file and all it has read is good (`ReadsWhole`); that uses
`ObjectsAreWhole`, for a file without a writer is whole.

### Index

From the assumptions named in `FileUtils` and `IndexFile`: the
index is a path, the files are numbered, at least one is tracked, there is a stat, "gone" is no
contents and no stat, the markers of a missing and of an empty file are no index, and
`NoInode` is no inode:

| theorem | statement |
|---|---|
| `IndexInvariant` | `HSpec => []IndexInv` |
| `IndexNamesStoredBlobs` | `HSpec => []IndexedBlobsAreStored` |
| `SkippedFilesAreUnchanged` | `HSpec => []UnchangedIsUnchanged` |
| `IndexIsSorted` | `HSpec => []PublishedIsSorted` |
| `AddInvariant` | `HSpec => []AddInv` |
| `UndisturbedAddsAreTransactions` | `HSpec => UndisturbedAddIsTransaction` |

What is published was in the memory of a process, and before that perhaps in a
file, so `IndexInv` claims of every inode and of every process's copy what the
properties claim of the published index: each entry is `Truthful` (its blob is
stored, its stat is one the file has worn, and not that of the file unless the
contents are or the last edit left a stat worn before), and the entries are
unique.  An edit breaks no entry: with a stat the file never had it is that of
none, and with one it had the file is among `again` (`EditPreserves`).  A `stat`
before the reading is one the file wears, so that the entry made later is true if
nothing was edited in between and has an old stat if something was.  A sort keeps the entries
(`Sortings`), an `add2` replaces one by one that is truthful.

`AddInv` says how far an `add` has come: every file it was asked for is still to
be done, at hand, or in its copy with an entry as recent as its start; while
nobody replaces the index, the rest of its copy is the rest of the index; and
while nobody else opens the temporary, the temporary holds nothing or its copy
(`TmpIsOwn`).  Neither of the last two depends on the other, which is why the
property takes both conditions.

### Configuration files

From the one assumption named in `IniFile`, that the marks for no section, no value
and a deleted key are no texts:

| theorem | statement |
|---|---|
| `ReadBack` | for every list of names and values that a line can hold: `ReadsBack(ini)` |
| `ParsedIsIni` | for every sequence of lines: what is read of it `IsIni`, with trimmed values |
| `SetIsListed` | for every list, name and value: `iniparse_set` puts it first of its name and leaves every other name |
| `UnsetIsListed` | for every list and name it has: `iniparse_unset` takes one entry of it and leaves every other name |

A text that is written is one line if it has no newline (`OneLineOf`), and which
line that is follows from its first character that is no space, its first `=` and
its first `]` (`SectionIsWritten`, `EntryIsWritten`): of a name or value that a line
can hold, the one that was meant.  Of any others it is still some lines
(`WrittenType`), which is what a file needs to be parsed at all.

`ReadsBack` says that what `iniparse_writeto` writes is lines, that parsing them
meets no error, and that the list read has the same items, which is what
`iniparse_fprint` prints, in the same order, with trimmed values.
`iniparse_parse` is a recursive function on the number of the line, and what it
computes is an induction; without the library's induction theorems, which take
an operator as parameter that no installed prover instantiates,
each is argued by the least number of lines at which the claim fails
(`LeastNat`).  The argument walks along what is written, section by section and
item by item.  After the line of a section and its first lines, the list read
consists of the sections before, trimmed, and of those lines.  Three facts carry
it: a line is never skipped, because every entry is written with a `=`; a section
comes once in memory, so what is put goes to the end of the list; and a section
of which nothing is left is read as none, which loses no item.  What is set or
unset is followed into the items the same way: one section of the list changes,
and the items of the others are before and behind its own (`FlattenSeq` is a
fold of the library, and the lemmas about it are proved in the same module).

### Repository

From nine assumptions of `RepoSetup`, those of `IniFile`, and that `NoInode` is no
inode: `.qgit` and `lock` are names; the work
tree is not the root; the directories of the skeleton are below the repository;
the files are no directories, and a lock file is no other file; each file is made
once, the configuration in its own way; changes are of the
two configurations, and what they ask for is text; what is in a file at first, and what `init` writes, are lines,
and the marks for an empty and for a missing file are none; there is a tree of
directories at first, and none called `.qgit` within the repository; the files
there at first have an inode each:

| theorem | statement |
|---|---|
| `SetupInvariant` | `Spec => []SetupInv` |
| `FailedInitsLeaveNoTrace` | `Spec => []FailedInitLeavesNoTrace` |
| `InitsMakeRepositories` | `Spec => []InitMakesRepository` |
| `ConfigInvariant` | `Spec => [](SetupInv /\ ConfigInv)` |
| `ConfigsReplaceTheirFiles` | `Spec => []ConfigReplacesItsFile` |
| `TextInvariant` | `Spec => [](SetupInv /\ ConfigInv /\ TextInv)` |
| `SavedConfigsReadBack` | `Spec => []SavedConfigReadsBack` |
| `UndisturbedConfigsAreTransactions` | `Spec => []UndisturbedConfigIsTransaction` |

`FilesInv` holds of every state, disturbed or not: what exists is in a directory
that exists, an inode has one name, and the directories `mkdirp` still has to
make are those above one of the skeleton.  `InitInv` is about an `init` nobody
disturbs.  Nothing that was there is lost (`KeepsWhatWas`); the two directories
the clean-up would remove are new if the command believes so, and if they are new
it believes so (`KnowsWhatIsNew`), so that a failure removes them both and nothing
else; and what has been made so far is a beginning of what is to be made
(`MakesDirs`, `MakesFiles`).  `ConfigInv` is about a `config` nobody disturbs:
until the rename every file is as it was, which needs that an inode has one name,
since the lock file may be one that a killed command left; the lock file is open
and empty before the write, because the write keeps what is behind its own lines;
and from the load on the entries in memory, later those in the lock file, are the
ones found, changed.

`TextInv` needs no peace: whatever is killed, cut or shared, an inode holds lines
or nothing, and what a command has in memory has one place for each section, and
names and values that a line can hold if it was asked for such.  So `ReadBack`
applies to every list that is about to be written by such a command.  That a `config`
ends in success means also that the file was not empty when it was read: an empty
file does not open (`FoundLines`).  Then `ConfigsReplaceTheirFiles` says which
entries are in which file, and `ParsedIsIni`, `SetIsListed` or `UnsetIsListed`,
and `ReadBack` say how they read.

### Containers, ids, listing and walk

Of the heap, from the assumption that keys are integers and `None` is no element;
of the vector, that no element is pushed twice (`GivenOnce`) and that the smallest
capacity is positive (`MinCapIsPositive`); of the list, that no node is at `Null`
(`NullIsNothing`); of the table, that the hash of a key and the thresholds are
numbers and the buckets 2, 4, 8 or 16 at first (`TableConstants`); of the string
builder, that what is pushed are bytes and what is passed are C strings, that the
first capacity is positive and the bounds numbers (`CharsAreBytes`,
`ArgsAreCStrings`, `CapacityIsPositive`, `LimitsAreNats`); of the ids, that they have at least one byte, that the ids read
are bytes, and that a text is a sequence (`RawSzIsPositive`, `RawIdsAreBytes`,
`HexTextsAreSequences`):

| theorem | statement |
|---|---|
| `HeapIsOrdered` | `Spec => []HeapInv` |
| `HeapIsPriorityQueue` | `Spec => IsPriorityQueue`, the refinement of `PQueue` |
| `VectorInvariant` | `VectorSpec => []VectorInv` |
| `VectorsOwnTheirElements` | `VectorSpec => []VectorOwnsItsElements` |
| `SListInvariant` | `SListSpec => []SListInv` |
| `ListsAreTheirItems` | `SListSpec => []ListIsItsItems` |
| `TableInvariant` | `TableSpec => []TableInv` |
| `TablesAreMaps` | `TableSpec => []TableIsMap` |
| `StringInvariant` | `StringSpec => []StringInv` |
| `BuffersAreTheirTexts` | `StringSpec => []BufferIsText` |
| `SearchInvariant` | `StringSpec => []SearchInv` |
| `TextsAreSearched` | `StringSpec => []SearchesAgree` |
| `OidInvariant` | `OidSpec => []OidInv` |
| `IdsAreTheirTexts` | `OidSpec => []OidsAreTheirText` |

`HeapInv` is inductive with the types: `LoopOrder` says that without the element
at the index of the loop the order holds around it too, which is what makes one
exchange enough.  That the first element is before all others (`FirstIsFirst`)
takes the least index of one that is before it, and looks at its parent.

`VectorInv` gives the number of releases exactly: none of an element that waits
or is held, one of every other.  A call either takes an element in at a place
(`GainStep`), lets those of a range of slots go (`LoseStep`), or permutes the
slots in use, and what is behind them does not matter.  That a comparator that
is no order at all loses nothing either is the pigeonhole principle: `qsort` may
leave any permutation, and an injection of the slots into themselves is one.

`SListInv` is `ListIsItsItems` with the types.  The address of a new node is any
that is not in use, so nothing rests on the order in which memory is given out.
A call either links a node in behind the first `k` items (`LinkStep`) or unlinks
the one after them (`UnlinkStep`), and both are argued once for every `k`.  What
the release of a whole list reaches is the least set closed under `next`; that it
is every node of the list takes the least item the walk would not meet.

`TableInv` says which entries the chains of a table hold, each chain those of its
hash and each key once (`IsTableOf`): the old table those that have not been
moved, the new one those that have.  So a step of a rehash takes an entry from one
table and puts it into the other, and when the old chains are empty the new ones
hold all entries, because every entry has a chain.  An insertion, a removal and an
update are a put, a take and an exchange of one entry in one table (`TablePuts`,
`TableTakes`, `TableSets`).  Nothing is assumed of the hash function, nor of the
threshold at which a rehash comes.

`StringInv` is `BufferIsText` with the types, and for a replacement under way that
the search goes on within the text.  Nearly every call is a splice: of the bytes some
stay, some come in, and the rest follow at another offset, with the NUL behind them
(`Spliced`).  The calls differ in what they move first and whether they make room
for it, so there is one lemma for `memcpy`, one for `memmove`, one for `realloc`,
and one that puts them together (`SpliceHolds`).  That a match found in the buffer is
one of the text, though `strstr` knows nothing of the length, is because the pattern
has no NUL and the byte behind the text is one (`StrstrFacts`).

`SearchInv` adds what the loop of `string_replace_all` should leave: what is in
front of its offset, and the parts behind it joined by the replacement.  What the
recursive functions compute is told without induction over them.  `SplitFrom` goes
from the end of the text to its start, `string_join` from the first part to the
last; that they have values at all, and each claim on those values, is about a set
of places: one that has a place when it has all behind it (`FromTheEnd`), or that
has the first and with a place the next (`FromTheStart`).  The last, or the first,
place it misses cannot be, so it has all.  One part more in front is one turn of `SplitFrom` (`SplitStep`) and prepends to what is joined
(`JoinsCons`), so the parts joined are the text again (`SplitJoins`); no part has
the pattern, because `strstr` finds the first match (`StrstrIsFirst`,
`PartsHaveNot`).  An exchange in the loop moves what is behind it, whose parts are
the same ones elsewhere (`SplitShifts`), so what it should leave stays what it was
(`WantedStays`).  The last match is the greatest offset of one (`FindLastIsLast`).

`OidInv` says that the digits of an accepted text are in the id it was read into.
A digit is half of a byte (`Nibble`), and the other facts follow from that: two
bytes agree when both halves do, and are in the order of the first half in which
they differ.  So the first byte in which two ids differ, which decides `memcmp`,
holds the first digit in which their texts do, and of an odd number of digits the
last is compared alone.

Of the listing, from four assumptions of `RefList`: a reference is below the
directory of its kind; a temporary is beside its file; the order of paths is
total; at first no reference is a directory of another:

| theorem | statement |
|---|---|
| `ListInvariant` | `ListSpec => []ListInv` |
| `ListingsAreFaithful` | `ListSpec => []ListingIsFaithful` |

`ListInv` says where the walk stands to a reference that is there throughout.  Its
prefix is still to be walked; or a directory above it, or the reference itself, is
in hand or yet to be returned by `readdir` in an open directory; or it is listed
(`IsReached`).  And if it is listed or in hand, the entry that leads to it has
been returned in every open directory above it, so that the walk does not come
back (`IsReachedOnce`).  Nothing removes a directory, and a file that stays keeps
its entry, so no change by the writer takes that away.  `unresolved` collects what each change
leaves without an id, so a file that was ever there is among `ids` or `unresolved`,
and the name at which `show-ref` dies is not among `ids`.  Sorting is by counting: the `i`-th name
of the sorted list is the one with fewer than `i` names before it and at least `i`
up to it, and there is one by the least number of names before another.

Of the revision walk, for every set of histories:

| theorem | statement |
|---|---|
| `RevwalkTypeCorrect` | `Spec => []TypeOK` |
| `YieldsEachOnce` | `Spec => []EachOnce` |
| `YieldsTheReachable` | `Spec => []WalkIsExact` |
| `YieldsNewestFirst` | `Spec => []NewestFirst` |
| `YieldsChildrenFirst` | `Spec => []ChildrenFirst` |

`WalkInv` says that visited is the queue and what has been yielded, unless a step
failed, and holds the parents of what has been yielded; when the queue is empty
it is closed, and so everything reachable, which is defined as the least closed
set.  For the order, `QueueIsOlder` relates what has been yielded to the queue,
and `HeldBack` shows that every reachable commit still to come has one in the
queue that is at least as new: the commits with that property are a closed set.

### Only model-checked

- Liveness (`CommandsEnd`, `WalkEnds`): the prover does not reason about
  fairness.
- `TreesAreCanonical`, `TreeIsIndex`, `CheckoutIsTree`, `PathsResolve`,
  `ObjectsReadBack`, `RevisionsAlwaysResolve`, `ArgumentsAreRead`: their modules
  have recursive operators.

## Not modelled

- SHA-1, zlib, the random access of `mmap`: computation of the libraries.  Of
  zlib `LooseOdb` has what a broken stream does.
- `help.c` and the descriptions of commands, the printing of objects, logs and
  configurations: layout of text.
- The public headers, half of whose lines are comments on calls: they are what
  the properties are held against, and no code.
- Accessors (`*_id`, `*_type`, `*_free`, ...), which return a member or release
  memory, except where releasing is a property (`Vector`, `SList`, `HashTable`).
- Failures of `malloc`, in all modules: a process that meets one dies, which the
  modules with processes have as a kill.
- `string_substr`, `copy_dir`, `copy_file`, the iterators of the containers,
  `qgit_config_get_bool`: nothing in the repository calls them.
- `normalize_path` of `qgit add`, `abspath`, `fbasename`: text of paths.
- `hash-object`, `rev-parse`, `tag -l`: nothing beyond the calls of the library
  that are modelled.
- The `mkdir` of a fanout directory that another writer makes first
  (`loose_write.c:66`) is in `LooseOdb`; that the object then goes to the next
  backend or the command fails is in no property, because no document says what
  should happen.

## Plan

What would come next: trees and the index in memory, with their recursion over
directories as functions on the depth, so that a module with proofs can use them.
