SPECIFICATION HSpec
CONSTANTS
  Procs = {p1, p2}
  HEAD = HEAD
  main = main
  dev = dev
  v1 = v1
  Branches = {main, dev}
  Tags = {v1}
  Paths <- Names
  Inodes = {1, 2, 3, 4, 5, 6, 7, 8}
  NoInode = NoInode
  Empty = Empty
  Missing = Missing
  None = None
  Zero = Zero
  NoObject = NoObject
  c1 = c1
  c2 = c2
  Oids = {c1, c2, c3, c4}
  Commands <- SwapCommands
  InitRefs <- BornRefs
  InitStore <- TwoCommits
  FirstInode <- MCFirstInode
  MaxCommands = 2
  MaxCrashes = 0
  MaxIOErrors = 0
INVARIANT CreatedAtomically
