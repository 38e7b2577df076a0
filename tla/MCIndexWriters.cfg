\* Two processes, two files, one of them edited, two stats to wear.
CONSTANTS
  index = index
  p1 = p1  p2 = p2
  b1 = b1  b2 = b2
  s1 = s1  s2 = s2
  i1 = i1  i2 = i2  i3 = i3
  Procs = {p1, p2}
  Paths = {index}
  INDEX = index
  Inodes = {i1, i2, i3}
  NoInode = NoInode
  Empty = Empty
  Missing = Missing
  Files = {1, 2}
  Bytes = {b1, b2}
  Gone = Gone
  Edited = {1}
  Stats = {s1, s2}
  MaxEdits = 1
  MaxCommands = 3
  Faults = TRUE
SPECIFICATION HSpec
SYMMETRY MCSymmetry
CHECK_DEADLOCK FALSE
INVARIANT IndexedBlobsAreStored
INVARIANT UnchangedIsUnchanged
INVARIANT PublishedIsSorted
PROPERTY UndisturbedAddIsTransaction
