\* Three processes, of which two act in the scope of several backends.
SPECIFICATION OdbSpec
CONSTANTS
  Procs = {p1, p2, p3}
  o1 = o1
  o2 = o2
  ab = ab
  fan1 = fan1
  d1 = d1
  Objects = {o1, o2}
  Abbrevs = {ab}
  Fans = {fan1}
  Match <- MCMatch
  FanOf <- MCFanOf
  Dirs = {d1, d2}
  Priorities = {1, 2}
  Inodes = {1, 2, 3, 4}
  NoInode = NoInode
  Blocks = 2
  Faults = TRUE
  RawSz = 2
  HexTexts <- MCHexTexts
  RawIds <- MCRawIds
SYMMETRY ProcSymmetry
CHECK_DEADLOCK FALSE
INVARIANT StoredIsWhole
INVARIANT SearchedByPriority
INVARIANT OidsAreTheirText
PROPERTY ReadFindsStored
