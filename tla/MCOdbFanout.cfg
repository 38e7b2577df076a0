SPECIFICATION HSpec
CONSTANTS
  Procs = {p1}
  o1 = o1
  o2 = o2
  ab = ab
  fan1 = fan1
  Objects = {o1, o2}
  Abbrevs = {ab}
  Fans = {fan1}
  Match <- MCMatch
  FanOf <- MCFanOf
  Dirs = {d1, d2}
  Priorities = {1, 2}
  Inodes = {1, 2, 3, 4}
  NoInode = NoInode
  Blocks = 1
  Faults = FALSE
SYMMETRY ProcSymmetry
CHECK_DEADLOCK FALSE
PROPERTY PrefixFindsStored
