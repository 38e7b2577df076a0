\* Two processes and two commands; two failed system calls, a failure and a
\* kill, or two kills.
CONSTANTS
  Procs = {p1, p2}
  Paths <- MCPaths
  Inodes = {i1, i2, i3, i4, i5}
  NoInode = NoInode
  Empty = Empty
  Missing = Missing
  Letters <- MCLetters
  NoSection = NoSection
  NoValue = NoValue
  Deleted = Deleted
  FillsPages <- MCFillsPages
  Names <- MCNames
  Work <- MCWork
  Structure <- MCStructure
  InPlace <- MCInPlace
  CONFIG <- MCCONFIG
  GLOBAL <- MCGLOBAL
  Initial <- MCInitial
  DefaultConfig <- MCDefaultConfig
  Changes <- MCChanges
  FirstFiles <- MCFirstFiles
  FirstDirs <- MCFirstDirs
  MaxCommands = 2
  MaxTroubles = 2
SYMMETRY Perms
SPECIFICATION Spec
CHECK_DEADLOCK FALSE
INVARIANT FailedInitLeavesNoTrace
INVARIANT InitMakesRepository
INVARIANT UndisturbedConfigIsTransaction
INVARIANT SavedConfigReadsBack
