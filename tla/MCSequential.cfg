\* Each part alone, to the end of its elements, keys, bytes or operations.
CONSTANTS
  Elems = {1, 2, 3, 4, 5, 6, 7}
  Key <- MCKey
  None = None
  Given <- MCGiven
  Order <- MCOrder
  MinCap = 2
  Garbage = Garbage
  Nodes = {1, 2, 3, 4}
  Data = {d1, d2}
  Null = Null
  Keys = {1, 2, 3, 7}
  Hash <- MCHash
  NBuckets = 2
  Thresholds = {1, 3, 6}
  MaxVals = 5
  Chars = {0, 1, 2}
  Args <- MCArgs
  InitialCapacity = 2
  SizeLimit = 8
  MaxLen = 4
  b1 = b1
  b2 = b2
  IndexChoices <- MCChoices
  Names <- MCNames
  Blobs = {b1}
  Target <- MCTarget
  MaxDepth = 2
  MaxOps = 5
  Opts <- MCOpts
  Values <- MCValues
  Words <- MCWords
  MaxArgs = 3
  Ids <- MCIds
  Raw <- MCRaw
  Signatures <- MCSignatures
  Messages <- MCMessages
  Forests <- MCForests
  ForeignLines <- MCForeignLines
  Objects <- MCObjects
  Bases <- MCBases
  LongBases = {"x40", "c40", "missing40"}
  ShortBases = {"a", "s", "ab"}
  Abbrev <- MCAbbrev
  RefNames <- MCRefNames
  Direct = {"c", "gg", "gb", "gm", "missing", "cm"}
  MaxSets = 3
  RefPaths <- MCRefPaths
  TmpPath <- MCTmpPath
  PathOrder <- MCPathOrder
  FirstPaths <- MCFirstPaths
  Symbolic <- MCSymbolic
  MaxChanges = 2
SPECIFICATION SeqSpec
CHECK_DEADLOCK FALSE
PROPERTY IsPriorityQueue
INVARIANT VectorOwnsItsElements
INVARIANT ListIsItsItems
INVARIANT TableIsMap
INVARIANT BufferIsText
INVARIANT SearchesAgree
INVARIANT TreesAreCanonical
INVARIANT TreeIsIndex
INVARIANT CheckoutIsTree
INVARIANT PathsResolve
INVARIANT ArgumentsAreRead
INVARIANT ObjectsReadBack
INVARIANT RevisionsAlwaysResolve
INVARIANT ListingIsFaithful
