SPECIFICATION FairSpec
CONSTANTS
  Commits <- MCCommits
  Histories <- MCHistories
  Size = 4
  None = None
INVARIANT EachOnce
INVARIANT WalkIsExact
INVARIANT NewestFirst
INVARIANT ChildrenFirst
PROPERTY WalkEnds
