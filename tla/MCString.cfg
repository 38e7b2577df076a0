\* Eight numbers of size_t.
CONSTANTS
  Chars = {0, 1}
  Args <- MCArgs
  InitialCapacity = 2
  SizeLimit = 8
  MaxLen = 4
SPECIFICATION FarSpec
CHECK_DEADLOCK FALSE
INVARIANT BufferIsText
