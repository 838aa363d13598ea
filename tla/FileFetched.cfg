\* One packet ends between the two blocks of a file.
CONSTANTS
  Replies <- Trees
  Buffer = 3
SPECIFICATION Spec
INVARIANT FileFetched
CHECK_DEADLOCK FALSE
