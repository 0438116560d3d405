\* Two files with a sort process each, which may fail at any moment; more
\* records than a buffer and a pipe hold.
CONSTANTS
  Files <- TagFiles
  Keys <- TwoKeys
  MaxPuts = 3
  BufSize = 2
  PipeSize = 1
SPECIFICATION Spec
\* gtags stops when it has closed its files.
CHECK_DEADLOCK FALSE
INVARIANTS
  TypeOK
  CompleteIfSorted
  NothingInvented
PROPERTIES
  AllEnd
