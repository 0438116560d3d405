\* A cache of one buffer under a file of up to three pages of the other byte
\* order, reads and writes that fail, after which the program
\* ends or goes on, and programs that are killed.
SPECIFICATION Spec
CONSTANTS
  Contents = {a, b}
  NeedSwap = TRUE
  MaxCache = 1
  MaxPages = 3
  MaxHeld = 2
  MaxLost = 1
  Faults = {"read", "write", "crash"}
INVARIANTS
  TypeOK
  HeldIsPinned
  Transparent
  CacheBound
  SavedUnlessFailed
