\* Two tags with up to five uses in a file of five lines; the file may have
\* become shorter since.
SPECIFICATION Spec
CONSTANTS
  TagCount = 2
  MaxLine = 5
  MaxUses = 5
  Limit = 1
  Filtered = TRUE
INVARIANTS
  TypeOK
  LinesSurvive
  OwnText
\* The reader stops when it has printed everything.
CHECK_DEADLOCK FALSE
