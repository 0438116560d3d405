\* A source file that includes another one, and a database with -q.
SPECIFICATION Spec
CONSTANTS
  Files = {2, 4}
  Contents = {{4}}
  SourceLists = {{2}}
  Hazards = {}
  MaxTime = 2
CHECK_DEADLOCK FALSE
INVARIANTS
  SessionNames
