\* Two files that may include themselves or each other: the list {4} can grow
\* to <<4, 2>>, out of the order of strcmp().  No bound but that of the clock.
SPECIFICATION Spec
CONSTANTS
  Files = {2, 4}
  Contents = {{2}, {4}}
  SourceLists = {{4}, {2, 4}}
  Hazards = {}
  MaxTime = 2
\* The clock is bounded, and without source files nothing is built.
CHECK_DEADLOCK FALSE
INVARIANTS
  TypeOK
  StaleIsNewer
  CopiesUnchanged
  IndexAgrees
PROPERTIES
  IsCurrent
