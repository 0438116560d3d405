\* An undisturbed project: two source files and one other file.
CONSTANTS
  Paths = {p1, p2, p3}
  Contents = {c, r, b}
  Binary = {b}
  Undefining = {r}
  Sources = {p1, p2}
  Hazards = {}
  MaxTime = 3
  MaxFid = 3
  None = None
SPECIFICATION Spec
SYMMETRY PathSymmetry
\* The clock and the number of file ids are bounded, so the system may stop.
CHECK_DEADLOCK FALSE
INVARIANTS
  TypeOK
  TagsResolve
  StaleIsNewer
  Accurate
  Idempotent
