\* gtags may be killed between any two steps, and langmap may change.
CONSTANTS
  Paths = {p1, p2}
  Contents = {c, d}
  Binary = {}
  Undefining = {}
  Sources = {p1, p2}
  Hazards = {"crash", "reconfigure"}
  MaxTime = 2
  MaxFid = 2
  None = None
SPECIFICATION Spec
CHECK_DEADLOCK FALSE
INVARIANTS
  PathTableSound
  RemakeRepairs
PROPERTIES
  NewFilesLast
