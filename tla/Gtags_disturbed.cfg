\* Edits while gtags runs, in the second of the time stamp, with old mtimes,
\* beside a --single-update; langmap changes.
CONSTANTS
  Paths = {p1, p2}
  Contents = {c, r}
  Binary = {}
  Undefining = {r}
  Sources = {p1, p2}
  Hazards = {"concurrent_edit", "same_second", "backdated", "unrelated_change", "reconfigure"}
  MaxTime = 2
  MaxFid = 2
  None = None
SPECIFICATION FairSpec
CHECK_DEADLOCK FALSE
INVARIANTS
  NoMisattribution
  TagFilesAgree
PROPERTIES
  Terminates
  TagFilesAreIndexes
