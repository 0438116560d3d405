\* A user who opens displays at a prompt, answers what was asked, and a
\* program that reads its input.
SPECIFICATION Spec
CONSTANTS
  Buffers = {"locals"}
  MaxTyped = 4
  OpensAnytime = FALSE
  AnswersEarly = FALSE
  LeavesInput = FALSE
  DiesWithIO = FALSE
  KillsAwaited = FALSE
  FilesLost = FALSE
INVARIANTS
  TypeOK
  OwnOutput
  Lockstep
  UpToDate
PROPERTIES
  Served
CHECK_DEADLOCK FALSE
