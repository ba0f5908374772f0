SPECIFICATION Spec
CONSTANTS
  Tab = {a, b}
  Opened <- MC_AllPages
  MaxPresses = 2
  MaxEdits = 2
  MaxOpens = 1
INVARIANTS
  TypeOK
  OneRequestPerPage
  NeverStuck
  NoticeIsTrue
PROPERTY
  NothingElseChanges
CHECK_DEADLOCK FALSE
