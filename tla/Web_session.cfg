SPECIFICATION Spec
CONSTANTS
  Tab = {a, b}
  Workspace = {w1, w2, w3}
  None = None
  Own = Own
  Url = {u1, u2}
  Home = w1
  Bounds <- MC_Bounds
INVARIANTS
  TypeOK
  ActsWhereShown
  OpensWhatItSays
  GoesWhereAsked
  ProvisionsOnceAsTested
PROPERTY
  RedirectsEnd
CHECK_DEADLOCK FALSE
