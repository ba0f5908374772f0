\* Two questions share a pool of one thread.
CONSTANTS
  Stream = {s1, s2}
  PoolSize = 1
  MaxEvents = 2
  Faulty = {s1}
SPECIFICATION Spec
INVARIANTS
  TypeOK
  NeverSilent
PROPERTIES
  ImplementsChannel
  EveryStreamEnds
CHECK_DEADLOCK FALSE
