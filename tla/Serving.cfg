CONSTANTS
  c1 = c1
  c2 = c2
  v1 = v1
  NoCmd = NoCmd
  k1 = k1
  k2 = k2
  Null = Null
SPECIFICATION FairSpec
INVARIANTS
  RunsWhatIsLogged
  AnsweredInOrder
  CrashHasCause
  ActsAsMap
  TraversalsComplete
  PacketsInOrder
PROPERTIES
  WaitingIsAnswered
  RehashEnds
  SentIsHandled
CHECK_DEADLOCK FALSE
