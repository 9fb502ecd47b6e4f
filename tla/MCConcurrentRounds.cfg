SPECIFICATION FairSpec
CONSTANTS
  readers = readers
  writers = writers
  NoGroup = NoGroup
  N = 2
  Groups <- TwoGroups
  MaxRounds = 2
  MaxRules = 2
INVARIANTS
  TypeOK
  MainRunsAlone
  CounterIsReports
  EventsAreFresh
  RejectsOutstandingRule
  NoFailureSwallowed
  NoThreadOutlivesCall
  OneGroupAtATime
PROPERTIES
  NoRoundSkipped
  RoundsClose
  CallEnds
  ImplementsRounds
CHECK_DEADLOCK FALSE
