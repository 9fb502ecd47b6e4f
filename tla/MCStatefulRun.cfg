SPECIFICATION Spec
CONSTANTS
  rules = rules
  NoGroup = NoGroup
  N = 1
  Groups <- OneGroup
  MaxRounds = 2
  MaxSteps = 3
  MaxDepth = 2
  MaxSpans = 5
  MaxVersion = 2
INVARIANTS
  TypeOK
  FinalStateChecked
  LastStateShown
PROPERTIES
  ImplementsRounds
CHECK_DEADLOCK FALSE
