SPECIFICATION Spec
CONSTANTS
  rules = rules
  NoGroup = NoGroup
  N = 1
  Groups <- OneGroup
  MaxRounds = 1
  MaxSteps = 1
  MaxDepth = 1
  MaxSpans = 3
  MaxVersion = 1
INVARIANTS
  SpansPaired
CHECK_DEADLOCK FALSE
