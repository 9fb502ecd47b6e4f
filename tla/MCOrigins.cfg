SPECIFICATION Spec
CONSTANTS
  here = here
  there = there
  named = named
  reject = reject
  helper = helper
  other = other
  NoSite = NoSite
  Main = Main
  Sites <- FourSites
  Named <- NamedSites
  Control <- ControlSites
  Helpers <- TwoHelpers
  MaxCases = 2
  MaxThrows = 2
INVARIANTS
  TypeOK
PROPERTIES
  WorkerOriginSurvives
  OwnOriginUnlessHandled
CHECK_DEADLOCK FALSE
