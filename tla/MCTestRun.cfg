SPECIFICATION Spec
CONSTANTS
  thrown = thrown
  asserted = asserted
  NoOrigin = NoOrigin
  Origins <- TwoOrigins
  GTestOrigin = asserted
  Unset = Unset
  Environments <- MCEnvironments
  Profiles <- MCProfiles
  Options <- MCOptions
  Tests <- MCTests
  Blobs <- MCBlobs
  CallSettings <- MCCallSettings
  Profile <- Development
  MaxCases = 4
INVARIANTS
  TypeOK
  EngineNeverRefuses
  CountsCoverSearch
  ReportTellsWhatIsRaised
  EveryFailureReported
  SettingsReachEngine
  TestsStayApart
PROPERTIES
  ImplementsProperty
CHECK_DEADLOCK FALSE
