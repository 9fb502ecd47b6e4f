SPECIFICATION Spec
CONSTANTS
  thrown = thrown
  asserted = asserted
  NoOrigin = NoOrigin
  Origins <- TwoOrigins
  GTestOrigin = asserted
  Unset = Unset
  Environments <- MCEnvironments
  Profiles <- MCProfiles
  Options <- MCOptions
  Tests <- MCTests
  Blobs <- MCBlobs
  CallSettings <- MCCallSettings
  Profile <- Development
  MaxCases = 2
INVARIANTS
  RejectedMachineEndsCase
CHECK_DEADLOCK FALSE
