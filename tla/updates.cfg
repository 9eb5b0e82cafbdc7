SPECIFICATION FairSpec
CONSTANTS
  MaxVersion = 3
  MaxLaunches = 2
CHECK_DEADLOCK FALSE
INVARIANTS OptOutIsInert
PROPERTIES FailureIsNotRetried InstallingEnds ReleaseIsOffered
