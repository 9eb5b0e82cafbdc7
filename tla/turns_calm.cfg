SPECIFICATION Spec
CONSTANTS
  Prompts = {p1, p2}
  Bashes = {b1}
  Models = {m1, m2}
  FirstModel = m1
  MaxPicks = 1
  MaxOverrides = 1
  MaxLoads = 1
  MaxDisconnects = 0
  MaxAborts = 0
  NoModel = NoModel
  NoJob = NoJob
  Loaded = Loaded
CHECK_DEADLOCK FALSE
INVARIANTS SnapshotIsCurrent LoadingCoversJobs TurnFramesMatch LiveTextIsOneTurns
  OverrideLeavesNoTrace
PROPERTIES ImplementsTurnHistory
