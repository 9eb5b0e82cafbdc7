SPECIFICATION FairSpec
CONSTANTS
  Prompts = {p1, p2}
  Bashes = {}
  Models = {m1}
  FirstModel = m1
  MaxPicks = 0
  MaxOverrides = 0
  MaxLoads = 0
  MaxDisconnects = 1
  MaxAborts = 1
  NoModel = NoModel
  NoJob = NoJob
  Loaded = Loaded
CHECK_DEADLOCK FALSE
INVARIANT QuietIsIdle
PROPERTY LoadingEnds
