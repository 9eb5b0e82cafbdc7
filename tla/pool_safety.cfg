SPECIFICATION Spec
CONSTANTS
  Providers = {p1}
  Turns = {t1, t2}
  SubagentTurns = {t1}
  Listers = {l1}
  Removers = {r1, r2}
  Adders = {a1}
  Switchers = {}
  Modes = {"drain", "force"}
  MaxGen = 2
  MaxIterations = 1
  NoProvider = NoProvider
  NoEntry = NoEntry
SYMMETRY CallerSymmetry
INVARIANTS ForceReachesHolders DrainLeavesNobody AwaitedCallIsAbortable
