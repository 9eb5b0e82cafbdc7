SPECIFICATION Spec
CONSTANTS
  Providers = {p1}
  Turns = {t1}
  SubagentTurns = {}
  Listers = {}
  Removers = {r1}
  Adders = {a1}
  Switchers = {}
  Modes = {"drain"}
  MaxGen = 2
  MaxIterations = 2
  NoProvider = NoProvider
  NoEntry = NoEntry
INVARIANT PooledHasSender
