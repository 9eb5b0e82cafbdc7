SPECIFICATION FairSpec
CONSTANTS
  Providers = {p1, p2}
  Turns = {t1}
  SubagentTurns = {t1}
  Listers = {}
  Removers = {r1}
  Adders = {a1}
  Switchers = {s1}
  Modes = {"drain", "force"}
  MaxGen = 2
  MaxIterations = 2
  NoProvider = NoProvider
  NoEntry = NoEntry
PROPERTIES ImplementsLifecycle DrainCompletes TurnsReturn ForceFreesTurns
