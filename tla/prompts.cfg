SPECIFICATION FairSpec
CONSTANTS
  t1 = t1
  t2 = t2
  b1 = b1
  s1 = s1
  k1 = k1
  TurnCalls = {t1}
  BashCalls = {b1}
  SubCalls = {s1}
  PlainCalls = {}
  Keys = {k1}
  KeyOf <- OneKey
  MaxParallel = 2
  NoOne = NoOne
CHECK_DEADLOCK FALSE
INVARIANTS NetworkAsGranted PromptIsReachable RegistryOutlivesCalls
PROPERTIES CallsReturn
