SPECIFICATION FairSpec
CONSTANTS
  c1 = c1
  c2 = c2
  s1 = s1
  s2 = s2
  Callers = {c1}
  SessionOf <- Own
  NoSession = NoSession
CHECK_DEADLOCK FALSE
PROPERTY WaitersGetAnAnswer
