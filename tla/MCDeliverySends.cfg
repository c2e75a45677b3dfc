CONSTANTS
  a1 = a1
  a2 = a2
  None = None
  Callers = {c1, c2}
  Ids = {a1}
  SessionOf <- MCOneSession
  Results <- GrokResults
  Configs <- WithLedger
  HostAcks = TRUE
  MaxRestarts = 2
SYMMETRY Symmetry
SPECIFICATION Spec
INVARIANT SentOnce
CHECK_DEADLOCK FALSE
