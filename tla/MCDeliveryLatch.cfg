CONSTANTS
  a1 = a1
  a2 = a2
  None = None
  Callers = {c1}
  Ids = {a1, a2}
  SessionOf <- MCSessionOf
  Results <- LocalResults
  Configs <- AllConfigs
  HostAcks = FALSE
  MaxRestarts = 1
SPECIFICATION FairSpec
INVARIANT LatchReleased
PROPERTY PendingDrains
CHECK_DEADLOCK FALSE
