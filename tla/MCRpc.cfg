SPECIFICATION Spec
CONSTANTS
  Clients = {"codex", "grok"}
  Callers = {c1, c2}
  MaxCalls = 2
  PipeCap = 1
  QueueDepth = 1
  ForeignIds = {1}
  MaxApprovals = 2
  Advice = adv
  Shapes <- MCShapes
  None = None
INVARIANTS CallsAccounted ApprovalSettledOnce SourceCorrelated
PROPERTY OwnUpdateKept
CHECK_DEADLOCK FALSE
