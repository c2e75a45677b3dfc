SPECIFICATION FairSpec
CONSTANTS
  Clients = {"codex", "grok"}
  Callers = {c1, c2}
  MaxCalls = 1
  PipeCap = 1
  QueueDepth = 1
  ForeignIds = {1}
  MaxApprovals = 1
  Advice = adv
  Shapes <- MCShapes
  None = None
PROPERTIES GrokCloseEnds CallersReturn
CHECK_DEADLOCK FALSE
