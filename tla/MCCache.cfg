SPECIFICATION FairSpec
CONSTANTS
  Callers = {c1, c2}
  Keys = {k1, k2, k3}
  Modes = {TRUE, FALSE}
  MaxEntries = 2
  MaxBytes = 3
  Sizes = {1, 2, 4}
  TTL = 1
  MaxTime = 1
  MaxCalls = 2
INVARIANTS OneCallPerKey LRUConsistent
PROPERTY AssessReturns
CHECK_DEADLOCK FALSE
