SPECIFICATION Spec
CONSTANTS
  Procs = {p1, p2}
  Fps = {f1}
  Denied = {f1}
  Binds <- MCBinds
  Reasons = {r1}
  Tools = {t1, t2}
  MaxChallenges = 1
  SaveFails = FALSE
  LoadFails = FALSE
  None = None
SYMMETRY Symmetry
INVARIANTS DurableOneShot
CHECK_DEADLOCK FALSE
