SPECIFICATION Spec
CONSTANTS
  Procs = {p1, p2}
  Fps = {f1, f2}
  Denied = {f1}
  Binds <- MCBinds
  Reasons = {r1, r2}
  Tools = {t1, t2}
  MaxChallenges = 2
  SaveFails = TRUE
  LoadFails = TRUE
  None = None
SYMMETRY Symmetry
INVARIANTS OneShotInOrder AnswersBacked AllowAppealed
CHECK_DEADLOCK FALSE
