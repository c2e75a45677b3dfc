SPECIFICATION FairSpec
CONSTANTS
    bash = bash
    shell = shell
    rmTree = rmTree
    edit = edit
    NoSem = NoSem
    None = None
    Callers = {c1, c2, c3}
    Fps = {bash, shell, edit}
    SessionOf <- MCSessionOf
    Sem <- MCSem
    Rewritable <- Rewrites
    Gens = {g1}
    Reasons = {r1}
    Attempts = {a1}
    Justs = {j1}
    TTLs = {3}
    MaxChallenges = 1
    MaxDenies = 1
INVARIANTS
    TypeOK
    OneShot
    AllowEarned
PROPERTIES
    NoLateAllow
    CallsReturn
CHECK_DEADLOCK FALSE
