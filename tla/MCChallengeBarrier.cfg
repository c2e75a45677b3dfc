SPECIFICATION Spec
CONSTANTS
    bash = bash
    shell = shell
    rmTree = rmTree
    edit = edit
    NoSem = NoSem
    None = None
    Callers = {c1, c2}
    Fps = {bash, shell}
    SessionOf <- MCSessionOf
    Sem <- MCSem
    Rewritable <- NoRewrites
    Gens = {g1, g2}
    Reasons = {r1}
    Attempts = {a1}
    Justs = {j1}
    TTLs = {0}
    MaxChallenges = 2
    MaxDenies = 1
SYMMETRY Symmetry
INVARIANTS
    SingleActive
    BarrierHolds
    LiveEqualsReplay
PROPERTIES
    ImplementsAppeal
CHECK_DEADLOCK FALSE
