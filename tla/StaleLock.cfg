CONSTANTS
    c1 = c1  c2 = c2  n1 = n1  n2 = n2
    Claims = {c1}
    Nodes = {n1}
    Hooks = {h1, h2}
    Tokens = {t1, t2}
    Inodes = {1, 2, 3}
    None = None
    NameOf <- OwnName
    Homes <- OneHome
    VMClaims = {}
    HookOverlap = TRUE
    ExchangeAttempts = 2
    MaxFaults = 0
    FaultKinds = {}
SPECIFICATION Spec
SYMMETRY Symmetry
INVARIANT StagedOneAtATime
