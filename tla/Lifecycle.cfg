CONSTANTS
    c1 = c1  c2 = c2  n1 = n1  n2 = n2
    Claims = {c1}
    Nodes = {n1}
    Hooks = {h1}
    Tokens = {t1, t2}
    Inodes = {1, 2, 3}
    None = None
    NameOf <- OwnName
    Homes <- OneHome
    VMClaims = {c1}
    HookOverlap = TRUE
    ExchangeAttempts = 2
    MaxFaults = 2
    FaultKinds = {"error", "lostReply", "configError", "daemonCrash", "hookCrash", "operatorCrash", "nodeLoss"}
SPECIFICATION Spec
SYMMETRY Symmetry
INVARIANTS TypeOK RecordInv ReleasedOnlyRevoked
PROPERTY LedgerSpec
