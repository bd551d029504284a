CONSTANTS
    c1 = c1  c2 = c2  n1 = n1  n2 = n2
    Claims = {c1}
    Nodes = {n1}
    Hooks = {h1}
    Tokens = {t1}
    Inodes = {1, 2, 3}
    None = None
    NameOf <- OwnName
    Homes <- OneHome
    VMClaims = {}
    HookOverlap = TRUE
    ExchangeAttempts = 2
    MaxFaults = 1
    FaultKinds = {"error", "daemonCrash", "operatorCrash", "nodeLoss", "hookCrash"}
SPECIFICATION FairSpec
PROPERTIES OrphansAreReaped UnprepareCompletes
