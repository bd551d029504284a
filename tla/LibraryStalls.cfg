CONSTANTS
    h2 = h2  b1 = b1
    Daemon = daemon
    Hooks = {h1}
    Builds = {b1}
    ExplicitPin <- NoPin
    Junk = Junk
    None = None
    MaxFaults = 0
    FaultKinds = {"error"}
SPECIFICATION LibraryFairSpec
PROPERTY HookIsBounded
