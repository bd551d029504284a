CONSTANTS
    h2 = h2  b1 = b1
    Daemon = daemon
    Hooks = {h1}
    Builds = {b1}
    ExplicitPin <- NoPin
    Junk = Junk
    None = None
    MaxFaults = 1
    FaultKinds = {"error"}
SPECIFICATION LibrarySpec
PROPERTY CachedIsServed
