CONSTANTS
    h2 = h2  b1 = b1
    Daemon = daemon
    Hooks = {h1, h2}
    Builds = {b1, b2}
    ExplicitPin <- OnePin
    Junk = Junk
    None = None
    MaxFaults = 3
    FaultKinds = {"error", "corrupt", "hookCrash", "daemonCrash", "release"}
SPECIFICATION LibraryFairSpec
INVARIANTS LibraryIsVerified OneDownload LibraryInv
PROPERTIES PinnedIsServed EnsureReturns CacheIsWarmed
