CONSTANTS
    Zones = {z1, z2}
    ZoneIDs = {1, 2, 3}
    NoZone = NoZone
    UnhealthyThreshold = 3
    TransitionalThreshold = 3
    RestartLimit = 2
    Interval = 10
    MaxBackoff = 300
    MaxFailures = 7
    MaxFaults = 3
    FaultKinds = {"error", "lostReply", "outage", "relabel", "daemonCrash", "rival"}
SPECIFICATION ReconcilerFairSpec
INVARIANTS ReconcilerTypeOK ZoneIDIsForZone DelayIsBackoff
PROPERTY Converges
