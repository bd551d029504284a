CONSTANTS
    Zones = {z1, z2}
    ZoneIDs = {1, 2, 3}
    NoZone = NoZone
    UnhealthyThreshold = 3
    TransitionalThreshold = 2
    RestartLimit = 2
    Interval = 10
    MaxBackoff = 300
    MaxFailures = 7
    MaxFaults = 1
    FaultKinds = {"relabel"}
SPECIFICATION ReconcilerFairSpec
PROPERTY EnrolledWhereLabelled
