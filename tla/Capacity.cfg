CONSTANTS
    Blank = Blank
    Zones = {"z1", "z2", "z3"}
    ZoneID <- MCZoneID
    DisplayName <- MCDisplayName
    Spellings = {"A100", "a100", "H100", ""}
    Normal <- MCNormal
    Servers = {"s1", "s2"}
    HostOf <- MCHostOf
    Clients = {"c1", "c2"}
    ClientOf <- MCClientOf
    Statuses = {"", "offline"}
    Scale = 2
    Policies <- MCPolicies
    MaxChanges = 2
    MaxFaults = 1
    FaultKinds = {"error"}
SPECIFICATION DesiredPoolsSpec
INVARIANTS StandingIsPublished NothingInvented ReadInv
