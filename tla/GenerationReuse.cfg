CONSTANTS
    Pools = {1}
    DnsLabel <- OwnLabel
    Types = {1}
    TypeOf <- OwnType
    MaxCapacity = 3
    NameRank <- AsNumbers
    Numbers = {a}
    PerSlice = 1
    ExtendedResources = TRUE
    Rejected = {}
    MaxChanges = 3
    MaxFaults = 1
    FaultKinds = {"error"}
    None = None
SPECIFICATION PublisherSpec
INVARIANT SharedGeneration
