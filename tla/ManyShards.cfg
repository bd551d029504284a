CONSTANTS
    Pools = {1}
    DnsLabel <- OwnLabel
    Types = {1}
    TypeOf <- OwnType
    MaxCapacity = 11
    NameRank <- AsText
    Numbers = {a}
    PerSlice = 1
    ExtendedResources = TRUE
    Rejected = {}
    MaxChanges = 0
    MaxFaults = 1
    FaultKinds = {"operatorCrash"}
    None = None
SPECIFICATION PublisherSpec
PROPERTY NoChurn
