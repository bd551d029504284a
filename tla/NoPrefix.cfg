CONSTANTS
    Pools = {1}
    DnsLabel <- OwnLabel
    Types = {1}
    TypeOf <- OwnType
    MaxCapacity = 3
    NameRank <- AsNumbers
    Numbers = {a, b}
    PerSlice = 2
    ExtendedResources = FALSE
    Rejected = {}
    MaxChanges = 0
    MaxFaults = 0
    FaultKinds = {}
    None = None
SPECIFICATION PublisherFairSpec
PROPERTY ClassesFollowInventory
