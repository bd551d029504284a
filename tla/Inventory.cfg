CONSTANTS
    Pools = {1, 2}
    DnsLabel <- OwnLabel
    Types = {1, 2}
    TypeOf <- OwnType
    MaxCapacity = 2
    NameRank <- AsNumbers
    Numbers = {a}
    PerSlice = 1
    ExtendedResources = TRUE
    Rejected = {1}
    MaxChanges = 1
    MaxFaults = 2
    FaultKinds = {"error", "lostReply", "operatorCrash", "overlap", "tamper"}
    None = None
SPECIFICATION PublisherFairSpec
PROPERTIES PublishesInventory ClassesFollowInventory
