CONSTANTS
    Pools = {1}
    DnsLabel <- OtherLabel
    Types = {1}
    TypeOf <- OwnType
    MaxCapacity = 2
    NameRank <- AsNumbers
    Numbers = {a}
    PerSlice = 1
    ExtendedResources = TRUE
    Rejected = {}
    MaxChanges = 0
    MaxFaults = 0
    FaultKinds = {}
    None = None
SPECIFICATION PublisherSpec
PROPERTY KeepsWhatIsWanted
