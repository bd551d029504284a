CONSTANTS
    Pools = {1}
    DnsLabel <- OwnLabel
    Types = {1}
    TypeOf <- OwnType
    MaxCapacity = 5
    NameRank <- AsNumbers
    Numbers = {a, b}
    PerSlice = 2
    ExtendedResources = TRUE
    Rejected = {}
    MaxChanges = 2
    MaxFaults = 3
    FaultKinds = {"operatorCrash", "error", "lostReply"}
    None = None
SPECIFICATION PublisherSpec
INVARIANTS PublisherTypeOK SharedUnlessTorn ListingStands GenerationInv
PROPERTIES NoChurn KeepsWhatIsWanted
