SPECIFICATION Spec
CONSTANTS
    s1 = s1
    s2 = s2
    s3 = s3
    o1 = o1
    o2 = o2
    None = None
    Stale = Stale
    Servers = {s1, s2}
    AddressOrder <- AddressOrderDef
    StaticPeers <- OthersLists
    JoinsProxy = {}
    ListenIpListed = FALSE
    TypeHash <- TypeHashDef
    MaxConnections = 100
    Payloads <- DataRPCs
    Rejoins = {}
    ConnIds = {1, 2, 3}
    MaxFailures = 0
    Objects = {o1}
    Home <- HomeDef
    MaxRequests = 1
CHECK_DEADLOCK FALSE
INVARIANTS NoObjectLost
