SPECIFICATION MeshSpec
CONSTANTS
    s1 = s1
    s2 = s2
    s3 = s3
    None = None
    Stale = Stale
    Servers = {s1, s2, s3}
    AddressOrder <- AddressOrderDef
    StaticPeers <- OthersLists
    JoinsProxy = {}
    ListenIpListed = FALSE
    TypeHash <- TypeHashDef
    MaxConnections = 100
    Payloads = {}
    Rejoins = {s1, s2, s3}
    ConnIds = {1, 2, 3, 4, 5, 6}
    MaxFailures = 0
CHECK_DEADLOCK FALSE
INVARIANTS ReadyMeansConnected
