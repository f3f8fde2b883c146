SPECIFICATION FairMeshSpec
CONSTANTS
    s1 = s1
    s2 = s2
    s3 = s3
    None = None
    Stale = Stale
    Servers = {s1, s2, s3}
    AddressOrder <- AddressOrderDef
    StaticPeers <- SameLists
    JoinsProxy = {s1}
    ListenIpListed = TRUE
    TypeHash <- TypeHashDef
    MaxConnections = 2
    Payloads = {}
    Rejoins = {s1, s2, s3}
    ConnIds = {1, 2, 3, 4}
    MaxFailures = 1
CHECK_DEADLOCK FALSE
INVARIANTS MeshTypeOK OneBeaconPerPeer PeerConnectionsKeepTrying QuietPeersAgree ConnectedPeersAreLive
PROPERTIES MeshForms
