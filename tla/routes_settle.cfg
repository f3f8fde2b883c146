SPECIFICATION FairSpec
CONSTANTS
    c1 = c1
    c2 = c2
    s1 = s1
    s2 = s2
    s3 = s3
    Clients = {c1, c2}
    Servers = {s1, s2, s3}
    StartupServers <- TwoServers
    FirstPrimary = 0
    RandomPrimary = FALSE
    CyclePrimary = FALSE
    Env = {"crash", "register", "registerOnly", "unregister"}
    MaxIds = 4
    MaxMigrations = 2
CHECK_DEADLOCK FALSE
PROPERTIES ClientsSettle HandshakesEnd
INVARIANTS QuietClientsAreReached
