SPECIFICATION Spec
CONSTANTS
    c1 = c1
    c2 = c2
    s1 = s1
    s2 = s2
    s3 = s3
    Clients = {c1}
    Servers = {s1, s2}
    StartupServers <- TwoServers
    FirstPrimary = 0
    RandomPrimary = FALSE
    CyclePrimary = FALSE
    Env = {"crash"}
    MaxIds = 2
    MaxMigrations = 1
CHECK_DEADLOCK FALSE
INVARIANTS PawnServersSpeak
