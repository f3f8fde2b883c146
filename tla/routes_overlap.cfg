SPECIFICATION Spec
CONSTANTS
    c1 = c1
    c2 = c2
    s1 = s1
    s2 = s2
    s3 = s3
    Clients = {c1}
    Servers = {s1, s2, s3}
    StartupServers <- ThreeServers
    FirstPrimary = 0
    RandomPrimary = FALSE
    CyclePrimary = FALSE
    Env = {"overlap"}
    MaxIds = 3
    MaxMigrations = 2
CHECK_DEADLOCK FALSE
INVARIANTS OneControllerSpeaks
