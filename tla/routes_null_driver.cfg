SPECIFICATION Spec
CONSTANTS
    c1 = c1
    c2 = c2
    s1 = s1
    s2 = s2
    s3 = s3
    Clients = {c1}
    Servers = {s1, s2}
    StartupServers <- OneServer
    FirstPrimary = 0
    RandomPrimary = FALSE
    CyclePrimary = FALSE
    Env = {"acceptOpen", "register"}
    MaxIds = 2
    MaxMigrations = 0
CHECK_DEADLOCK FALSE
INVARIANTS HandshakeSurvives
