SPECIFICATION ViewSpec
CONSTANTS
    c1 = c1
    s1 = s1
    s2 = s2
    s3 = s3
    here = here
    there = there
    away = away
    Clients = {c1}
    Servers = {s1, s2, s3}
    StartupServers <- ThreeServers
    FirstPrimary = 0
    RandomPrimary = FALSE
    CyclePrimary = FALSE
    Env = {}
    MaxIds = 3
    MaxMigrations = 3
    Places = {here, there, away}
    Origin = here
CHECK_DEADLOCK FALSE
INVARIANTS BelievesOrStarts
PROPERTIES ViewsFollow
