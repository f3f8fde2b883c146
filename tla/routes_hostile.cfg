SPECIFICATION Spec
CONSTANTS
    c1 = c1
    c2 = c2
    s1 = s1
    s2 = s2
    s3 = s3
    Clients = {c1, c2}
    Servers = {s1, s2}
    StartupServers <- OneServer
    FirstPrimary = 0
    RandomPrimary = FALSE
    CyclePrimary = TRUE
    Env = {"acceptOpen", "early", "overlap", "loss", "crash", "closeChild",
           "register", "unregister", "shutdown"}
    MaxIds = 4
    MaxMigrations = 2
CHECK_DEADLOCK FALSE
SYMMETRY ClientSymmetry
INVARIANTS TypeOK DepartedClients StalePlayersHaveNoRoute PrimaryIndexInRange HandshakesInProgress DeferredAreOwn
PROPERTIES PendingCloseIsFinal JoinsAloneDouble
