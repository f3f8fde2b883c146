SPECIFICATION Spec
CONSTANTS
    c1 = c1
    c2 = c2
    s1 = s1
    s2 = s2
    s3 = s3
    Clients = {c1, c2}
    Servers = {s1, s2, s3}
    StartupServers <- ThreeServers
    FirstPrimary = 0
    RandomPrimary = FALSE
    CyclePrimary = TRUE
    Env = {}
    MaxIds = 6
    MaxMigrations = 3
CHECK_DEADLOCK FALSE
SYMMETRY ClientSymmetry
PROPERTIES SessionsAreHandedOver
INVARIANTS QuietClientsAreSettled OneControllerSpeaks LeftServersFallSilent ClientRPCsHaveATarget
