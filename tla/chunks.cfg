SPECIFICATION Spec
CONSTANTS
    o1 = o1
    o2 = o2
    Objects = {o1, o2}
    Sizes = {1, 3, 4, 6, 7}
    MaxChunkSize = 3
    MaxMigrations = 3
CHECK_DEADLOCK FALSE
INVARIANTS ChunkTypeOK AssembliesGoOn
PROPERTIES PayloadsArriveWhole
