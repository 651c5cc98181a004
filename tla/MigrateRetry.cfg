SPECIFICATION Spec
CONSTANTS
    Replicas = {a}
    Clients = {}
    Drivers = {"mysql"}
    TokenRequired = TRUE
    DsnEnforces = TRUE
    MaxFaults = 0
    First = a
    Files <- MCFiles
    Body <- MCBody
    KeysOff <- MCKeysOff
    Produced <- MCProduced
    Attempts <- MCAttempts
    Names <- MCNames
    Absent = Absent
    CompositeKeys = CompositeKeys
    Idle = Idle
PROPERTY CleanupUnblocks
CHECK_DEADLOCK FALSE
