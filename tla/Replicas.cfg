SPECIFICATION MCSpec
CONSTANTS
    Replicas = {a, b}
    Clients = {c}
    Drivers = {"sqlite", "postgres", "mysql"}
    TokenRequired = TRUE
    DsnEnforces = TRUE
    MaxFaults = 4
    First = a
    Files <- MCFiles
    Body <- MCBody
    KeysOff <- MCKeysOff
    Produced <- MCProduced
    Attempts <- MCAttempts
    Names <- MCNames
    Absent = Absent
    CompositeKeys = CompositeKeys
    Idle = Idle
INVARIANT TypeOK
INVARIANT ServedSchemaComplete
INVARIANT KeysOffNeverRestored
INVARIANT ServeErrorReported
INVARIANT CleanStopDrains
INVARIANT CountersMatchAnswers
INVARIANT AnswerTellsEffect
PROPERTY UpgradesAtomically
PROPERTY StopReturns
PROPERTY EveryReplicaServes
CHECK_DEADLOCK FALSE
