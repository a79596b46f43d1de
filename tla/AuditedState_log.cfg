SPECIFICATION AuditedSpec
CONSTANTS
    Mutations = {m1, m2, m3}
    Readers = {r1}
    Queue = Queue
    Forged = Forged
    None = None
    MaxFaults = 1
    MaxCrashes = 1
    MaxOverwrites = 1
    MaxEdits = 1
    MaxMishaps = 2
INVARIANTS
    ChainEditDetected
    ChainTellsState
PROPERTIES
    ImplementsLog
    ChainImplementsLog
    ChainAppendsSettle
CHECK_DEADLOCK FALSE
