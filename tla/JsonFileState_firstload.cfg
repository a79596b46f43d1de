SPECIFICATION Spec
CONSTANTS
    Mutations = {m1, m2}
    Readers = {r1}
    Queue = Queue
    MaxFaults = 0
    MaxCrashes = 0
    MaxOverwrites = 1
INVARIANT ResolvedStay
CHECK_DEADLOCK FALSE
