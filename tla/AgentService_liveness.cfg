SPECIFICATION FairSpec
CONSTANTS
    None = None
    Agents = {a1}
    Runs = {r1, r2}
    Clients = {c1}
    MaxFaults = 0
    MaxStoreFaults = 0
    MaxCrashes = 0
PROPERTIES
    RunsSettle
    CallsReturn
    OneActiveRunUnstopped
CHECK_DEADLOCK FALSE
