SPECIFICATION Spec
CONSTANTS
    Kinds <- AllKinds
    MaxLines = 3
    MaxFaults = 1
    MaxLimits = 1
INVARIANTS
    ChainKeepsOrder
    SuccessIsRecorded
CHECK_DEADLOCK FALSE
