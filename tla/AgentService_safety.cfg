SPECIFICATION Spec
CONSTANTS
    None = None
    Agents = {a1}
    Runs = {r1, r2}
    Clients = {c1, c2}
    MaxFaults = 1
    MaxStoreFaults = 1
    MaxCrashes = 1
SYMMETRY Symmetry
CONSTRAINT OneMishap
INVARIANTS
    OneProcessPerAgent
    NothingStranded
    CompletedIsIngested
    ChainTellsOutcome
PROPERTIES SettledIsFinal
CHECK_DEADLOCK FALSE
