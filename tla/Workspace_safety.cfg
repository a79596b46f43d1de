SPECIFICATION WorkspaceSpec
CONSTANTS
    Runs = {r1, r2}
    Proposals = {p1, p2}
    Stops = {s1}
    Updates = {u1, u2}
    Configs = {c1, c2}
    None = None
    MaxFaults = 1
    MaxCrashes = 1
    r1 = r1
    r2 = r2
    p1 = p1
    p2 = p2
    s1 = s1
    u1 = u1
    u2 = u2
    c1 = c1
    c2 = c2
SYMMETRY Symmetry
CONSTRAINT OneSide
INVARIANTS
    EntriesAccounted
    IngestedOnceUnharmed
    RunsAsPinned
CHECK_DEADLOCK FALSE
