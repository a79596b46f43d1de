SPECIFICATION PageSpec
CONSTANTS
    Agents = {a1, a2}
    a1 = a1
    a2 = a2
    None = None
    Sent = Sent
    Done = Done
    Failed = Failed
    Tabs = {"overview", "evidence"}
    Closed = Closed
    Unanswered = Unanswered
    Blank = Blank
    Fetching = Fetching
    Broken = Broken
    MaxRuns = 2
    MaxActs = 3
    MaxReordered = 1
    MaxFaults = 1
    MaxLooks = 2
    MaxChanges = 1
    MaxStrays = 1
    MaxAside = 1
SYMMETRY Symmetry
INVARIANTS
    ShownIsSelected
    QuietIsTrue
    PanelsShowAsked
    PanelsLoad
    PanelsSeeCommand
CHECK_DEADLOCK FALSE
