SPECIFICATION Spec
CONSTANTS
    Evidence = {e1}
    Runs = {r1}
    Tags = {t1}
    Requests = {q1}
    None = None
    Agents = {}
    Sources = {}
    MaxPolls = 1
    MaxFaults = 0
    MaxCrashes = 0
INVARIANT ConsumersAreMarked
CHECK_DEADLOCK FALSE
