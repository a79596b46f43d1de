SPECIFICATION Spec
CONSTANTS
    Evidence = {e1, e2}
    Runs = {r1, r2, r3}
    Tags = {t1, t2}
    Requests = {q1, q2}
    e1 = e1
    e2 = e2
    r1 = r1
    r2 = r2
    r3 = r3
    t1 = t1
    t2 = t2
    q1 = q1
    q2 = q2
    None = None
    Agents = {}
    Sources = {}
    MaxPolls = 1
    MaxFaults = 1
    MaxCrashes = 1
SYMMETRY Symmetry
CONSTRAINT Small
INVARIANTS
    TaintReaches
    CompletedIsRecovered
    OneRecoveryPerMark
    ReplacementsRecorded
PROPERTY MarksAreJustified
CHECK_DEADLOCK FALSE
