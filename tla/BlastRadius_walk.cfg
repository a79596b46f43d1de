SPECIFICATION RadiusSpec
CONSTANTS
    e1 = e1
    e2 = e2
    r1 = r1
    r2 = r2
    r3 = r3
    a1 = a1
    a2 = a2
    s1 = s1
    s2 = s2
    Evidence = {e1, e2}
    Runs = {r1, r2, r3}
    Agents = {a1, a2}
    Sources = {s1, s2}
    None = None
SYMMETRY Symmetry
INVARIANTS
    WalkIsExact
    RadiusIsDownstream
CHECK_DEADLOCK FALSE
