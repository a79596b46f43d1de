SPECIFICATION ContextSpec
CONSTANTS
    Ids = {e1, e2}
    Calls = {c1, c2}
    e1 = e1
    e2 = e2
    c1 = c1
    c2 = c2
    None = None
    MaxLevel = 1
    MaxTime = 2
    MaxEdits = 2
    MaxLedgerFaults = 1
    MaxStoreFaults = 1
    MaxCrashes = 1
    Runs = {r}
    Keys = {k}
    Hashes = {h1, h2}
    Claims <- OneKey
    r = r
    k = k
    h1 = h1
    h2 = h2
SYMMETRY Symmetry
CONSTRAINT OneMishap
INVARIANTS
    NoSilentPick
    OneBelief
    ContextIsOnRecord
    CapsuleIsSnapshot
    AuditInVersionOrder
    Provenance
    UsableIsAudited
CHECK_DEADLOCK FALSE
