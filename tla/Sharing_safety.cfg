SPECIFICATION Spec
CONSTANTS
    sender = sender
    recipient = recipient
    human = human
    s1 = s1
    s2 = s2
    None = None
    EveryScope = EveryScope
    Agents = {sender, recipient}
    Principals = {human}
    Scopes = {s1, s2}
    Shares = {q1, q2}
    q1 = q1
    q2 = q2
    Calls <- MCCalls
    Requested <- MCRequested
    Policies <- MCPolicies
    Items <- MCItems
    Endings = {"REVOKED"}
    MaxIssued = 3
    MaxRevoked = 1
    MaxFaults = 1
SYMMETRY Symmetry
CONSTRAINT Small
INVARIANTS
    TransferBridgesOnlyScopes
    TransferSuffices
PROPERTY AllowIsGranted
CHECK_DEADLOCK FALSE
