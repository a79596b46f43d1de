------------------------------ MODULE MCSharing ------------------------------
(* Instances of Sharing for TLC.                                           *)
EXTENDS Sharing, TLC

CONSTANTS sender, recipient, human, s1, s2

Call(agent, principal, pattern, action, state) ==
    [agent |-> agent, principal |-> principal, pattern |-> pattern,
     action |-> action, state |-> state]

\* Share grants of the sender and its principal, consume grants of the recipient.
MCCalls ==
    {Call(sender, None, EveryScope, "share", "open"),
     Call(sender, None, s1, "share", "dated"),
     Call(sender, human, EveryScope, "share", "open"),
     Call(recipient, None, s1, "consume", "dated"),
     Call(recipient, human, s1, "consume", "open")}

MCRequested ==
    {[from |-> sender, to |-> recipient, principal |-> p] : p \in {None, human}}

MCPolicies ==
    {[denied |-> denied, ceiling |-> [a \in Agents |-> IF a = recipient THEN n ELSE 1]] :
         denied \in {{}, {recipient}}, n \in {0, 1}}

MCItems == {[status |-> "ACTIVE", class |-> 1, scopes |-> s] : s \in {<<s1>>, <<s1, s2>>}}

Symmetry == Permutations(Shares)

\* Bound on what may happen in one behavior: one share among three other calls,
\* invalidations and faults, or two among two.
Small ==
    issued + revoked + faults + (IF evidence.status = "ACTIVE" THEN 0 ELSE 1)
      + Cardinality({q \in Shares : share[q].at # "idle"}) <= 4
=============================================================================
