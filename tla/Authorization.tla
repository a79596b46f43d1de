---------------------------- MODULE Authorization ----------------------------
(***************************************************************************)
(* walnut/auth: what evaluator.ts decides, as a function of the grants     *)
(* grant-store.ts holds, the policy and the Evidence version it is given.  *)
(* A grant is usable from the instant it is issued, so validFrom is left   *)
(* out; a "dated" grant has a validTo ahead, an "expired" one a validTo     *)
(* that has passed.  An item of Evidence is a record of its status, its    *)
(* class and its required scopes; a pattern is one scope or EveryScope.    *)
(* The agentId "*" of isUsableBy is left out: the server issues no such    *)
(* grant.                                                                  *)
(***************************************************************************)
EXTENDS Naturals, Sequences, FiniteSetsExt

CONSTANTS
    Agents, Principals,
    None,           \* principalId = null
    Scopes,
    EveryScope      \* the pattern "*"

ASSUME Names == None \notin Principals /\ EveryScope \notin Scopes

Patterns == Scopes \cup {EveryScope}
Actions  == {"consume", "share"}
Grants   == [agent : Agents, principal : Principals \cup {None}, pattern : Patterns,
             action : Actions, state : {"open", "dated", "expired", "closed"}]

PatternMatches(pattern, scope) == pattern \in {scope, EveryScope}

\* isUsableBy, for the agent leg and for the principal leg.
OfAgent(g, a)        == g.principal = None /\ g.agent = a
OfPrincipal(g, a, p) == g.principal # None /\ g.principal = p /\ g.agent = a

InForce(g) == g.state \in {"open", "dated"}

-----------------------------------------------------------------------------
(* evaluateLeg over the usable grants "held".                              *)

Covering(held, scope, action) ==
    {g \in held : g.action = action /\ PatternMatches(g.pattern, scope)}

Uncovered(held, scopes, action) ==
    {i \in 1..Len(scopes) : \A g \in Covering(held, scopes[i], action) : ~ InForce(g)}

\* The first scope without a valid grant decides the reason.
LegReason(held, scopes, action, missing) ==
    IF Covering(held, scopes[Min(Uncovered(held, scopes, action))], action) = {}
    THEN missing ELSE "GRANT_EXPIRED"

LegFails_EveryScope(held, scopes, action) ==
    scopes # <<>> /\ Uncovered(held, scopes, action) = 1..Len(scopes)
LegFails(held, scopes, action) == Uncovered(held, scopes, action) # {}

-----------------------------------------------------------------------------
(* authorize: the first check that fails is the reason.                    *)

Request(a, p, action) == [agent |-> a, principal |-> p, action |-> action]

Checks(grants, policy, item, q) ==
    LET agentGrants     == {g \in grants : OfAgent(g, q.agent)}
        principalGrants == {g \in grants : OfPrincipal(g, q.agent, q.principal)}
    IN  <<q.agent \in policy.denied,
          item.status # "ACTIVE",
          item.class > policy.ceiling[q.agent],
          LegFails(agentGrants, item.scopes, q.action),
          q.principal # None /\ LegFails(principalGrants, item.scopes, q.action)>>

Reason(grants, policy, item, q, check) ==
    CASE check = 1 -> "POLICY_DENIED"
      [] check = 2 -> item.status
      [] check = 3 -> "CLASSIFICATION_DENIED"
      [] check = 4 -> LegReason({g \in grants : OfAgent(g, q.agent)},
                                item.scopes, q.action, "AGENT_SCOPE_MISSING")
      [] check = 5 -> LegReason({g \in grants : OfPrincipal(g, q.agent, q.principal)},
                                item.scopes, q.action, "PRINCIPAL_SCOPE_MISSING")

First_Last(failed) == Max(failed)
First(failed) == Min(failed)

Authorize(grants, policy, item, q) ==
    LET checks == Checks(grants, policy, item, q)
        failed == {i \in 1..Len(checks) : checks[i]}
    IN  IF failed = {} THEN "AUTHORIZED"
        ELSE Reason(grants, policy, item, q, First(failed))
=============================================================================
