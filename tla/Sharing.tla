------------------------------- MODULE Sharing -------------------------------
(***************************************************************************)
(* Grants and Agent-to-Agent shares of one Evidence version:               *)
(* context/share-service.ts over auth/grant-store.ts, the routes that      *)
(* issue and revoke grants, and the governance chain they report to.  A    *)
(* share reads the Evidence once and each of its checks reads the grants   *)
(* anew, so operators and other shares run between any two of its awaits.  *)
(* Existence of the Agents and of the Evidence is checked on entry and     *)
(* left out, the stored decisions too: nothing here reads them.            *)
(***************************************************************************)
EXTENDS Authorization

CONSTANTS
    Shares,        \* share requests
    Calls,         \* the operator's issue requests: [agent, principal, pattern, action, state]
    Requested,     \* the share requests' [from, to, principal]
    Policies,      \* [denied, ceiling]
    Items,         \* the Evidence version, ACTIVE: [status, class, scopes]
    Endings,       \* the statuses it may leave ACTIVE for
    MaxIssued,     \* bound: operator grants
    MaxRevoked,    \* bound: operator revocations
    MaxFaults      \* bound: calls that throw, or lose their reply to a crash

ASSUME Limits == {MaxIssued, MaxRevoked, MaxFaults} \subseteq Nat
ASSUME Inputs ==
    /\ Calls \subseteq Grants
    /\ Requested \subseteq [from : Agents, to : Agents, principal : Principals \cup {None}]
    /\ Policies \subseteq [denied : SUBSET Agents, ceiling : [Agents -> Nat]]
    /\ Items \subseteq [status : {"ACTIVE"}, class : Nat, scopes : Seq(Scopes)]
    /\ Endings \subseteq {"SUPERSEDED", "REVOKED", "COMPROMISED"}

VARIABLES
    policy, evidence,
    grants,        \* grants.json: append-only, closed in place
    share,         \* where each share is and what it holds
    reports,       \* grant events a route has still to append
    chain,         \* the governance chain's events about grants, as a set
    issued, revoked, faults

budget == <<issued, revoked, faults>>
vars   == <<policy, evidence, grants, share, reports, chain, budget>>

NoShare  == [at |-> "idle"]
Held     == Range(grants)

Transferable == {"AGENT_SCOPE_MISSING", "GRANT_EXPIRED"}

Event(kind, ids) == [kind |-> kind, grants |-> ids]

Init ==
    /\ policy \in Policies /\ evidence \in Items
    /\ grants = <<>>
    /\ share = [q \in Shares |-> NoShare]
    /\ reports = {} /\ chain = {}
    /\ issued = 0 /\ revoked = 0 /\ faults = 0

-----------------------------------------------------------------------------
(* The operator's routes, time, and the Evidence.                          *)

IssueGrant(call) ==
    /\ issued < MaxIssued /\ issued' = issued + 1
    /\ grants' = Append(grants, call)
    /\ reports' = reports \cup {Event("grant.issued", {Len(grants')})}
    /\ UNCHANGED <<policy, evidence, share, chain, revoked, faults>>

RevokeGrant(g) ==
    /\ revoked < MaxRevoked /\ revoked' = revoked + 1
    /\ grants[g].state # "closed"
    /\ grants' = [grants EXCEPT ![g].state = "closed"]
    /\ reports' = reports \cup {Event("grant.revoked", {g})}
    /\ UNCHANGED <<policy, evidence, share, chain, issued, faults>>

AppendReport(event) ==
    /\ reports' = reports \ {event} /\ chain' = chain \cup {event}
    /\ UNCHANGED <<policy, evidence, grants, share, budget>>

\* The append throws or the server dies first: the grant stands untold.
LoseReport(event) ==
    /\ faults < MaxFaults /\ faults' = faults + 1
    /\ reports' = reports \ {event}
    /\ UNCHANGED <<policy, evidence, grants, share, chain, issued, revoked>>

Expire(g) ==
    /\ grants[g].state = "dated"
    /\ grants' = [grants EXCEPT ![g].state = "expired"]
    /\ UNCHANGED <<policy, evidence, share, reports, chain, budget>>

Invalidate(status) ==
    /\ evidence.status = "ACTIVE"
    /\ evidence' = [evidence EXCEPT !.status = status]
    /\ UNCHANGED <<policy, grants, share, reports, chain, budget>>

-----------------------------------------------------------------------------
(* share.                                                                  *)

Share(q, request) ==
    /\ share[q].at = "idle"
    /\ share' = [share EXCEPT ![q] =
           [at |-> "sender", from |-> request.from, to |-> request.to,
            principal |-> request.principal, read |-> evidence,
            reason |-> "none", issued |-> <<>>]]
    /\ UNCHANGED <<policy, evidence, grants, reports, chain, budget>>

Decide(q, agent, principal, action) ==
    Authorize(Held, policy, share[q].read, Request(agent, principal, action))

Goto(q, label, reason) ==
    /\ share' = [share EXCEPT ![q].at = label, ![q].reason = reason]
    /\ UNCHANGED <<policy, evidence, grants, reports, chain, budget>>

CheckSender(q) ==
    /\ share[q].at = "sender"
    /\ LET reason == Decide(q, share[q].from, share[q].principal, "share")
       IN  Goto(q, IF reason = "AUTHORIZED" THEN "recipient" ELSE "emit", reason)

CheckRecipient(q) ==
    /\ share[q].at = "recipient"
    /\ LET reason == Decide(q, share[q].to, None, "consume")
       IN  Goto(q, IF reason \in Transferable THEN "issue" ELSE "emit", reason)

\* The scopes the loop issues grants for.
Scoped_First(item) == {1}
Scoped(item) == 1..Len(item.scopes)

IssueNext(q) ==
    LET i == Len(share[q].issued) + 1
    IN  /\ share[q].at = "issue" /\ i \in Scoped(share[q].read)
        /\ grants' = Append(grants,
               [agent |-> share[q].to, principal |-> None, pattern |-> share[q].read.scopes[i],
                action |-> "consume", state |-> "open"])
        /\ share' = [share EXCEPT ![q].issued = Append(@, Len(grants'))]
        /\ UNCHANGED <<policy, evidence, reports, chain, budget>>

Recheck(q) ==
    /\ share[q].at = "issue" /\ Len(share[q].issued) + 1 \notin Scoped(share[q].read)
    /\ Goto(q, "emit", Decide(q, share[q].to, None, "consume"))

\* issuedGrantIds, as the event's payload names them.
Reported(q) == Range(share[q].issued)

EmitShared(q) ==
    /\ share[q].at = "emit"
    /\ chain' = chain \cup {Event("evidence.shared", Reported(q))}
    /\ share' = [share EXCEPT ![q].at = "done"]
    /\ UNCHANGED <<policy, evidence, grants, reports, budget>>

\* A store, decision or ledger call throws, or the server dies.
Break(q) ==
    /\ share[q].at \in {"sender", "recipient", "issue", "emit"}
    /\ faults < MaxFaults /\ faults' = faults + 1
    /\ share' = [share EXCEPT ![q].at = "broken"]
    /\ UNCHANGED <<policy, evidence, grants, reports, chain, issued, revoked>>

Next ==
    \/ \E call \in Calls : IssueGrant(call)
    \/ \E g \in DOMAIN grants : RevokeGrant(g) \/ Expire(g)
    \/ \E event \in reports : AppendReport(event) \/ LoseReport(event)
    \/ \E status \in Endings : Invalidate(status)
    \/ \E q \in Shares :
           \/ \E request \in Requested : Share(q, request)
           \/ CheckSender(q) \/ CheckRecipient(q)
           \/ IssueNext(q) \/ Recheck(q) \/ EmitShared(q) \/ Break(q)

Spec == Init /\ [][Next]_vars

-----------------------------------------------------------------------------

TransferredBy(q) == IF share[q].at = "idle" THEN {} ELSE Range(share[q].issued)

\* A transfer bridges missing scopes and nothing else (share-service.ts:15-19,
\* INV-3): it wrote grants only for Evidence read ACTIVE and for a recipient
\* that neither the deny list nor its ceiling refuses, one exact scope each.
TransferBridgesOnlyScopes ==
    \A q \in Shares : TransferredBy(q) # {} =>
        LET item == share[q].read  to == share[q].to
        IN  /\ item.status = "ACTIVE" /\ to \notin policy.denied
            /\ item.class <= policy.ceiling[to]
            /\ \A g \in TransferredBy(q) :
                   /\ OfAgent(grants[g], to) /\ grants[g].action = "consume"
                   /\ grants[g].pattern \in Range(item.scopes)

\* What a transfer was for comes about: a share that issued its grants ends in
\* ALLOW, however other calls interleave, unless one of those grants was revoked
\* before the second check (share-service.ts:18-20).
TransferSuffices ==
    \A q \in Shares :
        /\ share[q].at \in {"emit", "done"}
        /\ TransferredBy(q) # {} /\ share[q].reason # "AUTHORIZED"
        => \E g \in TransferredBy(q) : grants[g].state = "closed"

GrantedTo(item, agent, principal, action) ==
    \A scope \in Range(item.scopes), owner \in {None, principal} :
        \E g \in Held : /\ g.agent = agent /\ g.principal = owner /\ g.action = action
                      /\ g.pattern \in {scope, EveryScope}
                      /\ g.state \in {"open", "dated"}

\* Each ALLOW a share acts on rests, when it is given, on grants in force for every
\* scope and for the very Agent it is about: the sender's own and its principal's
\* to share, the recipient's own to consume (INV-1, INV-3).
AllowIsGranted ==
    [][\A q \in Shares :
         /\ share[q].at = "sender" /\ share'[q].at = "recipient" =>
                GrantedTo(share[q].read, share[q].from, share[q].principal, "share")
         /\ /\ share[q].at \in {"recipient", "issue"}
            /\ share'[q].at = "emit" /\ share'[q].reason = "AUTHORIZED"
            => GrantedTo(share[q].read, share[q].to, None, "consume")]_vars
=============================================================================
