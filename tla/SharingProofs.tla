----------------------------- MODULE SharingProofs -----------------------------
(***************************************************************************)
(* What transfers promise, for any number of shares, operator calls,       *)
(* scopes and faults.                                                      *)
(***************************************************************************)
EXTENDS Sharing, TLAPS

Statuses  == {"ACTIVE", "SUPERSEDED", "REVOKED", "COMPROMISED"}
Versions  == [status : Statuses, class : Nat, scopes : Seq(Scopes)]
PolicySet == [denied : SUBSET Agents, ceiling : [Agents -> Nat]]
Queries   == [agent : Agents, principal : Principals \cup {None}, action : Actions]
Reasons   == Statuses \cup Transferable
             \cup {"none", "AUTHORIZED", "POLICY_DENIED", "CLASSIFICATION_DENIED",
                   "PRINCIPAL_SCOPE_MISSING"}
Records   == [at : {"sender", "recipient", "issue", "emit", "done", "broken"},
              from : Agents, to : Agents, principal : Principals \cup {None},
              read : Versions, reason : Reasons, issued : Seq(Nat)]

Typed ==
    /\ policy \in PolicySet /\ evidence \in Versions
    /\ grants \in Seq(Grants)
    /\ share \in [Shares -> {NoShare} \cup Records]

\* A grant a transfer wrote: it is open until it is revoked, and never expires.
Written(g, to, scope) ==
    /\ g.agent = to /\ g.principal = None /\ g.action = "consume" /\ g.pattern = scope
    /\ g.state \in {"open", "closed"}

\* Scopes are what the recipient lacks.
Lacking(item, to) ==
    item.status = "ACTIVE" /\ to \notin policy.denied /\ item.class <= policy.ceiling[to]

\* The grants a share wrote so far, one for each scope in turn.
Transfer(s) ==
    /\ Len(s.issued) <= Len(s.read.scopes)
    /\ \A i \in 1..Len(s.issued) :
          /\ s.issued[i] \in 1..Len(grants)
          /\ Written(grants[s.issued[i]], s.to, s.read.scopes[i])

ShareInv(s) ==
    /\ s.at \in {"sender", "recipient"} => s.issued = <<>>
    /\ Transfer(s)
    /\ s.at = "issue" \/ s.issued # <<>> => Lacking(s.read, s.to)
    /\ s.at \in {"emit", "done"} /\ s.issued # <<>> /\ s.reason # "AUTHORIZED" =>
          \E i \in 1..Len(s.issued) : grants[s.issued[i]].state = "closed"

Inv == Typed /\ \A q \in Shares, s \in Records : share[q] = s => ShareInv(s)

-----------------------------------------------------------------------------
(* What authorize answers.                                                 *)

\* The least of a non-empty set of checks is one of them.
LEMMA MinFact ==
    ASSUME NEW S \in SUBSET (1..5), S # {}
    PROVE  Min(S) \in S /\ \A i \in S : Min(S) <= i
<1>1. \E x \in S : \A y \in S : x =< y
  <2> S \subseteq {1, 2, 3, 4, 5}
    OBVIOUS
  <2>1. CASE 1 \in S
    BY <2>1
  <2>2. CASE 1 \notin S /\ 2 \in S
    BY <2>2
  <2>3. CASE 1 \notin S /\ 2 \notin S /\ 3 \in S
    BY <2>3
  <2>4. CASE 1 \notin S /\ 2 \notin S /\ 3 \notin S /\ 4 \in S
    BY <2>4
  <2>5. CASE 1 \notin S /\ 2 \notin S /\ 3 \notin S /\ 4 \notin S
    <3>1. 5 \in S /\ \A y \in S : y = 5
      BY <2>5
    <3> QED
      BY <3>1
  <2> QED
    BY <2>1, <2>2, <2>3, <2>4, <2>5
<1> QED
  BY <1>1 DEF Min

\* A leg's reason is never that it passed.
LEMMA LegFact ==
    ASSUME NEW held, NEW scopes, NEW action, NEW missing \in Reasons
    PROVE  LegReason(held, scopes, action, missing) \in {missing, "GRANT_EXPIRED"}
BY DEF LegReason

LEMMA AuthorizeFact ==
    ASSUME NEW held, NEW pol \in PolicySet, NEW item \in Versions, NEW q \in Queries
    PROVE  LET reason == Authorize(held, pol, item, q)
               agentGrants     == {g \in held : OfAgent(g, q.agent)}
               principalGrants == {g \in held : OfPrincipal(g, q.agent, q.principal)}
               open == /\ q.agent \notin pol.denied /\ item.status = "ACTIVE"
                       /\ item.class <= pol.ceiling[q.agent]
           IN  /\ reason \in Reasons
               /\ reason = "AUTHORIZED" <=>
                      /\ open
                      /\ ~ LegFails(agentGrants, item.scopes, q.action)
                      /\ q.principal # None => ~ LegFails(principalGrants, item.scopes, q.action)
               /\ reason \in Transferable => open
<1> DEFINE reason == Authorize(held, pol, item, q)
           agentGrants     == {g \in held : OfAgent(g, q.agent)}
           principalGrants == {g \in held : OfPrincipal(g, q.agent, q.principal)}
           checks == Checks(held, pol, item, q)
           failed == {i \in 1..Len(checks) : checks[i]}
<1>1. PICK c1, c2, c3, c4, c5 :
          /\ c1 = (q.agent \in pol.denied)
          /\ c2 = (item.status # "ACTIVE")
          /\ c3 = (item.class > pol.ceiling[q.agent])
          /\ c4 = LegFails(agentGrants, item.scopes, q.action)
          /\ c5 = (q.principal # None /\ LegFails(principalGrants, item.scopes, q.action))
  OBVIOUS
<1>2. checks = <<c1, c2, c3, c4, c5>>
  BY <1>1 DEF Checks
<1>3. Len(checks) = 5 /\ checks[1] = c1 /\ checks[2] = c2 /\ checks[3] = c3 /\ checks[4] = c4
      /\ checks[5] = c5
  BY <1>2
<1>4. failed \subseteq 1..5 /\ \A i \in 1..5 : checks[i] => i \in failed
  BY <1>3
<1>5. failed = {} <=> ~ checks[1] /\ ~ checks[2] /\ ~ checks[3] /\ ~ checks[4] /\ ~ checks[5]
  BY <1>3
<1>6. reason = IF failed = {} THEN "AUTHORIZED" ELSE Reason(held, pol, item, q, Min(failed))
  BY DEF Authorize, First
<1>7. (item.class > pol.ceiling[q.agent]) <=> ~ (item.class <= pol.ceiling[q.agent])
  <2>1. item.class \in Nat
    BY DEF Versions
  <2>2. q.agent \in Agents /\ pol.ceiling \in [Agents -> Nat]
    BY DEF PolicySet, Queries
  <2>3. pol.ceiling[q.agent] \in Nat
    BY <2>2
  <2> QED
    BY <2>1, <2>3
<1> HIDE DEF failed
<1>8. ASSUME failed # {}
      PROVE  /\ reason \in Reasons \ {"AUTHORIZED"}
             /\ reason \in Transferable => ~ checks[1] /\ ~ checks[2] /\ ~ checks[3]
  <2>0. failed \in SUBSET (1..5) /\ Min(failed) \in 1..5
    BY <1>4, <1>8, MinFact
  <2>1. PICK m \in 1..5 : m = Min(failed) /\ m \in failed /\ \A i \in failed : m <= i
    BY <2>0, <1>8, MinFact
  <2> \A i \in 1..5 : i < m => ~ checks[i]
    BY <1>4, <2>1
  <2>2. reason = Reason(held, pol, item, q, m)
    BY <1>6, <1>8, <2>1
  <2>3. CASE m = 1
    BY <2>2, <2>3 DEF Reason, Reasons, Transferable
  <2>4. CASE m = 2
    <3>1. reason = item.status /\ item.status \in Statuses
      BY <2>2, <2>4 DEF Reason, Versions
    <3> QED
      BY <3>1 DEF Reasons, Transferable, Statuses
  <2>5. CASE m = 3
    BY <2>2, <2>5 DEF Reason, Reasons, Transferable
  <2>6. CASE m = 4
    <3>1. reason \in {"AGENT_SCOPE_MISSING", "GRANT_EXPIRED"}
      BY <2>2, <2>6, LegFact DEF Reason, Reasons, Transferable
    <3> QED
      BY <2>6, <3>1 DEF Reasons, Transferable
  <2>7. CASE m = 5
    <3>1. reason \in {"PRINCIPAL_SCOPE_MISSING", "GRANT_EXPIRED"}
      BY <2>2, <2>7, LegFact DEF Reason, Reasons, Transferable
    <3> QED
      BY <2>7, <3>1 DEF Reasons, Transferable
  <2> QED
    BY <2>1, <2>3, <2>4, <2>5, <2>6, <2>7
<1>9. CASE failed = {}
  <2>1. reason = "AUTHORIZED" /\ ~ c1 /\ ~ c2 /\ ~ c3 /\ ~ c4 /\ ~ c5
    BY <1>3, <1>5, <1>6, <1>9
  <2> QED
    BY <1>1, <1>7, <2>1 DEF Reasons
<1>10. CASE failed # {}
  <2>1. c1 \/ c2 \/ c3 \/ c4 \/ c5
    BY <1>3, <1>5, <1>10
  <2>2. reason \in Transferable => ~ c1 /\ ~ c2 /\ ~ c3
    BY <1>3, <1>8, <1>10
  <2> QED
    BY <1>1, <1>7, <1>8, <1>10, <2>1, <2>2
<1> QED
  BY <1>9, <1>10

-----------------------------------------------------------------------------
(* Grants are appended and closed, and what a transfer wrote stays.        *)

Moved ==
    /\ Len(grants') >= Len(grants)
    /\ \A g \in 1..Len(grants) :
          /\ grants'[g].agent = grants[g].agent /\ grants'[g].principal = grants[g].principal
          /\ grants'[g].action = grants[g].action /\ grants'[g].pattern = grants[g].pattern
          /\ grants[g].state = "open" => grants'[g].state \in {"open", "closed"}
          /\ grants[g].state = "closed" => grants'[g].state = "closed"

LEMMA UnmovedFact ==
    ASSUME Typed, grants' = grants
    PROVE  Moved
<1>1. Len(grants) \in Nat
  BY DEF Typed
<1> QED
  BY <1>1 DEF Moved

LEMMA AppendFact ==
    ASSUME Typed, NEW g \in Grants, grants' = Append(grants, g)
    PROVE  /\ Moved /\ grants' \in Seq(Grants) /\ Len(grants') = Len(grants) + 1
           /\ grants'[Len(grants')] = g /\ Len(grants) \in Nat
<1>1. /\ Len(grants) \in Nat /\ grants' \in Seq(Grants) /\ Len(grants') = Len(grants) + 1
      /\ \A i \in 1..Len(grants) : grants'[i] = grants[i]
      /\ grants'[Len(grants) + 1] = g
  BY DEF Typed
<1> QED
  BY <1>1 DEF Moved

LEMMA StateFact ==
    ASSUME Typed, NEW g \in DOMAIN grants, NEW state \in {"closed", "expired"},
           state = "expired" => grants[g].state = "dated",
           grants' = [grants EXCEPT ![g].state = state]
    PROVE  Moved /\ grants' \in Seq(Grants)
<1>1. Len(grants) \in Nat /\ DOMAIN grants = 1..Len(grants) /\ grants[g] \in Grants
  BY DEF Typed
<1>2. PICK h : h = [grants[g] EXCEPT !.state = state]
  OBVIOUS
<1>3. grants' = [grants EXCEPT ![g] = h]
  BY <1>2
<1>4. /\ h \in Grants /\ h.agent = grants[g].agent /\ h.principal = grants[g].principal
      /\ h.action = grants[g].action /\ h.pattern = grants[g].pattern /\ h.state = state
  BY <1>1, <1>2 DEF Grants
<1>5. grants' \in Seq(Grants) /\ Len(grants') = Len(grants)
  BY <1>1, <1>3, <1>4 DEF Typed
<1>6. \A i \in 1..Len(grants) : grants'[i] = IF i = g THEN h ELSE grants[i]
  BY <1>1, <1>3
<1> QED
  BY <1>1, <1>4, <1>5, <1>6 DEF Moved

LEMMA ShareKept ==
    ASSUME Typed, NEW s \in Records, ShareInv(s), Moved, grants' \in Seq(Grants),
           policy' = policy
    PROVE  ShareInv(s)'
<1>1. Len(grants) \in Nat /\ Len(grants') \in Nat /\ Len(s.issued) \in Nat
  BY DEF Typed, Records
<1>2. Transfer(s)'
  <2>1. Len(s.issued) <= Len(s.read.scopes)
    BY DEF ShareInv, Transfer
  <2>2. ASSUME NEW i \in 1..Len(s.issued)
        PROVE  /\ s.issued[i] \in 1..Len(grants')
               /\ Written(grants'[s.issued[i]], s.to, s.read.scopes[i])
    <3>1. PICK g \in 1..Len(grants) : g = s.issued[i] /\ Written(grants[g], s.to, s.read.scopes[i])
      BY <2>2 DEF ShareInv, Transfer
    <3>2. g \in 1..Len(grants')
      BY <1>1 DEF Moved
    <3>3. Written(grants'[g], s.to, s.read.scopes[i])
      BY <3>1 DEF Written, Moved
    <3> QED
      BY <3>1, <3>2, <3>3
  <2> QED
    BY <2>1, <2>2 DEF Transfer
<1>3. ASSUME NEW i \in 1..Len(s.issued), grants[s.issued[i]].state = "closed"
      PROVE  grants'[s.issued[i]].state = "closed"
  BY <1>3 DEF ShareInv, Transfer, Moved
<1> QED
  BY <1>2, <1>3 DEF ShareInv, Lacking

LEMMA GrantsOnly ==
    ASSUME Inv, Typed', Moved, UNCHANGED <<policy, share>>
    PROVE  Inv'
<1> SUFFICES ASSUME NEW q \in Shares, NEW s \in Records, share'[q] = s  PROVE ShareInv(s)'
  BY DEF Inv
<1> QED
  BY ShareKept DEF Inv, Typed

LEMMA StepKeeps ==
    ASSUME Inv, NEW q \in Shares, NEW t \in Records, share' = [share EXCEPT ![q] = t],
           ShareInv(t)', evidence' = evidence, grants' \in Seq(Grants), Moved, policy' = policy
    PROVE  Inv'
<1>1. Typed'
  BY DEF Inv, Typed
<1> SUFFICES ASSUME NEW p \in Shares, NEW s \in Records, share'[p] = s  PROVE ShareInv(s)'
  BY <1>1 DEF Inv
<1>2. CASE p = q
  BY <1>2 DEF Inv, Typed
<1>3. CASE p # q
  BY <1>3, ShareKept DEF Inv, Typed
<1> QED
  BY <1>2, <1>3

\* Two shares that hold the same but where they are and what was decided.
Alike(s, t) ==
    /\ t.from = s.from /\ t.to = s.to /\ t.principal = s.principal
    /\ t.read = s.read /\ t.issued = s.issued

LEMMA Begun ==
    ASSUME Typed, NEW q \in Shares, share[q].at # "idle"
    PROVE  share[q] \in Records
BY DEF Typed, NoShare

LEMMA GotoFact ==
    ASSUME Inv, NEW q \in Shares, share[q] \in Records, NEW reason \in Reasons,
           NEW label \in {"recipient", "issue", "emit"}, Goto(q, label, reason)
    PROVE  \E t \in Records : /\ share' = [share EXCEPT ![q] = t]
                              /\ t.at = label /\ t.reason = reason /\ Alike(share[q], t)
<1>1. PICK t : t = [share[q] EXCEPT !.at = label, !.reason = reason]
  OBVIOUS
<1>2. t \in Records /\ t.at = label /\ t.reason = reason /\ Alike(share[q], t)
  BY <1>1 DEF Records, Alike
<1>3. share' = [share EXCEPT ![q] = t]
  BY <1>1 DEF Goto
<1> QED
  BY <1>2, <1>3

\* The same, when only the place changes.
LEMMA LabelFact ==
    ASSUME Inv, NEW q \in Shares, share[q] \in Records, NEW label \in {"done", "broken"},
           share' = [share EXCEPT ![q].at = label]
    PROVE  \E t \in Records : /\ share' = [share EXCEPT ![q] = t]
                              /\ t.at = label /\ t.reason = share[q].reason
                              /\ Alike(share[q], t)
<1>1. PICK t : t = [share[q] EXCEPT !.at = label]
  OBVIOUS
<1>2. t \in Records /\ t.at = label /\ t.reason = share[q].reason /\ Alike(share[q], t)
  BY <1>1 DEF Records, Alike
<1>3. share' = [share EXCEPT ![q] = t]
  BY <1>1
<1> QED
  BY <1>2, <1>3

-----------------------------------------------------------------------------
(* What a share is told, and on which grants.                              *)

LEMMA DecideFact ==
    ASSUME Inv, NEW q \in Shares, share[q] \in Records, NEW agent \in Agents,
           NEW principal \in Principals \cup {None}, NEW action \in Actions
    PROVE  LET reason == Decide(q, agent, principal, action)
               item == share[q].read
               agentGrants     == {g \in Held : OfAgent(g, agent)}
               principalGrants == {g \in Held : OfPrincipal(g, agent, principal)}
           IN  /\ reason \in Reasons
               /\ reason = "AUTHORIZED" <=>
                      /\ Lacking(item, agent)
                      /\ ~ LegFails(agentGrants, item.scopes, action)
                      /\ principal # None => ~ LegFails(principalGrants, item.scopes, action)
               /\ reason \in Transferable => Lacking(item, agent)
<1>1. PICK query : /\ query = Request(agent, principal, action) /\ query \in Queries
                   /\ query.agent = agent /\ query.principal = principal
                   /\ query.action = action
  <2>1. PICK query : query = [agent |-> agent, principal |-> principal, action |-> action]
    OBVIOUS
  <2>2. query \in Queries /\ query.agent = agent /\ query.principal = principal
        /\ query.action = action
    BY <2>1 DEF Queries
  <2> QED
    BY <2>1, <2>2 DEF Request
<1>2. policy \in PolicySet /\ share[q].read \in Versions
  BY DEF Inv, Typed, Records
<1>3. Decide(q, agent, principal, action) = Authorize(Held, policy, share[q].read, query)
  BY <1>1 DEF Decide
<1>4. PICK pol, item, held : /\ pol = policy /\ pol \in PolicySet /\ held = Held
                             /\ item = share[q].read /\ item \in Versions
  BY <1>2
<1>5. /\ Authorize(held, pol, item, query) \in Reasons
      /\ Authorize(held, pol, item, query) = "AUTHORIZED" <=>
             /\ query.agent \notin pol.denied /\ item.status = "ACTIVE"
             /\ item.class <= pol.ceiling[query.agent]
             /\ ~ LegFails({g \in held : OfAgent(g, query.agent)}, item.scopes, query.action)
             /\ query.principal # None =>
                   ~ LegFails({g \in held : OfPrincipal(g, query.agent, query.principal)},
                              item.scopes, query.action)
      /\ Authorize(held, pol, item, query) \in Transferable =>
             /\ query.agent \notin pol.denied /\ item.status = "ACTIVE"
             /\ item.class <= pol.ceiling[query.agent]
  <2>1. pol \in PolicySet /\ item \in Versions /\ query \in Queries
    BY <1>1, <1>4
  <2> QED
    BY <2>1, AuthorizeFact, Zenon
<1>6. /\ {g \in held : OfAgent(g, query.agent)} = {g \in Held : OfAgent(g, agent)}
      /\ {g \in held : OfPrincipal(g, query.agent, query.principal)}
            = {g \in Held : OfPrincipal(g, agent, principal)}
  BY <1>1, <1>4
<1> QED
  BY <1>1, <1>3, <1>4, <1>5, <1>6 DEF Lacking

\* A leg that passes has a grant in force for every scope.
LEMMA LegGrants ==
    ASSUME NEW held, NEW scopes \in Seq(Scopes), NEW action, ~ LegFails(held, scopes, action),
           NEW i \in 1..Len(scopes)
    PROVE  \E g \in held : g.action = action /\ PatternMatches(g.pattern, scopes[i]) /\ InForce(g)
BY DEF LegFails, Uncovered, Covering

LEMMA AllowFact ==
    ASSUME Inv, NEW q \in Shares, share[q] \in Records, NEW agent \in Agents,
           NEW principal \in Principals \cup {None}, NEW action \in Actions,
           Decide(q, agent, principal, action) = "AUTHORIZED"
    PROVE  GrantedTo(share[q].read, agent, principal, action)
<1>1. /\ ~ LegFails({g \in Held : OfAgent(g, agent)}, share[q].read.scopes, action)
      /\ principal # None =>
            ~ LegFails({g \in Held : OfPrincipal(g, agent, principal)}, share[q].read.scopes, action)
  BY DecideFact
<1>2. PICK scopes \in Seq(Scopes) : scopes = share[q].read.scopes
  BY DEF Records, Versions
<1> SUFFICES ASSUME NEW scope \in Range(scopes), NEW owner \in {None, principal}
             PROVE  \E g \in Held : /\ g.agent = agent /\ g.principal = owner
                                   /\ g.action = action /\ g.pattern \in {scope, EveryScope}
                                   /\ g.state \in {"open", "dated"}
  BY <1>2 DEF GrantedTo
<1>3. PICK i \in 1..Len(scopes) : scope = scopes[i]
  BY DEF Range
<1>4. CASE owner = None
  <2>1. PICK held : held = {g \in Held : OfAgent(g, agent)}
    OBVIOUS
  <2>2. \E g \in held : g.action = action /\ PatternMatches(g.pattern, scope) /\ InForce(g)
    BY <1>1, <1>2, <1>3, <2>1, LegGrants
  <2> QED
    BY <1>4, <2>1, <2>2 DEF OfAgent, PatternMatches, InForce
<1>5. CASE owner # None
  <2>1. PICK held : held = {g \in Held : OfPrincipal(g, agent, principal)}
    OBVIOUS
  <2>2. \E g \in held : g.action = action /\ PatternMatches(g.pattern, scope) /\ InForce(g)
    BY <1>1, <1>2, <1>3, <1>5, <2>1, LegGrants
  <2> QED
    BY <1>5, <2>1, <2>2 DEF OfPrincipal, PatternMatches, InForce
<1> QED
  BY <1>4, <1>5

\* A finished transfer that is denied lost one of its grants.
LEMMA RecheckFact ==
    ASSUME Inv, NEW q \in Shares, share[q] \in Records, Recheck(q),
           Decide(q, share[q].to, None, "consume") # "AUTHORIZED"
    PROVE  \E i \in 1..Len(share[q].issued) : grants[share[q].issued[i]].state = "closed"
<1>1. PICK s \in Records : s = share[q] /\ ShareInv(s) /\ s.at = "issue"
  BY DEF Inv, Recheck
<1>2. Lacking(s.read, s.to) /\ Transfer(s)
  BY <1>1 DEF ShareInv
<1>3. s.to \in Agents /\ None \in Principals \cup {None} /\ "consume" \in Actions
  BY DEF Records, Actions
<1>4. PICK held : held = {g \in Held : OfAgent(g, s.to)}
  OBVIOUS
<1>5. LegFails(held, s.read.scopes, "consume")
  BY <1>1, <1>2, <1>3, <1>4, DecideFact
<1>6. PICK i \in 1..Len(s.read.scopes) :
          \A g \in Covering(held, s.read.scopes[i], "consume") : ~ InForce(g)
  BY <1>5 DEF LegFails, Uncovered
<1>7. i \in 1..Len(s.issued)
  <2>1. Len(s.issued) \in Nat /\ Len(s.read.scopes) \in Nat /\ s.issued \in Seq(Nat)
    BY DEF Records, Versions
  <2>2. Len(s.issued) <= Len(s.read.scopes) /\ Len(s.issued) + 1 \notin 1..Len(s.read.scopes)
    BY <1>1, <1>2 DEF Recheck, Scoped, Transfer
  <2> QED
    BY <2>1, <2>2
<1>8. PICK g : g = grants[s.issued[i]] /\ Written(g, s.to, s.read.scopes[i]) /\ g \in Held
  <2>1. s.issued[i] \in 1..Len(grants) /\ Written(grants[s.issued[i]], s.to, s.read.scopes[i])
    BY <1>2, <1>7 DEF Transfer
  <2>2. grants[s.issued[i]] \in Held
    BY <2>1 DEF Held, Range, Inv, Typed
  <2> QED
    BY <2>1, <2>2
<1>9. g \in Covering(held, s.read.scopes[i], "consume")
  BY <1>4, <1>8 DEF Covering, Written, OfAgent, PatternMatches
<1>10. g.state = "closed"
  BY <1>6, <1>8, <1>9 DEF Written, InForce
<1> QED
  BY <1>1, <1>7, <1>8, <1>10

-----------------------------------------------------------------------------
(* The steps.                                                              *)

LEMMA OperatorKeeps ==
    ASSUME Inv, \/ \E call \in Calls : IssueGrant(call)
                \/ \E g \in DOMAIN grants : RevokeGrant(g) \/ Expire(g)
                \/ \E event \in reports : AppendReport(event) \/ LoseReport(event)
                \/ \E status \in Endings : Invalidate(status)
    PROVE  Inv'
<1>1. ASSUME NEW call \in Calls, IssueGrant(call)  PROVE Inv'
  <2>1. call \in Grants /\ grants' = Append(grants, call)
    BY <1>1, Inputs DEF IssueGrant
  <2>2. Moved /\ grants' \in Seq(Grants)
    BY <2>1, AppendFact DEF Inv
  <2> QED
    BY <1>1, <2>2, GrantsOnly DEF IssueGrant, Inv, Typed
<1>2. ASSUME NEW g \in DOMAIN grants, RevokeGrant(g) \/ Expire(g)  PROVE Inv'
  <2>1. PICK state \in {"closed", "expired"} :
            /\ grants' = [grants EXCEPT ![g].state = state]
            /\ state = "expired" => grants[g].state = "dated"
    BY <1>2 DEF RevokeGrant, Expire
  <2>2. Moved /\ grants' \in Seq(Grants)
    BY <2>1, StateFact DEF Inv
  <2> QED
    BY <1>2, <2>2, GrantsOnly DEF RevokeGrant, Expire, Inv, Typed
<1>3. ASSUME NEW event, AppendReport(event) \/ LoseReport(event)  PROVE Inv'
  BY <1>3, UnmovedFact, GrantsOnly DEF AppendReport, LoseReport, Inv, Typed
<1>4. ASSUME NEW status \in Endings, Invalidate(status)  PROVE Inv'
  <2>1. status \in Statuses /\ UNCHANGED <<policy, grants, share>>
    BY <1>4, Inputs DEF Invalidate, Statuses
  <2>2. evidence' \in Versions
    BY <1>4, <2>1 DEF Invalidate, Inv, Typed, Versions
  <2> QED
    BY <2>1, <2>2, UnmovedFact, GrantsOnly DEF Inv, Typed
<1> QED
  BY <1>1, <1>2, <1>3, <1>4

\* A step of a share that leaves its grants and what it read as they were.
LEMMA MoveKeeps ==
    ASSUME Inv, NEW q \in Shares, share[q] \in Records, NEW t \in Records,
           share' = [share EXCEPT ![q] = t], Alike(share[q], t),
           UNCHANGED <<policy, evidence, grants>>,
           t.at = "recipient" => share[q].at = "sender",
           t.at # "sender",
           t.at = "issue" => Lacking(t.read, t.to),
           t.at \in {"emit", "done"} /\ t.issued # <<>> /\ t.reason # "AUTHORIZED" =>
               \E i \in 1..Len(t.issued) : grants[t.issued[i]].state = "closed"
    PROVE  Inv'
<1>1. PICK s \in Records : s = share[q] /\ ShareInv(s) /\ Alike(s, t)
  BY DEF Inv
<1>2. Transfer(t)
  BY <1>1 DEF ShareInv, Transfer, Alike
<1>3. t.at = "issue" \/ t.issued # <<>> => Lacking(t.read, t.to)
  BY <1>1 DEF ShareInv, Alike
<1>4. ShareInv(t)
  BY <1>1, <1>2, <1>3 DEF ShareInv, Alike
<1>5. Moved /\ grants' \in Seq(Grants)
  BY UnmovedFact DEF Inv, Typed
<1>6. ShareInv(t)'
  BY <1>4, <1>5, ShareKept DEF Inv
<1> QED
  BY <1>5, <1>6, StepKeeps

LEMMA AskKeeps ==
    ASSUME Inv, NEW q \in Shares, NEW request \in Requested, Share(q, request)
    PROVE  Inv'
<1>1. PICK t : t = [at |-> "sender", from |-> request.from, to |-> request.to,
                    principal |-> request.principal, read |-> evidence,
                    reason |-> "none", issued |-> <<>>]
  OBVIOUS
<1>2. /\ request.from \in Agents /\ request.to \in Agents
      /\ request.principal \in Principals \cup {None}
  BY Inputs
<1>3. t \in Records /\ t.at = "sender" /\ t.issued = <<>>
  BY <1>1, <1>2 DEF Records, Reasons, Inv, Typed
<1>4. share' = [share EXCEPT ![q] = t] /\ UNCHANGED <<policy, evidence, grants>>
  BY <1>1 DEF Share
<1>5. Moved /\ grants' \in Seq(Grants)
  BY <1>4, UnmovedFact DEF Inv, Typed
<1>6. ShareInv(t)'
  <2>1. Len(t.read.scopes) \in Nat
    BY <1>3 DEF Records, Versions
  <2> QED
    BY <1>3, <2>1 DEF ShareInv, Transfer
<1> QED
  BY <1>3, <1>4, <1>5, <1>6, StepKeeps

LEMMA CheckKeeps ==
    ASSUME Inv, NEW q \in Shares, CheckSender(q) \/ CheckRecipient(q)
    PROVE  Inv'
<1>1. share[q] \in Records /\ share[q].at \in {"sender", "recipient"}
  BY Begun DEF CheckSender, CheckRecipient, Inv
<1>2. share[q].issued = <<>>
  BY <1>1 DEF Inv, ShareInv
<1>3. /\ share[q].from \in Agents /\ share[q].to \in Agents
      /\ share[q].principal \in Principals \cup {None} /\ None \in Principals \cup {None}
      /\ "share" \in Actions /\ "consume" \in Actions
  BY <1>1 DEF Records, Actions
<1>4. PICK reason \in Reasons, label \in {"recipient", "issue", "emit"} :
          /\ Goto(q, label, reason)
          /\ label = "recipient" => share[q].at = "sender"
          /\ label = "issue" => Lacking(share[q].read, share[q].to)
  <2>1. CASE CheckSender(q)
    BY <1>1, <1>3, <2>1, DecideFact DEF CheckSender
  <2>2. CASE CheckRecipient(q)
    <3>1. PICK reason \in Reasons :
              /\ reason = Decide(q, share[q].to, None, "consume")
              /\ reason \in Transferable => Lacking(share[q].read, share[q].to)
      BY <1>1, <1>3, DecideFact
    <3> QED
      BY <2>2, <3>1 DEF CheckRecipient
  <2> QED
    BY <2>1, <2>2
<1>5. PICK t \in Records : /\ share' = [share EXCEPT ![q] = t]
                          /\ t.at = label /\ t.reason = reason /\ Alike(share[q], t)
  BY <1>1, <1>4, GotoFact
<1>6. UNCHANGED <<policy, evidence, grants>>
  BY <1>4 DEF Goto
<1> QED
  BY <1>1, <1>2, <1>4, <1>5, <1>6, MoveKeeps DEF Alike

LEMMA RecheckKeeps ==
    ASSUME Inv, NEW q \in Shares, Recheck(q)
    PROVE  Inv'
<1>1. share[q] \in Records /\ share[q].at = "issue"
  BY Begun DEF Recheck, Inv
<1>2. share[q].to \in Agents /\ None \in Principals \cup {None} /\ "consume" \in Actions
  BY <1>1 DEF Records, Actions
<1>3. PICK reason \in Reasons : reason = Decide(q, share[q].to, None, "consume")
  BY <1>1, <1>2, DecideFact
<1>4. PICK t \in Records : /\ share' = [share EXCEPT ![q] = t]
                          /\ t.at = "emit" /\ t.reason = reason /\ Alike(share[q], t)
  BY <1>1, <1>3, GotoFact DEF Recheck
<1>5. reason # "AUTHORIZED" =>
          \E i \in 1..Len(share[q].issued) : grants[share[q].issued[i]].state = "closed"
  BY <1>1, <1>3, RecheckFact
<1>6. UNCHANGED <<policy, evidence, grants>>
  BY DEF Recheck, Goto
<1> QED
  BY <1>1, <1>4, <1>5, <1>6, MoveKeeps DEF Alike

LEMMA EndKeeps ==
    ASSUME Inv, NEW q \in Shares, EmitShared(q) \/ Break(q)
    PROVE  Inv'
<1>1. share[q] \in Records
  BY Begun DEF EmitShared, Break, Inv
<1>2. PICK label \in {"done", "broken"} :
          /\ share' = [share EXCEPT ![q].at = label]
          /\ label = "done" => share[q].at = "emit"
  BY DEF EmitShared, Break
<1>3. PICK t \in Records : /\ share' = [share EXCEPT ![q] = t]
                          /\ t.at = label /\ t.reason = share[q].reason /\ Alike(share[q], t)
  BY <1>1, <1>2, LabelFact
<1>4. UNCHANGED <<policy, evidence, grants>>
  BY DEF EmitShared, Break
<1>5. share[q].at = "emit" /\ share[q].issued # <<>> /\ share[q].reason # "AUTHORIZED" =>
          \E i \in 1..Len(share[q].issued) : grants[share[q].issued[i]].state = "closed"
  BY <1>1 DEF Inv, ShareInv
<1>6. t.at \in {"emit", "done"} /\ t.issued # <<>> /\ t.reason # "AUTHORIZED" =>
          \E i \in 1..Len(t.issued) : grants[t.issued[i]].state = "closed"
  BY <1>2, <1>3, <1>5 DEF Alike
<1>7. t.at \notin {"recipient", "sender", "issue"}
  BY <1>3
<1> QED
  BY <1>1, <1>3, <1>4, <1>6, <1>7, MoveKeeps

LEMMA IssueKeeps ==
    ASSUME Inv, NEW q \in Shares, IssueNext(q)
    PROVE  Inv'
<1>1. share[q] \in Records /\ share[q].at = "issue"
  BY Begun DEF IssueNext, Inv
<1>2. PICK s \in Records : s = share[q] /\ ShareInv(s) /\ s.at = "issue"
  BY <1>1 DEF Inv
<1>3. PICK i \in Nat : i = Len(s.issued) + 1 /\ i \in 1..Len(s.read.scopes)
  <2>1. Len(s.issued) \in Nat
    BY DEF Records
  <2>2. Len(s.issued) + 1 \in 1..Len(s.read.scopes)
    BY <1>2 DEF IssueNext, Scoped
  <2> QED
    BY <2>1, <2>2
<1>4. PICK g : g = [agent |-> s.to, principal |-> None, pattern |-> s.read.scopes[i],
                    action |-> "consume", state |-> "open"]
  OBVIOUS
<1>5. g \in Grants /\ Written(g, s.to, s.read.scopes[i])
  <2>1. s.read.scopes[i] \in Scopes /\ s.to \in Agents
    BY <1>3 DEF Records, Versions
  <2> QED
    BY <1>4, <2>1 DEF Grants, Patterns, Actions, Written
<1>6. grants' = Append(grants, g) /\ UNCHANGED <<policy, evidence>>
  BY <1>2, <1>3, <1>4 DEF IssueNext
<1>7. /\ Moved /\ grants' \in Seq(Grants)
      /\ grants'[Len(grants')] = g /\ Len(grants') \in Nat \ {0}
  BY <1>5, <1>6, AppendFact DEF Inv
<1>8. PICK n \in Nat \ {0} : n = Len(grants') /\ grants'[n] = g
  BY <1>7
<1>9. PICK t : t = [s EXCEPT !.issued = Append(s.issued, n)]
  OBVIOUS
<1>10. share' = [share EXCEPT ![q] = t]
  BY <1>2, <1>8, <1>9 DEF IssueNext
<1>11. /\ t \in Records /\ t.at = "issue" /\ t.to = s.to /\ t.read = s.read
       /\ t.issued = Append(s.issued, n)
  <2>1. PICK w \in Seq(Nat) : w = Append(s.issued, n)
    <3>1. Append(s.issued, n) \in Seq(Nat)
      BY <1>8 DEF Records
    <3> QED
      BY <3>1
  <2>2. t = [s EXCEPT !.issued = w]
    BY <1>9, <2>1
  <2> QED
    BY <1>2, <2>1, <2>2 DEF Records
<1>12. /\ s.issued \in Seq(Nat) /\ Len(t.issued) = i /\ t.issued[i] = n
       /\ \A j \in 1..(i - 1) : j \in 1..Len(s.issued) /\ t.issued[j] = s.issued[j]
  BY <1>3, <1>11 DEF Records
<1>13. ShareInv(s)'
  BY <1>2, <1>6, <1>7, ShareKept DEF Inv
<1>14. Transfer(t)'
  <2>1. ASSUME NEW j \in 1..Len(t.issued)
        PROVE  /\ t.issued[j] \in 1..Len(grants')
               /\ Written(grants'[t.issued[j]], t.to, t.read.scopes[j])
    <3>1. CASE j = i
      BY <1>5, <1>8, <1>11, <1>12, <3>1
    <3>2. CASE j # i
      <4>1. j \in 1..(i - 1)
        BY <1>3, <1>12, <2>1, <3>2
      <4> QED
        BY <1>11, <1>12, <1>13, <4>1 DEF ShareInv, Transfer
    <3> QED
      BY <3>1, <3>2
  <2>2. Len(t.issued) <= Len(t.read.scopes)
    BY <1>3, <1>11, <1>12
  <2> QED
    BY <2>1, <2>2 DEF Transfer
<1>15. ShareInv(t)'
  BY <1>2, <1>11, <1>13, <1>14 DEF ShareInv
<1> QED
  BY <1>6, <1>7, <1>10, <1>11, <1>15, StepKeeps

-----------------------------------------------------------------------------
LEMMA Initially == Init => Inv
<1> SUFFICES ASSUME Init PROVE Inv
  OBVIOUS
<1>1. Typed
  BY Inputs DEF Init, Typed, PolicySet, Versions, Statuses
<1>2. \A s \in Records : NoShare # s
  BY DEF NoShare, Records
<1> QED
  BY <1>1, <1>2 DEF Init, Inv

LEMMA Steps == Inv /\ [Next]_vars => Inv'
<1> SUFFICES ASSUME Inv, [Next]_vars PROVE Inv'
  OBVIOUS
<1>1. CASE UNCHANGED vars
  BY <1>1, UnmovedFact, GrantsOnly DEF vars, Inv, Typed
<1>2. CASE Next
  BY <1>2, OperatorKeeps, AskKeeps, CheckKeeps, RecheckKeeps, EndKeeps, IssueKeeps DEF Next
<1> QED
  BY <1>1, <1>2

\* share-service.ts:15-19, INV-3: whatever other shares, operators and faults interleave,
\* a transfer writes grants for the recipient alone, of one exact scope each, and only
\* where scopes were all that was missing.
THEOREM Bridges == Spec => []TransferBridgesOnlyScopes
<1>1. ASSUME Inv  PROVE TransferBridgesOnlyScopes
  <2> SUFFICES ASSUME NEW q \in Shares, TransferredBy(q) # {}
               PROVE  LET item == share[q].read  to == share[q].to
                      IN  /\ Lacking(item, to)
                          /\ \A g \in TransferredBy(q) :
                                /\ OfAgent(grants[g], to) /\ grants[g].action = "consume"
                                /\ grants[g].pattern \in Range(item.scopes)
    BY DEF TransferBridgesOnlyScopes, Lacking
  <2>1. share[q].at # "idle"
    BY DEF TransferredBy
  <2>2. PICK s \in Records : s = share[q] /\ ShareInv(s)
    BY <1>1, <2>1, Begun DEF Inv
  <2>3. s.issued \in Seq(Nat) /\ s.read.scopes \in Seq(Scopes)
    BY DEF Records, Versions
  <2>4. TransferredBy(q) = {s.issued[i] : i \in 1..Len(s.issued)}
    BY <2>1, <2>2, <2>3 DEF TransferredBy, Range
  <2>5. s.issued # <<>>
    BY <2>3, <2>4
  <2>6. ASSUME NEW i \in 1..Len(s.issued)
        PROVE  /\ OfAgent(grants[s.issued[i]], s.to) /\ grants[s.issued[i]].action = "consume"
               /\ grants[s.issued[i]].pattern \in Range(s.read.scopes)
    <3>1. i \in 1..Len(s.read.scopes) /\ Written(grants[s.issued[i]], s.to, s.read.scopes[i])
      BY <2>2, <2>3 DEF ShareInv, Transfer
    <3> QED
      BY <2>3, <3>1 DEF Written, OfAgent, Range
  <2> QED
    BY <2>2, <2>4, <2>5, <2>6 DEF ShareInv
<1> QED
  BY Initially, Steps, <1>1, PTL DEF Spec

\* share-service.ts:18-20: a transfer that is answered with a denial lost a grant it had
\* written to a revocation.
THEOREM Suffices == Spec => []TransferSuffices
<1>1. ASSUME Inv  PROVE TransferSuffices
  <2> SUFFICES ASSUME NEW q \in Shares, share[q].at \in {"emit", "done"},
                      TransferredBy(q) # {}, share[q].reason # "AUTHORIZED"
               PROVE  \E g \in TransferredBy(q) : grants[g].state = "closed"
    BY DEF TransferSuffices
  <2>1. PICK s \in Records : s = share[q] /\ ShareInv(s)
    BY <1>1, Begun DEF Inv
  <2>2. s.issued \in Seq(Nat)
    BY DEF Records
  <2>3. TransferredBy(q) = {s.issued[i] : i \in 1..Len(s.issued)}
    BY <2>1, <2>2 DEF TransferredBy, Range
  <2>4. s.issued # <<>>
    BY <2>2, <2>3
  <2> QED
    BY <2>1, <2>3, <2>4 DEF ShareInv
<1> QED
  BY Initially, Steps, <1>1, PTL DEF Spec

\* A share keeps its record while another acts.
LEMMA OthersWait ==
    ASSUME Inv, Next, NEW q \in Shares, share'[q] # share[q], share[q].at # "idle"
    PROVE  CheckSender(q) \/ CheckRecipient(q) \/ IssueNext(q) \/ Recheck(q)
           \/ EmitShared(q) \/ Break(q)
<1>1. share \in [Shares -> {NoShare} \cup Records]
  BY DEF Inv, Typed
<1>2. PICK p \in Shares : \/ \E request \in Requested : Share(p, request)
                         \/ CheckSender(p) \/ CheckRecipient(p)
                         \/ IssueNext(p) \/ Recheck(p) \/ EmitShared(p) \/ Break(p)
  BY DEF Next, IssueGrant, RevokeGrant, Expire, AppendReport, LoseReport, Invalidate
<1>3. p = q
  <2>1. \E t : share' = [share EXCEPT ![p] = t]
    BY <1>2 DEF Share, CheckSender, CheckRecipient, IssueNext, Recheck, EmitShared, Break, Goto
  <2> QED
    BY <1>1, <2>1
<1> QED
  BY <1>2, <1>3 DEF Share

Allowed(q) ==
    /\ share[q].at = "sender" /\ share'[q].at = "recipient" =>
           GrantedTo(share[q].read, share[q].from, share[q].principal, "share")
    /\ /\ share[q].at \in {"recipient", "issue"}
       /\ share'[q].at = "emit" /\ share'[q].reason = "AUTHORIZED"
       => GrantedTo(share[q].read, share[q].to, None, "consume")

LEMMA AllowStep ==
    ASSUME Inv, Next, NEW q \in Shares
    PROVE  Allowed(q)
<1> SUFFICES ASSUME share[q].at \in {"sender", "recipient", "issue"},
                    share'[q].at # share[q].at, share'[q].at \in {"recipient", "emit"}
             PROVE  Allowed(q)
  BY DEF Allowed
<1>1. share[q] \in Records
  BY Begun DEF Inv
<1>2. /\ share[q].from \in Agents /\ share[q].to \in Agents
      /\ share[q].principal \in Principals \cup {None} /\ None \in Principals \cup {None}
      /\ "share" \in Actions /\ "consume" \in Actions
  BY <1>1 DEF Records, Actions
<1>3. share \in [Shares -> {NoShare} \cup Records]
  BY DEF Inv, Typed
<1>4. CASE CheckSender(q)
  <2>1. PICK reason \in Reasons :
            /\ reason = Decide(q, share[q].from, share[q].principal, "share")
            /\ Goto(q, IF reason = "AUTHORIZED" THEN "recipient" ELSE "emit", reason)
            /\ share[q].at = "sender"
    BY <1>1, <1>2, <1>4, DecideFact DEF CheckSender
  <2>2. share'[q].at = "recipient" => reason = "AUTHORIZED"
    BY <1>1, <1>3, <2>1, GotoFact
  <2> QED
    BY <1>1, <1>2, <2>1, <2>2, AllowFact DEF Allowed
<1>5. CASE CheckRecipient(q) \/ Recheck(q)
  <2>1. PICK reason \in Reasons, label \in {"issue", "emit"} :
            /\ reason = Decide(q, share[q].to, None, "consume")
            /\ Goto(q, label, reason) /\ share[q].at # "sender"
    BY <1>1, <1>2, <1>5, DecideFact DEF CheckRecipient, Recheck
  <2>2. share'[q].reason = reason
    BY <1>1, <1>3, <2>1, GotoFact
  <2> QED
    BY <1>1, <1>2, <2>1, <2>2, AllowFact DEF Allowed
<1>6. CASE IssueNext(q) \/ EmitShared(q) \/ Break(q)
  <2>1. CASE IssueNext(q)
    <3>1. PICK w : share' = [share EXCEPT ![q].issued = w]
      BY <2>1 DEF IssueNext
    <3>2. share'[q] = [share[q] EXCEPT !.issued = w]
      BY <1>3, <3>1
    <3>3. share'[q].at = share[q].at
      BY <1>1, <3>2 DEF Records
    <3> QED
      BY <3>3
  <2>2. CASE EmitShared(q)
    BY <2>2 DEF EmitShared
  <2>3. CASE Break(q)
    <3>1. share'[q] = [share[q] EXCEPT !.at = "broken"]
      BY <1>3, <2>3 DEF Break
    <3>2. share'[q].at = "broken"
      BY <1>1, <3>1 DEF Records
    <3> QED
      BY <3>2
  <2> QED
    BY <1>6, <2>1, <2>2, <2>3
<1>7. share'[q] # share[q]
  OBVIOUS
<1> QED
  BY <1>4, <1>5, <1>6, <1>7, OthersWait

\* INV-1, INV-3: whatever is revoked, issued or expires between two checks, each ALLOW a
\* share acts on rests on grants in force for every scope (evaluator.ts:121-188).
THEOREM Allows == Spec => AllowIsGranted
<1>1. Inv /\ [Next]_vars => [\A q \in Shares : Allowed(q)]_vars
  BY AllowStep
<1> QED
  BY Initially, Steps, <1>1, PTL DEF Spec, AllowIsGranted, Allowed
=============================================================================
