------------------------------ MODULE BlastRadius ------------------------------
(***************************************************************************)
(* computeBlastRadius of dependency/blast-radius.ts over the graph of      *)
(* whatever records the server can have accumulated: runs start with a     *)
(* capsule of existing evidence, produce evidence and change files, Agents *)
(* are deleted with their runs.  The walk itself awaits nothing, so the    *)
(* records stand still while it runs.                                      *)
(***************************************************************************)
EXTENDS DependencyGraph

VARIABLES
    db,         \* what the stores hold
    trigger,    \* what was invalidated
    frontier,   \* the walk's queue
    visited,    \* evidenceVisited
    radius      \* the output arrays

radiusVars == <<db, trigger, frontier, visited, radius>>

NoRadius == [evidenceIds |-> {}, derivedEvidenceIds |-> {}, capsuleIds |-> {},
             runIds |-> {}, agentIds |-> {}, artifactIds |-> {}]
NoTrigger == [kind |-> "none", id |-> None]

RadiusInit ==
    /\ \E owner \in [Runs -> Agents], producer \in [Evidence -> Runs],
          source \in [Evidence -> Sources] :
         db = [agents |-> Agents, runs |-> {}, owner |-> owner, capsules |-> {},
               contents |-> [r \in Runs |-> {}], evidence |-> {}, producer |-> producer,
               derived |-> [e \in Evidence |-> {}], source |-> source, artifacts |-> {}]
    /\ trigger = NoTrigger
    /\ frontier = {} /\ visited = {} /\ radius = NoRadius

-----------------------------------------------------------------------------
(* The records.                                                            *)

Records(next) ==
    /\ trigger = NoTrigger
    /\ db' = next
    /\ UNCHANGED <<trigger, frontier, visited, radius>>

\* A run whose capsule was refused has none.
StartRun(r, contents) ==
    /\ r \notin db.runs \cup db.capsules
    /\ db.owner[r] \in db.agents
    /\ contents \subseteq db.evidence
    /\ Records([db EXCEPT !.runs = @ \cup {r}, !.capsules = @ \cup {r},
                          !.contents[r] = contents])

StartRefusedRun(r) ==
    /\ r \notin db.runs \cup db.capsules
    /\ db.owner[r] \in db.agents
    /\ Records([db EXCEPT !.runs = @ \cup {r}])

AddEvidence(e, derived) ==
    /\ e \notin db.evidence /\ db.producer[e] \in db.runs \cap db.capsules
    /\ derived \subseteq db.evidence
    /\ Records([db EXCEPT !.evidence = @ \cup {e}, !.derived[e] = derived])

\* captureAfter: the changed file is derived from everything in the capsule.
CaptureAfter(r) ==
    /\ r \in db.runs \cap db.capsules
    /\ Records([db EXCEPT !.artifacts = @ \cup {r}])

DeleteAgent(a) ==
    /\ a \in db.agents
    /\ Records([db EXCEPT !.agents = @ \ {a},
                          !.runs = {r \in @ : db.owner[r] # a}])

-----------------------------------------------------------------------------
(* The walk.                                                               *)

\* The trigger evidence is visited but not part of its own radius.
TriggerEvidence(e) ==
    /\ trigger = NoTrigger
    /\ e \in db.evidence
    /\ trigger' = [kind |-> "evidence", id |-> e]
    /\ frontier' = {e} /\ visited' = {e}
    /\ UNCHANGED <<db, radius>>

\* The evidence citing a source is part of the radius, but not by contagion.
TriggerSource(s) ==
    /\ trigger = NoTrigger
    /\ trigger' = [kind |-> "source", id |-> s]
    /\ frontier' = Citations(db, s) /\ visited' = Citations(db, s)
    /\ radius' = [radius EXCEPT !.evidenceIds = Citations(db, s)]
    /\ UNCHANGED db

\* No grant is a node of the graph.
TriggerGrant ==
    /\ trigger = NoTrigger
    /\ trigger' = [kind |-> "authorization_grant", id |-> None]
    /\ UNCHANGED <<db, frontier, visited, radius>>

Contaminate_EvidenceOnly(es, runs, n) ==
    /\ visited' = visited \cup es
    /\ frontier' = (frontier \ {n}) \cup (es \ visited)

\* seedEvidence on what an item leads to.
Contaminate(es, runs, n) ==
    /\ visited' = visited \cup es
    /\ frontier' = (frontier \ {n}) \cup (es \ visited) \cup (runs \ radius.runIds)

\* The queue is first in first out; here the next item is any of it.
VisitEvidence(e) ==
    /\ e \in frontier \cap Evidence
    /\ Contaminate(Derivatives(db, e), Consumers(db, e), e)
    /\ radius' = [radius EXCEPT
         !.capsuleIds = @ \cup CapsulesWith(db, e),
         !.runIds = @ \cup Consumers(db, e),
         !.artifactIds = @ \cup ArtifactsFrom(db, e),
         !.evidenceIds = @ \cup (Derivatives(db, e) \ visited),
         !.derivedEvidenceIds = @ \cup (Derivatives(db, e) \ visited)]
    /\ UNCHANGED <<db, trigger>>

VisitRun(r) ==
    /\ r \in frontier \cap Runs
    /\ Contaminate(Products(db, r), {}, r)
    /\ radius' = [radius EXCEPT
         !.evidenceIds = @ \cup (Products(db, r) \ visited),
         !.derivedEvidenceIds = @ \cup (Products(db, r) \ visited),
         !.artifactIds = @ \cup Changes(db, r),
         !.agentIds = @ \cup Executors(db, r)]
    /\ UNCHANGED <<db, trigger>>

Record ==
    \/ \E r \in Runs : \/ \E contents \in SUBSET Evidence : StartRun(r, contents)
                       \/ StartRefusedRun(r) \/ CaptureAfter(r)
    \/ \E e \in Evidence, derived \in SUBSET Evidence : AddEvidence(e, derived)
    \/ \E a \in Agents : DeleteAgent(a)

Trigger == (\E e \in Evidence : TriggerEvidence(e)) \/ (\E s \in Sources : TriggerSource(s))
           \/ TriggerGrant

Walk == \E n \in Nodes : VisitEvidence(n) \/ VisitRun(n)

RadiusNext == Record \/ Trigger \/ Walk

RadiusSpec == RadiusInit /\ [][RadiusNext]_radiusVars

-----------------------------------------------------------------------------
\* The types of the records and of the walk.
RadiusTypeOK ==
    /\ db \in Databases
    /\ trigger.kind \in {"none", "evidence", "source", "authorization_grant"}
    /\ frontier \subseteq Nodes /\ visited \subseteq Evidence
    /\ radius \in [evidenceIds : SUBSET Evidence, derivedEvidenceIds : SUBSET Evidence,
                   capsuleIds : SUBSET Runs, runIds : SUBSET Runs,
                   agentIds : SUBSET Agents, artifactIds : SUBSET Runs]

Seeds ==
    CASE trigger.kind = "evidence" -> {trigger.id}
      [] trigger.kind = "source"   -> Citations(db, trigger.id)
      [] OTHER                     -> {}

Returned == trigger # NoTrigger /\ frontier = {}

-----------------------------------------------------------------------------
(* Properties.                                                             *)

\* Whatever the order of the queue, the walk that ends has visited exactly what
\* the seeds reach in the graph it was given.
WalkIsExact ==
    Returned => visited \cup radius.runIds = Reachable(db, Seeds)

\* INV-12: while no Agent was deleted, the radius is everything that came from
\* the trigger, on the records themselves and not on the projected graph: every
\* capsule, run, file, Agent and Evidence, and nothing else; the contagion is the
\* Evidence that did not cite the source itself.
RadiusIsDownstream ==
    Returned /\ db.agents = Agents =>
        LET from  == Downstream(db, Seeds)
            es    == from \cap Evidence
            users == {r \in db.capsules : db.contents[r] \cap es # {}}
        IN  /\ radius.runIds = from \cap Runs
            /\ radius.capsuleIds = users
            /\ radius.agentIds = {db.owner[r] : r \in users}
            /\ radius.artifactIds = users \cap db.artifacts
            /\ radius.derivedEvidenceIds = es \ Seeds
            /\ radius.evidenceIds = IF trigger.kind = "source" THEN es ELSE es \ Seeds
=============================================================================
