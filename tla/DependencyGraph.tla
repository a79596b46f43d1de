---------------------------- MODULE DependencyGraph ----------------------------
(***************************************************************************)
(* The dependency graph that dependency/projector.ts projects from the     *)
(* stores, as the adjacency dependency/blast-radius.ts walks.  A database  *)
(* db is a record of what the stores hold; nothing but a deleted Agent and *)
(* its runs ever leaves them.  A run has at most one capsule and, here, at *)
(* most one changed file, so both go by the run's identity.                *)
(***************************************************************************)
CONSTANTS
    Evidence,   \* evidence identities
    Runs,       \* run identities
    Agents,     \* agent identities
    Sources,    \* cited sources
    None        \* no node

ASSUME NodeIds == Evidence \cap Runs = {} /\ None \notin Evidence \cup Runs

Databases ==
    [agents    : SUBSET Agents,             \* store.agents
     runs      : SUBSET Runs,               \* store.runs
     owner     : [Runs -> Agents],          \* run.agentId
     capsules  : SUBSET Runs,               \* runs that have a capsule
     contents  : [Runs -> SUBSET Evidence], \* capsule.evidence
     evidence  : SUBSET Evidence,
     producer  : [Evidence -> Runs],
     derived   : [Evidence -> SUBSET Evidence],
     source    : [Evidence -> Sources],
     artifacts : SUBSET Runs]               \* runs whose diff found a changed file

-----------------------------------------------------------------------------
(* Edges, each read from the side the walk reads it.  An edge with an end  *)
(* that is no node is dropped, so a run that left the store has none.      *)

\* CONTAINS_EVIDENCE, from the evidence.
CapsulesWith(db, e) == {r \in db.capsules : e \in db.contents[r] /\ e \in db.evidence}

\* USED_CAPSULE after CONTAINS_EVIDENCE.
Consumers(db, e) == CapsulesWith(db, e) \cap db.runs

\* DERIVED_FROM, from the contributor: evidence, and artifacts.
Derivatives_Upstream(db, e) == db.derived[e]
Derivatives(db, e) == {d \in db.evidence : e \in db.derived[d]}
ArtifactsFrom(db, e) == {r \in db.artifacts : e \in db.contents[r] /\ e \in db.evidence}

\* PRODUCED, CHANGED_ARTIFACT and EXECUTED, from the run.
Products(db, r)  == {e \in db.evidence : db.producer[e] = r /\ r \in db.runs}
Changes(db, r)   == {r} \cap db.artifacts \cap db.runs
Executors(db, r) == {a \in db.agents : a = db.owner[r] /\ r \in db.runs}

\* CITES, from the source.
Citations(db, s) == {e \in db.evidence : db.source[e] = s}

\* Where the walk goes from a node.
Successors(db, n) ==
    IF n \in Evidence THEN Consumers(db, n) \cup Derivatives(db, n)
    ELSE Products(db, n)

-----------------------------------------------------------------------------
(* References: the smallest set that holds the seeds and whatever its     *)
(* members lead to, in the graph and in the records themselves.            *)

Nodes == Evidence \cup Runs

IsClosed(S, db) == \A n \in S : Successors(db, n) \subseteq S
Reachable(db, seeds) ==
    {n \in Nodes : \A S \in SUBSET Nodes : seeds \subseteq S /\ IsClosed(S, db) => n \in S}

\* What came from a node, whoever left the store since.
LeadsTo(db, n) ==
    {r \in db.capsules : n \in db.contents[r]} \cup
    {e \in db.evidence : n \in db.derived[e] \/ n = db.producer[e]}
Downstream(db, seeds) ==
    {n \in Nodes : \A S \in SUBSET Nodes :
        seeds \subseteq S /\ (\A m \in S : LeadsTo(db, m) \subseteq S) => n \in S}
=============================================================================
