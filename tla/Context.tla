-------------------------------- MODULE Context --------------------------------
(***************************************************************************)
(* What a Run is told: ContextBrokerImpl.build and renderPrompt over the   *)
(* Evidence of the store, the decisions of the evaluator, the capsules and *)
(* the clarifications.  Evidence is listed once and authorized one by one, *)
(* while it is superseded, revoked and compromised.                        *)
(***************************************************************************)
EXTENDS Evidence

CONSTANTS
    Runs,
    Keys,        \* subjectKey with predicate, or None
    Hashes,      \* claimHash
    Claims       \* the claims Evidence makes: [key, hash]

ASSUME ClaimTypes == None \notin Hashes /\ Claims \subseteq [key : Keys \cup {None}, hash : Hashes]

VARIABLES
    claim,       \* [key, hash] of each Evidence; the key may be None
    build,       \* each Run's build: where it is, what it listed and allowed
    decisions,   \* the evaluator's file: <<run, ref, result>>
    capsules,    \* capsule files: [run, refs, createdAt]
    index,       \* index.json: Runs with a capsule
    clarified,   \* Runs with a stored ClarificationRequest
    prompts      \* what was rendered for each Run: None or a set of refs

told    == <<decisions, capsules, index, clarified, prompts>>
context == <<claim, build, told>>
all     == <<vars, context>>

\* A ref names a version of an Evidence.
Version(ref) == store.versions[ref.id][ref.version]
Stored(ref)  == ref.version <= Len(store.versions[ref.id])
NoBuild == [at |-> "idle", todo |-> {}, refs |-> {}, createdAt |-> 0]
At(r, label) == build[r].at = label
Finish(r, label) == build' = [build EXCEPT ![r] = [NoBuild EXCEPT !.at = label]]

\* Either the Runs are to be built among transitions and a restart, or none is and
\* the Evidence meets every mishap it can.
Off == [r \in Runs |-> [NoBuild EXCEPT !.at = "off"]]
ContextInit ==
    /\ \/ Init /\ build = Off /\ claim = [e \in Ids |-> None]
       \/ /\ InitWith(MaxEdits, MaxLedgerFaults)
          /\ build = [r \in Runs |-> NoBuild]
          /\ claim \in [Ids -> Claims]
    /\ decisions = {} /\ capsules = {} /\ index = {} /\ clarified = {}
    /\ prompts = [r \in Runs |-> None]

-----------------------------------------------------------------------------
\* listCurrentEvidence: the highest version of each Evidence, whatever its status.
Candidates_First == {[id |-> e, version |-> 1] : e \in {x \in Ids : Exists(x)}}
Candidates == {[id |-> e, version |-> Len(store.versions[e])] : e \in {x \in Ids : Exists(x)}}

ListCandidates(r) ==
    /\ At(r, "idle")
    /\ build' = [build EXCEPT ![r].at = "listed", ![r].todo = Candidates]
    /\ UNCHANGED <<vars, claim, told>>

\* A deny-listed Agent is refused before that.
Deny(r) == At(r, "idle") /\ Finish(r, "denied") /\ UNCHANGED <<vars, claim, told>>

\* The instant the capsule will carry.
Stamp(r) ==
    /\ At(r, "listed")
    /\ build' = [build EXCEPT ![r].at = "authorize", ![r].createdAt = clock]
    /\ UNCHANGED <<vars, claim, told>>

\* authorize looks at the status as listed; grants and ceilings allow or deny the
\* rest (Authorization).  The decision is in its file before the pointer is read.
MayAllow(ref) == Version(ref).status = "ACTIVE"
Decided(r, ref, result) == decisions \cup {<<r, ref, result>>}

Authorize(r, ref) ==
    /\ At(r, "authorize") /\ ref \in build[r].todo
    /\ \E result \in {"DENY"} \cup (IF MayAllow(ref) THEN {"ALLOW"} ELSE {}) :
          /\ decisions' = Decided(r, ref, result)
          /\ build' = [build EXCEPT
                 ![r].todo = @ \ {ref},
                 ![r].refs = IF result = "ALLOW" THEN @ \cup {ref} ELSE @]
    /\ UNCHANGED <<vars, claim, capsules, index, clarified, prompts>>

\* detectConflicts: two ACTIVE pieces with one key and different hashes.
SameKey(a, b) == claim[a].key # None /\ claim[a].key = claim[b].key
Disagree(a, b) == SameKey(a, b) /\ claim[a].hash # claim[b].hash
Conflicts_Now(refs) == \E a, b \in refs : Disagree(a.id, b.id) /\ IsActive(a.id) /\ IsActive(b.id)
Conflicts(refs) == \E a, b \in refs : Disagree(a.id, b.id) /\ MayAllow(a) /\ MayAllow(b)

Authorized(r) == At(r, "authorize") /\ build[r].todo = {}

SaveRequest(r) == clarified' = clarified \cup {r}

Clarify(r) ==
    /\ Authorized(r) /\ Conflicts(build[r].refs)
    /\ SaveRequest(r)
    /\ Finish(r, "clarification")
    /\ UNCHANGED <<vars, claim, decisions, capsules, index, prompts>>

AfterAuthorize_Unsaved == "render"
AfterAuthorize == "save"

Assemble(r) ==
    /\ Authorized(r) /\ ~ Conflicts(build[r].refs)
    /\ build' = [build EXCEPT ![r].at = AfterAuthorize]
    /\ UNCHANGED <<vars, claim, told>>

\* The capsule's file is renamed into place, then the index.
SaveCapsule(r) ==
    /\ At(r, "save")
    /\ capsules' = capsules \cup
          {[run |-> r, refs |-> build[r].refs, createdAt |-> build[r].createdAt]}
    /\ build' = [build EXCEPT ![r].at = "index"]
    /\ UNCHANGED <<vars, claim, decisions, index, clarified, prompts>>

SaveIndex(r) ==
    /\ At(r, "index")
    /\ index' = index \cup {r}
    /\ build' = [build EXCEPT ![r].at = "render"]
    /\ UNCHANGED <<vars, claim, decisions, capsules, clarified, prompts>>

\* renderPrompt fetches the versions the capsule names; the runner gets the text.
Resolves(ref) == Stored(ref) /\ store.pointer[ref.id] # None
RenderPrompt(r) ==
    /\ At(r, "render")
    /\ IF \A ref \in build[r].refs : Resolves(ref)
       THEN prompts' = [prompts EXCEPT ![r] = build[r].refs] /\ Finish(r, "ok")
       ELSE Finish(r, "threw") /\ UNCHANGED prompts
    /\ UNCHANGED <<vars, claim, decisions, capsules, index, clarified>>

\* A write of one of the broker's files, or the check of the governance chain, throws.
BuildThrows(r) ==
    /\ build[r].at \in {"authorize", "save", "index"}
    /\ storeFaults < MaxStoreFaults /\ storeFaults' = storeFaults + 1
    /\ Finish(r, "threw")
    /\ UNCHANGED <<store, draft, created, governance, queue, pc, input, world,
                   ledgerFaults, crashes, claim, told>>

Ended == {"off", "idle", "denied", "clarification", "ok", "threw"}
RestartAll ==
    /\ Restart
    /\ build' = [r \in Runs |-> IF build[r].at \in Ended THEN build[r]
                                ELSE [NoBuild EXCEPT !.at = "threw"]]
    /\ UNCHANGED <<claim, told>>

EvidenceStep ==
    \/ \E e \in Ids : Create(e)
    \/ \E c \in Calls : Move(c)
    \/ Persist \/ PersistFails \/ GovernanceAppend \/ GovernanceThrows
    \/ EditFile \/ Tick

Build(r) ==
    \/ Deny(r) \/ ListCandidates(r) \/ Stamp(r)
    \/ \E ref \in build[r].todo : Authorize(r, ref)
    \/ Clarify(r) \/ Assemble(r) \/ SaveCapsule(r) \/ SaveIndex(r) \/ RenderPrompt(r)
    \/ BuildThrows(r)

ContextNext ==
    \/ EvidenceStep /\ UNCHANGED context
    \/ \E r \in Runs : Build(r)
    \/ RestartAll

ContextSpec == ContextInit /\ [][ContextNext]_all

-----------------------------------------------------------------------------
(* Properties.                                                             *)

\* versionKnownAt: the versions that were the belief at an instant.
KnownAt(e, t) ==
    {v \in 1..Len(store.versions[e]) :
        LET version == store.versions[e][v]
        IN  version.recorded <= t /\ (version.closed = Open \/ t < version.closed)}

\* At any instant Walnut believed one version of an Evidence at most (temporal-resolver.ts:
\* 25-33): each version is closed as the next is recorded and only the highest is open,
\* whatever requests, faults and restarts overlap.
OneBelief ==
    \A e \in Ids :
        /\ \A t \in 1..MaxTime : Cardinality(KnownAt(e, t)) <= 1
        /\ Exists(e) => KnownAt(e, clock) = {Len(store.versions[e])}

\* INV-22: whatever is superseded, revoked or stored while a capsule is built, it
\* never holds two pieces that disagree: the Run is answered with a clarification.
NoSilentPick ==
    \A c \in capsules : ~ \E a, b \in c.refs : Disagree(a.id, b.id)

\* What a Run was told stays on record (INV-1, INV-7, INV-9, INV-21): a rendered prompt
\* has its indexed capsule, every ref of a capsule its ALLOW, and the versions named are
\* in the store as they were when they were allowed, through restarts and transitions.
ContextIsOnRecord ==
    /\ \A r \in Runs : prompts[r] # None =>
          r \in index /\ \E c \in capsules : c.run = r /\ c.refs = prompts[r]
    /\ \A c \in capsules : \A ref \in c.refs :
          /\ <<c.run, ref, "ALLOW">> \in decisions
          /\ Resolves(ref) /\ Version(ref).status = "ACTIVE"

\* A capsule is what Walnut believed at one instant, no later than the one it carries:
\* there is a moment at which all its versions were open together.
CapsuleIsSnapshot ==
    \A c \in capsules : \E t \in 1..c.createdAt : \A ref \in c.refs :
        LET version == Version(ref)
        IN  version.recorded <= t /\ (version.closed = Open \/ t <= version.closed)
=============================================================================
