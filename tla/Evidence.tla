------------------------------- MODULE Evidence -------------------------------
(***************************************************************************)
(* The life of an Evidence record: evidence-write-service.ts over          *)
(* evidence-store.ts (one JsonFileState) and the ledger.                   *)
(*                                                                         *)
(* A store mutation has two steps, as in JsonFileState.mutate: the callback*)
(* computes the next file (the draft), persist makes it the data.  Readers *)
(* see the old data in between.  versions[e][v] is version v of evidence e;*)
(* the fields every version copies from the first are in plan[e].          *)
(***************************************************************************)
EXTENDS Naturals, Sequences, FiniteSets

CONSTANTS
    Ids,             \* evidence identities, one per createEvidence call
    Calls,           \* supersede / revoke / compromise requests
    None,
    MaxLevel,        \* CLASSIFICATION_ORDER runs over 0..MaxLevel
    MaxTime,         \* bound: clock readings
    MaxEdits,        \* bound: times the Agent changes the source file
    MaxLedgerFaults, \* bound: ledger appends that throw
    MaxStoreFaults,  \* bound: store mutations that fail to persist
    MaxCrashes       \* bound: restarts of the server

ASSUME Bounds ==
    {MaxLevel, MaxTime, MaxEdits, MaxLedgerFaults, MaxStoreFaults, MaxCrashes} \subseteq Nat

ASSUME Identities == Ids \cap Calls = {} /\ None \notin Ids \cup Calls

VARIABLES
    store,       \* what the store's readers see
    draft,       \* the mutation being persisted
    created,     \* evidence whose evidence.created is in its run's chain
    governance,  \* the governance chain: <<status, evidence>> in order
    queue,       \* appends waiting for the governance chain
    pc,          \* where each createEvidence and each transition request is
    plan,        \* what each createEvidence call was given and has read
    target,      \* what each transition request was given
    file,        \* content of the cited workspace file
    clock, edits, ledgerFaults, storeFaults, crashes

input  == <<plan, target>>
world  == <<file, clock, edits>>
budget == <<ledgerFaults, storeFaults, crashes>>
vars   == <<store, draft, created, governance, queue, pc, input, world, budget>>

Status   == {"ACTIVE", "SUPERSEDED", "REVOKED", "COMPROMISED"}
Contents == {"quoting", "other", "gone"}   \* "quoting" holds the quote at the offsets
Open     == 0                              \* txClosedAt = null
Writers  == Ids \cup Calls
InFlight == {"read", "pointer", "verify", "commit", "append", "compensate",
             "transition", "event"}
Over     == {"done", "refused", "threw"}

ASSUME NoneApart == None \notin Contents \cup Status

NoDraft  == [by |-> None, store |-> None]

Exists(e)  == store.versions[e] # <<>>
Current(e) == store.versions[e][Len(store.versions[e])]      \* highestVersion
IsActive(e) == Exists(e) /\ Current(e).status = "ACTIVE"

NoPlan == [class |-> 0, derived |-> {}, supersedes |-> None, hash |-> None, stamp |-> 0]

InitWith(edited, faulted) ==
    /\ store = [versions |-> [e \in Ids |-> <<>>], pointer |-> [e \in Ids |-> None],
                cited |-> {}]
    /\ draft = NoDraft
    /\ created = {} /\ governance = <<>> /\ queue = <<>>
    /\ pc = [w \in Writers |-> "idle"]
    /\ plan = [e \in Ids |-> NoPlan]
    /\ target = [c \in Calls |-> [status |-> "none", id |-> None]]
    /\ file = "quoting"
    /\ clock = 1 /\ edits = edited
    /\ ledgerFaults = faulted /\ storeFaults = 0 /\ crashes = 0

Init == InitWith(0, 0)

Goto(w, label) == pc' = [pc EXCEPT ![w] = label]

\* JsonFileState.mutate: one mutation at a time, computed from the current data.
Mutate(w, next) ==
    /\ draft = NoDraft
    /\ draft' = [by |-> w, store |-> next]

-----------------------------------------------------------------------------
(* createEvidence.                                                         *)

\* Step 1: every contributor is looked up; the source is read next.
CreateEvidence(e, class, derived, supersedes) ==
    /\ pc[e] = "idle"
    /\ plan' = [plan EXCEPT ![e] = [NoPlan EXCEPT !.class = class, !.derived = derived,
                                                  !.supersedes = supersedes]]
    /\ Goto(e, IF \A d \in derived : Exists(d) THEN "read" ELSE "refused")
    /\ UNCHANGED <<store, draft, created, governance, queue, target, world, budget>>

Weakens(e) == \E d \in plan[e].derived : plan[d].class > plan[e].class

\* Steps 2 to 4, and the timestamp every record of this call will carry.
ReadSource(e) ==
    /\ pc[e] = "read"
    /\ IF \/ file = "gone"
          \/ Weakens(e)
          \/ plan[e].supersedes # None /\ ~ IsActive(plan[e].supersedes)
       THEN Goto(e, "refused") /\ UNCHANGED plan
       ELSE /\ Goto(e, "pointer")
            /\ plan' = [plan EXCEPT ![e].hash = file, ![e].stamp = clock]
    /\ UNCHANGED <<store, draft, created, governance, queue, target, world, budget>>

\* Step 5: the pointer is stored before the citation is verified.
AppendPointer(e) ==
    /\ pc[e] = "pointer"
    /\ Mutate(e, [store EXCEPT !.pointer[e] = plan[e].hash])
    /\ UNCHANGED <<store, created, governance, queue, pc, input, world, budget>>

Verified_Drifted(e) == file = "quoting"
Verified(e) == file = plan[e].hash /\ file = "quoting"

\* Step 6: the verifier reads the source again and compares hash, then quote.
Verify(e) ==
    /\ pc[e] = "verify"
    /\ Goto(e, IF Verified(e) THEN "commit" ELSE "refused")
    /\ UNCHANGED <<store, draft, created, governance, queue, input, world, budget>>

\* Steps 7 and 8: appendVerifiedEvidence.
FirstVersion(e) == [status |-> "ACTIVE", recorded |-> plan[e].stamp, closed |-> Open]

AppendEvidence(e) ==
    /\ pc[e] = "commit"
    /\ Mutate(e, [store EXCEPT !.cited = @ \cup {e}, !.versions[e] = <<FirstVersion(e)>>])
    /\ UNCHANGED <<store, created, governance, queue, pc, input, world, budget>>

\* Step 9: evidence.created on the producing run's chain.
AppendCreated(e) ==
    /\ pc[e] = "append"
    /\ created' = created \cup {e}
    /\ Goto(e, "done")
    /\ UNCHANGED <<store, draft, governance, queue, input, world, budget>>

AfterLedgerFault_Forgotten == "threw"
AfterLedgerFault == "compensate"

CreatedThrows(e) ==
    /\ pc[e] = "append"
    /\ ledgerFaults < MaxLedgerFaults
    /\ ledgerFaults' = ledgerFaults + 1
    /\ Goto(e, AfterLedgerFault)
    /\ UNCHANGED <<store, draft, created, governance, queue, input, world, storeFaults, crashes>>

-----------------------------------------------------------------------------
(* transitionEvidence and the requests that use it.                        *)

MayMove(e, required) ==
    /\ Exists(e)
    /\ Current(e).closed = Open
    /\ required # None => Current(e).status = required

Moved_LeftOpen(e, status) ==
    [store EXCEPT !.versions[e] =
        Append(@, [status |-> status, recorded |-> clock, closed |-> Open])]
Moved(e, status) ==
    [store EXCEPT !.versions[e] =
        Append([@ EXCEPT ![Len(@)].closed = clock],
               [status |-> status, recorded |-> clock, closed |-> Open])]

Transition(w, e, status, required) ==
    IF MayMove(e, required)
    THEN Mutate(w, Moved(e, status)) /\ UNCHANGED pc
    ELSE draft = NoDraft /\ Goto(w, "threw") /\ UNCHANGED draft

\* Unaudited evidence is made non-active before the failure propagates.
Compensate(e) ==
    /\ pc[e] = "compensate"
    /\ Transition(e, e, "COMPROMISED", "ACTIVE")
    /\ UNCHANGED <<store, created, governance, queue, input, world, budget>>

Declares(r, e) == Exists(r) /\ plan[r].supersedes = e

\* supersede wants a stored replacement that declares what it supersedes; its
\* own status is not looked at.  A request refused here changes nothing.
Request(c, status, e) ==
    /\ pc[c] = "idle"
    /\ status = "SUPERSEDED" => \E r \in Ids : Declares(r, e)
    /\ target' = [target EXCEPT ![c] = [status |-> status, id |-> e]]
    /\ Goto(c, "transition")
    /\ UNCHANGED <<store, draft, created, governance, queue, plan, world, budget>>

Required(c) == IF target[c].status = "SUPERSEDED" THEN "ACTIVE" ELSE None

MoveEvidence(c) ==
    /\ pc[c] = "transition"
    /\ Transition(c, target[c].id, target[c].status, Required(c))
    /\ UNCHANGED <<store, created, governance, queue, input, world, budget>>

-----------------------------------------------------------------------------
(* The store's and the ledger's queues.                                    *)

\* What a call goes on with once its mutation is stored.
AfterCreate(e) ==
    CASE pc[e] = "pointer"    -> "verify"
      [] pc[e] = "commit"     -> "append"
      [] pc[e] = "compensate" -> "threw"
After(w) == IF pc[w] = "transition" THEN "event" ELSE AfterCreate(w)

Enqueued_Front(c) == <<c>> \o queue
Enqueued(c) == Append(queue, c)

\* rename succeeded: the draft is the data, and its caller's continuation runs;
\* a transition calls ledger.append at once, so appends keep the store's order.
Persist ==
    /\ draft # NoDraft
    /\ store' = draft.store
    /\ draft' = NoDraft
    /\ Goto(draft.by, After(draft.by))
    /\ queue' = IF draft.by \in Calls THEN Enqueued(draft.by) ELSE queue
    /\ UNCHANGED <<created, governance, input, world, budget>>

PersistFails ==
    /\ draft # NoDraft
    /\ storeFaults < MaxStoreFaults
    /\ storeFaults' = storeFaults + 1
    /\ draft' = NoDraft
    /\ Goto(draft.by, "threw")
    /\ UNCHANGED <<store, created, governance, queue, input, world, ledgerFaults, crashes>>

GovernanceAppend ==
    /\ queue # <<>>
    /\ queue' = Tail(queue)
    /\ governance' = Append(governance, target[Head(queue)])
    /\ Goto(Head(queue), "done")
    /\ UNCHANGED <<store, draft, created, input, world, budget>>

GovernanceThrows ==
    /\ queue # <<>>
    /\ ledgerFaults < MaxLedgerFaults
    /\ ledgerFaults' = ledgerFaults + 1
    /\ queue' = Tail(queue)
    /\ Goto(Head(queue), "threw")
    /\ UNCHANGED <<store, draft, created, governance, input, world, storeFaults, crashes>>

\* The process dies: a mutation under way has reached the rename or it has not.
Restart ==
    /\ crashes < MaxCrashes
    /\ crashes' = crashes + 1
    /\ store' \in {store} \cup (IF draft = NoDraft THEN {} ELSE {draft.store})
    /\ draft' = NoDraft
    /\ queue' = <<>>
    /\ pc' = [w \in Writers |-> IF pc[w] \in InFlight THEN "threw" ELSE pc[w]]
    /\ UNCHANGED <<created, governance, input, world, ledgerFaults, storeFaults>>

-----------------------------------------------------------------------------
EditFile ==
    /\ edits < MaxEdits
    /\ edits' = edits + 1
    /\ file' \in Contents \ {file}
    /\ UNCHANGED <<store, draft, created, governance, queue, pc, input, clock, budget>>

Tick ==
    /\ clock < MaxTime
    /\ clock' = clock + 1
    /\ UNCHANGED <<store, draft, created, governance, queue, pc, input, file, edits, budget>>

Create(e) ==
    \/ \E class \in 0..MaxLevel, derived \in SUBSET (Ids \ {e}),
          supersedes \in (Ids \ {e}) \cup {None} :
             CreateEvidence(e, class, derived, supersedes)
    \/ ReadSource(e) \/ AppendPointer(e) \/ Verify(e) \/ AppendEvidence(e)
    \/ AppendCreated(e) \/ CreatedThrows(e) \/ Compensate(e)

Move(c) ==
    \/ \E status \in Status \ {"ACTIVE"}, e \in Ids : Request(c, status, e)
    \/ MoveEvidence(c)

Next ==
    \/ \E e \in Ids : Create(e)
    \/ \E c \in Calls : Move(c)
    \/ Persist \/ PersistFails \/ GovernanceAppend \/ GovernanceThrows \/ Restart
    \/ EditFile \/ Tick

Spec == Init /\ [][Next]_vars

-----------------------------------------------------------------------------
Versions == [status : Status, recorded : Nat, closed : Nat]
Stores   == [versions : [Ids -> Seq(Versions)],
             pointer : [Ids -> Contents \cup {None}], cited : SUBSET Ids]
Targets  == [status : Status \cup {"none"}, id : Ids \cup {None}]

\* The types of the stored and of the in-memory state.
TypeOK ==
    /\ store \in Stores
    /\ draft \in {NoDraft} \cup [by : Writers, store : Stores]
    /\ created \subseteq Ids
    /\ governance \in Seq(Targets)
    /\ queue \in Seq(Calls)
    /\ pc \in [Writers -> {"idle"} \cup InFlight \cup Over]
    /\ plan \in [Ids -> [class : 0..MaxLevel, derived : SUBSET Ids,
                         supersedes : Ids \cup {None}, hash : Contents \cup {None},
                         stamp : Nat]]
    /\ target \in [Calls -> Targets]
    /\ file \in Contents
    /\ {clock, edits, ledgerFaults, storeFaults, crashes} \subseteq Nat

-----------------------------------------------------------------------------
(* Properties.                                                             *)

\* INV-4 and INV-5: no Evidence without a stored pointer to content that held
\* the quote and a stored citation, and no citation without its Evidence.
Provenance ==
    \A e \in Ids :
        /\ Exists(e) => store.pointer[e] = "quoting"
        /\ Exists(e) <=> e \in store.cited

\* Evidence is usable only once audited: outside the two steps that may still
\* audit or compromise it, ACTIVE evidence has its evidence.created.  The
\* compensation needs the store, and a restart loses it.
UsableIsAudited ==
    storeFaults = 0 /\ crashes = 0 =>
        \A e \in Ids : IsActive(e) => e \in created \/ pc[e] \in {"append", "compensate"}

\* The governance chain with the appends it still owes, and where it is about e.
Owed       == governance \o [i \in 1..Len(queue) |-> target[queue[i]]]
About(o, e) == {i \in 1..Len(o) : o[i].id = e}

\* The n-th of them has the status of version n + 1, and there is one for each.
Tells(o, e, vs) ==
    /\ Cardinality(About(o, e)) = Len(vs) - 1
    /\ \A i \in About(o, e) :
          o[i].status = vs[1 + Cardinality({j \in About(o, e) : j <= i})].status

\* As long as appends succeed, the governance chain, with the appends it still
\* owes, tells every transition of every Evidence in the order of its versions.
AuditInVersionOrder ==
    ledgerFaults = 0 /\ crashes = 0 =>
        \A e \in Ids : Exists(e) => Tells(Owed, e, store.versions[e])

=============================================================================
