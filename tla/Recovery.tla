------------------------------- MODULE Recovery -------------------------------
(***************************************************************************)
(* Invalidation and recovery.  Runs build their capsule from the evidence  *)
(* they read (context-broker.ts, capsule-store.ts) and produce more; a     *)
(* revoke or compromise request marks the runs downstream of the evidence  *)
(* (walnut-routes.ts, run-state.ts); a reconcile request replaces a marked *)
(* run (reconciliation.ts).  Every request is an asynchronous handler of   *)
(* one process: an action is what it does between two awaits.              *)
(***************************************************************************)
EXTENDS Naturals, Sequences, DependencyGraph

CONSTANTS
    Tags,          \* revoke and compromise requests
    Requests,      \* reconcile requests
    MaxPolls,      \* CAPSULE_POLL_ATTEMPTS
    MaxFaults,     \* bound: ledger appends and store mutations that throw
    MaxCrashes     \* bound: restarts of the server

ASSUME Bounds == MaxPolls \in Nat \ {0} /\ {MaxFaults, MaxCrashes} \subseteq Nat

VARIABLES
    status,        \* evidence-store: status of each Evidence
    derived,       \* what each Evidence was derived from
    producer,      \* the run that produced it
    run,           \* where each run is with its capsule
    deleted,       \* runs that left the store with their Agent
    view,          \* the ACTIVE evidence its broker read
    contents,      \* capsule.evidence
    filed,         \* runs whose capsule file exists
    indexed,       \* runs whose capsule is in index.json
    history,       \* run-state store: transitions of each run
    records,       \* reconciliation store
    tag,           \* revoke and compromise requests in flight
    request,       \* reconcile requests in flight
    queue,         \* ReconciliationServiceImpl.queue
    faults, crashes

evidence == <<status, derived, producer>>
capsules == <<run, view, contents, filed, indexed>>
outside  == <<deleted, faults, crashes>>
vars == <<evidence, capsules, history, records, tag, request, queue, outside>>

\* buildLiveGraph, for the runs the store snapshot had.
Database(runs) ==
    [runs |-> runs, capsules |-> filed, contents |-> contents, derived |-> derived,
     evidence |-> {e \in Evidence : status[e] # "none"}, producer |-> producer]

InStore == {r \in Runs : run[r] # "none"} \ deleted

\* getByRunId goes through index.json, listAll (in Database) reads the directory.
HasCapsule(r) == r \in indexed

NoTag     == [at |-> "idle", to |-> "none", id |-> None, runs |-> {}, due |-> {}]
NoRequest == [at |-> "idle", stale |-> None, by |-> None, polls |-> 0]

Init ==
    /\ \E e \in Evidence :
          status = [d \in Evidence |-> IF d = e THEN "ACTIVE" ELSE "none"]
    /\ derived = [e \in Evidence |-> {}]
    /\ producer = [e \in Evidence |-> None]
    /\ run = [r \in Runs |-> "none"]
    /\ view = [r \in Runs |-> {}] /\ contents = [r \in Runs |-> {}]
    /\ filed = {} /\ indexed = {}
    /\ history = [r \in Runs |-> <<>>]
    /\ records = {}
    /\ tag = [t \in Tags |-> NoTag]
    /\ request = [q \in Requests |-> NoRequest]
    /\ queue = <<>>
    /\ deleted = {} /\ faults = 0 /\ crashes = 0

-----------------------------------------------------------------------------
(* Runs and their capsules.                                                *)

Admitted(r) == run' = [run EXCEPT ![r] = "queued"]

SendMessage(r) ==
    /\ run[r] = "none"
    /\ Admitted(r)
    /\ UNCHANGED <<evidence, view, contents, filed, indexed, history, records, tag,
                   request, queue, outside>>

\* The statuses every decision of this capsule will be made on.
Candidates == {e \in Evidence : status[e] = "ACTIVE"}

ListCandidates(r) ==
    /\ run[r] = "queued"
    /\ run' = [run EXCEPT ![r] = "authorizing"]
    /\ view' = [view EXCEPT ![r] = Candidates]
    /\ UNCHANGED <<evidence, contents, filed, indexed, history, records, tag, request,
                   queue, outside>>

\* denied, clarification_required, or a throw: the run ends without a capsule.
RefuseCapsule(r) ==
    /\ run[r] \in {"queued", "authorizing"}
    /\ run' = [run EXCEPT ![r] = "over"]
    /\ view' = [view EXCEPT ![r] = {}]
    /\ UNCHANGED <<evidence, contents, filed, indexed, history, records, tag,
                   request, queue, outside>>

\* Any of the evidence read may be denied; the capsule's file comes first.
SaveCapsule(r) ==
    /\ run[r] = "authorizing"
    /\ \E allowed \in SUBSET view[r] : contents' = [contents EXCEPT ![r] = allowed]
    /\ filed' = filed \cup {r}
    /\ run' = [run EXCEPT ![r] = "saving"]
    /\ view' = [view EXCEPT ![r] = {}]
    /\ UNCHANGED <<evidence, indexed, history, records, tag, request, queue, outside>>

IndexCapsule(r) ==
    /\ run[r] = "saving"
    /\ indexed' = indexed \cup {r}
    /\ run' = [run EXCEPT ![r] = "live"]
    /\ UNCHANGED <<evidence, view, contents, filed, history, records, tag, request, queue,
                   outside>>

\* The run's outbox: contributors only have to exist.
CreateEvidence(r, e, from) ==
    /\ run[r] = "live" /\ status[e] = "none"
    /\ \A d \in from : status[d] # "none"
    /\ status' = [status EXCEPT ![e] = "ACTIVE"]
    /\ derived' = [derived EXCEPT ![e] = from]
    /\ producer' = [producer EXCEPT ![e] = r]
    /\ UNCHANGED <<capsules, history, records, tag, request, queue, outside>>

\* deleteAgent, for an Agent whose runs these are: their records leave the store.  An
\* execution it did not wait for (AgentService) goes on; every other store keeps what
\* it has of the runs.
RunsDeleted(runs) ==
    /\ runs # {} /\ runs \subseteq InStore
    /\ deleted' = deleted \cup runs
    /\ UNCHANGED <<evidence, capsules, history, records, tag, request, queue, faults,
                   crashes>>

-----------------------------------------------------------------------------
(* The revoke and compromise routes.                                       *)

\* writeService: the store's transition.
Transition(t, e, to) ==
    /\ tag[t].at = "idle" /\ status[e] # "none"
    /\ status' = [status EXCEPT ![e] = to]
    /\ tag' = [tag EXCEPT ![t] = [NoTag EXCEPT !.at = "event", !.to = to, !.id = e]]
    /\ UNCHANGED <<derived, producer, capsules, history, records, request, queue, outside>>

\* Its governance event, then at once the store snapshot of buildLiveGraph.
\* "due" is auxiliary: what is downstream of the evidence at this instant; once an
\* Agent was deleted, only what is so by way of runs that are still in the store.
Due(e) == IF deleted = {} THEN Downstream(Database(Runs), {e})
          ELSE Reachable(Database(InStore), {e})

EmitTransition(t) ==
    /\ tag[t].at = "event"
    /\ tag' = [tag EXCEPT ![t].at = "graph", ![t].runs = InStore,
                          ![t].due = Due(tag[t].id) \cap Runs]
    /\ UNCHANGED <<evidence, capsules, history, records, request, queue, outside>>

Marking(t, left) ==
    tag' = [tag EXCEPT ![t].runs = left, ![t].at = IF left = {} THEN "done" ELSE "mark"]

\* The other stores are read later; the radius is computed on what they hold.
BuildGraph(t) ==
    /\ tag[t].at = "graph"
    /\ Marking(t, Reachable(Database(tag[t].runs), {tag[t].id}) \cap Runs)
    /\ UNCHANGED <<evidence, capsules, history, records, request, queue, outside>>

State(r) == IF history[r] = <<>> THEN "CLEAN" ELSE history[r][Len(history[r])].state
Marks == [REVOKED |-> "STALE", COMPROMISED |-> "TAINTED"]

\* markStale and markTainted ask nothing of the present state.
MayMark_OnlyClean(r) == State(r) = "CLEAN"
MayMark(r) == TRUE

MarkRun(t, r) ==
    /\ tag[t].at = "mark" /\ r \in tag[t].runs
    /\ history' = IF MayMark(r)
         THEN [history EXCEPT ![r] =
                  Append(@, [state |-> Marks[tag[t].to], trigger |-> tag[t].id, by |-> None])]
         ELSE history
    /\ Marking(t, tag[t].runs \ {r})
    /\ UNCHANGED <<evidence, capsules, records, request, queue, outside>>

\* A throw of the event append or of a mark ends the request where it stands:
\* the transition stays, the marks not made yet are never made.
TagThrows(t) ==
    /\ tag[t].at \in {"event", "mark"}
    /\ faults < MaxFaults /\ faults' = faults + 1
    /\ tag' = [tag EXCEPT ![t].at = "threw"]
    /\ UNCHANGED <<evidence, capsules, history, records, request, queue, deleted, crashes>>

-----------------------------------------------------------------------------
(* Reconciliation.                                                         *)

Reconcile(q, r) ==
    /\ request[q].at = "idle" /\ r \in InStore
    /\ request' = [request EXCEPT ![q] = [NoRequest EXCEPT !.at = "check", !.stale = r]]
    /\ queue' = Append(queue, q)
    /\ UNCHANGED <<evidence, capsules, history, records, tag, outside>>

\* One reconciliation at a time, in the order they were asked for.
Serving_AnyOrder(q) == \E i \in 1..Len(queue) : queue[i] = q
Serving(q) == queue # <<>> /\ Head(queue) = q

At(q, label) == Serving(q) /\ request[q].at = label
Step(q, label) == request' = [request EXCEPT ![q].at = label] /\ UNCHANGED queue

\* A request that is answered lets the next one run, whatever the answer.
Settle(q, how) ==
    /\ request' = [request EXCEPT ![q].at = how]
    /\ queue' = Tail(queue)

Recoverable == {"STALE", "TAINTED"}

\* Steps 1 and 2: a marked run with an indexed capsule.
CheckRun(q) ==
    /\ At(q, "check")
    /\ IF State(request[q].stale) \in Recoverable /\ HasCapsule(request[q].stale)
       THEN Step(q, "startedEvent") ELSE Settle(q, "rejected")
    /\ UNCHANGED <<evidence, capsules, history, records, tag, outside>>

\* Step 3, and the events that follow a failure or a completion.
EmitReconciliation(q) ==
    /\ \/ At(q, "startedEvent") /\ Step(q, "start")
       \/ At(q, "failedEvent") /\ Settle(q, "rejected")
       \/ At(q, "completedEvent") /\ Settle(q, "done")
    /\ UNCHANGED <<evidence, capsules, history, records, tag, outside>>

\* Step 4: sendMessage admits the replacement, or refuses it.
StartReplacement(q) ==
    /\ At(q, "start")
    /\ \/ \E r \in Runs : /\ run[r] = "none"
                          /\ Admitted(r)
                          /\ request' = [request EXCEPT ![q].at = "poll", ![q].by = r]
                          /\ UNCHANGED queue
       \/ Step(q, "failedEvent") /\ UNCHANGED run
    /\ UNCHANGED <<evidence, view, contents, filed, indexed, history, records, tag, outside>>

AfterPolls_Thrown == "failedEvent"
AfterPolls == "giveUp"

LastPoll(q) == request[q].polls + 1 = MaxPolls

\* Step 5: look for the replacement's capsule, sleep, look again.
Poll(q) ==
    /\ At(q, "poll")
    /\ IF HasCapsule(request[q].by) THEN Step(q, "recover")
       ELSE /\ request' = [request EXCEPT
                 ![q].polls = @ + 1,
                 ![q].at = IF LastPoll(q) THEN AfterPolls ELSE @]
            /\ UNCHANGED queue
    /\ UNCHANGED <<evidence, capsules, history, records, tag, outside>>

AfterLost_Completed == "complete"
AfterLost == "lost"

\* Step 6: the transition first, then the record that names its outcome.
MarkRecovered(q) ==
    /\ At(q, "recover")
    /\ IF State(request[q].stale) \in Recoverable
       THEN /\ history' = [history EXCEPT ![request[q].stale] =
                 Append(@, [state |-> "RECOVERED", trigger |-> None, by |-> request[q].by])]
            /\ Step(q, "complete")
       ELSE Step(q, AfterLost) /\ UNCHANGED history
    /\ UNCHANGED <<evidence, capsules, records, tag, outside>>

Outcomes == [giveUp |-> "FAILED without capsule", lost |-> "FAILED", complete |-> "COMPLETED"]

AppendRecord(q) ==
    /\ \E label \in DOMAIN Outcomes :
          /\ At(q, label)
          /\ records' = records \cup {[stale |-> request[q].stale, by |-> request[q].by,
                                       result |-> Outcomes[label]]}
          /\ Step(q, IF label = "complete" THEN "completedEvent" ELSE "failedEvent")
    /\ UNCHANGED <<evidence, capsules, history, tag, outside>>

\* A store or ledger that throws.  A poll and markRecovered are caught; the append of
\* a record is not.
ReconcileThrows(q) ==
    /\ faults < MaxFaults /\ faults' = faults + 1
    /\ \/ At(q, "poll") /\ Step(q, AfterPolls)
       \/ At(q, "recover") /\ Step(q, AfterLost)
       \/ /\ \E label \in {"startedEvent", "failedEvent", "completedEvent"} : At(q, label)
          /\ Settle(q, "rejected")
       \/ (\E label \in DOMAIN Outcomes : At(q, label)) /\ Settle(q, "unrecorded")
    /\ UNCHANGED <<evidence, capsules, history, records, tag, deleted, crashes>>

-----------------------------------------------------------------------------
InTransit == {"event", "graph", "mark"}
Pending   == {"check", "startedEvent", "start", "poll", "recover", "failedEvent",
              "completedEvent"} \cup DOMAIN Outcomes
Answers   == {"done", "rejected", "unrecorded"}

\* The process dies: initialize cancels the runs, requests are lost.
Restart ==
    /\ crashes < MaxCrashes /\ crashes' = crashes + 1
    /\ run' = [r \in Runs |-> IF run[r] = "none" THEN "none" ELSE "over"]
    /\ view' = [r \in Runs |-> {}]
    /\ tag' = [t \in Tags |-> IF tag[t].at \in InTransit THEN [tag[t] EXCEPT !.at = "threw"]
                              ELSE tag[t]]
    /\ request' = [q \in Requests |->
                     IF request[q].at \in Pending THEN [request[q] EXCEPT !.at = "lostInCrash"]
                     ELSE request[q]]
    /\ queue' = <<>>
    /\ UNCHANGED <<evidence, contents, filed, indexed, history, records, deleted, faults>>

RunStep(r) ==
    \/ SendMessage(r) \/ ListCandidates(r) \/ RefuseCapsule(r) \/ SaveCapsule(r)
    \/ IndexCapsule(r)
    \/ \E e \in Evidence, from \in SUBSET Evidence : CreateEvidence(r, e, from)

TagStep(t) ==
    EmitTransition(t) \/ BuildGraph(t) \/ \E r \in Runs : MarkRun(t, r)

ReconcileStep(q) ==
    \/ CheckRun(q) \/ EmitReconciliation(q) \/ StartReplacement(q) \/ Poll(q)
    \/ MarkRecovered(q) \/ AppendRecord(q)

Next ==
    \/ \E r \in Runs : RunStep(r)
    \/ \E t \in Tags : \/ \E e \in Evidence, to \in DOMAIN Marks : Transition(t, e, to)
                       \/ TagStep(t) \/ TagThrows(t)
    \/ \E q \in Requests : \/ \E r \in Runs : Reconcile(q, r)
                           \/ ReconcileStep(q) \/ ReconcileThrows(q)
    \/ \E runs \in SUBSET Runs : RunsDeleted(runs)
    \/ Restart

Spec == Init /\ [][Next]_vars

-----------------------------------------------------------------------------
States  == {"STALE", "TAINTED", "RECOVERED"}
Entries == [state : States, trigger : Evidence \cup {None}, by : Runs \cup {None}]

\* The types of the stores and of the requests in flight.
TypeOK ==
    /\ status \in [Evidence -> {"none", "ACTIVE"} \cup DOMAIN Marks]
    /\ derived \in [Evidence -> SUBSET Evidence]
    /\ producer \in [Evidence -> Runs \cup {None}]
    /\ run \in [Runs -> {"none", "queued", "authorizing", "saving", "live", "over"}]
    /\ view \in [Runs -> SUBSET Evidence] /\ contents \in [Runs -> SUBSET Evidence]
    /\ filed \subseteq Runs /\ indexed \subseteq filed
    /\ history \in [Runs -> Seq(Entries)]
    /\ records \subseteq [stale : Runs, by : Runs,
                           result : {Outcomes[l] : l \in DOMAIN Outcomes}]
    /\ tag \in [Tags -> [at : {"idle", "done", "threw"} \cup InTransit,
                         to : {"none"} \cup DOMAIN Marks, id : Evidence \cup {None},
                         runs : SUBSET Runs, due : SUBSET Runs]]
    /\ request \in [Requests -> [at : {"idle", "lostInCrash"} \cup Answers \cup Pending,
                                 stale : Runs \cup {None}, by : Runs \cup {None},
                                 polls : 0..MaxPolls]]
    /\ queue \in Seq(Requests) /\ deleted \subseteq Runs
    /\ faults \in 0..MaxFaults /\ crashes \in 0..MaxCrashes

-----------------------------------------------------------------------------
(* Properties.                                                             *)

Marked(r, e, state) ==
    \E i \in 1..Len(history[r]) : history[r][i].trigger = e /\ history[r][i].state = state

\* README section 9: a revoke or compromise request that was answered has marked
\* every run downstream of the evidence when the graph began to be read, however
\* torn that read was and whatever reconciliations and deletions ran meanwhile.  If
\* an Agent had been deleted by then, what only its runs lead to is left out (Due).
\* A request that threw is not answered, and only another one makes the marks it owed.
TaintReaches ==
    \A t \in Tags : tag[t].at = "done" =>
        \A r \in tag[t].due : Marked(r, tag[t].id, Marks[tag[t].to])

NewEntry(r) == history'[r][Len(history'[r])]

\* A run is marked only for invalidated evidence it really depends on.
MarksAreJustified ==
    [][\A r \in Runs : history'[r] # history[r] /\ NewEntry(r).trigger # None =>
          /\ status[NewEntry(r).trigger] \in DOMAIN Marks
          /\ r \in Downstream(Database(Runs), {NewEntry(r).trigger})]_vars

Recoveries(r) == {i \in 1..Len(history[r]) : history[r][i].state = "RECOVERED"}

\* reconciliation.ts:216: no fault and no restart leaves a false COMPLETED record;
\* the replacement it names has a capsule, and serves no other record.
CompletedIsRecovered ==
    \A rec \in records :
        /\ rec.result = "COMPLETED" =>
              /\ \E i \in Recoveries(rec.stale) : history[rec.stale][i].by = rec.by
              /\ rec.by \in indexed
        /\ \A other \in records : other.by = rec.by => other = rec

\* reconciliation.ts:119: of concurrent requests for one run, one starts a
\* replacement and the others none: a recovery answers a mark made since the
\* last one, and no replacement that got its capsule is turned down.
OneRecoveryPerMark ==
    /\ \A r \in Runs : \A i \in Recoveries(r) :
          i > 1 /\ history[r][i - 1].state \in {"STALE", "TAINTED"}
    /\ faults = 0 => \A rec \in records : rec.result # "FAILED"

\* reconciliation.ts:216: whatever else throws, a request that is answered, with an
\* error or without, has left the record of the replacement it started, unless the
\* append of that very record threw ("unrecorded") or the server went down.
ReplacementsRecorded ==
    \A q \in Requests :
        request[q].at \in {"done", "rejected"} /\ request[q].by # None =>
            \E rec \in records : rec.by = request[q].by /\ rec.stale = request[q].stale

Invalid == {e \in Evidence : status[e] \in DOMAIN Marks}

\* INV-8 and README section 9: once every revoke or compromise request has been
\* answered, no clean run of the store has a capsule with invalidated evidence.
ConsumersAreMarked ==
    (\A t \in Tags : tag[t].at \in {"idle", "done"}) =>
        \A r \in filed \cap InStore : contents[r] \cap Invalid # {} => State(r) # "CLEAN"
=============================================================================
