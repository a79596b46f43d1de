---------------------------- MODULE RecoveryProofs ----------------------------
(***************************************************************************)
(* Recovery for any number of runs, pieces of evidence, invalidations,     *)
(* reconciliations, polls, faults and restarts.                            *)
(***************************************************************************)
EXTENDS Recovery, BlastRadius, TLAPS

MarkNames == {"REVOKED", "COMPROMISED"}
RunLabels == {"none", "queued", "authorizing", "saving", "live", "over"}

Begun   == {"startedEvent", "start", "poll", "recover", "failedEvent", "completedEvent",
            "giveUp", "lost", "complete"}
InQueue == {"check"} \cup Begun
Results == {"FAILED without capsule", "FAILED", "COMPLETED"}

RequestTypes == [at : {"idle", "lostInCrash"} \cup Answers \cup InQueue,
                 stale : Runs \cup {None}, by : Runs \cup {None}, polls : Nat]
RecordTypes  == [stale : Runs, by : Runs, result : Results]
TagTypes     == [at : {"idle", "done", "threw"} \cup InTransit, to : {"none"} \cup MarkNames,
                 id : Evidence \cup {None}, runs : SUBSET Runs, due : SUBSET Runs]

LEMMA MarkFact ==
    DOMAIN Marks = MarkNames /\ \A to \in MarkNames : Marks[to] \in {"STALE", "TAINTED"}
BY DEF Marks, MarkNames

LEMMA OutcomeFact ==
    /\ DOMAIN Outcomes = {"giveUp", "lost", "complete"}
    /\ Outcomes["giveUp"] = "FAILED without capsule" /\ Outcomes["lost"] = "FAILED"
    /\ Outcomes["complete"] = "COMPLETED"
BY DEF Outcomes

LEMMA PendingFact == Pending = InQueue
BY OutcomeFact, Zenon DEF Pending, InQueue, Begun

TagTyped ==
    /\ tag \in [Tags -> TagTypes]
    /\ \A t \in Tags : tag[t].at # "idle" => tag[t].to \in MarkNames /\ tag[t].id \in Evidence

Typed ==
    /\ run \in [Runs -> RunLabels]
    /\ history \in [Runs -> Seq(Entries)]
    /\ records \subseteq RecordTypes
    /\ TagTyped
    /\ request \in [Requests -> RequestTypes]
    /\ queue \in Seq(Requests)
    /\ faults \in Nat

\* Requests wait once, and only the head has been begun.
OneServed ==
    /\ \A i, j \in 1..Len(queue) : queue[i] = queue[j] => i = j
    /\ \A i \in 1..Len(queue) : request[queue[i]].at \in InQueue
    /\ \A q \in Requests : request[q].at \in Begun => queue # <<>> /\ Head(queue) = q

\* A replacement belongs to one request.
OneOwner ==
    \A p, q \in Requests : request[p].by # None /\ request[p].by = request[q].by => p = q

RecoveredBy(r, by) == \E i \in Recoveries(r) : history[r][i].by = by

\* What holds of a request by where it is.
Promise(c) ==
    /\ c.at \in InQueue => c.stale \in Runs
    /\ c.at \in {"idle", "check", "startedEvent", "start"} => c.by = None
    /\ c.by # None => run[c.by] # "none"
    /\ c.at \in {"startedEvent", "start", "poll", "recover"} => State(c.stale) \in Recoverable
    /\ c.at \in {"poll", "recover", "giveUp", "lost", "complete"} =>
          c.by # None /\ \A rec \in records : rec.by # c.by
    /\ c.at \in {"recover", "complete"} => c.by \in indexed
    /\ c.at = "complete" => RecoveredBy(c.stale, c.by)
    /\ faults = 0 => c.at # "lost"
    /\ c.by # None /\ c.at \in {"failedEvent", "completedEvent", "done", "rejected"} =>
          \E rec \in records : rec.by = c.by /\ rec.stale = c.stale

TrueRecord(rec) ==
    /\ run[rec.by] # "none"
    /\ rec.result = "COMPLETED" => RecoveredBy(rec.stale, rec.by) /\ rec.by \in indexed
    /\ faults = 0 => rec.result # "FAILED"

TrueRecords ==
    /\ \A rec \in records : TrueRecord(rec)
    /\ \A rec, other \in records : other.by = rec.by => other = rec

\* A recovery answers the entry before it.
Answering ==
    \A r \in Runs : \A i \in Recoveries(r) : i > 1 /\ history[r][i - 1].state \in Recoverable

Inv == /\ Typed /\ OneServed /\ OneOwner /\ TrueRecords /\ Answering
       /\ \A q \in Requests, c \in RequestTypes : request[q] = c => Promise(c)

-----------------------------------------------------------------------------
(* Histories only grow.                                                    *)

Grown ==
    \A r \in Runs :
        /\ Len(history'[r]) >= Len(history[r])
        /\ \A i \in 1..Len(history[r]) : history'[r][i] = history[r][i]

LEMMA SameHistory ==
    ASSUME Typed, history' = history
    PROVE  Grown
<1>1. \A r \in Runs : Len(history[r]) \in Nat
  BY DEF Typed
<1> QED
  BY <1>1 DEF Grown

LEMMA AppendFact ==
    ASSUME Typed, NEW r \in Runs, NEW e \in Entries,
           history' = [history EXCEPT ![r] = Append(@, e)]
    PROVE  /\ Grown /\ history' \in [Runs -> Seq(Entries)]
           /\ Len(history[r]) \in Nat /\ Len(history'[r]) = Len(history[r]) + 1
           /\ history'[r][Len(history[r]) + 1] = e /\ State(r)' = e.state
           /\ \A s \in Runs : s # r => history'[s] = history[s]
<1>1. PICK h \in Seq(Entries) : h = history[r]
  BY DEF Typed
<1>2. PICK n \in Seq(Entries) : n = Append(h, e)
  <2>1. Append(h, e) \in Seq(Entries)
    OBVIOUS
  <2> QED
    BY <2>1
<1>3. /\ Len(h) \in Nat /\ Len(n) = Len(h) + 1 /\ n[Len(h) + 1] = e /\ n # <<>>
      /\ \A i \in 1..Len(h) : n[i] = h[i]
  BY <1>2
<1>4. history' = [history EXCEPT ![r] = n]
  BY <1>1, <1>2
<1>5. history'[r] = n /\ \A s \in Runs : s # r => history'[s] = history[s]
  BY <1>4 DEF Typed
<1>6. \A s \in Runs : Len(history[s]) \in Nat
  BY DEF Typed
<1>7. Grown
  BY <1>1, <1>3, <1>5, <1>6 DEF Grown
<1>8. State(r)' = e.state
  BY <1>3, <1>5 DEF State
<1> QED
  BY <1>1, <1>3, <1>4, <1>5, <1>7, <1>8 DEF Typed

LEMMA RecoveryStays ==
    ASSUME Typed, Grown, history' \in [Runs -> Seq(Entries)],
           NEW r \in Runs, NEW by, RecoveredBy(r, by)
    PROVE  RecoveredBy(r, by)'
<1>1. PICK i \in 1..Len(history[r]) : history[r][i].state = "RECOVERED" /\ history[r][i].by = by
  BY DEF RecoveredBy, Recoveries
<1>2. Len(history[r]) \in Nat /\ Len(history'[r]) \in Nat
  BY DEF Typed
<1>3. i \in 1..Len(history'[r]) /\ history'[r][i] = history[r][i]
  BY <1>2 DEF Grown
<1> QED
  BY <1>1, <1>3 DEF RecoveredBy, Recoveries

\* A new entry keeps Answering if it is a mark, or answers one.
LEMMA AnsweringKeeps ==
    ASSUME Typed, Answering, NEW r \in Runs, NEW e \in Entries,
           history' = [history EXCEPT ![r] = Append(@, e)],
           e.state = "RECOVERED" => State(r) \in Recoverable
    PROVE  Answering'
<1> SUFFICES ASSUME NEW s \in Runs, NEW i \in 1..Len(history'[s]),
                    history'[s][i].state = "RECOVERED"
             PROVE  i > 1 /\ history'[s][i - 1].state \in Recoverable
  BY DEF Answering, Recoveries
<1>1. PICK n \in Nat : n = Len(history[s]) /\ Len(history[r]) \in Nat
  BY DEF Typed
<1>2. CASE i \in 1..n
  <2>1. history'[s][i] = history[s][i]
    BY <1>1, <1>2, AppendFact DEF Grown
  <2>2. i \in Recoveries(s)
    BY <1>1, <1>2, <2>1 DEF Recoveries
  <2>3. i > 1 /\ history[s][i - 1].state \in Recoverable
    BY <2>2 DEF Answering
  <2>4. i - 1 \in 1..n
    BY <1>1, <1>2, <2>3
  <2>5. history'[s][i - 1] = history[s][i - 1]
    BY <1>1, <2>4, AppendFact DEF Grown
  <2> QED
    BY <2>3, <2>5
<1>3. CASE i \notin 1..n
  <2>1. s = r
    BY <1>1, <1>3, AppendFact
  <2>2. i = n + 1 /\ history'[r][i] = e
    BY <1>1, <1>3, <2>1, AppendFact
  <2>3. State(r) \in Recoverable
    BY <2>1, <2>2
  <2>4. n > 0 /\ State(r) = history[r][n].state
    <3>1. history[r] # <<>>
      BY <2>3 DEF State, Recoverable
    <3> QED
      BY <1>1, <2>1, <3>1 DEF State, Typed
  <2>5. n \in 1..Len(history[s]) /\ history'[s][n] = history[s][n]
    BY <1>1, <2>4, AppendFact DEF Grown
  <2> QED
    BY <2>1, <2>2, <2>3, <2>4, <2>5
<1> QED
  BY <1>2, <1>3

-----------------------------------------------------------------------------
(* What a step of anyone keeps.                                            *)

\* Nothing a promise rests on is taken back.
Onward ==
    /\ Grown
    /\ \A r \in Runs : run[r] # "none" => run'[r] # "none"
    /\ indexed \subseteq indexed' /\ records \subseteq records'
    /\ faults' = 0 => faults = 0

LEMMA PromiseKept ==
    ASSUME Typed, Typed', Onward, NEW c \in RequestTypes, Promise(c),
           c.at \in Begun => /\ records' = records
                             /\ State(c.stale) \in Recoverable => State(c.stale)' \in Recoverable
    PROVE  Promise(c)'
<1>1. c.by # None => c.by \in Runs
  BY DEF RequestTypes
<1>2. c.at \in Begun => c.stale \in Runs
  BY DEF RequestTypes, Promise, InQueue
<1>3. c.at \in {"startedEvent", "start", "poll", "recover"} => State(c.stale)' \in Recoverable
  BY DEF Promise, Begun
<1>4. c.at \in {"poll", "recover", "giveUp", "lost", "complete"} =>
          \A rec \in records' : rec.by # c.by
  BY DEF Promise, Begun
<1>5. c.at = "complete" => RecoveredBy(c.stale, c.by)'
  BY <1>2, RecoveryStays DEF Typed, Onward, Promise, Begun
<1>6. c.by # None => run'[c.by] # "none"
  BY <1>1 DEF Onward, Promise
<1>7. c.at \in {"recover", "complete"} => c.by \in indexed'
  BY DEF Onward, Promise
<1>8. /\ faults' = 0 => c.at # "lost"
      /\ c.by # None /\ c.at \in {"failedEvent", "completedEvent", "done", "rejected"} =>
            \E rec \in records' : rec.by = c.by /\ rec.stale = c.stale
  BY DEF Onward, Promise
<1>9. /\ c.at \in InQueue => c.stale \in Runs
      /\ c.at \in {"idle", "check", "startedEvent", "start"} => c.by = None
      /\ c.at \in {"poll", "recover", "giveUp", "lost", "complete"} => c.by # None
  BY DEF Promise
<1> QED
  BY <1>3, <1>4, <1>5, <1>6, <1>7, <1>8, <1>9 DEF Promise

LEMMA RecordKept ==
    ASSUME Typed, Typed', Onward, NEW rec \in records, TrueRecord(rec)
    PROVE  TrueRecord(rec)'
<1>1. rec.by \in Runs /\ rec.stale \in Runs
  BY DEF Typed, RecordTypes
<1>2. rec.result = "COMPLETED" => RecoveredBy(rec.stale, rec.by)'
  BY <1>1, RecoveryStays DEF Typed, Onward, TrueRecord
<1> QED
  BY <1>1, <1>2 DEF TrueRecord, Onward

\* A step outside the reconciliation queue.
LEMMA OthersKeep ==
    ASSUME Inv, Typed', Onward, Answering', UNCHANGED <<request, queue, records>>,
           \A r \in Runs : State(r) \in Recoverable => State(r)' \in Recoverable
    PROVE  Inv'
<1>1. OneServed' /\ OneOwner'
  BY DEF Inv, OneServed, OneOwner
<1>2. TrueRecords'
  BY RecordKept DEF Inv, TrueRecords
<1>3. ASSUME NEW q \in Requests, NEW c \in RequestTypes, request'[q] = c
      PROVE  Promise(c)'
  <2>1. Promise(c) /\ (c.at \in Begun => c.stale \in Runs)
    BY <1>3 DEF Inv, Promise, InQueue
  <2> QED
    BY <2>1, PromiseKept DEF Inv
<1> QED
  BY <1>1, <1>2, <1>3 DEF Inv

\* A step of the request that is served: the others have not been begun.
LEMMA ServeKeeps ==
    ASSUME Inv, NEW q \in Requests, Serving(q), request[q].at \in InQueue,
           NEW c \in RequestTypes, request' = [request EXCEPT ![q] = c],
           \/ c.at \in InQueue \ {"check"} /\ queue' = queue
           \/ c.at \in Answers /\ queue' = Tail(queue),
           Typed', Onward, Promise(c)', TrueRecords', Answering',
           c.by = None \/ c.by = request[q].by \/ run[c.by] = "none"
    PROVE  Inv'
<1>1. queue \in Seq(Requests) /\ queue # <<>> /\ Len(queue) \in Nat /\ Len(queue) > 0
      /\ queue[1] = q /\ request \in [Requests -> RequestTypes]
  BY DEF Inv, Typed, Serving
<1>2. ASSUME NEW p \in Requests, p # q  PROVE request'[p] = request[p] /\ request[p].at \notin Begun
  BY <1>1, <1>2 DEF Inv, OneServed, Serving
<1>3. request'[q] = c
  BY <1>1
<1>4. OneServed'
  <2>1. CASE c.at \in InQueue \ {"check"} /\ queue' = queue
    <3>1. \A i \in 1..Len(queue) : request'[queue[i]].at \in InQueue
      BY <1>1, <1>2, <1>3, <2>1 DEF Inv, OneServed
    <3>2. \A p \in Requests : request'[p].at \in Begun => p = q
      BY <1>2
    <3> QED
      BY <1>1, <2>1, <3>1, <3>2 DEF Inv, OneServed
  <2>2. CASE c.at \in Answers /\ queue' = Tail(queue)
    <3>1. /\ Len(queue') = Len(queue) - 1
          /\ \A i \in 1..Len(queue') : queue'[i] = queue[i + 1] /\ i + 1 \in 1..Len(queue)
      BY <1>1, <2>2
    <3>2. ASSUME NEW i \in 1..Len(queue')  PROVE queue'[i] # q /\ queue'[i] \in Requests
      <4>1. i + 1 \in 1..Len(queue) /\ 1 \in 1..Len(queue) /\ i + 1 # 1
        BY <1>1, <3>1
      <4> QED
        BY <1>1, <3>1, <4>1 DEF Inv, OneServed
    <3>3. \A i \in 1..Len(queue') : request'[queue'[i]].at \in InQueue
      BY <1>2, <3>1, <3>2 DEF Inv, OneServed
    <3>4. ASSUME NEW i \in 1..Len(queue'), NEW j \in 1..Len(queue'), queue'[i] = queue'[j]
          PROVE  i = j
      <4>1. i + 1 = j + 1
        BY <3>1, <3>4 DEF Inv, OneServed
      <4> QED
        BY <4>1
    <3>5. \A p \in Requests : request'[p].at \notin Begun
      BY <1>2, <1>3, <2>2 DEF Begun, Answers
    <3> QED
      BY <3>3, <3>4, <3>5 DEF OneServed
  <2> QED
    BY <2>1, <2>2
<1>5. OneOwner'
  <2>1. ASSUME NEW p \in Requests, p # q, c.by # None  PROVE request[p].by # c.by
    <3>1. CASE c.by = request[q].by
      BY <2>1, <3>1 DEF Inv, OneOwner
    <3>2. CASE run[c.by] = "none"
      <4>1. request[p] \in RequestTypes
        BY <1>1
      <4>2. request[p].by # None => run[request[p].by] # "none"
        BY <4>1 DEF Inv, Promise
      <4> QED
        BY <2>1, <3>2, <4>2
    <3> QED
      BY <2>1, <3>1, <3>2
  <2> QED
    BY <1>2, <1>3, <2>1 DEF Inv, OneOwner
<1>6. ASSUME NEW p \in Requests, NEW d \in RequestTypes, request'[p] = d
      PROVE  Promise(d)'
  <2>1. CASE p = q
    BY <1>3, <1>6, <2>1
  <2>2. CASE p # q
    <3>1. Promise(d) /\ d.at \notin Begun
      BY <1>2, <1>6, <2>2 DEF Inv
    <3> QED
      BY <3>1, PromiseKept DEF Inv
  <2> QED
    BY <2>1, <2>2
<1> QED
  BY <1>4, <1>5, <1>6 DEF Inv

-----------------------------------------------------------------------------
(* Revoke and compromise requests.                                         *)

\* One request moves on, for the same evidence.
Moves(t, g) ==
    /\ tag' = [tag EXCEPT ![t] = g]
    /\ g.to = tag[t].to /\ g.id = tag[t].id

LEMMA TransitionFact ==
    ASSUME TagTyped, NEW t \in Tags, NEW e \in Evidence, NEW to \in DOMAIN Marks,
           Transition(t, e, to)
    PROVE  \E g \in TagTypes : /\ tag' = [tag EXCEPT ![t] = g]
                               /\ g.at = "event" /\ g.to = to /\ g.id = e
<1>1. PICK g : g = [NoTag EXCEPT !.at = "event", !.to = to, !.id = e]
  OBVIOUS
<1>2. g \in TagTypes /\ g.at = "event" /\ g.to = to /\ g.id = e
  BY <1>1, MarkFact DEF NoTag, TagTypes, InTransit
<1> QED
  BY <1>1, <1>2 DEF Transition

LEMMA EmitFact ==
    ASSUME TagTyped, NEW t \in Tags, EmitTransition(t)
    PROVE  \E g \in TagTypes :
               /\ Moves(t, g) /\ g.at = "graph" /\ g.runs = InStore
               /\ g.due = Due(tag[t].id) \cap Runs
<1>1. PICK runs \in SUBSET Runs, due \in SUBSET Runs :
          runs = InStore /\ due = Due(tag[t].id) \cap Runs
  BY DEF InStore
<1>2. PICK g : g = [tag[t] EXCEPT !.at = "graph", !.runs = runs, !.due = due]
  OBVIOUS
<1>3. /\ g \in TagTypes /\ g.at = "graph" /\ g.runs = runs /\ g.due = due
      /\ g.to = tag[t].to /\ g.id = tag[t].id
  BY <1>2 DEF TagTyped, TagTypes, InTransit
<1>4. tag' = [tag EXCEPT ![t] = g]
  BY <1>1, <1>2 DEF EmitTransition
<1> QED
  BY <1>1, <1>3, <1>4 DEF Moves

LEMMA MarkingFact ==
    ASSUME TagTyped, NEW t \in Tags, NEW left \in SUBSET Runs, Marking(t, left)
    PROVE  \E g \in TagTypes : /\ Moves(t, g) /\ g.runs = left /\ g.due = tag[t].due
                               /\ g.at = IF left = {} THEN "done" ELSE "mark"
<1>1. PICK label \in {"done", "mark"} : label = IF left = {} THEN "done" ELSE "mark"
  OBVIOUS
<1>2. PICK g : g = [tag[t] EXCEPT !.runs = left, !.at = label]
  OBVIOUS
<1>3. /\ g \in TagTypes /\ g.at = label /\ g.runs = left /\ g.due = tag[t].due
      /\ g.to = tag[t].to /\ g.id = tag[t].id
  BY <1>2 DEF TagTyped, TagTypes, InTransit
<1>4. tag' = [tag EXCEPT ![t] = g]
  BY <1>1, <1>2 DEF Marking
<1> QED
  BY <1>1, <1>3, <1>4 DEF Moves

LEMMA TagThrowFact ==
    ASSUME TagTyped, NEW t \in Tags, TagThrows(t)
    PROVE  \E g \in TagTypes : Moves(t, g) /\ g.at = "threw"
<1>1. PICK g : g = [tag[t] EXCEPT !.at = "threw"]
  OBVIOUS
<1>2. g \in TagTypes /\ g.at = "threw" /\ g.to = tag[t].to /\ g.id = tag[t].id
  BY <1>1 DEF TagTyped, TagTypes
<1> QED
  BY <1>1, <1>2 DEF TagThrows, Moves

LEMMA TagTypedKeeps ==
    ASSUME TagTyped, NEW t \in Tags, TagStep(t) \/ TagThrows(t)
    PROVE  TagTyped'
<1>1. ASSUME NEW g \in TagTypes, Moves(t, g), tag[t].at # "idle"  PROVE TagTyped'
  BY <1>1 DEF TagTyped, Moves
<1>2. CASE EmitTransition(t)
  BY <1>1, <1>2, EmitFact DEF EmitTransition
<1>3. CASE BuildGraph(t)
  BY <1>1, <1>3, MarkingFact DEF BuildGraph
<1>4. ASSUME NEW r \in Runs, MarkRun(t, r)  PROVE TagTyped'
  <2>1. PICK left \in SUBSET Runs : Marking(t, left) /\ tag[t].at = "mark"
    BY <1>4 DEF MarkRun, TagTyped, TagTypes
  <2> QED
    BY <1>1, <2>1, MarkingFact
<1>5. CASE TagThrows(t)
  BY <1>1, <1>5, TagThrowFact DEF TagThrows
<1> QED
  BY <1>2, <1>3, <1>4, <1>5 DEF TagStep

-----------------------------------------------------------------------------
(* The steps outside the queue.                                            *)

LEMMA QuietKeeps ==
    ASSUME Inv, run' \in [Runs -> RunLabels], \A r \in Runs : run[r] # "none" => run'[r] # "none",
           indexed \subseteq indexed', TagTyped', faults' \in Nat, faults' = 0 => faults = 0,
           UNCHANGED <<history, records, request, queue>>
    PROVE  Inv'
<1>1. Typed' /\ Grown
  BY SameHistory DEF Inv, Typed
<1>2. Onward
  BY <1>1 DEF Onward
<1>3. Answering' /\ \A r \in Runs : State(r)' = State(r)
  BY DEF Inv, Answering, Recoveries, State
<1> QED
  BY <1>1, <1>2, <1>3, OthersKeep

LEMMA RunKeeps ==
    ASSUME Inv, NEW r \in Runs, RunStep(r)
    PROVE  Inv'
<1>1. UNCHANGED <<history, records, tag, request, queue, faults>>
  BY DEF RunStep, SendMessage, ListCandidates, RefuseCapsule, SaveCapsule, IndexCapsule,
         CreateEvidence, outside
<1>2. indexed \subseteq indexed'
  BY DEF RunStep, SendMessage, ListCandidates, RefuseCapsule, SaveCapsule, IndexCapsule,
         CreateEvidence, capsules
<1>3. run' = run \/ \E l \in RunLabels \ {"none"} : run' = [run EXCEPT ![r] = l]
  BY DEF RunStep, SendMessage, ListCandidates, RefuseCapsule, SaveCapsule, IndexCapsule,
         CreateEvidence, capsules, Admitted, RunLabels
<1>4. run' \in [Runs -> RunLabels] /\ \A s \in Runs : run[s] # "none" => run'[s] # "none"
  BY <1>3 DEF Inv, Typed
<1>5. TagTyped' /\ faults' \in Nat
  BY <1>1 DEF Inv, Typed, TagTyped
<1> QED
  BY <1>1, <1>2, <1>4, <1>5, QuietKeeps

LEMMA TransitionKeeps ==
    ASSUME Inv, NEW t \in Tags, NEW e \in Evidence, NEW to \in DOMAIN Marks, Transition(t, e, to)
    PROVE  Inv'
<1>1. PICK g \in TagTypes : tag' = [tag EXCEPT ![t] = g] /\ g.to = to /\ g.id = e
  BY TransitionFact DEF Inv, Typed
<1>2. TagTyped'
  BY <1>1, MarkFact DEF Inv, Typed, TagTyped
<1>3. UNCHANGED <<run, indexed, history, records, request, queue, faults>>
  BY DEF Transition, capsules, outside
<1> QED
  BY <1>2, <1>3, QuietKeeps DEF Inv, Typed

LEMMA TagKeeps ==
    ASSUME Inv, NEW t \in Tags, TagStep(t) \/ TagThrows(t)
    PROVE  Inv'
<1>1. TagTyped'
  BY TagTypedKeeps DEF Inv, Typed
<1>2. CASE EmitTransition(t) \/ BuildGraph(t) \/ TagThrows(t)
  <2>1. UNCHANGED <<run, indexed, history, records, request, queue>>
    BY <1>2 DEF EmitTransition, BuildGraph, TagThrows, capsules
  <2>2. faults' \in Nat /\ (faults' = 0 => faults = 0)
    <3>1. faults \in Nat
      BY DEF Inv, Typed
    <3>2. faults' = faults \/ faults' = faults + 1
      BY <1>2 DEF EmitTransition, BuildGraph, TagThrows, outside
    <3> QED
      BY <3>1, <3>2
  <2> QED
    BY <1>1, <2>1, <2>2, QuietKeeps DEF Inv, Typed
<1>3. ASSUME NEW r \in Runs, MarkRun(t, r)  PROVE Inv'
  <2>1. PICK e \in Entries : /\ e.state \in {"STALE", "TAINTED"}
                            /\ history' = [history EXCEPT ![r] = Append(@, e)]
    <3>1. /\ Marks[tag[t].to] \in {"STALE", "TAINTED"} /\ tag[t].id \in Evidence
      BY <1>3, MarkFact DEF MarkRun, Inv, Typed, TagTyped
    <3>2. PICK m \in {"STALE", "TAINTED"} : m = Marks[tag[t].to]
      BY <3>1
    <3>3. PICK e : e = [state |-> m, trigger |-> tag[t].id, by |-> None]
      OBVIOUS
    <3>4. e \in Entries /\ e.state = m
      BY <3>1, <3>3 DEF Entries, States
    <3>5. history' = [history EXCEPT ![r] = Append(@, e)]
      BY <1>3, <3>2, <3>3 DEF MarkRun, MayMark
    <3> QED
      BY <3>4, <3>5
  <2>2. /\ Grown /\ history' \in [Runs -> Seq(Entries)] /\ State(r)' = e.state
        /\ \A s \in Runs : s # r => history'[s] = history[s]
    BY <2>1, AppendFact DEF Inv
  <2>3. UNCHANGED <<run, indexed, records, request, queue, faults>>
    BY <1>3 DEF MarkRun, capsules, outside
  <2>4. Typed' /\ Onward
    BY <1>1, <2>2, <2>3 DEF Inv, Typed, Onward
  <2>5. Answering'
    BY <2>1, AnsweringKeeps DEF Inv
  <2>6. \A s \in Runs : State(s) \in Recoverable => State(s)' \in Recoverable
    BY <2>1, <2>2 DEF State, Recoverable
  <2> QED
    BY <2>3, <2>4, <2>5, <2>6, OthersKeep
<1> QED
  BY <1>2, <1>3 DEF TagStep

LEMMA RestartKeeps ==
    ASSUME Inv, Restart
    PROVE  Inv'
<1>1. /\ UNCHANGED <<indexed, history, records, faults>> /\ queue' = <<>>
      /\ run' = [r \in Runs |-> IF run[r] = "none" THEN "none" ELSE "over"]
  BY DEF Restart
<1>2. PICK f : /\ f = [t \in Tags |-> IF tag[t].at \in InTransit THEN [tag[t] EXCEPT !.at = "threw"]
                                      ELSE tag[t]]
               /\ tag' = f
  BY DEF Restart
<1>3. TagTyped'
  <2>1. ASSUME NEW t \in Tags
        PROVE  /\ tag'[t] \in TagTypes
               /\ tag'[t].at # "idle" => tag'[t].to \in MarkNames /\ tag'[t].id \in Evidence
    <3>1. CASE tag[t].at \in InTransit
      <4>1. tag'[t] = [tag[t] EXCEPT !.at = "threw"] /\ tag[t] \in TagTypes
        BY <1>2, <3>1 DEF Inv, Typed, TagTyped
      <4>2. tag'[t] \in TagTypes /\ tag'[t].to = tag[t].to /\ tag'[t].id = tag[t].id
        BY <4>1 DEF TagTypes
      <4> QED
        BY <3>1, <4>2 DEF Inv, Typed, TagTyped, InTransit
    <3>2. CASE tag[t].at \notin InTransit
      BY <1>2, <3>2 DEF Inv, Typed, TagTyped
    <3> QED
      BY <3>1, <3>2
  <2> QED
    BY <1>2, <2>1 DEF TagTyped
<1>4. ASSUME NEW q \in Requests
      PROVE  /\ request'[q] \in RequestTypes
             /\ request'[q].at \notin InQueue
             /\ request'[q].by = request[q].by
             /\ request'[q] = request[q] \/ request'[q].at = "lostInCrash"
  <2>1. request'[q] = IF request[q].at \in InQueue THEN [request[q] EXCEPT !.at = "lostInCrash"]
                      ELSE request[q]
    BY PendingFact DEF Restart
  <2>2. request[q] \in RequestTypes
    BY DEF Inv, Typed
  <2>3. CASE request[q].at \in InQueue
    <3>1. request'[q] = [request[q] EXCEPT !.at = "lostInCrash"]
      BY <2>1, <2>3
    <3>2. request'[q] \in RequestTypes /\ request'[q].at = "lostInCrash"
          /\ request'[q].by = request[q].by
      BY <2>2, <3>1 DEF RequestTypes
    <3> QED
      BY <3>2 DEF InQueue, Begun
  <2>4. CASE request[q].at \notin InQueue
    BY <2>1, <2>2, <2>4
  <2> QED
    BY <2>3, <2>4
<1>5. request' \in [Requests -> RequestTypes]
  <2>1. request' = [q \in Requests |-> request'[q]]
    BY DEF Restart
  <2> QED
    BY <1>4, <2>1
<1>6. Typed' /\ Onward
  BY <1>1, <1>3, <1>5, SameHistory DEF Inv, Typed, Onward, RunLabels
<1>7. OneServed' /\ OneOwner'
  BY <1>1, <1>4 DEF Inv, OneServed, OneOwner, InQueue
<1>8. TrueRecords' /\ Answering'
  BY <1>1, <1>6, RecordKept DEF Inv, TrueRecords, Answering, Recoveries
<1>9. ASSUME NEW q \in Requests, NEW c \in RequestTypes, request'[q] = c
      PROVE  Promise(c)'
  <2>1. c.at \notin InQueue
    BY <1>4, <1>9
  <2>2. CASE c = request[q]
    <3>1. Promise(c) /\ c.at \notin Begun
      BY <2>1, <2>2 DEF Inv, InQueue
    <3> QED
      BY <1>6, <3>1, PromiseKept DEF Inv
  <2>3. CASE c.at = "lostInCrash"
    <3>1. PICK d \in RequestTypes : d = request[q] /\ Promise(d) /\ d.by = c.by
      BY <1>4, <1>9 DEF Inv, Typed
    <3>2. c.by # None => c.by \in Runs /\ run[c.by] # "none"
      BY <3>1 DEF Promise, RequestTypes
    <3>3. c.by # None => run'[c.by] # "none"
      BY <1>6, <3>2 DEF Onward
    <3> QED
      BY <2>3, <3>3 DEF Promise, InQueue, Begun
  <2> QED
    BY <1>4, <1>9, <2>2, <2>3
<1> QED
  BY <1>6, <1>7, <1>8, <1>9 DEF Inv

LEMMA ReconcileKeeps ==
    ASSUME Inv, NEW q \in Requests, NEW r \in Runs, Reconcile(q, r)
    PROVE  Inv'
<1>1. PICK c : c = [NoRequest EXCEPT !.at = "check", !.stale = r]
  OBVIOUS
<1>2. c \in RequestTypes /\ c.at = "check" /\ c.by = None /\ c.stale = r
  BY <1>1 DEF NoRequest, RequestTypes, InQueue
<1>3. /\ request' = [request EXCEPT ![q] = c] /\ request[q].at = "idle"
      /\ queue' = Append(queue, q)
      /\ UNCHANGED <<run, indexed, history, records, tag, faults>>
  BY <1>1 DEF Reconcile, capsules, outside
<1>4. /\ queue' \in Seq(Requests) /\ Len(queue) \in Nat /\ Len(queue') = Len(queue) + 1
      /\ \A i \in 1..Len(queue) : queue'[i] = queue[i] /\ queue[i] \in Requests
      /\ queue'[Len(queue) + 1] = q
  BY <1>3 DEF Inv, Typed
<1>5. Typed' /\ Onward
  <2>1. Typed' /\ Grown
    BY <1>2, <1>3, <1>4, SameHistory DEF Inv, Typed, TagTyped
  <2> QED
    BY <1>3, <2>1 DEF Onward
<1>6. /\ request'[q] = c
      /\ \A p \in Requests : p # q => request'[p] = request[p]
  BY <1>3 DEF Inv, Typed
<1>7. \A i \in 1..Len(queue) : queue[i] # q
  BY <1>3 DEF Inv, OneServed, InQueue, Begun
<1>8. OneServed'
  <2>1. \A i, j \in 1..Len(queue') : queue'[i] = queue'[j] => i = j
    <3> SUFFICES ASSUME NEW i \in 1..Len(queue'), NEW j \in 1..Len(queue'), queue'[i] = queue'[j]
                 PROVE  i = j
      OBVIOUS
    <3>1. i \in 1..Len(queue) \/ i = Len(queue) + 1
      BY <1>4
    <3>2. j \in 1..Len(queue) \/ j = Len(queue) + 1
      BY <1>4
    <3> QED
      BY <1>4, <1>7, <3>1, <3>2 DEF Inv, OneServed
  <2>2. \A i \in 1..Len(queue') : request'[queue'[i]].at \in InQueue
    <3> SUFFICES ASSUME NEW i \in 1..Len(queue')  PROVE request'[queue'[i]].at \in InQueue
      OBVIOUS
    <3>1. CASE i \in 1..Len(queue)
      BY <1>4, <1>6, <1>7, <3>1 DEF Inv, OneServed
    <3>2. CASE i \notin 1..Len(queue)
      <4>1. i = Len(queue) + 1
        BY <1>4, <3>2
      <4> QED
        BY <1>2, <1>4, <1>6, <4>1 DEF InQueue
    <3> QED
      BY <3>1, <3>2
  <2>3. ASSUME NEW p \in Requests, request'[p].at \in Begun  PROVE queue' # <<>> /\ Head(queue') = p
    <3>1. p # q
      BY <1>2, <1>6, <2>3 DEF Begun
    <3>2. queue # <<>> /\ Head(queue) = p /\ queue \in Seq(Requests)
      BY <1>6, <2>3, <3>1 DEF Inv, OneServed, Typed
    <3> QED
      BY <1>3, <3>2
  <2> QED
    BY <2>1, <2>2, <2>3 DEF OneServed
<1>9. OneOwner'
  BY <1>2, <1>6 DEF Inv, OneOwner
<1>10. TrueRecords' /\ Answering'
  BY <1>3, <1>5, RecordKept DEF Inv, TrueRecords, Answering, Recoveries
<1>11. ASSUME NEW p \in Requests, NEW d \in RequestTypes, request'[p] = d
       PROVE  Promise(d)'
  <2>1. CASE p = q
    BY <1>2, <1>6, <1>11, <2>1 DEF Promise
  <2>2. CASE p # q
    <3>1. Promise(d)
      BY <1>6, <1>11, <2>2 DEF Inv
    <3>2. records' = records /\ State(d.stale)' = State(d.stale)
      BY <1>3 DEF State
    <3> QED
      BY <1>5, <3>1, <3>2, PromiseKept DEF Inv
  <2> QED
    BY <2>1, <2>2
<1> QED
  BY <1>5, <1>8, <1>9, <1>10, <1>11 DEF Inv

-----------------------------------------------------------------------------
(* The steps of the request that is served.                                *)

Labels == Begun \cup Answers

\* The request goes on, or is answered and lets the next one run.
Goes(q, label) ==
    /\ request' = [request EXCEPT ![q].at = label]
    /\ \/ label \in Begun /\ queue' = queue
       \/ label \in Answers /\ queue' = Tail(queue)

LEMMA GoesFact ==
    ASSUME Typed, NEW q \in Requests, NEW label \in Labels, Goes(q, label)
    PROVE  \E c \in RequestTypes : /\ request' = [request EXCEPT ![q] = c] /\ c.at = label
                                   /\ c.stale = request[q].stale /\ c.by = request[q].by
<1>1. PICK c : c = [request[q] EXCEPT !.at = label]
  OBVIOUS
<1>2. c \in RequestTypes /\ c.at = label /\ c.stale = request[q].stale /\ c.by = request[q].by
  <2>1. request[q] \in RequestTypes
    BY DEF Typed
  <2> QED
    BY <1>1, <2>1 DEF RequestTypes, Labels, InQueue
<1> QED
  BY <1>1, <1>2 DEF Goes

\* What is promised at the label it goes to, of the request as it was.
LEMMA GoesKeeps ==
    ASSUME Inv, NEW q \in Requests, Serving(q), request[q].at \in InQueue,
           NEW label \in Labels, Goes(q, label),
           UNCHANGED <<run, indexed, history, records, tag>>,
           faults' \in Nat, faults' = 0 => faults = 0,
           label \in {"startedEvent", "start"} => request[q].by = None,
           label \in {"startedEvent", "start", "poll", "recover"} =>
               State(request[q].stale) \in Recoverable,
           label \in {"poll", "recover", "giveUp", "lost", "complete"} =>
               request[q].at \in {"poll", "recover", "giveUp", "lost", "complete"},
           label \in {"recover", "complete"} => request[q].by \in indexed,
           label = "complete" => RecoveredBy(request[q].stale, request[q].by),
           faults' = 0 => label # "lost",
           request[q].by # None
           /\ label \in {"failedEvent", "completedEvent", "done", "rejected"} =>
               \E rec \in records : rec.by = request[q].by /\ rec.stale = request[q].stale
    PROVE  Inv'
<1>1. PICK c \in RequestTypes : /\ request' = [request EXCEPT ![q] = c] /\ c.at = label
                               /\ c.stale = request[q].stale /\ c.by = request[q].by
  BY GoesFact DEF Inv
<1>2. PICK d \in RequestTypes : d = request[q] /\ Promise(d)
  BY DEF Inv, Typed
<1>3. queue' \in Seq(Requests)
  <2>1. queue \in Seq(Requests) /\ queue # <<>>
    BY DEF Inv, Typed, Serving
  <2>2. Tail(queue) \in Seq(Requests)
    BY <2>1
  <2> QED
    BY <2>1, <2>2 DEF Goes
<1>4. Typed' /\ Onward
  <2>1. Typed' /\ Grown
    BY <1>1, <1>3, SameHistory DEF Inv, Typed, TagTyped
  <2> QED
    BY <2>1 DEF Onward
<1>5. c.stale \in Runs
  BY <1>1, <1>2 DEF Promise
<1>6. State(c.stale)' = State(c.stale) /\ (RecoveredBy(c.stale, c.by) => RecoveredBy(c.stale, c.by)')
  BY DEF State, RecoveredBy, Recoveries
<1>7. c.at # "check" /\ c.at # "idle" /\ c.at # "lostInCrash"
  BY <1>1 DEF Labels, Answers, Begun
<1>8. Promise(c)'
  <2>1. c.by # None => run'[c.by] # "none"
    BY <1>1, <1>2 DEF Promise
  <2>2. c.at \in {"poll", "recover", "giveUp", "lost", "complete"} =>
            c.by # None /\ \A rec \in records' : rec.by # c.by
    BY <1>1, <1>2 DEF Promise
  <2>3. c.at \in {"startedEvent", "start", "poll", "recover"} => State(c.stale)' \in Recoverable
    BY <1>1, <1>6
  <2>4. c.at = "complete" => RecoveredBy(c.stale, c.by)'
    BY <1>1, <1>6
  <2>5. c.at \in {"idle", "check", "startedEvent", "start"} => c.by = None
    BY <1>1, <1>7
  <2>6. /\ c.at \in {"recover", "complete"} => c.by \in indexed'
        /\ faults' = 0 => c.at # "lost"
        /\ c.by # None /\ c.at \in {"failedEvent", "completedEvent", "done", "rejected"} =>
              \E rec \in records' : rec.by = c.by /\ rec.stale = c.stale
    BY <1>1
  <2> QED
    BY <1>5, <2>1, <2>2, <2>3, <2>4, <2>5, <2>6 DEF Promise
<1>9. TrueRecords' /\ Answering'
  BY <1>4, RecordKept DEF Inv, TrueRecords, Answering, Recoveries
<1>10. \/ c.at \in InQueue \ {"check"} /\ queue' = queue
       \/ c.at \in Answers /\ queue' = Tail(queue)
  BY <1>1, <1>7 DEF Goes, InQueue
<1> QED
  BY <1>1, <1>4, <1>8, <1>9, <1>10, ServeKeeps

LEMMA HeadPromise ==
    ASSUME Inv, NEW q \in Requests
    PROVE  Promise(request[q]) /\ request[q] \in RequestTypes
BY DEF Inv, Typed

LEMMA CheckRunKeeps ==
    ASSUME Inv, NEW q \in Requests, CheckRun(q)
    PROVE  Inv'
<1>1. /\ Serving(q) /\ request[q].at = "check" /\ request[q].by = None
      /\ UNCHANGED <<run, indexed, history, records, tag, faults>>
  BY HeadPromise DEF CheckRun, At, Promise, capsules, outside
<1>2. PICK label \in {"startedEvent", "rejected"} :
          /\ Goes(q, label)
          /\ label = "startedEvent" => State(request[q].stale) \in Recoverable
  BY DEF CheckRun, Goes, Step, Settle, Begun, Answers
<1> QED
  BY <1>1, <1>2, GoesKeeps DEF Labels, Answers, Begun, InQueue, Inv, Typed

LEMMA EmitKeeps ==
    ASSUME Inv, NEW q \in Requests, EmitReconciliation(q)
    PROVE  Inv'
<1>1. /\ Serving(q) /\ request[q].at \in {"startedEvent", "failedEvent", "completedEvent"}
      /\ UNCHANGED <<run, indexed, history, records, tag, faults>>
  BY DEF EmitReconciliation, At, capsules, outside
<1>2. PICK label \in {"start", "rejected", "done"} :
          /\ Goes(q, label)
          /\ label = "start" => request[q].at = "startedEvent"
          /\ label # "start" => request[q].at \in {"failedEvent", "completedEvent"}
  BY DEF EmitReconciliation, At, Goes, Step, Settle, Begun, Answers
<1>3. /\ label = "start" => State(request[q].stale) \in Recoverable /\ request[q].by = None
      /\ request[q].by # None /\ label # "start" =>
             \E rec \in records : rec.by = request[q].by /\ rec.stale = request[q].stale
  BY <1>2, HeadPromise DEF Promise
<1> QED
  BY <1>1, <1>2, <1>3, GoesKeeps DEF Labels, Answers, Begun, InQueue, Inv, Typed

LEMMA StartKeeps ==
    ASSUME Inv, NEW q \in Requests, StartReplacement(q)
    PROVE  Inv'
<1>1. /\ Serving(q) /\ request[q].at = "start" /\ request[q].by = None
      /\ State(request[q].stale) \in Recoverable /\ request[q].stale \in Runs
      /\ UNCHANGED <<indexed, history, records, tag, faults>>
  BY HeadPromise DEF StartReplacement, At, Promise, outside, InQueue, Begun
<1>2. CASE Step(q, "failedEvent") /\ UNCHANGED run
  <2>1. Goes(q, "failedEvent")
    BY <1>2 DEF Goes, Step, Begun
  <2> QED
    BY <1>1, <1>2, <2>1, GoesKeeps DEF Labels, Answers, Begun, InQueue, Inv, Typed
<1>3. ASSUME NEW r \in Runs, run[r] = "none", Admitted(r), queue' = queue,
             request' = [request EXCEPT ![q].at = "poll", ![q].by = r]
      PROVE  Inv'
  <2>1. PICK c : c = [request[q] EXCEPT !.at = "poll", !.by = r]
    OBVIOUS
  <2>2. request[q] \in RequestTypes
    BY DEF Inv, Typed
  <2>3. c \in RequestTypes /\ c.at = "poll" /\ c.by = r /\ c.stale = request[q].stale
    BY <2>1, <2>2 DEF RequestTypes, InQueue, Begun
  <2>4. request' = [request EXCEPT ![q] = c]
    BY <1>3, <2>1
  <2>5. /\ run' \in [Runs -> RunLabels] /\ run'[r] # "none"
        /\ \A s \in Runs : run[s] # "none" => run'[s] # "none"
    BY <1>3 DEF Admitted, Inv, Typed, RunLabels
  <2>6. Typed' /\ Onward
    <3>1. Typed' /\ Grown
      BY <1>1, <1>3, <2>3, <2>4, <2>5, SameHistory DEF Inv, Typed, TagTyped
    <3> QED
      BY <1>1, <2>5, <3>1 DEF Onward
  <2>7. r # None
    BY NodeIds
  <2>8. \A rec \in records : rec.by # r
    BY <1>3 DEF Inv, TrueRecords, TrueRecord
  <2>9. State(c.stale)' = State(c.stale)
    BY <1>1 DEF State
  <2>10. Promise(c)'
    BY <1>1, <2>3, <2>5, <2>7, <2>8, <2>9 DEF Promise
  <2>11. TrueRecords' /\ Answering'
    BY <1>1, <2>6, RecordKept DEF Inv, TrueRecords, Answering, Recoveries
  <2> QED
    BY <1>1, <1>3, <2>3, <2>4, <2>6, <2>10, <2>11, ServeKeeps DEF InQueue, Begun
<1> QED
  BY <1>2, <1>3 DEF StartReplacement

LEMMA PollKeeps ==
    ASSUME Inv, NEW q \in Requests, Poll(q)
    PROVE  Inv'
<1>1. /\ Serving(q) /\ request[q].at = "poll"
      /\ UNCHANGED <<run, indexed, history, records, tag, faults>>
  BY DEF Poll, At, capsules, outside
<1>2. PICK d \in RequestTypes : d = request[q] /\ Promise(d) /\ d.at = "poll"
  BY <1>1, HeadPromise
<1>3. CASE HasCapsule(request[q].by)
  <2>1. Goes(q, "recover")
    BY <1>3 DEF Poll, Goes, Step, Begun
  <2>2. State(request[q].stale) \in Recoverable /\ request[q].by \in indexed
    BY <1>2, <1>3 DEF Promise, HasCapsule
  <2> QED
    BY <1>1, <2>1, <2>2, GoesKeeps DEF Labels, Answers, Begun, InQueue, Inv, Typed
<1>4. CASE ~ HasCapsule(request[q].by)
  <2>1. PICK label \in {"poll", "giveUp"}, n \in Nat :
            /\ request' = [request EXCEPT ![q].polls = n, ![q].at = label]
            /\ queue' = queue
    <3>1. request[q].polls + 1 \in Nat
      BY <1>2 DEF RequestTypes
    <3>2. PICK n \in Nat : n = request[q].polls + 1
      BY <3>1
    <3>3. PICK label \in {"poll", "giveUp"} :
              label = IF LastPoll(q) THEN "giveUp" ELSE request[q].at
      BY <1>1
    <3> QED
      BY <1>4, <3>2, <3>3 DEF Poll, AfterPolls
  <2>2. PICK c : c = [request[q] EXCEPT !.polls = n, !.at = label]
    OBVIOUS
  <2>3. /\ c \in RequestTypes /\ c.at \in {"poll", "giveUp"}
        /\ c.by = d.by /\ c.stale = d.stale
    BY <1>2, <2>2 DEF RequestTypes, InQueue, Begun
  <2>4. request' = [request EXCEPT ![q] = c]
    BY <2>1, <2>2
  <2>5. Typed' /\ Onward
    <3>1. Typed' /\ Grown
      BY <1>1, <2>1, <2>3, <2>4, SameHistory DEF Inv, Typed, TagTyped
    <3> QED
      BY <1>1, <3>1 DEF Onward
  <2>6. Promise(c)'
    <3>1. /\ c.stale \in Runs /\ c.by # None /\ run'[c.by] # "none"
          /\ State(c.stale) \in Recoverable /\ \A rec \in records' : rec.by # c.by
      BY <1>1, <1>2, <2>3 DEF Promise, InQueue, Begun
    <3>2. State(c.stale)' = State(c.stale)
      BY <1>1 DEF State
    <3> QED
      BY <2>3, <3>1, <3>2 DEF Promise
  <2>7. TrueRecords' /\ Answering'
    BY <1>1, <2>5, RecordKept DEF Inv, TrueRecords, Answering, Recoveries
  <2> QED
    BY <1>1, <1>2, <2>1, <2>3, <2>4, <2>5, <2>6, <2>7, ServeKeeps DEF InQueue, Begun
<1> QED
  BY <1>3, <1>4

LEMMA MarkRecoveredKeeps ==
    ASSUME Inv, NEW q \in Requests, MarkRecovered(q)
    PROVE  Inv'
<1>1. PICK d \in RequestTypes : d = request[q] /\ Promise(d) /\ d.at = "recover"
  BY HeadPromise DEF MarkRecovered, At
<1>2. /\ Serving(q) /\ d.stale \in Runs /\ d.by \in Runs /\ d.by # None
      /\ State(d.stale) \in Recoverable
      /\ UNCHANGED <<run, indexed, records, tag, faults>>
  BY <1>1 DEF MarkRecovered, At, Promise, InQueue, Begun, RequestTypes, capsules, outside
<1>3. PICK e \in Entries : e = [state |-> "RECOVERED", trigger |-> None, by |-> d.by]
  BY <1>2 DEF Entries, States
<1>4. e.state = "RECOVERED" /\ e.by = d.by
  BY <1>3
<1>5. /\ history' = [history EXCEPT ![d.stale] = Append(@, e)]
      /\ Goes(q, "complete")
  BY <1>1, <1>2, <1>3 DEF MarkRecovered, Step, Goes, Begun
<1>6. PICK c \in RequestTypes : /\ request' = [request EXCEPT ![q] = c] /\ c.at = "complete"
                               /\ c.stale = d.stale /\ c.by = d.by
  BY <1>1, <1>5, GoesFact DEF Inv, Labels, Begun
<1>7. queue' = queue
  BY <1>5 DEF Goes, Answers
<1>8. /\ Grown /\ history' \in [Runs -> Seq(Entries)]
      /\ Len(history[d.stale]) \in Nat
      /\ Len(history'[d.stale]) = Len(history[d.stale]) + 1
      /\ history'[d.stale][Len(history[d.stale]) + 1] = e
  BY <1>2, <1>5, AppendFact DEF Inv
<1>9. Typed' /\ Onward
  <2>1. Typed'
    BY <1>2, <1>6, <1>7, <1>8 DEF Inv, Typed, TagTyped
  <2> QED
    BY <1>2, <1>8, <2>1 DEF Onward
<1>10. RecoveredBy(c.stale, c.by)'
  <2>1. Len(history[d.stale]) + 1 \in 1..Len(history'[d.stale])
    BY <1>8
  <2> QED
    BY <1>4, <1>6, <1>8, <2>1 DEF RecoveredBy, Recoveries
<1>11. Promise(c)'
  <2>1. c.stale \in Runs /\ c.by # None /\ run'[c.by] # "none" /\ c.by \in indexed'
    BY <1>1, <1>2, <1>6 DEF Promise
  <2>2. \A rec \in records' : rec.by # c.by
    BY <1>1, <1>2, <1>6 DEF Promise
  <2> QED
    BY <1>6, <1>10, <2>1, <2>2 DEF Promise
<1>12. Answering'
  BY <1>2, <1>5, AnsweringKeeps DEF Inv
<1>13. TrueRecords'
  BY <1>2, <1>9, RecordKept DEF Inv, TrueRecords
<1> QED
  BY <1>1, <1>2, <1>6, <1>7, <1>9, <1>11, <1>12, <1>13, ServeKeeps DEF InQueue, Begun

LEMMA AppendRecordKeeps ==
    ASSUME Inv, NEW q \in Requests, AppendRecord(q)
    PROVE  Inv'
<1>1. PICK label \in {"giveUp", "lost", "complete"} :
          /\ At(q, label)
          /\ records' = records \cup {[stale |-> request[q].stale, by |-> request[q].by,
                                       result |-> Outcomes[label]]}
          /\ Step(q, IF label = "complete" THEN "completedEvent" ELSE "failedEvent")
  BY OutcomeFact DEF AppendRecord
<1>2. PICK d \in RequestTypes : d = request[q] /\ Promise(d) /\ d.at = label
  BY <1>1, HeadPromise DEF At
<1>3. /\ Serving(q) /\ d.stale \in Runs /\ d.by \in Runs /\ d.by # None
      /\ run[d.by] # "none" /\ \A rec \in records : rec.by # d.by
      /\ UNCHANGED <<run, indexed, history, tag, faults>>
  BY <1>1, <1>2 DEF AppendRecord, At, Promise, InQueue, Begun, RequestTypes, capsules, outside
<1>4. PICK rec \in RecordTypes :
          /\ rec.stale = d.stale /\ rec.by = d.by /\ rec.result = Outcomes[label]
          /\ records' = records \cup {rec}
  <2>1. PICK rec : rec = [stale |-> d.stale, by |-> d.by, result |-> Outcomes[label]]
    OBVIOUS
  <2>2. Outcomes[label] \in Results
    BY <1>1, OutcomeFact DEF Results
  <2>3. rec \in RecordTypes /\ rec.stale = d.stale /\ rec.by = d.by /\ rec.result = Outcomes[label]
    BY <1>3, <2>1, <2>2 DEF RecordTypes
  <2> QED
    BY <1>1, <1>2, <2>1, <2>3
<1>5. PICK to \in {"completedEvent", "failedEvent"} : Goes(q, to)
  BY <1>1 DEF Step, Goes, Begun
<1>6. PICK c \in RequestTypes : /\ request' = [request EXCEPT ![q] = c] /\ c.at = to
                               /\ c.stale = d.stale /\ c.by = d.by
  BY <1>2, <1>5, GoesFact DEF Inv, Labels, Begun
<1>7. queue' = queue
  BY <1>5 DEF Goes, Answers
<1>8. Typed' /\ Onward
  <2>1. Typed' /\ Grown
    BY <1>3, <1>4, <1>6, <1>7, SameHistory DEF Inv, Typed, TagTyped
  <2> QED
    BY <1>3, <1>4, <2>1 DEF Onward
<1>9. Promise(c)'
  BY <1>3, <1>4, <1>6 DEF Promise, InQueue, Begun
<1>10. TrueRecord(rec)'
  <2>1. rec.result = "COMPLETED" => label = "complete"
    BY <1>1, <1>4, OutcomeFact
  <2>2. rec.result = "COMPLETED" => RecoveredBy(rec.stale, rec.by)' /\ rec.by \in indexed'
    BY <1>2, <1>3, <1>4, <2>1 DEF Promise, RecoveredBy, Recoveries
  <2>3. faults' = 0 => rec.result # "FAILED"
    BY <1>1, <1>2, <1>3, <1>4, OutcomeFact DEF Promise
  <2> QED
    BY <1>3, <1>4, <2>2, <2>3 DEF TrueRecord
<1>11. TrueRecords' /\ Answering'
  <2>1. \A other \in records : TrueRecord(other)'
    BY <1>8, RecordKept DEF Inv, TrueRecords
  <2>2. \A one, other \in records' : other.by = one.by => other = one
    BY <1>3, <1>4 DEF Inv, TrueRecords
  <2>3. \A other \in records' : TrueRecord(other)'
    BY <1>4, <1>10, <2>1
  <2> QED
    BY <1>3, <2>2, <2>3 DEF Inv, TrueRecords, Answering, Recoveries
<1> QED
  BY <1>1, <1>2, <1>3, <1>6, <1>7, <1>8, <1>9, <1>11, ServeKeeps DEF InQueue, Begun

LEMMA ReconcileThrowsKeeps ==
    ASSUME Inv, NEW q \in Requests, ReconcileThrows(q)
    PROVE  Inv'
<1>1. /\ faults' = faults + 1 /\ faults \in Nat
      /\ UNCHANGED <<run, indexed, history, records, tag>>
  BY DEF ReconcileThrows, Inv, Typed, capsules
<1>2. PICK d \in RequestTypes : d = request[q] /\ Promise(d)
  BY HeadPromise
<1>3. CASE At(q, "poll") /\ Step(q, AfterPolls)
  <2>1. Serving(q) /\ d.at = "poll" /\ Goes(q, "giveUp")
    BY <1>2, <1>3 DEF At, Step, Goes, AfterPolls, Begun
  <2> QED
    BY <1>1, <1>2, <2>1, GoesKeeps DEF Labels, Begun, InQueue
<1>4. CASE At(q, "recover") /\ Step(q, AfterLost)
  <2>1. Serving(q) /\ d.at = "recover" /\ Goes(q, "lost")
    BY <1>2, <1>4 DEF At, Step, Goes, AfterLost, Begun
  <2> QED
    BY <1>1, <1>2, <2>1, GoesKeeps DEF Labels, Begun, InQueue
<1>5. ASSUME NEW label \in {"startedEvent", "failedEvent", "completedEvent"},
             At(q, label), Settle(q, "rejected")
      PROVE  Inv'
  <2>1. Serving(q) /\ d.at = label /\ d.at \in InQueue /\ Goes(q, "rejected")
    BY <1>2, <1>5 DEF At, Settle, Goes, Answers, InQueue, Begun
  <2>2. d.by # None => \E rec \in records : rec.by = d.by /\ rec.stale = d.stale
    BY <1>2, <2>1 DEF Promise
  <2> QED
    BY <1>1, <1>2, <2>1, <2>2, GoesKeeps DEF Labels, Answers, Begun
<1>6. ASSUME NEW label \in DOMAIN Outcomes, At(q, label), Settle(q, "unrecorded")
      PROVE  Inv'
  <2>1. Serving(q) /\ d.at \in InQueue /\ Goes(q, "unrecorded")
    BY <1>2, <1>6, OutcomeFact DEF At, Settle, Goes, Answers, InQueue, Begun
  <2> QED
    BY <1>1, <1>2, <2>1, GoesKeeps DEF Labels, Answers, Begun
<1> QED
  BY <1>3, <1>4, <1>5, <1>6 DEF ReconcileThrows

-----------------------------------------------------------------------------
(* The theorems.                                                           *)

LEMMA Initially ==
    ASSUME Init
    PROVE  Inv
<1>1. NoTag \in TagTypes /\ NoTag.at = "idle"
  BY DEF NoTag, TagTypes
<1>2. NoRequest \in RequestTypes /\ NoRequest.at = "idle" /\ NoRequest.by = None
  BY DEF NoRequest, RequestTypes
<1>3. /\ \A t \in Tags : tag[t] = NoTag
      /\ \A q \in Requests : request[q] = NoRequest
      /\ \A r \in Runs : history[r] = <<>>
      /\ records = {} /\ queue = <<>> /\ faults = 0
  BY DEF Init
<1>4. Typed
  <2>1. tag \in [Tags -> TagTypes] /\ request \in [Requests -> RequestTypes]
    BY <1>1, <1>2 DEF Init
  <2>2. run \in [Runs -> RunLabels] /\ history \in [Runs -> Seq(Entries)]
    BY DEF Init, RunLabels
  <2> QED
    BY <1>1, <1>3, <2>1, <2>2 DEF Typed, TagTyped
<1>5. OneServed /\ OneOwner
  BY <1>2, <1>3 DEF OneServed, OneOwner, Begun
<1>6. TrueRecords /\ Answering
  BY <1>3 DEF TrueRecords, Answering, Recoveries
<1>7. \A c \in RequestTypes : c = NoRequest => Promise(c)
  BY <1>2 DEF Promise, InQueue, Begun
<1> QED
  BY <1>3, <1>4, <1>5, <1>6, <1>7 DEF Inv

LEMMA Steps ==
    ASSUME Inv, [Next]_vars
    PROVE  Inv'
<1>1. CASE UNCHANGED vars
  BY <1>1, QuietKeeps DEF vars, capsules, outside, Inv, Typed, TagTyped
<1>2. ASSUME NEW r \in Runs, RunStep(r)  PROVE Inv'
  BY <1>2, RunKeeps
<1>3. ASSUME NEW t \in Tags, NEW e \in Evidence, NEW to \in DOMAIN Marks, Transition(t, e, to)
      PROVE  Inv'
  BY <1>3, TransitionKeeps
<1>4. ASSUME NEW t \in Tags, TagStep(t) \/ TagThrows(t)  PROVE Inv'
  BY <1>4, TagKeeps
<1>5. ASSUME NEW q \in Requests, NEW r \in Runs, Reconcile(q, r)  PROVE Inv'
  BY <1>5, ReconcileKeeps
<1>6. ASSUME NEW q \in Requests, ReconcileStep(q)  PROVE Inv'
  BY <1>6, CheckRunKeeps, EmitKeeps, StartKeeps, PollKeeps, MarkRecoveredKeeps,
     AppendRecordKeeps DEF ReconcileStep
<1>7. ASSUME NEW q \in Requests, ReconcileThrows(q)  PROVE Inv'
  BY <1>7, ReconcileThrowsKeeps
<1>8. ASSUME NEW runs, RunsDeleted(runs)  PROVE Inv'
  BY <1>8, QuietKeeps DEF RunsDeleted, capsules, Inv, Typed, TagTyped
<1>9. CASE Restart
  BY <1>9, RestartKeeps
<1> QED
  BY <1>1, <1>2, <1>3, <1>4, <1>5, <1>6, <1>7, <1>8, <1>9 DEF Next

LEMMA AlwaysInv == Spec => []Inv
BY Initially, Steps, PTL DEF Spec

\* reconciliation.ts:216: whatever fails or restarts, a COMPLETED record names a
\* transition that was made and a replacement that has its capsule, and no other
\* record names that replacement.
THEOREM Recovered == Spec => []CompletedIsRecovered
<1>1. Inv => CompletedIsRecovered
  <2> SUFFICES ASSUME Inv, NEW rec \in records
               PROVE  /\ rec.result = "COMPLETED" =>
                            /\ \E i \in Recoveries(rec.stale) : history[rec.stale][i].by = rec.by
                            /\ rec.by \in indexed
                      /\ \A other \in records : other.by = rec.by => other = rec
    BY DEF CompletedIsRecovered
  <2>1. TrueRecord(rec)
    BY DEF Inv, TrueRecords
  <2> QED
    BY <2>1 DEF Inv, TrueRecords, TrueRecord, RecoveredBy
<1> QED
  BY <1>1, AlwaysInv, PTL

\* reconciliation.ts:119: however many requests ask for a run, and whatever marks
\* come in while one waits for its replacement, every recovery answers a mark made
\* after the recovery before it, and no replacement that got its capsule is
\* turned down unless the store failed.
THEOREM OnePerMark == Spec => []OneRecoveryPerMark
<1>1. Inv => OneRecoveryPerMark
  <2> SUFFICES ASSUME Inv  PROVE OneRecoveryPerMark
    OBVIOUS
  <2>1. \A r \in Runs : \A i \in Recoveries(r) :
            i > 1 /\ history[r][i - 1].state \in {"STALE", "TAINTED"}
    BY DEF Inv, Answering, Recoverable
  <2>2. faults = 0 => \A rec \in records : rec.result # "FAILED"
    BY DEF Inv, TrueRecords, TrueRecord
  <2> QED
    BY <2>1, <2>2 DEF OneRecoveryPerMark
<1> QED
  BY <1>1, AlwaysInv, PTL

\* reconciliation.ts:216: whatever stores throw, an answered request that started a
\* replacement left the record of it, whichever way it was answered; the two ways to
\* be left without one are a throw of that very append and a restart.
THEOREM Recorded == Spec => []ReplacementsRecorded
<1>1. Inv => ReplacementsRecorded
  <2> SUFFICES ASSUME Inv, NEW q \in Requests,
                      request[q].at \in {"done", "rejected"}, request[q].by # None
               PROVE  \E rec \in records : rec.by = request[q].by /\ rec.stale = request[q].stale
    BY DEF ReplacementsRecorded
  <2> QED
    BY HeadPromise DEF Promise
<1> QED
  BY <1>1, AlwaysInv, PTL

-----------------------------------------------------------------------------
(* What the stores hold of Evidence and capsules.                          *)

Existing == {e \in Evidence : status[e] # "none"}

StoresTyped ==
    /\ status \in [Evidence -> {"none", "ACTIVE"} \cup MarkNames]
    /\ derived \in [Evidence -> SUBSET Evidence]
    /\ producer \in [Evidence -> Runs \cup {None}]
    /\ view \in [Runs -> SUBSET Existing] /\ contents \in [Runs -> SUBSET Existing]

\* A capsule's run and a producer are in the store.
Rooted ==
    /\ \A r \in filed : r \in Runs /\ run[r] \in {"saving", "live", "over"}
    /\ \A e \in Existing, r \in Runs : producer[e] = r => run[r] # "none"

\* What is in the stores stays there as it is.
Accrues ==
    /\ \A e \in Existing : /\ e \in Existing' /\ derived'[e] = derived[e]
                           /\ producer'[e] = producer[e]
    /\ \A e \in Evidence : status[e] \in MarkNames => status'[e] \in MarkNames
    /\ filed \subseteq filed' /\ \A r \in filed : contents'[r] = contents[r]

Stores == StoresTyped /\ Rooted

LEMMA StoresInitially ==
    ASSUME Init
    PROVE  Stores
<1>1. StoresTyped
  BY DEF Init, StoresTyped
<1>2. filed = {} /\ \A e \in Evidence : producer[e] = None
  BY DEF Init
<1> QED
  BY <1>1, <1>2, NodeIds DEF Stores, Rooted, Existing

LEMMA StoresSame ==
    ASSUME Stores, UNCHANGED <<evidence, capsules>>
    PROVE  Stores' /\ Accrues
<1>1. Existing' = Existing
  BY DEF Existing, evidence
<1> QED
  BY <1>1 DEF Stores, StoresTyped, Rooted, Accrues, evidence, capsules

LEMMA AdmitStores ==
    ASSUME Typed, Stores, NEW r \in Runs, run[r] = "none", Admitted(r),
           UNCHANGED <<evidence, view, contents, filed>>
    PROVE  Stores' /\ Accrues
<1>1. Existing' = Existing
  BY DEF Existing, evidence
<1>2. run'[r] = "queued" /\ \A s \in Runs : s # r => run'[s] = run[s]
  BY DEF Typed, Admitted
<1>3. StoresTyped' /\ Accrues
  BY <1>1 DEF Stores, StoresTyped, Accrues, evidence
<1>4. Rooted'
  BY <1>1, <1>2 DEF Stores, Rooted, evidence
<1> QED
  BY <1>3, <1>4 DEF Stores

LEMMA RunStores ==
    ASSUME Typed, Stores, NEW r \in Runs, RunStep(r)
    PROVE  Stores' /\ Accrues
<1>1. CASE SendMessage(r)
  BY <1>1, AdmitStores DEF SendMessage
<1>2. CASE ListCandidates(r)
  <2>1. Existing' = Existing /\ UNCHANGED <<evidence, contents, filed>>
    BY <1>2 DEF ListCandidates, Existing, evidence
  <2>2. Candidates \subseteq Existing
    BY DEF Candidates, Existing
  <2>3. StoresTyped' /\ Accrues
    BY <1>2, <2>1, <2>2 DEF ListCandidates, Stores, StoresTyped, Accrues, evidence
  <2>4. run'[r] = "authorizing" /\ run[r] = "queued" /\ \A s \in Runs : s # r => run'[s] = run[s]
    BY <1>2 DEF ListCandidates, Typed
  <2>5. Rooted'
    BY <2>1, <2>4 DEF Stores, Rooted, evidence
  <2> QED
    BY <2>3, <2>5 DEF Stores
<1>3. CASE RefuseCapsule(r)
  <2>1. Existing' = Existing /\ UNCHANGED <<evidence, contents, filed>>
    BY <1>3 DEF RefuseCapsule, Existing, evidence
  <2>2. StoresTyped' /\ Accrues
    BY <1>3, <2>1 DEF RefuseCapsule, Stores, StoresTyped, Accrues, evidence
  <2>3. run'[r] = "over" /\ \A s \in Runs : s # r => run'[s] = run[s]
    BY <1>3 DEF RefuseCapsule, Typed
  <2>4. Rooted'
    BY <2>1, <2>3 DEF Stores, Rooted, evidence
  <2> QED
    BY <2>2, <2>4 DEF Stores
<1>4. CASE SaveCapsule(r)
  <2>1. Existing' = Existing /\ UNCHANGED evidence
    BY <1>4 DEF SaveCapsule, Existing, evidence
  <2>2. PICK allowed \in SUBSET view[r] : contents' = [contents EXCEPT ![r] = allowed]
    BY <1>4 DEF SaveCapsule
  <2>3. allowed \in SUBSET Existing
    BY <2>2 DEF Stores, StoresTyped
  <2>4. r \notin filed /\ filed' = filed \cup {r}
    BY <1>4 DEF SaveCapsule, Stores, Rooted
  <2>5. StoresTyped' /\ Accrues
    BY <1>4, <2>1, <2>2, <2>3, <2>4 DEF SaveCapsule, Stores, StoresTyped, Rooted, Accrues, evidence
  <2>6. run'[r] = "saving" /\ \A s \in Runs : s # r => run'[s] = run[s]
    BY <1>4 DEF SaveCapsule, Typed
  <2>7. Rooted'
    BY <2>1, <2>4, <2>6 DEF Stores, Rooted, evidence
  <2> QED
    BY <2>5, <2>7 DEF Stores
<1>5. CASE IndexCapsule(r)
  <2>1. Existing' = Existing /\ UNCHANGED <<evidence, view, contents, filed>>
    BY <1>5 DEF IndexCapsule, Existing, evidence
  <2>2. StoresTyped' /\ Accrues
    BY <2>1 DEF Stores, StoresTyped, Accrues, evidence
  <2>3. run'[r] = "live" /\ \A s \in Runs : s # r => run'[s] = run[s]
    BY <1>5 DEF IndexCapsule, Typed
  <2>4. Rooted'
    BY <2>1, <2>3 DEF Stores, Rooted, evidence
  <2> QED
    BY <2>2, <2>4 DEF Stores
<1>6. ASSUME NEW e \in Evidence, NEW from \in SUBSET Evidence, CreateEvidence(r, e, from)
      PROVE  Stores' /\ Accrues
  <2>1. /\ status[e] = "none" /\ run[r] = "live" /\ UNCHANGED <<run, view, contents, filed>>
        /\ status' = [status EXCEPT ![e] = "ACTIVE"]
        /\ derived' = [derived EXCEPT ![e] = from]
        /\ producer' = [producer EXCEPT ![e] = r]
    BY <1>6 DEF CreateEvidence, capsules
  <2>2. Existing' = Existing \cup {e} /\ e \notin Existing
    BY <2>1 DEF Existing, Stores, StoresTyped
  <2>3. StoresTyped'
    BY <2>1, <2>2 DEF Stores, StoresTyped
  <2>4. Accrues
    BY <2>1, <2>2 DEF Stores, StoresTyped, Accrues, MarkNames, Existing
  <2>5. Rooted'
    BY <2>1, <2>2 DEF Stores, StoresTyped, Rooted, Existing
  <2> QED
    BY <2>3, <2>4, <2>5 DEF Stores
<1> QED
  BY <1>1, <1>2, <1>3, <1>4, <1>5, <1>6 DEF RunStep

LEMMA TransitionStores ==
    ASSUME Stores, NEW t \in Tags, NEW e \in Evidence, NEW to \in DOMAIN Marks, Transition(t, e, to)
    PROVE  Stores' /\ Accrues /\ status'[e] \in MarkNames
<1>1. /\ status[e] # "none" /\ status' = [status EXCEPT ![e] = to] /\ to \in MarkNames
      /\ UNCHANGED <<derived, producer, run, view, contents, filed>>
  BY MarkFact DEF Transition, capsules
<1>2. Existing' = Existing
  BY <1>1 DEF Existing, Stores, StoresTyped, MarkNames
<1>3. StoresTyped' /\ Rooted'
  BY <1>1, <1>2 DEF Stores, StoresTyped, Rooted
<1>4. Accrues /\ status'[e] \in MarkNames
  BY <1>1, <1>2 DEF Stores, StoresTyped, Accrues
<1> QED
  BY <1>3, <1>4 DEF Stores

LEMMA RestartStores ==
    ASSUME Typed, Stores, Restart
    PROVE  Stores' /\ Accrues
<1>1. /\ Existing' = Existing /\ UNCHANGED <<evidence, contents, filed>>
      /\ \A r \in Runs : run'[r] = IF run[r] = "none" THEN "none" ELSE "over"
      /\ view' = [r \in Runs |-> {}]
  BY DEF Restart, Existing, evidence
<1>2. StoresTyped' /\ Accrues
  BY <1>1 DEF Stores, StoresTyped, Accrues, evidence
<1>3. Rooted'
  BY <1>1 DEF Stores, Rooted, evidence
<1> QED
  BY <1>2, <1>3 DEF Stores

-----------------------------------------------------------------------------
(* The graph, as far as the records are: it loses nothing and adds nothing. *)

Leads(n)         == LeadsTo(Database(Runs), n)
Follows(runs, n) == Successors(Database(runs), n)
Below(id)         == Downstream(Database(Runs), {id})
Reached(runs, id) == Reachable(Database(runs), {id})

LEMMA LeadsFact ==
    \A n : Leads(n) = {r \in filed : n \in contents[r]} \cup
                      {e \in Existing : n \in derived[e] \/ n = producer[e]}
BY DEF Leads, LeadsTo, Database, Existing

LEMMA FollowsFact ==
    \A runs, n :
        Follows(runs, n) =
            IF n \in Evidence
            THEN ({r \in filed : n \in contents[r] /\ n \in Existing} \cap runs)
                 \cup {d \in Existing : n \in derived[d]}
            ELSE {e \in Existing : producer[e] = n /\ n \in runs}
BY DEF Follows, Successors, Consumers, CapsulesWith, Derivatives,
       Products, Database, Existing

\* The projection of the runs of now has every edge of the records.
LEMMA NothingLost ==
    ASSUME Stores, NEW n \in Nodes
    PROVE  Leads(n) \subseteq Follows({r \in Runs : run[r] # "none"}, n)
<1> DEFINE runs == {r \in Runs : run[r] # "none"}
<1>1. filed \subseteq runs
  BY DEF Stores, Rooted
<1>2. CASE n \in Evidence
  <2>1. n \notin Runs /\ n # None
    BY <1>2, NodeIds
  <2>2. \A e \in Existing : n # producer[e]
    BY <2>1 DEF Stores, StoresTyped, Existing
  <2>3. \A r \in filed : n \in contents[r] => n \in Existing
    BY DEF Stores, StoresTyped, Rooted
  <2> QED
    BY <1>1, <1>2, <2>2, <2>3, LeadsFact, FollowsFact
<1>3. CASE n \notin Evidence
  <2>1. n \in Runs
    BY <1>3 DEF Nodes
  <2>2. \A r \in filed : n \notin contents[r]
    BY <1>3 DEF Stores, StoresTyped, Rooted, Existing
  <2>3. \A e \in Existing : n \notin derived[e] /\ (n = producer[e] => n \in runs)
    BY <1>3, <2>1 DEF Stores, StoresTyped, Rooted, Existing
  <2> QED
    BY <1>3, <2>2, <2>3, LeadsFact, FollowsFact
<1> QED
  BY <1>2, <1>3

LEMMA NothingAdded ==
    ASSUME NEW runs, NEW n
    PROVE  Follows(runs, n) \subseteq Leads(n)
BY LeadsFact, FollowsFact

LEMMA EdgesStay ==
    ASSUME Stores, Accrues
    PROVE  \A runs, n : /\ Leads(n) \subseteq Leads(n)'
                        /\ Follows(runs, n) \subseteq Follows(runs, n)'
<1>1. /\ \A e \in Existing : /\ e \in Existing' /\ derived'[e] = derived[e]
                            /\ producer'[e] = producer[e]
      /\ filed \subseteq filed' /\ \A r \in filed : contents'[r] = contents[r]
  BY DEF Accrues
<1>2. \A n : Leads(n)' = {r \in filed' : n \in contents'[r]} \cup
                         {e \in Existing' : n \in derived'[e] \/ n = producer'[e]}
  BY DEF Leads, LeadsTo, Database, Existing
<1>3. \A runs, n :
          Follows(runs, n)' =
              IF n \in Evidence
              THEN ({r \in filed' : n \in contents'[r] /\ n \in Existing'} \cap runs)
                   \cup {d \in Existing' : n \in derived'[d]}
              ELSE {e \in Existing' : producer'[e] = n /\ n \in runs}
  BY DEF Follows, Successors, Consumers, CapsulesWith, Derivatives,
         Products, Database, Existing
<1>4. ASSUME NEW n  PROVE Leads(n) \subseteq Leads(n)'
  BY <1>1, <1>2, LeadsFact
<1>5. ASSUME NEW runs, NEW n  PROVE Follows(runs, n) \subseteq Follows(runs, n)'
  <2>1. CASE n \in Evidence
    BY <1>1, <1>3, <2>1, FollowsFact
  <2>2. CASE n \notin Evidence
    BY <1>1, <1>3, <2>2, FollowsFact
  <2> QED
    BY <2>1, <2>2
<1> QED
  BY <1>4, <1>5

-----------------------------------------------------------------------------
(* Closures: more edges reach more.                                        *)

LEMMA BelowReached ==
    ASSUME NEW runs, NEW id, \A n \in Nodes : Leads(n) \subseteq Follows(runs, n)
    PROVE  Below(id) \subseteq Reached(runs, id)
BY DEF Below, Reached, Downstream, Reachable, IsClosed, Leads, Follows

LEMMA ReachedBelow ==
    ASSUME NEW runs, NEW id
    PROVE  Reached(runs, id) \subseteq Below(id)
<1>1. \A n : Follows(runs, n) \subseteq Leads(n)
  BY NothingAdded
<1> QED
  BY <1>1 DEF Below, Reached, Downstream, Reachable, IsClosed, Leads, Follows

LEMMA BelowGrows ==
    ASSUME Stores, Accrues, NEW id
    PROVE  Below(id) \subseteq Below(id)'
<1>1. \A n : Leads(n) \subseteq Leads(n)'
  BY EdgesStay
<1> QED
  BY <1>1 DEF Below, Downstream, Leads

LEMMA ReachedGrows ==
    ASSUME Stores, Accrues, NEW runs, NEW id
    PROVE  Reached(runs, id) \subseteq Reached(runs, id)'
<1>1. \A n : Follows(runs, n) \subseteq Follows(runs, n)'
  BY EdgesStay
<1> QED
  BY <1>1 DEF Reached, Reachable, IsClosed, Follows

-----------------------------------------------------------------------------
(* What a revoke or compromise request still owes.                         *)

Owes(g) ==
    /\ g.at # "idle" => status[g.id] \in MarkNames
    /\ g.at = "graph" => g.due \subseteq Reached(g.runs, g.id)
    /\ g.at = "mark" => g.runs \subseteq Below(g.id)
    /\ g.at \in {"mark", "done"} => \A r \in g.due :
          (g.at = "mark" /\ r \in g.runs) \/ Marked(r, g.id, Marks[g.to])

MarkInv == Inv /\ Stores /\ \A t \in Tags, g \in TagTypes : tag[t] = g => Owes(g)

LEMMA MarkedStays ==
    ASSUME Typed, Typed', Grown, NEW r \in Runs, NEW e, NEW m, Marked(r, e, m)
    PROVE  Marked(r, e, m)'
<1>1. PICK i \in 1..Len(history[r]) : history[r][i].trigger = e /\ history[r][i].state = m
  BY DEF Marked
<1>2. Len(history[r]) \in Nat /\ Len(history'[r]) \in Nat
  BY DEF Typed
<1>3. i \in 1..Len(history'[r]) /\ history'[r][i] = history[r][i]
  BY <1>2 DEF Grown
<1> QED
  BY <1>1, <1>3 DEF Marked

LEMMA OwesKept ==
    ASSUME Typed, Typed', Stores, Accrues, Grown,
           NEW g \in TagTypes, g.at # "idle" => g.id \in Evidence, Owes(g)
    PROVE  Owes(g)'
<1>1. g.at # "idle" => status'[g.id] \in MarkNames
  BY DEF Owes, Accrues
<1>2. g.at = "graph" => g.due \subseteq Reached(g.runs, g.id)'
  BY ReachedGrows DEF Owes
<1>3. g.at = "mark" => g.runs \subseteq Below(g.id)'
  BY BelowGrows DEF Owes
<1>4. g.due \subseteq Runs
  BY DEF TagTypes
<1>5. g.at \in {"mark", "done"} => \A r \in g.due :
          (g.at = "mark" /\ r \in g.runs) \/ Marked(r, g.id, Marks[g.to])'
  BY <1>4, MarkedStays DEF Owes
<1> QED
  BY <1>1, <1>2, <1>3, <1>5 DEF Owes

LEMMA OwesAll ==
    ASSUME MarkInv, NEW t \in Tags
    PROVE  Owes(tag[t]) /\ tag[t] \in TagTypes /\ (tag[t].at # "idle" => tag[t].id \in Evidence)
BY DEF MarkInv, Inv, Typed, TagTyped

LEMMA SameTags ==
    ASSUME MarkInv, Inv', Stores', Accrues, Grown, tag' = tag
    PROVE  MarkInv'
<1> SUFFICES ASSUME NEW t \in Tags, NEW g \in TagTypes, tag[t] = g
             PROVE  Owes(g)'
  BY DEF MarkInv
<1> QED
  BY OwesAll, OwesKept DEF MarkInv, Inv

LEMMA OneTag ==
    ASSUME MarkInv, Inv', Stores', Accrues, Grown,
           NEW t \in Tags, NEW g \in TagTypes, tag' = [tag EXCEPT ![t] = g], Owes(g)'
    PROVE  MarkInv'
<1> SUFFICES ASSUME NEW s \in Tags, NEW h \in TagTypes, tag'[s] = h
             PROVE  Owes(h)'
  BY DEF MarkInv
<1>1. tag \in [Tags -> TagTypes]
  BY DEF MarkInv, Inv, Typed, TagTyped
<1>2. CASE s = t
  BY <1>1, <1>2
<1>3. CASE s # t
  <2>1. tag[s] = h
    BY <1>1, <1>3
  <2> QED
    BY <2>1, OwesAll, OwesKept DEF MarkInv, Inv
<1> QED
  BY <1>2, <1>3

LEMMA TagStores ==
    ASSUME MarkInv, UNCHANGED <<evidence, capsules>>
    PROVE  Stores' /\ Accrues
BY StoresSame DEF MarkInv

LEMMA TransitionMarks ==
    ASSUME MarkInv, NEW t \in Tags, NEW e \in Evidence, NEW to \in DOMAIN Marks, Transition(t, e, to)
    PROVE  MarkInv'
<1>1. Inv' /\ Stores' /\ Accrues /\ status'[e] \in MarkNames
  BY TransitionKeeps, TransitionStores DEF MarkInv
<1>2. Grown
  BY SameHistory DEF Transition, MarkInv, Inv
<1>3. PICK g \in TagTypes : tag' = [tag EXCEPT ![t] = g] /\ g.at = "event" /\ g.id = e
  BY TransitionFact DEF MarkInv, Inv, Typed
<1>4. Owes(g)'
  BY <1>1, <1>3 DEF Owes
<1> QED
  BY <1>1, <1>2, <1>3, <1>4, OneTag

LEMMA EmitMarks ==
    ASSUME MarkInv, NEW t \in Tags, EmitTransition(t)
    PROVE  MarkInv'
<1>1. Inv' /\ Stores' /\ Accrues /\ Grown
  BY TagKeeps, TagStores, SameHistory DEF MarkInv, Inv, TagStep, EmitTransition
<1>2. PICK g \in TagTypes :
          /\ Moves(t, g) /\ g.at = "graph" /\ g.runs = InStore
          /\ g.due = Due(tag[t].id) \cap Runs
  BY EmitFact DEF MarkInv, Inv, Typed
<1>3. g.id = tag[t].id
  BY <1>2 DEF Moves
<1>4. g.due \subseteq Reached(g.runs, g.id)
  <2>1. CASE deleted = {}
    <3>1. g.runs = {r \in Runs : run[r] # "none"}
      BY <1>2, <2>1 DEF InStore
    <3>2. Below(g.id) \subseteq Reached(g.runs, g.id)
      BY <3>1, NothingLost, BelowReached DEF MarkInv
    <3> QED
      BY <1>2, <1>3, <2>1, <3>2 DEF Due, Below
  <2>2. CASE deleted # {}
    BY <1>2, <1>3, <2>2 DEF Due, Reached
  <2> QED
    BY <2>1, <2>2
<1>5. Reached(g.runs, g.id) \subseteq Reached(g.runs, g.id)'
  BY <1>1, ReachedGrows DEF MarkInv
<1>6. status'[g.id] \in MarkNames
  <2>1. tag[t].at # "idle" /\ g.id = tag[t].id
    BY <1>2 DEF EmitTransition, Moves
  <2> QED
    BY <1>1, <2>1, OwesAll DEF Owes, Accrues
<1>7. Owes(g)'
  BY <1>2, <1>4, <1>5, <1>6 DEF Owes
<1> QED
  BY <1>1, <1>2, <1>7, OneTag DEF Moves

LEMMA BuildMarks ==
    ASSUME MarkInv, NEW t \in Tags, BuildGraph(t)
    PROVE  MarkInv'
<1>1. Inv' /\ Stores' /\ Accrues /\ Grown
  BY TagKeeps, TagStores, SameHistory DEF MarkInv, Inv, TagStep, BuildGraph
<1>2. PICK d \in TagTypes : d = tag[t] /\ Owes(d) /\ d.at = "graph" /\ d.id \in Evidence
  BY OwesAll DEF BuildGraph
<1>3. PICK left \in SUBSET Runs : left = Reached(d.runs, d.id) \cap Runs /\ Marking(t, left)
  BY <1>2 DEF BuildGraph, Reached
<1>4. PICK g \in TagTypes : /\ Moves(t, g) /\ g.runs = left /\ g.due = d.due
                            /\ g.at = IF left = {} THEN "done" ELSE "mark"
  <2>1. PICK g \in TagTypes : /\ Moves(t, g) /\ g.runs = left /\ g.due = tag[t].due
                              /\ g.at = IF left = {} THEN "done" ELSE "mark"
    BY <1>3, MarkingFact DEF MarkInv, Inv, Typed
  <2> QED
    BY <1>2, <2>1
<1>5. g.id = d.id /\ status'[g.id] \in MarkNames
  BY <1>1, <1>2, <1>4 DEF Moves, Owes, Accrues
<1>6. g.runs \subseteq Below(g.id)'
  BY <1>1, <1>3, <1>4, <1>5, ReachedBelow, BelowGrows DEF MarkInv
<1>7. g.due \subseteq g.runs
  BY <1>2, <1>3, <1>4 DEF Owes, TagTypes
<1>8. Owes(g)'
  BY <1>4, <1>5, <1>6, <1>7 DEF Owes
<1> QED
  BY <1>1, <1>4, <1>8, OneTag DEF Moves

\* The entry a mark adds.
LEMMA MarkRunFact ==
    ASSUME MarkInv, NEW t \in Tags, NEW r \in Runs, MarkRun(t, r)
    PROVE  /\ Grown /\ \A s \in Runs : s # r => history'[s] = history[s]
           /\ Len(history[r]) \in Nat /\ Len(history'[r]) = Len(history[r]) + 1
           /\ history'[r][Len(history[r]) + 1].trigger = tag[t].id
           /\ history'[r][Len(history[r]) + 1].state = Marks[tag[t].to]
<1>1. /\ Marks[tag[t].to] \in {"STALE", "TAINTED"} /\ tag[t].id \in Evidence
  BY MarkFact DEF MarkRun, MarkInv, Inv, Typed, TagTyped
<1>2. PICK m \in {"STALE", "TAINTED"} : m = Marks[tag[t].to]
  BY <1>1
<1>3. PICK e : e = [state |-> m, trigger |-> tag[t].id, by |-> None]
  OBVIOUS
<1>4. e \in Entries /\ e.state = m /\ e.trigger = tag[t].id
  BY <1>1, <1>3 DEF Entries, States
<1>5. history' = [history EXCEPT ![r] = Append(@, e)]
  BY <1>2, <1>3 DEF MarkRun, MayMark
<1> QED
  BY <1>2, <1>4, <1>5, AppendFact DEF MarkInv, Inv

LEMMA MarkRunMarks ==
    ASSUME MarkInv, NEW t \in Tags, NEW r \in Runs, MarkRun(t, r)
    PROVE  MarkInv'
<1>1. Inv' /\ Stores' /\ Accrues
  BY TagKeeps, TagStores DEF MarkInv, TagStep, MarkRun
<1>2. PICK d \in TagTypes : d = tag[t] /\ Owes(d) /\ d.at = "mark" /\ d.id \in Evidence
  BY OwesAll DEF MarkRun
<1>3. /\ Grown /\ Len(history[r]) \in Nat /\ Len(history'[r]) = Len(history[r]) + 1
      /\ history'[r][Len(history[r]) + 1].trigger = d.id
      /\ history'[r][Len(history[r]) + 1].state = Marks[d.to]
  BY <1>2, MarkRunFact
<1>4. PICK left \in SUBSET Runs : left = d.runs \ {r} /\ Marking(t, left)
  BY <1>2 DEF MarkRun, TagTypes
<1>5. PICK g \in TagTypes : /\ Moves(t, g) /\ g.runs = left /\ g.due = d.due
                            /\ g.at = IF left = {} THEN "done" ELSE "mark"
  <2>1. PICK g \in TagTypes : /\ Moves(t, g) /\ g.runs = left /\ g.due = tag[t].due
                              /\ g.at = IF left = {} THEN "done" ELSE "mark"
    BY <1>4, MarkingFact DEF MarkInv, Inv, Typed
  <2> QED
    BY <1>2, <2>1
<1>6. g.id = d.id /\ g.to = d.to /\ status'[g.id] \in MarkNames
  BY <1>1, <1>2, <1>5 DEF Moves, Owes, Accrues
<1>7. g.runs \subseteq Below(g.id)'
  BY <1>1, <1>2, <1>4, <1>5, <1>6, BelowGrows DEF MarkInv, Owes
<1>8. ASSUME NEW s \in g.due
      PROVE  (g.at = "mark" /\ s \in g.runs) \/ Marked(s, g.id, Marks[g.to])'
  <2>1. CASE s = r
    <3>1. Len(history[r]) + 1 \in 1..Len(history'[r])
      BY <1>3
    <3> QED
      BY <1>3, <1>6, <2>1, <3>1 DEF Marked
  <2>2. CASE s # r /\ s \in d.runs
    BY <1>4, <1>5, <2>2
  <2>3. CASE s \notin d.runs
    <3>1. s \in Runs /\ Marked(s, d.id, Marks[d.to])
      BY <1>2, <1>5, <2>3 DEF Owes, TagTypes
    <3> QED
      BY <1>1, <1>3, <1>6, <3>1, MarkedStays DEF MarkInv, Inv
  <2> QED
    BY <2>1, <2>2, <2>3
<1>9. Owes(g)'
  BY <1>5, <1>6, <1>7, <1>8 DEF Owes
<1> QED
  BY <1>1, <1>3, <1>5, <1>9, OneTag DEF Moves

LEMMA TagThrowMarks ==
    ASSUME MarkInv, NEW t \in Tags, TagThrows(t)
    PROVE  MarkInv'
<1>1. Inv' /\ Stores' /\ Accrues /\ Grown
  BY TagKeeps, TagStores, SameHistory DEF MarkInv, Inv, TagThrows
<1>2. PICK g \in TagTypes : Moves(t, g) /\ g.at = "threw"
  BY TagThrowFact DEF MarkInv, Inv, Typed
<1>3. status'[g.id] \in MarkNames
  <2>1. tag[t].at # "idle" /\ g.id = tag[t].id
    BY <1>2 DEF TagThrows, Moves
  <2> QED
    BY <1>1, <2>1, OwesAll DEF Owes, Accrues
<1>4. Owes(g)'
  BY <1>2, <1>3 DEF Owes
<1> QED
  BY <1>1, <1>2, <1>4, OneTag DEF Moves

\* The entry a recovery adds names no evidence.
LEMMA RecoverFact ==
    ASSUME MarkInv, NEW q \in Requests, ReconcileStep(q)
    PROVE  /\ Grown
           /\ \A r \in Runs : history'[r] # history[r] => NewEntry(r).trigger = None
<1>1. CASE history' = history
  BY <1>1, SameHistory DEF MarkInv, Inv
<1>2. CASE MarkRecovered(q) /\ history' # history
  <2>1. PICK d \in RequestTypes : d = request[q] /\ d.stale \in Runs /\ d.by \in Runs
    BY <1>2, HeadPromise DEF MarkInv, MarkRecovered, At, Promise, InQueue, Begun, RequestTypes
  <2>2. PICK e : e = [state |-> "RECOVERED", trigger |-> None, by |-> d.by]
    OBVIOUS
  <2>3. e \in Entries /\ e.trigger = None
    BY <2>1, <2>2 DEF Entries, States
  <2>4. history' = [history EXCEPT ![d.stale] = Append(@, e)]
    BY <1>2, <2>1, <2>2 DEF MarkRecovered
  <2>5. /\ Grown /\ \A s \in Runs : s # d.stale => history'[s] = history[s]
        /\ Len(history'[d.stale]) = Len(history[d.stale]) + 1
        /\ history'[d.stale][Len(history[d.stale]) + 1] = e
    BY <2>1, <2>3, <2>4, AppendFact DEF MarkInv, Inv
  <2> QED
    BY <2>3, <2>5 DEF NewEntry
<1>3. history' = history \/ MarkRecovered(q)
  BY DEF ReconcileStep, CheckRun, EmitReconciliation, StartReplacement, Poll, AppendRecord
<1> QED
  BY <1>1, <1>2, <1>3

LEMMA ReconcileMarks ==
    ASSUME MarkInv, NEW q \in Requests,
           ReconcileStep(q) \/ ReconcileThrows(q) \/ \E r \in Runs : Reconcile(q, r)
    PROVE  MarkInv'
<1>1. Inv'
  BY CheckRunKeeps, EmitKeeps, StartKeeps, PollKeeps, MarkRecoveredKeeps, AppendRecordKeeps,
     ReconcileThrowsKeeps, ReconcileKeeps DEF ReconcileStep, MarkInv
<1>2. tag' = tag
  BY DEF ReconcileStep, CheckRun, EmitReconciliation, StartReplacement, Poll, MarkRecovered,
         AppendRecord, ReconcileThrows, Reconcile
<1>3. Grown
  <2>1. CASE ReconcileStep(q)
    BY <2>1, RecoverFact
  <2>2. CASE ~ ReconcileStep(q)
    BY <2>2, SameHistory DEF MarkInv, Inv, ReconcileThrows, Reconcile
  <2> QED
    BY <2>1, <2>2
<1>4. Stores' /\ Accrues
  <2>1. CASE StartReplacement(q)
    <3>1. UNCHANGED <<evidence, view, contents, filed>> /\ indexed' = indexed
      BY <2>1 DEF StartReplacement
    <3>2. CASE run' = run
      <4>1. UNCHANGED <<evidence, capsules>>
        BY <3>1, <3>2 DEF capsules
      <4> QED
        BY <4>1, TagStores
    <3>3. ASSUME NEW r \in Runs, run[r] = "none", Admitted(r)  PROVE Stores' /\ Accrues
      BY <3>1, <3>3, AdmitStores DEF MarkInv, Inv
    <3> QED
      BY <2>1, <3>2, <3>3 DEF StartReplacement
  <2>2. CASE UNCHANGED <<evidence, capsules>>
    BY <2>2, TagStores
  <2>3. StartReplacement(q) \/ UNCHANGED <<evidence, capsules>>
    BY DEF ReconcileStep, CheckRun, EmitReconciliation, Poll, MarkRecovered, AppendRecord,
           ReconcileThrows, Reconcile
  <2> QED
    BY <2>1, <2>2, <2>3
<1> QED
  BY <1>1, <1>2, <1>3, <1>4, SameTags

LEMMA RestartMarks ==
    ASSUME MarkInv, Restart
    PROVE  MarkInv'
<1>1. Inv' /\ Stores' /\ Accrues /\ Grown
  <2>1. Grown
    BY SameHistory DEF MarkInv, Inv, Restart
  <2> QED
    BY <2>1, RestartKeeps, RestartStores DEF MarkInv, Inv
<1> SUFFICES ASSUME NEW t \in Tags, NEW g \in TagTypes, tag'[t] = g
             PROVE  Owes(g)'
  BY <1>1 DEF MarkInv
<1>2. PICK d \in TagTypes : d = tag[t] /\ Owes(d) /\ (d.at # "idle" => d.id \in Evidence)
  BY OwesAll
<1>3. g = IF d.at \in InTransit THEN [d EXCEPT !.at = "threw"] ELSE d
  BY <1>2 DEF Restart
<1>4. CASE d.at \in InTransit
  <2>1. g = [d EXCEPT !.at = "threw"]
    BY <1>3, <1>4
  <2>2. g.at = "threw" /\ g.id = d.id
    BY <1>2, <2>1 DEF TagTypes
  <2>3. status'[g.id] \in MarkNames
    BY <1>1, <1>2, <1>4, <2>2 DEF Owes, Accrues, InTransit
  <2> QED
    BY <2>2, <2>3 DEF Owes
<1>5. CASE d.at \notin InTransit
  BY <1>1, <1>2, <1>3, <1>5, OwesKept DEF MarkInv, Inv
<1> QED
  BY <1>4, <1>5

LEMMA MarkInitially ==
    ASSUME Init
    PROVE  MarkInv
<1>1. \A t \in Tags : tag[t].at = "idle"
  BY DEF Init, NoTag
<1>2. \A g : g.at = "idle" => Owes(g)
  BY DEF Owes
<1> QED
  BY <1>1, <1>2, Initially, StoresInitially DEF MarkInv

LEMMA MarkSteps ==
    ASSUME MarkInv, [Next]_vars
    PROVE  MarkInv'
<1>1. CASE UNCHANGED vars
  BY <1>1, Steps, TagStores, SameHistory, SameTags DEF vars, MarkInv, Inv
<1>2. ASSUME NEW r \in Runs, RunStep(r)  PROVE MarkInv'
  <2>1. UNCHANGED <<history, tag>>
    BY <1>2 DEF RunStep, SendMessage, ListCandidates, RefuseCapsule, SaveCapsule, IndexCapsule,
                CreateEvidence
  <2>2. Stores' /\ Accrues /\ Inv' /\ Grown
    BY <1>2, <2>1, RunStores, RunKeeps, SameHistory DEF MarkInv, Inv
  <2> QED
    BY <2>1, <2>2, SameTags
<1>3. ASSUME NEW t \in Tags, NEW e \in Evidence, NEW to \in DOMAIN Marks, Transition(t, e, to)
      PROVE  MarkInv'
  BY <1>3, TransitionMarks
<1>4. ASSUME NEW t \in Tags, TagStep(t) \/ TagThrows(t)  PROVE MarkInv'
  BY <1>4, EmitMarks, BuildMarks, MarkRunMarks, TagThrowMarks DEF TagStep
<1>5. ASSUME NEW q \in Requests,
             ReconcileStep(q) \/ ReconcileThrows(q) \/ \E r \in Runs : Reconcile(q, r)
      PROVE  MarkInv'
  BY <1>5, ReconcileMarks
<1>6. ASSUME NEW runs, RunsDeleted(runs)  PROVE MarkInv'
  <2>1. Inv'
    BY <1>6, QuietKeeps DEF RunsDeleted, capsules, MarkInv, Inv, Typed, TagTyped
  <2> QED
    BY <1>6, <2>1, TagStores, SameHistory, SameTags DEF RunsDeleted, MarkInv, Inv
<1>7. CASE Restart
  BY <1>7, RestartMarks
<1> QED
  BY <1>1, <1>2, <1>3, <1>4, <1>5, <1>6, <1>7 DEF Next

\* README section 9 (walnut-routes.ts:107-133, 179-200): whatever runs save their capsules
\* and whatever reconciliations and deletions go on while the stores are read one after
\* the other, a request answered without an error has marked every run downstream of
\* its evidence; if an Agent was deleted before it read the runs, every run that is so
\* by way of runs still in the store.
THEOREM Reaches == Spec => []TaintReaches
<1>1. MarkInv => TaintReaches
  BY OwesAll DEF TaintReaches, Owes
<1> QED
  BY <1>1, MarkInitially, MarkSteps, PTL DEF Spec

\* INV-8, INV-12 (blast-radius.ts, run-state.ts:83-96): a run is marked only for evidence
\* that is invalid at that moment, and from which what its capsule holds came.
THEOREM Justified == Spec => MarksAreJustified
<1>1. ASSUME MarkInv, [Next]_vars, NEW r \in Runs, history'[r] # history[r],
             NewEntry(r).trigger # None
      PROVE  /\ status[NewEntry(r).trigger] \in DOMAIN Marks
             /\ r \in Downstream(Database(Runs), {NewEntry(r).trigger})
  <2>1. ASSUME NEW q \in Requests, ReconcileStep(q)  PROVE FALSE
    BY <1>1, <2>1, RecoverFact
  <2>2. PICK t \in Tags, s \in Runs : MarkRun(t, s)
    BY <1>1, <2>1 DEF Next, vars, RunStep, SendMessage, ListCandidates, RefuseCapsule,
       SaveCapsule, IndexCapsule, CreateEvidence, Transition, TagStep, EmitTransition,
       BuildGraph, TagThrows, Reconcile, ReconcileThrows, RunsDeleted, Restart
  <2>3. s = r
    BY <1>1, <2>2, MarkRunFact
  <2>4. NewEntry(r).trigger = tag[t].id
    BY <1>1, <2>2, <2>3, MarkRunFact DEF NewEntry
  <2>5. Owes(tag[t]) /\ tag[t].at = "mark" /\ r \in tag[t].runs
    BY <1>1, <2>2, <2>3, OwesAll DEF MarkRun
  <2> QED
    BY <2>4, <2>5, MarkFact DEF Owes, Below
<1>2. MarkInv /\ [Next]_vars =>
          [\A r \in Runs : history'[r] # history[r] /\ NewEntry(r).trigger # None =>
              /\ status[NewEntry(r).trigger] \in DOMAIN Marks
              /\ r \in Downstream(Database(Runs), {NewEntry(r).trigger})]_vars
  BY <1>1
<1> QED
  BY <1>2, MarkInitially, MarkSteps, PTL DEF Spec, MarksAreJustified

-----------------------------------------------------------------------------
(* The walk recovery asks for its taints.  BlastRadius has it over records *)
(* that accumulate in every way they can, with variables of its own.       *)


-----------------------------------------------------------------------------
(* What the walk moves on to is a node of the right type.                  *)

LEMMA SuccessorTypes ==
    ASSUME db \in Databases, NEW n
    PROVE  /\ Consumers(db, n) \subseteq Runs
           /\ CapsulesWith(db, n) \subseteq Runs
           /\ Derivatives(db, n) \subseteq Evidence
           /\ ArtifactsFrom(db, n) \subseteq Runs
           /\ Products(db, n) \subseteq Evidence
           /\ Changes(db, n) \subseteq Runs
           /\ Executors(db, n) \subseteq Agents
           /\ Citations(db, n) \subseteq Evidence
BY DEF Databases, Consumers, CapsulesWith, Derivatives, ArtifactsFrom, Products,
       Changes, Executors, Citations

Radii == [evidenceIds : SUBSET Evidence, derivedEvidenceIds : SUBSET Evidence,
          capsuleIds : SUBSET Runs, runIds : SUBSET Runs,
          agentIds : SUBSET Agents, artifactIds : SUBSET Runs]

-----------------------------------------------------------------------------
(* Type correctness.                                                       *)

LEMMA RecordsTypes ==
    ASSUME db \in Databases, Record
    PROVE  db' \in Databases /\ UNCHANGED <<trigger, frontier, visited, radius>>
<1>1. ASSUME NEW r \in Runs, NEW items \in SUBSET Evidence, StartRun(r, items)
      PROVE  db' \in Databases /\ UNCHANGED <<trigger, frontier, visited, radius>>
  BY <1>1 DEF StartRun, Records, Databases
<1>2. ASSUME NEW r \in Runs, StartRefusedRun(r)
      PROVE  db' \in Databases /\ UNCHANGED <<trigger, frontier, visited, radius>>
  BY <1>2 DEF StartRefusedRun, Records, Databases
<1>3. ASSUME NEW r \in Runs, CaptureAfter(r)
      PROVE  db' \in Databases /\ UNCHANGED <<trigger, frontier, visited, radius>>
  BY <1>3 DEF CaptureAfter, Records, Databases
<1>4. ASSUME NEW e \in Evidence, NEW from \in SUBSET Evidence, AddEvidence(e, from)
      PROVE  db' \in Databases /\ UNCHANGED <<trigger, frontier, visited, radius>>
  BY <1>4 DEF AddEvidence, Records, Databases
<1>5. ASSUME NEW a \in Agents, DeleteAgent(a)
      PROVE  db' \in Databases /\ UNCHANGED <<trigger, frontier, visited, radius>>
  BY <1>5 DEF DeleteAgent, Records, Databases
<1> QED
  BY <1>1, <1>2, <1>3, <1>4, <1>5 DEF Record

\* The walk and the records it walks keep their types.
THEOREM RadiusTypeCorrect == RadiusSpec => []RadiusTypeOK
<1>1. RadiusInit => RadiusTypeOK
  BY DEF RadiusInit, RadiusTypeOK, Databases, NoTrigger, NoRadius, Nodes
<1>2. RadiusTypeOK /\ [RadiusNext]_radiusVars => RadiusTypeOK'
  <2> SUFFICES ASSUME RadiusTypeOK, [RadiusNext]_radiusVars PROVE RadiusTypeOK'
    OBVIOUS
  <2>0. db \in Databases /\ radius \in Radii
    BY DEF RadiusTypeOK, Radii
  <2>1. CASE Record
    BY <2>1, <2>0, RecordsTypes DEF RadiusTypeOK
  <2>2. ASSUME NEW e \in Evidence, TriggerEvidence(e) PROVE RadiusTypeOK'
    BY <2>2 DEF RadiusTypeOK, TriggerEvidence, Nodes
  <2>3. ASSUME NEW s \in Sources, TriggerSource(s) PROVE RadiusTypeOK'
    <3>1. Citations(db, s) \subseteq Evidence
      BY <2>0, SuccessorTypes
    <3>2. radius' \in Radii
      BY <3>1, <2>0, <2>3 DEF TriggerSource, Radii
    <3> QED
      BY <3>1, <3>2, <2>3 DEF RadiusTypeOK, TriggerSource, Nodes, Radii
  <2>4. CASE TriggerGrant
    BY <2>4 DEF RadiusTypeOK, TriggerGrant
  <2>5. ASSUME NEW n \in Nodes, VisitEvidence(n) PROVE RadiusTypeOK'
    <3>1. /\ Consumers(db, n) \subseteq Runs
          /\ CapsulesWith(db, n) \subseteq Runs
          /\ Derivatives(db, n) \subseteq Evidence
          /\ ArtifactsFrom(db, n) \subseteq Runs
      BY <2>0, SuccessorTypes
    <3>2. radius' \in Radii
      BY <3>1, <2>0, <2>5 DEF VisitEvidence, Radii
    <3>3. frontier' \subseteq Nodes /\ visited' \subseteq Evidence
      BY <3>1, <2>5 DEF RadiusTypeOK, VisitEvidence, Contaminate, Nodes
    <3> QED
      BY <3>2, <3>3, <2>5 DEF RadiusTypeOK, VisitEvidence, Radii
  <2>6. ASSUME NEW n \in Nodes, VisitRun(n) PROVE RadiusTypeOK'
    <3>1. /\ Products(db, n) \subseteq Evidence
          /\ Changes(db, n) \subseteq Runs
          /\ Executors(db, n) \subseteq Agents
      BY <2>0, SuccessorTypes
    <3>2. radius' \in Radii
      BY <3>1, <2>0, <2>6 DEF VisitRun, Radii
    <3>3. frontier' \subseteq Nodes /\ visited' \subseteq Evidence
      BY <3>1, <2>6 DEF RadiusTypeOK, VisitRun, Contaminate, Nodes
    <3> QED
      BY <3>2, <3>3, <2>6 DEF RadiusTypeOK, VisitRun, Radii
  <2>7. CASE UNCHANGED radiusVars
    BY <2>7 DEF RadiusTypeOK, radiusVars
  <2> QED
    BY <2>1, <2>2, <2>3, <2>4, <2>5, <2>6, <2>7 DEF RadiusNext, Trigger, Walk
<1> QED
  BY <1>1, <1>2, PTL DEF RadiusSpec

-----------------------------------------------------------------------------
(* The invariant of the walk: whatever has been found and is no longer in  *)
(* the queue has its successors found, and nothing is found that does not  *)
(* lie in every closed set around the seeds.                               *)

Found    == visited \cup radius.runIds
Idle     == trigger = NoTrigger => frontier = {} /\ Found = {}
Seeded   == trigger # NoTrigger => Seeds \subseteq visited /\ frontier \subseteq Found
Expanded == \A n \in Found \ frontier : Successors(db, n) \subseteq Found
Minimal  == \A S \in SUBSET Nodes : Seeds \subseteq S /\ IsClosed(S, db) => Found \subseteq S
WalkInv  == Idle /\ Seeded /\ Expanded /\ Minimal

\* One item of the queue: what it leads to is found, and joins the queue.
LEMMA VisitStep ==
    ASSUME NEW n \in frontier, WalkInv, trigger # NoTrigger,
           UNCHANGED <<db, trigger>>, visited \subseteq visited',
           Found' = Found \cup Successors(db, n),
           frontier' = (frontier \ {n}) \cup (Successors(db, n) \ Found)
    PROVE  WalkInv'
<1>1. Seeds' = Seeds
  BY DEF Seeds
<1>2. n \in Found
  BY DEF WalkInv, Seeded
<1>3. Idle' /\ Seeded'
  BY <1>1, <1>2 DEF WalkInv, Idle, Seeded
<1>4. Expanded'
  <2> SUFFICES ASSUME NEW m \in Found' \ frontier' PROVE Successors(db, m) \subseteq Found'
    BY DEF Expanded
  <2>1. CASE m = n
    BY <2>1
  <2>2. CASE m # n
    BY <2>2 DEF WalkInv, Expanded
  <2> QED
    BY <2>1, <2>2
<1>5. Minimal'
  <2> SUFFICES ASSUME NEW S \in SUBSET Nodes, Seeds \subseteq S, IsClosed(S, db)
               PROVE  Found' \subseteq S
    BY <1>1 DEF Minimal, IsClosed
  <2>1. Found \subseteq S
    BY DEF WalkInv, Minimal
  <2>2. Successors(db, n) \subseteq S
    BY <1>2, <2>1 DEF IsClosed
  <2> QED
    BY <2>1, <2>2
<1> QED
  BY <1>3, <1>4, <1>5 DEF WalkInv

LEMMA SeedStep ==
    ASSUME UNCHANGED db, trigger' # NoTrigger, Found' = Seeds', visited' = Seeds',
           frontier' = Seeds'
    PROVE  WalkInv'
BY DEF WalkInv, Idle, Seeded, Expanded, Minimal

LEMMA WalkInvariant == RadiusSpec => []WalkInv
<1>1. RadiusInit => WalkInv
  BY DEF RadiusInit, WalkInv, Idle, Seeded, Expanded, Minimal, Found, NoTrigger, NoRadius
<1>2. RadiusTypeOK /\ WalkInv /\ [RadiusNext]_radiusVars => WalkInv'
  <2> SUFFICES ASSUME RadiusTypeOK, WalkInv, [RadiusNext]_radiusVars PROVE WalkInv'
    OBVIOUS
  <2>0. db \in Databases /\ radius \in Radii /\ visited \subseteq Evidence
    BY DEF RadiusTypeOK, Radii
  <2>1. CASE Record
    <3>1. trigger = NoTrigger
      BY <2>1 DEF Record, StartRun, StartRefusedRun, CaptureAfter, AddEvidence,
                  DeleteAgent, Records
    <3>2. UNCHANGED <<trigger, frontier, visited, radius>>
      BY <2>0, <2>1, RecordsTypes
    <3>3. frontier' = {} /\ Found' = {}
      BY <3>1, <3>2 DEF WalkInv, Idle, Found
    <3> QED
      BY <3>1, <3>2, <3>3 DEF WalkInv, Idle, Seeded, Expanded, Minimal
  <2>2. ASSUME NEW e \in Evidence, TriggerEvidence(e) PROVE WalkInv'
    <3>1. trigger' # NoTrigger /\ Seeds' = {e} /\ UNCHANGED db
      BY <2>2 DEF TriggerEvidence, NoTrigger, Seeds
    <3>2. Found' = {e} /\ visited' = {e} /\ frontier' = {e}
      BY <2>2 DEF TriggerEvidence, WalkInv, Idle, Found
    <3> QED
      BY <3>1, <3>2, SeedStep
  <2>3. ASSUME NEW s \in Sources, TriggerSource(s) PROVE WalkInv'
    <3>1. trigger' # NoTrigger /\ Seeds' = Citations(db, s) /\ UNCHANGED db
      BY <2>3 DEF TriggerSource, NoTrigger, Seeds, Citations
    <3>2. radius.runIds = {} /\ radius'.runIds = radius.runIds
      BY <2>0, <2>3 DEF TriggerSource, WalkInv, Idle, Found, Radii
    <3>3. /\ Found' = Citations(db, s) /\ visited' = Citations(db, s)
          /\ frontier' = Citations(db, s)
      BY <3>2, <2>3 DEF TriggerSource, Found
    <3> QED
      BY <3>1, <3>3, SeedStep
  <2>4. CASE TriggerGrant
    <3>1. trigger' # NoTrigger /\ Seeds' = {} /\ UNCHANGED db
      BY <2>4 DEF TriggerGrant, NoTrigger, Seeds
    <3>2. Found' = {} /\ visited' = {} /\ frontier' = {}
      BY <2>4 DEF TriggerGrant, WalkInv, Idle, Found
    <3> QED
      BY <3>1, <3>2, SeedStep
  <2>5. ASSUME NEW n \in Nodes, VisitEvidence(n) PROVE WalkInv'
    <3>1. /\ Consumers(db, n) \subseteq Runs
          /\ Derivatives(db, n) \subseteq Evidence
      BY <2>0, SuccessorTypes
    <3>2. n \in frontier /\ n \in Evidence /\ UNCHANGED <<db, trigger>>
      BY <2>5 DEF VisitEvidence
    <3>3. Successors(db, n) = Consumers(db, n) \cup Derivatives(db, n)
      BY <3>2 DEF Successors
    <3>4. radius'.runIds = radius.runIds \cup Consumers(db, n)
      BY <2>0, <2>5 DEF VisitEvidence, Radii
    <3>5. visited' = visited \cup Derivatives(db, n)
      BY <2>5 DEF VisitEvidence, Contaminate
    <3>6. frontier' = (frontier \ {n}) \cup (Derivatives(db, n) \ visited)
                      \cup (Consumers(db, n) \ radius.runIds)
      BY <2>5 DEF VisitEvidence, Contaminate
    <3>7. Found' = Found \cup Successors(db, n)
      BY <3>3, <3>4, <3>5 DEF Found
    <3>8. frontier' = (frontier \ {n}) \cup (Successors(db, n) \ Found)
      <4>1. radius.runIds \subseteq Runs
        BY <2>0 DEF Radii
      <4> QED
        BY <4>1, <2>0, <3>1, <3>3, <3>6, NodeIds DEF Found
    <3>9. trigger # NoTrigger
      BY <3>2 DEF WalkInv, Idle
    <3> QED
      BY <3>2, <3>5, <3>7, <3>8, <3>9, VisitStep
  <2>6. ASSUME NEW n \in Nodes, VisitRun(n) PROVE WalkInv'
    <3>1. Products(db, n) \subseteq Evidence
      BY <2>0, SuccessorTypes
    <3>2. n \in frontier /\ n \notin Evidence /\ UNCHANGED <<db, trigger>>
      BY <2>6, NodeIds DEF VisitRun
    <3>3. Successors(db, n) = Products(db, n)
      BY <3>2 DEF Successors
    <3>4. radius'.runIds = radius.runIds
      BY <2>0, <2>6 DEF VisitRun, Radii
    <3>5. visited' = visited \cup Products(db, n)
      BY <2>6 DEF VisitRun, Contaminate
    <3>6. frontier' = (frontier \ {n}) \cup (Products(db, n) \ visited)
      BY <2>6 DEF VisitRun, Contaminate
    <3>7. Found' = Found \cup Successors(db, n)
      BY <3>3, <3>4, <3>5 DEF Found
    <3>8. frontier' = (frontier \ {n}) \cup (Successors(db, n) \ Found)
      <4>1. radius.runIds \subseteq Runs
        BY <2>0 DEF Radii
      <4> QED
        BY <4>1, <3>1, <3>3, <3>6, NodeIds DEF Found
    <3>9. trigger # NoTrigger
      BY <3>2 DEF WalkInv, Idle
    <3> QED
      BY <3>2, <3>5, <3>7, <3>8, <3>9, VisitStep
  <2>7. CASE UNCHANGED radiusVars
    BY <2>7 DEF radiusVars, WalkInv, Idle, Seeded, Expanded, Minimal, Found, Seeds, IsClosed
  <2> QED
    BY <2>1, <2>2, <2>3, <2>4, <2>5, <2>6, <2>7 DEF RadiusNext, Trigger, Walk
<1> QED
  BY <1>1, <1>2, RadiusTypeCorrect, PTL DEF RadiusSpec

\* The walk of computeBlastRadius ends with the smallest set that holds the seeds
\* and is closed under the graph's edges: nothing reachable is missed, whatever
\* the order of the queue, and nothing else is reported.
THEOREM Exact == RadiusSpec => []WalkIsExact
<1>1. RadiusTypeOK /\ WalkInv => WalkIsExact
  <2> SUFFICES ASSUME RadiusTypeOK, WalkInv, Returned PROVE Found = Reachable(db, Seeds)
    BY DEF WalkIsExact, Found
  <2>1. Found \in SUBSET Nodes
    BY DEF RadiusTypeOK, Found, Nodes
  <2>2. Seeds \subseteq Found /\ IsClosed(Found, db)
    BY DEF WalkInv, Seeded, Expanded, Returned, IsClosed, Found
  <2>3. Reachable(db, Seeds) \subseteq Found
    BY <2>1, <2>2 DEF Reachable
  <2>4. Found \subseteq Reachable(db, Seeds)
    BY <2>1 DEF WalkInv, Minimal, Reachable
  <2> QED
    BY <2>3, <2>4
<1> QED
  BY <1>1, RadiusTypeCorrect, WalkInvariant, PTL

-----------------------------------------------------------------------------
(* INV-12.  While no Agent was deleted the projected graph loses no edge,  *)
(* and the output arrays hold what the expanded part of the walk leads to. *)

RecordInv ==
    db.agents = Agents =>
        /\ \A r \in db.capsules : r \in db.runs /\ db.contents[r] \subseteq db.evidence
        /\ \A e \in db.evidence : db.producer[e] \in db.runs
        /\ db.artifacts \subseteq db.capsules

LEMMA RecordInvariant == RadiusSpec => []RecordInv
<1>1. RadiusInit => RecordInv
  BY DEF RadiusInit, RecordInv
<1>2. RadiusTypeOK /\ RecordInv /\ [RadiusNext]_radiusVars => RecordInv'
  <2> SUFFICES ASSUME RadiusTypeOK, RecordInv, [RadiusNext]_radiusVars PROVE RecordInv'
    OBVIOUS
  <2>0. db \in Databases
    BY DEF RadiusTypeOK
  <2>1. ASSUME NEW r \in Runs, NEW items \in SUBSET Evidence, StartRun(r, items)
        PROVE  RecordInv'
    BY <2>0, <2>1 DEF StartRun, Records, RecordInv, Databases
  <2>2. ASSUME NEW r \in Runs, StartRefusedRun(r) PROVE RecordInv'
    BY <2>0, <2>2 DEF StartRefusedRun, Records, RecordInv, Databases
  <2>3. ASSUME NEW r \in Runs, CaptureAfter(r) PROVE RecordInv'
    BY <2>0, <2>3 DEF CaptureAfter, Records, RecordInv, Databases
  <2>4. ASSUME NEW e \in Evidence, NEW from \in SUBSET Evidence, AddEvidence(e, from)
        PROVE  RecordInv'
    BY <2>0, <2>4 DEF AddEvidence, Records, RecordInv, Databases
  <2>5. ASSUME NEW a \in Agents, DeleteAgent(a) PROVE RecordInv'
    <3>1. db'.agents = db.agents \ {a}
      BY <2>0, <2>5 DEF DeleteAgent, Records, Databases
    <3> QED
      BY <3>1 DEF RecordInv
  <2>6. CASE UNCHANGED db
    BY <2>6 DEF RecordInv
  <2> QED
    BY <2>1, <2>2, <2>3, <2>4, <2>5, <2>6
       DEF RadiusNext, Record, Trigger, Walk, TriggerEvidence, TriggerSource, TriggerGrant,
           VisitEvidence, VisitRun, radiusVars
<1> QED
  BY <1>1, <1>2, RadiusTypeCorrect, PTL DEF RadiusSpec

LEMMA NoEdgeLost ==
    ASSUME db \in Databases, RecordInv, db.agents = Agents, NEW n \in Nodes
    PROVE  Successors(db, n) = LeadsTo(db, n)
<1>1. CASE n \in Evidence
  <2>1. \A e \in db.evidence : n # db.producer[e]
    BY <1>1, NodeIds DEF Databases
  <2> QED
    BY <1>1, <2>1 DEF Successors, LeadsTo, Consumers, CapsulesWith, Derivatives, RecordInv
<1>2. CASE n \notin Evidence
  <2>1. \A r \in db.capsules : n \notin db.contents[r]
    BY <1>2 DEF Databases
  <2>2. \A e \in db.evidence : n \notin db.derived[e]
    BY <1>2 DEF Databases
  <2> QED
    BY <1>2, <2>1, <2>2 DEF Successors, LeadsTo, Products, RecordInv
<1> QED
  BY <1>1, <1>2

LEMMA ReachableIsDownstream ==
    ASSUME db \in Databases, RecordInv, db.agents = Agents, NEW seeds
    PROVE  Reachable(db, seeds) = Downstream(db, seeds)
<1>1. ASSUME NEW S \in SUBSET Nodes
      PROVE  IsClosed(S, db) <=> \A m \in S : LeadsTo(db, m) \subseteq S
  BY NoEdgeLost DEF IsClosed
<1> QED
  BY <1>1 DEF Reachable, Downstream

Done == Found \ frontier

CapsulesIn(X) == {r \in Runs : \E e \in X \cap Evidence : r \in CapsulesWith(db, e)}
RunsIn(X)     == {r \in Runs : \E e \in X \cap Evidence : r \in Consumers(db, e)}
AgentsIn(X)   == {a \in Agents : \E r \in X \cap Runs : a \in Executors(db, r)}
ArtifactsIn(X) ==
    {a \in Runs : \/ \E e \in X \cap Evidence : a \in ArtifactsFrom(db, e)
                  \/ \E r \in X \cap Runs : a \in Changes(db, r)}

ArraysInv ==
    /\ radius.capsuleIds = CapsulesIn(Done)
    /\ radius.runIds = RunsIn(Done)
    /\ radius.agentIds = AgentsIn(Done)
    /\ radius.artifactIds = ArtifactsIn(Done)
    /\ radius.evidenceIds = IF trigger.kind = "source" THEN visited ELSE visited \ Seeds
    /\ radius.derivedEvidenceIds = visited \ Seeds

LEMMA NewDone ==
    ASSUME NEW n \in frontier, NEW es, NEW rs, WalkInv, trigger # NoTrigger,
           visited \cap radius.runIds = {}, visited \cap rs = {}, radius.runIds \cap es = {},
           Contaminate(es, rs, n), radius'.runIds = radius.runIds \cup rs
    PROVE  Done' = Done \cup {n}
BY DEF Contaminate, Done, Found, WalkInv, Seeded

LEMMA EvidenceArrays ==
    ASSUME db \in Databases, NEW n \in Evidence, NEW X
    PROVE  /\ CapsulesIn(X \cup {n}) = CapsulesIn(X) \cup CapsulesWith(db, n)
           /\ RunsIn(X \cup {n}) = RunsIn(X) \cup Consumers(db, n)
           /\ AgentsIn(X \cup {n}) = AgentsIn(X)
           /\ ArtifactsIn(X \cup {n}) = ArtifactsIn(X) \cup ArtifactsFrom(db, n)
<1>1. /\ Consumers(db, n) \subseteq Runs /\ CapsulesWith(db, n) \subseteq Runs
      /\ ArtifactsFrom(db, n) \subseteq Runs /\ n \notin Runs
  BY SuccessorTypes, NodeIds
<1>2. CapsulesIn(X \cup {n}) = CapsulesIn(X) \cup CapsulesWith(db, n)
  BY <1>1 DEF CapsulesIn
<1>3. RunsIn(X \cup {n}) = RunsIn(X) \cup Consumers(db, n)
  BY <1>1 DEF RunsIn
<1>4. AgentsIn(X \cup {n}) = AgentsIn(X)
  BY <1>1 DEF AgentsIn
<1>5. ArtifactsIn(X \cup {n}) = ArtifactsIn(X) \cup ArtifactsFrom(db, n)
  BY <1>1 DEF ArtifactsIn
<1> QED
  BY <1>2, <1>3, <1>4, <1>5

LEMMA RunArrays ==
    ASSUME db \in Databases, NEW n \in Runs, NEW X
    PROVE  /\ CapsulesIn(X \cup {n}) = CapsulesIn(X)
           /\ RunsIn(X \cup {n}) = RunsIn(X)
           /\ AgentsIn(X \cup {n}) = AgentsIn(X) \cup Executors(db, n)
           /\ ArtifactsIn(X \cup {n}) = ArtifactsIn(X) \cup Changes(db, n)
<1>1. /\ Executors(db, n) \subseteq Agents /\ Changes(db, n) \subseteq Runs
      /\ n \notin Evidence
  BY SuccessorTypes, NodeIds
<1>2. CapsulesIn(X \cup {n}) = CapsulesIn(X)
  BY <1>1 DEF CapsulesIn
<1>3. RunsIn(X \cup {n}) = RunsIn(X)
  BY <1>1 DEF RunsIn
<1>4. AgentsIn(X \cup {n}) = AgentsIn(X) \cup Executors(db, n)
  BY <1>1 DEF AgentsIn
<1>5. ArtifactsIn(X \cup {n}) = ArtifactsIn(X) \cup Changes(db, n)
  BY <1>1 DEF ArtifactsIn
<1> QED
  BY <1>2, <1>3, <1>4, <1>5

LEMMA ArraysInvariant == RadiusSpec => []ArraysInv
<1>1. RadiusInit => ArraysInv
  BY DEF RadiusInit, ArraysInv, CapsulesIn, RunsIn, AgentsIn, ArtifactsIn, Done, Found, Seeds,
         NoTrigger, NoRadius
<1>2. RadiusTypeOK /\ RadiusTypeOK' /\ WalkInv /\ ArraysInv /\ [RadiusNext]_radiusVars => ArraysInv'
  <2> SUFFICES ASSUME RadiusTypeOK, RadiusTypeOK', WalkInv, ArraysInv, [RadiusNext]_radiusVars PROVE ArraysInv'
    OBVIOUS
  <2>0. db \in Databases /\ radius \in Radii /\ radius' \in Radii /\ visited \subseteq Evidence
    BY DEF RadiusTypeOK, Radii
  <2>1. trigger = NoTrigger =>
          /\ visited = {} /\ frontier = {} /\ Done = {}
          /\ radius.capsuleIds = {} /\ radius.runIds = {} /\ radius.agentIds = {}
          /\ radius.artifactIds = {} /\ radius.evidenceIds = {}
          /\ radius.derivedEvidenceIds = {}
    BY <2>0 DEF WalkInv, Idle, Found, Done, ArraysInv, CapsulesIn, RunsIn, AgentsIn,
           ArtifactsIn, NoTrigger
  <2>2. CASE Record
    <3>1. trigger = NoTrigger
      BY <2>2 DEF Record, StartRun, StartRefusedRun, CaptureAfter, AddEvidence,
                  DeleteAgent, Records
    <3>2. UNCHANGED <<trigger, frontier, visited, radius>>
      BY <2>0, <2>2, RecordsTypes
    <3>3. Seeds' = {} /\ Done' = {}
      BY <3>1, <3>2, <2>1 DEF Seeds, NoTrigger, Done, Found
    <3> QED
      BY <3>1, <3>2, <3>3, <2>1 DEF ArraysInv, CapsulesIn, RunsIn, AgentsIn, ArtifactsIn,
         NoTrigger
  <2>3. ASSUME NEW e \in Evidence, TriggerEvidence(e) PROVE ArraysInv'
    <3>1. trigger = NoTrigger /\ trigger'.kind = "evidence" /\ radius' = radius
      BY <2>3 DEF TriggerEvidence
    <3>2. Seeds' = {e} /\ visited' = {e} /\ frontier' = {e}
      BY <2>3 DEF TriggerEvidence, Seeds
    <3>3. Done' = {}
      BY <3>1, <3>2, <2>1 DEF Done, Found
    <3> QED
      BY <3>1, <3>2, <3>3, <2>1 DEF ArraysInv, CapsulesIn, RunsIn, AgentsIn, ArtifactsIn
  <2>4. ASSUME NEW s \in Sources, TriggerSource(s) PROVE ArraysInv'
    <3>1. trigger = NoTrigger /\ trigger'.kind = "source"
      BY <2>4 DEF TriggerSource
    <3>2. /\ Seeds' = Citations(db, s) /\ visited' = Citations(db, s)
          /\ frontier' = Citations(db, s)
      BY <2>4 DEF TriggerSource, Seeds, Citations
    <3>3. /\ radius'.evidenceIds = Citations(db, s)
          /\ radius'.capsuleIds = {} /\ radius'.runIds = {} /\ radius'.agentIds = {}
          /\ radius'.artifactIds = {} /\ radius'.derivedEvidenceIds = {}
      BY <3>1, <2>0, <2>1, <2>4 DEF TriggerSource, Radii
    <3>4. Done' = {}
      BY <3>2, <3>3 DEF Done, Found
    <3> QED
      BY <3>1, <3>2, <3>3, <3>4 DEF ArraysInv, CapsulesIn, RunsIn, AgentsIn, ArtifactsIn
  <2>5. CASE TriggerGrant
    <3>1. /\ trigger = NoTrigger /\ trigger'.kind = "authorization_grant"
          /\ UNCHANGED <<db, frontier, visited, radius>> /\ Seeds' = {}
      BY <2>5 DEF TriggerGrant, Seeds
    <3>2. Done' = {}
      BY <3>1, <2>1 DEF Done, Found
    <3> QED
      BY <3>1, <3>2, <2>1 DEF ArraysInv, CapsulesIn, RunsIn, AgentsIn, ArtifactsIn
  <2>6. ASSUME NEW n \in Nodes, VisitEvidence(n) PROVE ArraysInv'
    <3>1. n \in frontier /\ n \in Evidence /\ UNCHANGED <<db, trigger>> /\ Seeds' = Seeds
      BY <2>6 DEF VisitEvidence, Seeds
    <3>2. Seeds \subseteq visited
      BY <3>1 DEF WalkInv, Idle, Seeded
    <3>3. /\ radius'.capsuleIds = radius.capsuleIds \cup CapsulesWith(db, n)
          /\ radius'.runIds = radius.runIds \cup Consumers(db, n)
          /\ radius'.artifactIds = radius.artifactIds \cup ArtifactsFrom(db, n)
          /\ radius'.agentIds = radius.agentIds
      BY <2>0, <2>6 DEF VisitEvidence, Radii
    <3>4. /\ radius'.evidenceIds = radius.evidenceIds \cup (Derivatives(db, n) \ visited)
          /\ radius'.derivedEvidenceIds =
                radius.derivedEvidenceIds \cup (Derivatives(db, n) \ visited)
      BY <2>0, <2>6 DEF VisitEvidence, Radii
    <3>5. visited' = visited \cup Derivatives(db, n)
      BY <2>6 DEF VisitEvidence, Contaminate
    <3>6. Done' = Done \cup {n}
      <4>1. trigger # NoTrigger
        BY <3>1 DEF WalkInv, Idle
      <4>2. Derivatives(db, n) \subseteq Evidence /\ Consumers(db, n) \subseteq Runs
        BY <2>0, SuccessorTypes
      <4>3. radius.runIds \subseteq Runs
        BY <2>0 DEF Radii
      <4>4. /\ visited \cap radius.runIds = {} /\ visited \cap Consumers(db, n) = {}
            /\ radius.runIds \cap Derivatives(db, n) = {}
        BY <4>2, <4>3, <2>0, NodeIds
      <4>5. Contaminate(Derivatives(db, n), Consumers(db, n), n)
        BY <2>6 DEF VisitEvidence
      <4> QED
        BY <4>1, <4>4, <4>5, <3>1, <3>3, NewDone
    <3>7. /\ radius'.capsuleIds = CapsulesIn(Done \cup {n})
          /\ radius'.runIds = RunsIn(Done \cup {n})
          /\ radius'.agentIds = AgentsIn(Done \cup {n})
          /\ radius'.artifactIds = ArtifactsIn(Done \cup {n})
      BY <3>1, <3>3, <2>0, EvidenceArrays DEF ArraysInv
    <3> QED
      BY <3>1, <3>2, <3>4, <3>5, <3>6, <3>7
         DEF ArraysInv, CapsulesIn, RunsIn, AgentsIn, ArtifactsIn
  <2>7. ASSUME NEW n \in Nodes, VisitRun(n) PROVE ArraysInv'
    <3>1. n \in frontier /\ n \in Runs /\ UNCHANGED <<db, trigger>> /\ Seeds' = Seeds
      BY <2>7 DEF VisitRun, Seeds
    <3>2. Seeds \subseteq visited
      BY <3>1 DEF WalkInv, Idle, Seeded
    <3>3. /\ radius'.capsuleIds = radius.capsuleIds
          /\ radius'.runIds = radius.runIds
          /\ radius'.artifactIds = radius.artifactIds \cup Changes(db, n)
          /\ radius'.agentIds = radius.agentIds \cup Executors(db, n)
      BY <2>0, <2>7 DEF VisitRun, Radii
    <3>4. /\ radius'.evidenceIds = radius.evidenceIds \cup (Products(db, n) \ visited)
          /\ radius'.derivedEvidenceIds =
                radius.derivedEvidenceIds \cup (Products(db, n) \ visited)
      BY <2>0, <2>7 DEF VisitRun, Radii
    <3>5. visited' = visited \cup Products(db, n)
      BY <2>7 DEF VisitRun, Contaminate
    <3>6. Done' = Done \cup {n}
      <4>1. trigger # NoTrigger
        BY <3>1 DEF WalkInv, Idle
      <4>2. Products(db, n) \subseteq Evidence /\ radius.runIds \subseteq Runs
        BY <2>0, SuccessorTypes DEF Radii
      <4>3. visited \cap radius.runIds = {} /\ radius.runIds \cap Products(db, n) = {}
        BY <4>2, <2>0, NodeIds
      <4>4. Contaminate(Products(db, n), {}, n) /\ radius'.runIds = radius.runIds \cup {}
        BY <2>7, <3>3 DEF VisitRun
      <4> QED
        BY <4>1, <4>3, <4>4, <3>1, NewDone
    <3>7. /\ radius'.capsuleIds = CapsulesIn(Done \cup {n})
          /\ radius'.runIds = RunsIn(Done \cup {n})
          /\ radius'.agentIds = AgentsIn(Done \cup {n})
          /\ radius'.artifactIds = ArtifactsIn(Done \cup {n})
      BY <3>1, <3>3, <2>0, RunArrays DEF ArraysInv
    <3> QED
      BY <3>1, <3>2, <3>4, <3>5, <3>6, <3>7
         DEF ArraysInv, CapsulesIn, RunsIn, AgentsIn, ArtifactsIn
  <2>8. CASE UNCHANGED radiusVars
    BY <2>8 DEF radiusVars, ArraysInv, CapsulesIn, RunsIn, AgentsIn, ArtifactsIn, Done, Found, Seeds
  <2> QED
    BY <2>2, <2>3, <2>4, <2>5, <2>6, <2>7, <2>8 DEF RadiusNext, Trigger, Walk
<1> QED
  BY <1>1, <1>2, RadiusTypeCorrect, WalkInvariant, PTL DEF RadiusSpec

\* INV-12, on the records: while no Agent was deleted, what the walk returns is
\* everything that came from the trigger and nothing else, in each of its arrays.
THEOREM Complete == RadiusSpec => []RadiusIsDownstream
<1>1. RadiusTypeOK /\ WalkInv /\ RecordInv /\ ArraysInv /\ WalkIsExact => RadiusIsDownstream
  <2> SUFFICES ASSUME RadiusTypeOK, WalkInv, RecordInv, ArraysInv, WalkIsExact,
                      Returned, db.agents = Agents
               PROVE  RadiusIsDownstream
    BY DEF RadiusIsDownstream
  <2> DEFINE from  == Downstream(db, Seeds)
             es    == from \cap Evidence
             users == {r \in db.capsules : db.contents[r] \cap es # {}}
  <2>0. db \in Databases /\ radius \in Radii /\ visited \subseteq Evidence
    BY DEF RadiusTypeOK, Radii
  <2>1. from = Found
    BY <2>0, ReachableIsDownstream DEF WalkIsExact, Found
  <2>2. es = visited /\ from \cap Runs = radius.runIds
    BY <2>0, <2>1, NodeIds DEF Found, Radii
  <2>3. Done = Found
    BY DEF Done, Returned
  <2>4. radius.capsuleIds = users
    BY <2>0, <2>1, <2>3 DEF ArraysInv, CapsulesIn, CapsulesWith, RecordInv, Databases
  <2>5. radius.runIds = users
    BY <2>0, <2>1, <2>3 DEF ArraysInv, RunsIn, Consumers, CapsulesWith, RecordInv, Databases
  <2>6. radius.agentIds = {db.owner[r] : r \in users}
    <3>1. Found \cap Runs = users
      BY <2>1, <2>2, <2>5
    <3>2. \A r \in users : db.owner[r] \in db.agents /\ r \in db.runs
      BY <2>0 DEF RecordInv, Databases
    <3> QED
      BY <2>3, <3>1, <3>2 DEF ArraysInv, AgentsIn, Executors
  <2>7. radius.artifactIds = users \cap db.artifacts
    <3>1. Found \cap Runs = users
      BY <2>1, <2>2, <2>5
    <3>2. \A r \in users : r \in db.runs
      BY DEF RecordInv
    <3>3. Found \cap Evidence = es
      BY <2>1
    <3>4. users \subseteq Runs
      BY <2>0 DEF Databases
    <3>5. \A a \in Runs :
            (\E e \in es : a \in ArtifactsFrom(db, e)) <=> a \in users \cap db.artifacts
      BY <2>0 DEF ArtifactsFrom, RecordInv, Databases
    <3>6. \A a \in Runs :
            (\E r \in users : a \in Changes(db, r)) <=> a \in users \cap db.artifacts
      BY <3>2 DEF Changes
    <3> QED
      BY <2>3, <3>1, <3>3, <3>4, <3>5, <3>6 DEF ArraysInv, ArtifactsIn
  <2>8. /\ radius.derivedEvidenceIds = es \ Seeds
        /\ radius.evidenceIds = IF trigger.kind = "source" THEN es ELSE es \ Seeds
    BY <2>2 DEF ArraysInv
  <2> QED
    BY <2>2, <2>4, <2>6, <2>7, <2>8 DEF RadiusIsDownstream
<1> QED
  BY <1>1, RadiusTypeCorrect, WalkInvariant, RecordInvariant, ArraysInvariant, Exact, PTL
=============================================================================
