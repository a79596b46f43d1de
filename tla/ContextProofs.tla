----------------------------- MODULE ContextProofs -----------------------------
(***************************************************************************)
(* Evidence and what Runs are told of it, for any number of Evidence,      *)
(* requests, Runs, instants, faults and restarts.                          *)
(***************************************************************************)
EXTENDS Context, FiniteSetTheorems, SequenceTheorems, TLAPS

\* The stores a reader may come to see without a further mutation.
Futures == {store} \cup (IF draft = NoDraft THEN {} ELSE {draft.store})

Unborn   == {"idle", "read", "pointer", "verify", "commit"}
Mutating == {"pointer", "commit", "compensate", "transition"}

Typed == TypeOK /\ clock > 0

\* Versions are recorded and closed in order, and only the last is open.
Chained(vs) ==
    /\ \A i \in 1..Len(vs) : /\ vs[i].recorded \in 1..clock
                             /\ i = Len(vs) => vs[i].closed = Open
                             /\ i < Len(vs) => vs[i].closed \in 1..clock
    /\ \A i, j \in 1..Len(vs) : i < j => vs[i].closed <= vs[j].recorded

Sound(s) ==
    \A e \in Ids :
        /\ Chained(s.versions[e])
        /\ s.versions[e] # <<>> => s.pointer[e] = "quoting"
        /\ s.versions[e] # <<>> <=> e \in s.cited

\* What n has more than s was written at the instant t.
GrowsAt(s, n, t) ==
    \A e \in Ids :
        /\ Len(n.versions[e]) >= Len(s.versions[e])
        /\ \A i \in 1..Len(s.versions[e]) :
              /\ n.versions[e][i].status = s.versions[e][i].status
              /\ n.versions[e][i].recorded = s.versions[e][i].recorded
              /\ \/ n.versions[e][i].closed = s.versions[e][i].closed
                 \/ s.versions[e][i].closed = Open /\ n.versions[e][i].closed = t

RecordedBy(s, t) ==
    \A e \in Ids : \A i \in 1..Len(s.versions[e]) : s.versions[e][i].recorded <= t

Usable(s, e) == s.versions[e] # <<>> /\ s.versions[e][Len(s.versions[e])].status = "ACTIVE"

\* Where a createEvidence call stands and what it wrote.
Placed(e) ==
    /\ pc[e] \in Unborn =>
          /\ store.versions[e] = <<>>
          /\ draft # NoDraft /\ ~ (draft.by = e /\ pc[e] = "commit") =>
                draft.store.versions[e] = <<>>
    /\ pc[e] \in {"pointer", "verify", "commit"} =>
          plan[e].hash \in Contents /\ plan[e].stamp \in 1..clock
    /\ pc[e] \in {"verify", "commit"} => \A s \in Futures : s.pointer[e] = plan[e].hash
    /\ pc[e] = "commit" => plan[e].hash = "quoting"

\* A draft is its writer's, and was computed from the store at one instant.
Drafted ==
    draft # NoDraft =>
        /\ pc[draft.by] \in Mutating
        /\ \E t \in 1..clock : GrowsAt(store, draft.store, t) /\ RecordedBy(store, t)
        /\ draft.by \in Ids /\ pc[draft.by] = "pointer" =>
              draft.store.pointer[draft.by] = plan[draft.by].hash
        /\ draft.by \in Ids /\ pc[draft.by] = "compensate" => ~ Usable(draft.store, draft.by)

\* A request goes one way, and waits for the governance chain at the end of it.
Asked(c) ==
    /\ pc[c] \in {"idle", "transition", "event", "done", "threw"}
    /\ pc[c] = "transition" =>
          target[c].status \in Status \ {"ACTIVE"} /\ target[c].id \in Ids

Waiting == \A i \in 1..Len(queue) : pc[queue[i]] \in {"event", "done", "threw"}

\* Evidence nobody will audit or take back is audited or not usable.
Audited(e) ==
    storeFaults = 0 /\ crashes = 0 =>
        /\ pc[e] = "done" => e \in created
        /\ pc[e] \in Unborn \cup {"append", "compensate", "done"}
           \/ \A s \in Futures : ~ Usable(s, e)

EvidenceInv ==
    /\ Typed /\ Drafted
    /\ \A s \in Futures : Sound(s)
    /\ \A e \in Ids : Placed(e) /\ Audited(e)
    /\ \A c \in Calls : Asked(c)
    /\ Waiting

\* What a reader may come to see is what one could see already, or more.
Onward ==
    /\ \A s \in Futures' : s \in Futures \/ GrowsAt(store, s, clock)
    /\ clock \in Nat /\ clock' \in Nat /\ clock <= clock'

Places == {"idle"} \cup InFlight \cup Over
Plans  == [class : 0..MaxLevel, derived : SUBSET Ids, supersedes : Ids \cup {None},
           hash : Contents \cup {None}, stamp : Nat]

-----------------------------------------------------------------------------
(* One mutation of the store.                                              *)

LEMMA FirstChain ==
    ASSUME NEW v \in Versions, v.recorded \in 1..clock, v.closed = Open, clock \in Nat
    PROVE  Chained(<<v>>) /\ <<v>> \in Seq(Versions) /\ Len(<<v>>) = 1 /\ <<v>>[1] = v
<1>1. <<v>> \in Seq(Versions) /\ Len(<<v>>) = 1 /\ <<v>>[1] = v
  OBVIOUS
<1>2. \A i \in 1..Len(<<v>>) : i = 1
  BY <1>1
<1>3. Chained(<<v>>)
  BY <1>1, <1>2 DEF Chained
<1> QED
  BY <1>1, <1>3

\* The version a transition closes, and the one it adds.
NextVersions(vs, status) ==
    Append([vs EXCEPT ![Len(vs)].closed = clock],
           [status |-> status, recorded |-> clock, closed |-> Open])

LEMMA NextChain ==
    ASSUME NEW vs \in Seq(Versions), vs # <<>>, Chained(vs), NEW status \in Status,
           clock \in Nat, clock > 0,
           NEW w, w = NextVersions(vs, status)
    PROVE  /\ w \in Seq(Versions) /\ Len(w) = Len(vs) + 1 /\ Chained(w)
           /\ w[Len(w)].status = status
           /\ \A i \in 1..Len(vs) : /\ w[i].status = vs[i].status
                                    /\ w[i].recorded = vs[i].recorded
                                    /\ i # Len(vs) => w[i].closed = vs[i].closed
                                    /\ i = Len(vs) => w[i].closed = clock
<1>1. PICK n \in Nat : n = Len(vs) /\ n > 0
  OBVIOUS
<1>2. PICK last : last = [vs[n] EXCEPT !.closed = clock]
  OBVIOUS
<1>3. vs[n] \in Versions
  BY <1>1
<1>4. /\ last \in Versions /\ last.status = vs[n].status /\ last.recorded = vs[n].recorded
      /\ last.closed = clock
  BY <1>2, <1>3 DEF Versions
<1>5. PICK us : us = [vs EXCEPT ![n] = last]
  OBVIOUS
<1>6. us \in Seq(Versions) /\ Len(us) = n /\ us[n] = last
      /\ \A i \in 1..n : i # n => us[i] = vs[i]
  BY <1>1, <1>4, <1>5
<1>7. PICK v : v = [status |-> status, recorded |-> clock, closed |-> Open]
  OBVIOUS
<1>8. v \in Versions /\ v.status = status /\ v.recorded = clock /\ v.closed = Open
  BY <1>7 DEF Versions, Open
<1>9. w = Append(us, v)
  BY <1>1, <1>2, <1>5, <1>7 DEF NextVersions
<1>10. /\ w \in Seq(Versions) /\ Len(w) = n + 1 /\ w[n + 1] = v
       /\ \A i \in 1..n : w[i] = us[i]
  <2>1. Append(us, v) \in Seq(Versions)
    BY <1>6, <1>8
  <2>2. PICK a \in Seq(Versions) : a = Append(us, v)
    BY <2>1
  <2>3. Len(a) = n + 1 /\ a[n + 1] = v /\ \A i \in 1..n : a[i] = us[i]
    BY <1>6, <2>2
  <2> QED
    BY <1>9, <2>2, <2>3
<1>11. \A i \in 1..n : /\ w[i].status = vs[i].status /\ w[i].recorded = vs[i].recorded
                       /\ i # n => w[i].closed = vs[i].closed
                       /\ i = n => w[i].closed = clock
  BY <1>4, <1>6, <1>10
<1>12. \A i \in 1..n : vs[i].recorded \in 1..clock /\ (i # n => vs[i].closed \in 1..clock)
  <2>1. ASSUME NEW i \in 1..n
        PROVE  /\ vs[i].recorded \in 1..clock /\ (i < n => vs[i].closed \in 1..clock)
               /\ (i # n => i < n)
    BY <1>1 DEF Chained
  <2> QED
    BY <2>1
<1>13. ASSUME NEW i \in 1..(n + 1)
       PROVE  /\ w[i].recorded \in 1..clock
              /\ i = n + 1 => w[i].closed = Open
              /\ i < n + 1 => w[i].closed \in 1..clock
  <2>1. CASE i = n + 1
    BY <1>8, <1>10, <2>1
  <2>2. CASE i # n + 1
    <3>1. i \in 1..n /\ i < n + 1
      BY <2>2
    <3>2. w[i].recorded \in 1..clock
      BY <1>11, <1>12, <3>1
    <3>3. w[i].closed \in 1..clock
      <4>1. CASE i = n
        <5>1. w[i].closed = clock
          BY <1>11, <3>1, <4>1
        <5>2. clock \in 1..clock
          OBVIOUS
        <5> QED
          BY ONLY <5>1, <5>2
      <4>2. CASE i # n
        BY <1>11, <1>12, <3>1, <4>2
      <4> QED
        BY <4>1, <4>2
    <3> QED
      BY <2>2, <3>1, <3>2, <3>3
  <2> QED
    BY <2>1, <2>2
<1>14. ASSUME NEW i \in 1..(n + 1), NEW j \in 1..(n + 1), i < j
       PROVE  w[i].closed <= w[j].recorded
  <2>1. i \in 1..n
    BY <1>14
  <2>2. CASE j = n + 1
    <3>1. i \in 1..(n + 1) /\ i < n + 1 /\ w[j].recorded = clock
      BY <1>8, <1>10, <2>1, <2>2
    <3>2. w[i].closed \in 1..clock
      BY <1>13, <3>1
    <3>3. clock \in Nat
      OBVIOUS
    <3> QED
      BY ONLY <3>1, <3>2, <3>3
  <2>3. CASE j # n + 1
    <3>1. j \in 1..n /\ i # n
      BY <1>14, <2>3
    <3>2. vs[i].closed <= vs[j].recorded
      BY <1>1, <1>14, <2>1, <3>1 DEF Chained
    <3>3. w[i].closed = vs[i].closed
      BY <1>11, <2>1, <3>1
    <3>4. w[j].recorded = vs[j].recorded
      BY <1>11, <3>1
    <3> QED
      BY ONLY <3>2, <3>3, <3>4
  <2> QED
    BY <2>2, <2>3
<1>15. Chained(w)
  BY <1>10, <1>13, <1>14 DEF Chained
<1> QED
  BY <1>1, <1>8, <1>10, <1>11, <1>15

LEMMA ChainAges ==
    ASSUME NEW vs, Chained(vs), clock \in Nat, clock' \in Nat, clock <= clock'
    PROVE  Chained(vs)'
BY DEF Chained

LEMMA VersionsUpdate ==
    ASSUME NEW s \in Stores, NEW e \in Ids, NEW w \in Seq(Versions), NEW n,
           n = [s EXCEPT !.versions[e] = w]
    PROVE  /\ n \in Stores /\ n.versions[e] = w /\ n.pointer = s.pointer /\ n.cited = s.cited
           /\ \A d \in Ids : d # e => n.versions[d] = s.versions[d]
<1>1. PICK f : f = [s.versions EXCEPT ![e] = w]
  OBVIOUS
<1>2. s.versions \in [Ids -> Seq(Versions)]
  BY DEF Stores
<1>3. /\ f \in [Ids -> Seq(Versions)] /\ f[e] = w
      /\ \A d \in Ids : d # e => f[d] = s.versions[d]
  BY <1>1, <1>2
<1>4. n = [s EXCEPT !.versions = f]
  BY <1>1
<1>5. n \in Stores /\ n.versions = f /\ n.pointer = s.pointer /\ n.cited = s.cited
  BY <1>3, <1>4 DEF Stores
<1> QED
  BY <1>3, <1>5

\* A store that grew from the present one by closing what was open now.
LEMMA MovedGrows ==
    ASSUME Typed, Sound(store), NEW e \in Ids, Exists(e), NEW status \in Status
    PROVE  /\ Moved(e, status) \in Stores /\ Sound(Moved(e, status))
           /\ GrowsAt(store, Moved(e, status), clock)
           /\ \A d \in Ids : d # e => Moved(e, status).versions[d] = store.versions[d]
           /\ Usable(Moved(e, status), e) => status = "ACTIVE"
           /\ Moved(e, status).pointer = store.pointer
<1>1. store \in Stores /\ clock \in Nat /\ clock > 0
  BY DEF Typed, TypeOK
<1>2. PICK vs \in Seq(Versions) : vs = store.versions[e] /\ vs # <<>> /\ Chained(vs)
  BY <1>1 DEF Stores, Sound, Exists
<1>3. PICK w : w = NextVersions(vs, status)
  OBVIOUS
<1>4. /\ w \in Seq(Versions) /\ Len(w) = Len(vs) + 1 /\ Chained(w)
      /\ w[Len(w)].status = status
      /\ \A i \in 1..Len(vs) : /\ w[i].status = vs[i].status
                               /\ w[i].recorded = vs[i].recorded
                               /\ i # Len(vs) => w[i].closed = vs[i].closed
                               /\ i = Len(vs) => w[i].closed = clock
  BY <1>1, <1>2, <1>3, NextChain
<1>5. PICK n : n = Moved(e, status)
  OBVIOUS
<1>6. n = [store EXCEPT !.versions[e] = w]
  BY <1>2, <1>3, <1>5 DEF Moved, NextVersions
<1>7. /\ n \in Stores /\ n.versions[e] = w /\ n.pointer = store.pointer
      /\ n.cited = store.cited /\ \A d \in Ids : d # e => n.versions[d] = store.versions[d]
  BY <1>1, <1>4, <1>6, VersionsUpdate
<1>8. Len(vs) \in Nat /\ w # <<>>
  BY <1>2, <1>4
<1>9. Sound(n)
  <2>1. Chained(n.versions[e]) /\ n.versions[e] # <<>> /\ e \in n.cited /\ n.pointer[e] = "quoting"
    BY <1>2, <1>4, <1>7, <1>8 DEF Sound
  <2>2. ASSUME NEW d \in Ids, d # e
        PROVE  /\ n.versions[d] = store.versions[d] /\ n.pointer[d] = store.pointer[d]
               /\ (d \in n.cited) = (d \in store.cited)
    BY <1>7, <2>2
  <2> QED
    BY <2>1, <2>2 DEF Sound
<1>10. vs[Len(vs)].closed = Open
  BY <1>2, <1>8 DEF Chained
<1>11. GrowsAt(store, n, clock)
  <2> SUFFICES ASSUME NEW d \in Ids
               PROVE  /\ Len(n.versions[d]) >= Len(store.versions[d])
                      /\ \A i \in 1..Len(store.versions[d]) :
                            /\ n.versions[d][i].status = store.versions[d][i].status
                            /\ n.versions[d][i].recorded = store.versions[d][i].recorded
                            /\ \/ n.versions[d][i].closed = store.versions[d][i].closed
                               \/ store.versions[d][i].closed = Open
                                  /\ n.versions[d][i].closed = clock
    BY DEF GrowsAt
  <2>1. CASE d = e
    BY <1>2, <1>4, <1>7, <1>8, <1>10, <2>1
  <2>2. CASE d # e
    <3>1. n.versions[d] = store.versions[d] /\ n.pointer[d] = store.pointer[d]
      BY <1>7, <2>2
    <3>2. Len(store.versions[d]) \in Nat
      BY <1>1 DEF Stores
    <3> QED
      BY <3>1, <3>2
  <2> QED
    BY <2>1, <2>2
<1>12. Usable(n, e) => status = "ACTIVE"
  BY <1>4, <1>7 DEF Usable
<1> QED
  BY <1>5, <1>7, <1>9, <1>11, <1>12

-----------------------------------------------------------------------------
(* Steps that leave the store and the mutation under way.                  *)

LEMMA Moves ==
    ASSUME pc \in [Writers -> Places], NEW w \in Writers, NEW label \in Places,
           Goto(w, label)
    PROVE  /\ pc' \in [Writers -> Places] /\ pc'[w] = label
           /\ \A x \in Writers : x # w => pc'[x] = pc[x]
BY DEF Goto

LEMMA SoundAges ==
    ASSUME NEW s, Sound(s), clock \in Nat, clock' \in Nat, clock <= clock'
    PROVE  Sound(s)'
BY ChainAges DEF Sound

LEMMA FutureStores ==
    ASSUME TypeOK
    PROVE  /\ Futures \subseteq Stores /\ store \in Futures
           /\ draft # NoDraft => /\ draft.by \in Writers /\ draft.store \in Stores
                                /\ Futures = {store, draft.store}
           /\ draft = NoDraft => Futures = {store}
<1>1. draft # NoDraft => draft.by \in Writers /\ draft.store \in Stores
  BY DEF TypeOK
<1> QED
  BY <1>1 DEF TypeOK, Futures

\* One writer w moves, and it is not the one whose mutation is under way.
LEMMA Still ==
    ASSUME EvidenceInv, TypeOK', UNCHANGED <<store, draft>>, clock <= clock',
           NEW w,
           draft # NoDraft => draft.by # w,
           \A x \in Writers : x # w => pc'[x] = pc[x],
           \A e \in Ids : e # w => plan'[e] = plan[e],
           \A c \in Calls : c # w => target'[c] = target[c],
           created \subseteq created',
           storeFaults' = 0 /\ crashes' = 0 => storeFaults = 0 /\ crashes = 0
    PROVE  /\ Typed' /\ Drafted' /\ (\A s \in Futures : Sound(s))' /\ Onward
           /\ Futures' = Futures
           /\ \A e \in Ids : e # w => Placed(e)' /\ Audited(e)'
           /\ \A c \in Calls : c # w => Asked(c)'
<1>1. TypeOK /\ clock \in Nat /\ clock > 0 /\ clock' \in Nat /\ clock' > 0
  BY DEF EvidenceInv, Typed, TypeOK
<1>2. Futures' = Futures
  BY DEF Futures
<1>3. Typed'
  BY <1>1 DEF Typed
<1>4. \A s \in Futures : Sound(s)'
  BY <1>1, SoundAges DEF EvidenceInv
<1>5. (\A s \in Futures : Sound(s))'
  BY <1>2, <1>4
<1>6. Onward
  BY <1>1, <1>2 DEF Onward
<1>7. draft # NoDraft => draft.by \in Writers /\ draft.by # w
  BY <1>1, FutureStores
<1>8. Drafted'
  <2> SUFFICES ASSUME draft # NoDraft
               PROVE  Drafted'
    BY DEF Drafted
  <2>1. pc'[draft.by] = pc[draft.by] /\ (draft.by \in Ids => plan'[draft.by] = plan[draft.by])
    BY <1>7
  <2>2. PICK t \in 1..clock : GrowsAt(store, draft.store, t) /\ RecordedBy(store, t)
    BY DEF EvidenceInv, Drafted
  <2>3. t \in 1..clock' /\ GrowsAt(store, draft.store, t)' /\ RecordedBy(store, t)'
    BY <1>1, <2>2 DEF GrowsAt, RecordedBy
  <2>4. \E u \in 1..clock' : GrowsAt(store, draft.store, u)' /\ RecordedBy(store, u)'
    BY <2>3
  <2>5. /\ pc[draft.by] \in Mutating
        /\ draft.by \in Ids /\ pc[draft.by] = "pointer" =>
              draft.store.pointer[draft.by] = plan[draft.by].hash
        /\ draft.by \in Ids /\ pc[draft.by] = "compensate" => ~ Usable(draft.store, draft.by)
    BY DEF EvidenceInv, Drafted
  <2>6. Usable(draft.store, draft.by)' = Usable(draft.store, draft.by)
    BY DEF Usable
  <2>7. draft' = draft
    OBVIOUS
  <2> QED
    BY ONLY <2>1, <2>4, <2>5, <2>6, <2>7 DEF Drafted
<1>9. ASSUME NEW e \in Ids, e # w
      PROVE  Placed(e)' /\ Audited(e)'
  <2>1. pc'[e] = pc[e] /\ plan'[e] = plan[e]
    BY <1>9 DEF Writers
  <2>2. Placed(e) /\ Audited(e)
    BY DEF EvidenceInv
  <2>3. Placed(e)'
    BY <1>1, <1>2, <2>1, <2>2 DEF Placed
  <2>4. \A s : Usable(s, e)' = Usable(s, e)
    BY DEF Usable
  <2>5. Audited(e)'
    BY <1>2, <2>1, <2>2, <2>4 DEF Audited
  <2> QED
    BY <2>3, <2>5
<1>10. ASSUME NEW c \in Calls, c # w
       PROVE  Asked(c)'
  BY <1>10 DEF EvidenceInv, Asked, Writers
<1> QED
  BY <1>2, <1>3, <1>5, <1>6, <1>8, <1>9, <1>10

\* An unborn Evidence is in no store, unless its own write is under way.
LEMMA NotYet ==
    ASSUME EvidenceInv, NEW e \in Ids, pc[e] \in Unborn \ {"commit"}
    PROVE  \A s \in Futures : s.versions[e] = <<>> /\ ~ Usable(s, e)
<1>1. \A s \in Futures : s.versions[e] = <<>>
  BY DEF EvidenceInv, Placed, Futures
<1> QED
  BY <1>1 DEF Usable

\* A call of createEvidence that is not storing anything moves.
LEMMA IdMoves ==
    ASSUME EvidenceInv, TypeOK', NEW e \in Ids, UNCHANGED <<store, draft, queue, target>>,
           clock' = clock, draft # NoDraft => draft.by # e,
           \A x \in Writers : x # e => pc'[x] = pc[x],
           \A d \in Ids : d # e => plan'[d] = plan[d],
           created \subseteq created',
           UNCHANGED <<storeFaults, crashes>>,
           Placed(e)', Audited(e)'
    PROVE  EvidenceInv' /\ Onward
<1>1. clock \in Nat /\ clock <= clock'
  BY DEF EvidenceInv, Typed, TypeOK
<1>2. /\ Typed' /\ Drafted' /\ (\A s \in Futures : Sound(s))' /\ Onward
      /\ \A d \in Ids : d # e => Placed(d)' /\ Audited(d)'
      /\ \A c \in Calls : c # e => Asked(c)'
  BY <1>1, Still
<1>3. \A c \in Calls : c # e
  BY Identities
<1>4. Waiting'
  <2>1. \A i \in 1..Len(queue) : queue[i] \in Calls
    BY DEF EvidenceInv, Typed, TypeOK
  <2> QED
    BY <1>3, <2>1 DEF EvidenceInv, Waiting, Writers
<1> QED
  BY <1>2, <1>3, <1>4 DEF EvidenceInv

-----------------------------------------------------------------------------
(* createEvidence.                                                         *)

LEMMA PcTyped == ASSUME EvidenceInv PROVE pc \in [Writers -> Places]
BY DEF EvidenceInv, Typed, TypeOK, Places

LEMMA PlanTyped == ASSUME EvidenceInv PROVE plan \in [Ids -> Plans]
BY DEF EvidenceInv, Typed, TypeOK, Plans

LEMMA NotMutating ==
    ASSUME EvidenceInv, NEW w, pc[w] \notin Mutating
    PROVE  draft # NoDraft => draft.by # w
BY DEF EvidenceInv, Drafted

LEMMA Creates ==
    ASSUME EvidenceInv, NEW e \in Ids, NEW class \in 0..MaxLevel,
           NEW derived \in SUBSET (Ids \ {e}),
           NEW supersedes \in (Ids \ {e}) \cup {None},
           CreateEvidence(e, class, derived, supersedes)
    PROVE  EvidenceInv' /\ Onward
<1> DEFINE goal == IF \A d \in derived : Exists(d) THEN "read" ELSE "refused"
<1>1. e \in Writers /\ pc[e] = "idle" /\ goal \in {"read", "refused"}
  BY DEF CreateEvidence, Writers
<1>2. PICK label \in {"read", "refused"} : Goto(e, label)
  BY <1>1 DEF CreateEvidence
<1>3. label \in Places
  BY DEF Places, InFlight, Over
<1>4. /\ pc' \in [Writers -> Places] /\ pc'[e] = label
      /\ \A x \in Writers : x # e => pc'[x] = pc[x]
  BY <1>1, <1>2, <1>3, PcTyped, Moves
<1>5. PICK p : p = [NoPlan EXCEPT !.class = class, !.derived = derived,
                                  !.supersedes = supersedes]
  OBVIOUS
<1>6. p \in Plans
  BY <1>5 DEF NoPlan, Plans
<1>7. plan' \in [Ids -> Plans] /\ \A d \in Ids : d # e => plan'[d] = plan[d]
  BY <1>5, <1>6, PlanTyped DEF CreateEvidence
<1>8. TypeOK'
  BY <1>4, <1>7 DEF CreateEvidence, EvidenceInv, Typed, TypeOK, Places, Plans, world, budget
<1>9. /\ UNCHANGED <<store, draft, queue, target, clock, created, storeFaults, crashes>>
  BY DEF CreateEvidence, world, budget
<1>10. draft # NoDraft => draft.by # e
  BY <1>1, NotMutating DEF Mutating
<1>11. \A s \in Futures : s.versions[e] = <<>> /\ ~ Usable(s, e)
  BY <1>1, NotYet DEF Unborn
<1>12. Futures' = Futures /\ store \in Futures /\ (draft # NoDraft => draft.store \in Futures)
  BY <1>9 DEF Futures
<1>13. Placed(e)'
  <2>1. store.versions[e] = <<>> /\ (draft # NoDraft => draft.store.versions[e] = <<>>)
    BY <1>11, <1>12
  <2>2. pc'[e] \notin {"pointer", "verify", "commit"}
    BY <1>4
  <2> QED
    BY <1>9, <2>1, <2>2 DEF Placed
<1>14. Audited(e)'
  <2>1. \A s : Usable(s, e)' = Usable(s, e)
    BY DEF Usable
  <2> QED
    BY <1>4, <1>11, <1>12, <2>1 DEF Audited
<1> QED
  BY <1>4, <1>7, <1>8, <1>9, <1>10, <1>13, <1>14, IdMoves

LEMMA Reads ==
    ASSUME EvidenceInv, NEW e \in Ids, ReadSource(e)
    PROVE  EvidenceInv' /\ Onward
<1>1. e \in Writers /\ pc[e] = "read"
  BY DEF ReadSource, Writers
<1>2. UNCHANGED <<store, draft, queue, target, clock, created, storeFaults, crashes>>
  BY DEF ReadSource, world, budget
<1>3. draft # NoDraft => draft.by # e
  BY <1>1, NotMutating DEF Mutating
<1>4. \A s \in Futures : s.versions[e] = <<>> /\ ~ Usable(s, e)
  BY <1>1, NotYet DEF Unborn
<1>5. Futures' = Futures /\ store \in Futures /\ (draft # NoDraft => draft.store \in Futures)
  BY <1>2 DEF Futures
<1>6. PICK label \in {"refused", "pointer"} :
         /\ Goto(e, label)
         /\ \/ label = "refused" /\ UNCHANGED plan
            \/ plan' = [plan EXCEPT ![e].hash = file, ![e].stamp = clock]
  BY DEF ReadSource
<1>7. label \in Places
  BY DEF Places, InFlight, Over
<1>8. /\ pc' \in [Writers -> Places] /\ pc'[e] = label
      /\ \A x \in Writers : x # e => pc'[x] = pc[x]
  BY <1>1, <1>6, <1>7, PcTyped, Moves
<1>9. file \in Contents /\ clock \in Nat /\ clock > 0
  BY DEF EvidenceInv, Typed, TypeOK
<1>10. /\ plan' \in [Ids -> Plans] /\ \A d \in Ids : d # e => plan'[d] = plan[d]
       /\ label = "pointer" => plan'[e].hash \in Contents /\ plan'[e].stamp = clock
  <2>1. CASE label = "refused" /\ UNCHANGED plan
    BY <2>1, PlanTyped
  <2>2. CASE plan' = [plan EXCEPT ![e].hash = file, ![e].stamp = clock]
    <3>1. plan[e] \in Plans
      BY PlanTyped
    <3>2. PICK p : p = [plan[e] EXCEPT !.hash = file, !.stamp = clock]
      OBVIOUS
    <3>3. p \in Plans /\ p.hash = file /\ p.stamp = clock
      BY <1>9, <3>1, <3>2 DEF Plans
    <3>4. plan' = [plan EXCEPT ![e] = p]
      BY <2>2, <3>2
    <3> QED
      BY <1>9, <3>3, <3>4, PlanTyped
  <2> QED
    BY <1>6, <2>1, <2>2
<1>11. TypeOK'
  BY <1>8, <1>10 DEF ReadSource, EvidenceInv, Typed, TypeOK, Places, Plans, world, budget
<1>12. Placed(e)'
  <2>1. store.versions[e] = <<>> /\ (draft # NoDraft => draft.store.versions[e] = <<>>)
    BY <1>4, <1>5
  <2>2. pc'[e] \in {"refused", "pointer"} /\ clock \in 1..clock
        /\ (pc'[e] = "pointer" => plan'[e].hash \in Contents /\ plan'[e].stamp = clock)
    BY <1>8, <1>9, <1>10
  <2> QED
    BY <1>2, <2>1, <2>2 DEF Placed
<1>13. Audited(e)'
  <2>1. \A s : Usable(s, e)' = Usable(s, e)
    BY DEF Usable
  <2> QED
    BY <1>4, <1>5, <1>8, <2>1 DEF Audited
<1> QED
  BY <1>2, <1>3, <1>8, <1>10, <1>11, <1>12, <1>13, IdMoves

LEMMA Verifies ==
    ASSUME EvidenceInv, NEW e \in Ids, Verify(e)
    PROVE  EvidenceInv' /\ Onward
<1>1. e \in Writers /\ pc[e] = "verify"
  BY DEF Verify, Writers
<1>2. UNCHANGED <<store, draft, queue, target, plan, clock, created, storeFaults, crashes>>
  BY DEF Verify, world, budget, input
<1>3. draft # NoDraft => draft.by # e
  BY <1>1, NotMutating DEF Mutating
<1>4. \A s \in Futures : s.versions[e] = <<>> /\ ~ Usable(s, e)
  BY <1>1, NotYet DEF Unborn
<1>5. Futures' = Futures /\ store \in Futures /\ (draft # NoDraft => draft.store \in Futures)
  BY <1>2 DEF Futures
<1>6. PICK label \in {"refused", "commit"} : Goto(e, label) /\ (label = "commit" => Verified(e))
  BY DEF Verify
<1>7. label \in Places
  BY DEF Places, InFlight, Over
<1>8. /\ pc' \in [Writers -> Places] /\ pc'[e] = label
      /\ \A x \in Writers : x # e => pc'[x] = pc[x]
  BY <1>1, <1>6, <1>7, PcTyped, Moves
<1>9. TypeOK'
  BY <1>8 DEF Verify, EvidenceInv, Typed, TypeOK, Places, input, world, budget
<1>10. Placed(e)'
  <2>1. store.versions[e] = <<>> /\ (draft # NoDraft => draft.store.versions[e] = <<>>)
    BY <1>4, <1>5
  <2>2. /\ plan[e].hash \in Contents /\ plan[e].stamp \in 1..clock
        /\ \A s \in Futures : s.pointer[e] = plan[e].hash
    BY <1>1 DEF EvidenceInv, Placed
  <2>3. pc'[e] = "commit" => plan[e].hash = "quoting"
    BY <1>6, <1>8 DEF Verified
  <2> QED
    BY <1>2, <1>5, <2>1, <2>2, <2>3 DEF Placed
<1>11. Audited(e)'
  <2>1. \A s : Usable(s, e)' = Usable(s, e)
    BY DEF Usable
  <2> QED
    BY <1>4, <1>5, <1>8, <2>1 DEF Audited, Unborn
<1> QED
  BY <1>2, <1>3, <1>8, <1>9, <1>10, <1>11, IdMoves

LEMMA Audits ==
    ASSUME EvidenceInv, NEW e \in Ids, AppendCreated(e)
    PROVE  EvidenceInv' /\ Onward
<1>1. e \in Writers /\ pc[e] = "append"
  BY DEF AppendCreated, Writers
<1>2. /\ UNCHANGED <<store, draft, queue, target, plan, clock, storeFaults, crashes>>
      /\ created' = created \cup {e}
  BY DEF AppendCreated, world, budget, input
<1>3. draft # NoDraft => draft.by # e
  BY <1>1, NotMutating DEF Mutating
<1>4. Goto(e, "done") /\ "done" \in Places
  BY DEF AppendCreated, Places, Over
<1>5. /\ pc' \in [Writers -> Places] /\ pc'[e] = "done"
      /\ \A x \in Writers : x # e => pc'[x] = pc[x]
  BY <1>1, <1>4, PcTyped, Moves
<1>6. TypeOK'
  BY <1>2, <1>5 DEF AppendCreated, EvidenceInv, Typed, TypeOK, Places, input, world, budget
<1>7. Placed(e)' /\ Audited(e)'
  BY <1>2, <1>5 DEF Placed, Audited, Unborn
<1> QED
  BY <1>2, <1>3, <1>5, <1>6, <1>7, IdMoves

LEMMA AuditFails ==
    ASSUME EvidenceInv, NEW e \in Ids, CreatedThrows(e)
    PROVE  EvidenceInv' /\ Onward
<1>1. e \in Writers /\ pc[e] = "append"
  BY DEF CreatedThrows, Writers
<1>2. UNCHANGED <<store, draft, queue, target, plan, clock, created, storeFaults, crashes>>
  BY DEF CreatedThrows, world, input
<1>3. draft # NoDraft => draft.by # e
  BY <1>1, NotMutating DEF Mutating
<1>4. Goto(e, "compensate") /\ "compensate" \in Places
  BY DEF CreatedThrows, AfterLedgerFault, Places, InFlight
<1>5. /\ pc' \in [Writers -> Places] /\ pc'[e] = "compensate"
      /\ \A x \in Writers : x # e => pc'[x] = pc[x]
  BY <1>1, <1>4, PcTyped, Moves
<1>6. TypeOK'
  BY <1>2, <1>5 DEF CreatedThrows, EvidenceInv, Typed, TypeOK, Places, input, world
<1>7. Placed(e)' /\ Audited(e)'
  BY <1>2, <1>5 DEF Placed, Audited, Unborn
<1> QED
  BY <1>2, <1>3, <1>5, <1>6, <1>7, IdMoves

-----------------------------------------------------------------------------
(* A mutation of the store begins.                                         *)

LEMMA GrowsItself ==
    ASSUME NEW s \in Stores, NEW t
    PROVE  GrowsAt(s, s, t)
<1>1. ASSUME NEW e \in Ids
      PROVE  Len(s.versions[e]) \in Nat
  BY DEF Stores
<1> QED
  BY <1>1 DEF GrowsAt

LEMMA RecordedByNow ==
    ASSUME NEW s, Sound(s)
    PROVE  RecordedBy(s, clock)
<1>1. ASSUME NEW e \in Ids, NEW i \in 1..Len(s.versions[e])
      PROVE  s.versions[e][i].recorded <= clock
  BY DEF Sound, Chained
<1> QED
  BY <1>1 DEF RecordedBy

LEMMA Draws ==
    ASSUME EvidenceInv, draft = NoDraft, NEW w \in Writers, NEW n \in Stores,
           draft' = [by |-> w, store |-> n],
           UNCHANGED <<store, pc, input, created, governance, queue, world, budget>>,
           pc[w] \in Mutating,
           Sound(n), GrowsAt(store, n, clock),
           w \in Ids /\ pc[w] = "pointer" => n.pointer[w] = plan[w].hash,
           w \in Ids /\ pc[w] = "compensate" => ~ Usable(n, w),
           \A e \in Ids : ~ (e = w /\ pc[e] = "commit") =>
              /\ store.versions[e] = <<>> => n.versions[e] = <<>>
              /\ Usable(n, e) => Usable(store, e),
           \A e \in Ids : ~ (e = w /\ pc[e] = "pointer") => n.pointer[e] = store.pointer[e]
    PROVE  EvidenceInv' /\ Onward
<1>1. TypeOK /\ store \in Stores /\ clock \in Nat /\ clock > 0
  BY DEF EvidenceInv, Typed, TypeOK
<1>2. draft' # NoDraft /\ draft'.by = w /\ draft'.store = n
  BY Identities DEF NoDraft, Writers
<1>3. Futures = {store} /\ Futures' = {store, n}
  BY <1>2 DEF Futures
<1>4. TypeOK'
  BY <1>1 DEF TypeOK, input, world, budget
<1>5. Typed'
  BY <1>1, <1>4 DEF Typed, world
<1>6. Sound(store) /\ (Sound(store) => Sound(store)') /\ Sound(n)'
  BY <1>1, <1>3, SoundAges DEF EvidenceInv, world
<1>7. (\A s \in Futures : Sound(s))'
  BY <1>3, <1>6
<1>8. Drafted'
  <2>1. RecordedBy(store, clock) /\ clock \in 1..clock
    BY <1>1, <1>6, RecordedByNow
  <2>2. GrowsAt(store, n, clock)' /\ RecordedBy(store, clock)' /\ clock' = clock
    BY <2>1 DEF GrowsAt, RecordedBy, world
  <2>3. \E t \in 1..clock' : GrowsAt(store, draft.store, t)' /\ RecordedBy(store, t)'
    <3>1. GrowsAt(store, draft.store, clock)'
      BY <1>2, <2>2 DEF GrowsAt
    <3> QED
      BY <2>1, <2>2, <3>1
  <2>4. pc' = pc /\ plan' = plan
    BY DEF input
  <2>5. Usable(draft.store, draft.by)' = Usable(n, w)
    BY <1>2 DEF Usable
  <2>6. w \in Ids /\ pc[w] = "compensate" => ~ Usable(draft.store, draft.by)'
    BY <2>5
  <2>7. w \in Ids /\ pc[w] = "pointer" => draft'.store.pointer[draft'.by] = plan'[draft'.by].hash
    BY <1>2, <2>4
  <2> QED
    BY <1>2, <2>3, <2>4, <2>6, <2>7 DEF Drafted
<1>9. ASSUME NEW e \in Ids
      PROVE  Placed(e)'
  <2>1. Placed(e) /\ store' = store /\ pc' = pc /\ plan' = plan /\ clock' = clock
    BY DEF EvidenceInv, input, world
  <2>2. pc[e] \in Unborn => store.versions[e] = <<>>
    BY <2>1 DEF Placed
  <2>3. pc[e] \in Unborn /\ ~ (w = e /\ pc[e] = "commit") => n.versions[e] = <<>>
    BY <2>2
  <2>4. pc[e] \in {"verify", "commit"} =>
           store.pointer[e] = plan[e].hash /\ n.pointer[e] = plan[e].hash
    BY <1>3, <2>1 DEF Placed
  <2>5. pc[e] \in {"verify", "commit"} => \A s \in {store, n} : s.pointer[e] = plan[e].hash
    BY <2>4
  <2> QED
    BY <1>2, <1>3, <2>1, <2>2, <2>3, <2>5 DEF Placed
<1>10. ASSUME NEW e \in Ids
       PROVE  Audited(e)'
  <2>1. Audited(e) /\ pc' = pc /\ created' = created /\ UNCHANGED <<storeFaults, crashes>>
    BY DEF EvidenceInv, budget
  <2>2. \A s : Usable(s, e)' = Usable(s, e)
    BY DEF Usable
  <2>3. (pc[e] \in Unborn \cup {"append", "compensate", "done"} \/ ~ Usable(store, e)) =>
           (pc[e] \in Unborn \cup {"append", "compensate", "done"}
            \/ \A s \in {store, n} : ~ Usable(s, e))
    BY DEF Unborn
  <2> QED
    BY <1>3, <2>1, <2>2, <2>3 DEF Audited
<1>11. \A c \in Calls : Asked(c)'
  BY DEF EvidenceInv, Asked, input
<1>12. Waiting'
  BY DEF EvidenceInv, Waiting
<1>13. Onward
  BY <1>1, <1>3 DEF Onward, world
<1> QED
  BY <1>5, <1>7, <1>8, <1>9, <1>10, <1>11, <1>12, <1>13 DEF EvidenceInv

LEMMA Points ==
    ASSUME EvidenceInv, NEW e \in Ids, AppendPointer(e)
    PROVE  EvidenceInv' /\ Onward
<1>1. /\ e \in Writers /\ pc[e] = "pointer" /\ draft = NoDraft /\ store \in Stores
      /\ pc[e] \in Mutating
  BY DEF AppendPointer, Mutate, Writers, Mutating, EvidenceInv, Typed, TypeOK
<1>2. Sound(store) /\ store.versions[e] = <<>> /\ plan[e].hash \in Contents
  BY <1>1 DEF EvidenceInv, Placed, Unborn, Futures
<1>3. PICK f : f = [store.pointer EXCEPT ![e] = plan[e].hash]
  OBVIOUS
<1>4. /\ f \in [Ids -> Contents \cup {None}] /\ f[e] = plan[e].hash
      /\ \A d \in Ids : d # e => f[d] = store.pointer[d]
  BY <1>1, <1>2, <1>3 DEF Stores
<1>5. PICK n : n = [store EXCEPT !.pointer = f]
  OBVIOUS
<1>6. /\ n \in Stores /\ n.versions = store.versions /\ n.pointer = f
      /\ n.cited = store.cited
  BY <1>1, <1>4, <1>5 DEF Stores
<1>7. draft' = [by |-> e, store |-> n]
  BY <1>3, <1>5 DEF AppendPointer, Mutate
<1>8. Sound(n)
  <2> SUFFICES ASSUME NEW d \in Ids
               PROVE  /\ Chained(n.versions[d])
                      /\ n.versions[d] # <<>> => n.pointer[d] = "quoting"
                      /\ n.versions[d] # <<>> <=> d \in n.cited
    BY DEF Sound
  <2>1. /\ Chained(store.versions[d])
        /\ store.versions[d] # <<>> => store.pointer[d] = "quoting"
        /\ store.versions[d] # <<>> <=> d \in store.cited
    BY <1>2 DEF Sound
  <2> QED
    BY <1>2, <1>4, <1>6, <2>1
<1>9. GrowsAt(store, n, clock)
  <2>1. \A d \in Ids : Len(store.versions[d]) \in Nat
    BY <1>1 DEF Stores
  <2> QED
    BY <1>6, <2>1 DEF GrowsAt
<1>10. \A d \in Ids : Usable(n, d) = Usable(store, d)
  BY <1>6 DEF Usable
<1>11. UNCHANGED <<store, pc, input, created, governance, queue, world, budget>>
  BY DEF AppendPointer
<1> QED
  BY <1>1, <1>4, <1>6, <1>7, <1>8, <1>9, <1>10, <1>11, Draws

LEMMA Commits ==
    ASSUME EvidenceInv, NEW e \in Ids, AppendEvidence(e)
    PROVE  EvidenceInv' /\ Onward
<1>1. /\ e \in Writers /\ pc[e] = "commit" /\ draft = NoDraft /\ store \in Stores
      /\ pc[e] \in Mutating /\ clock \in Nat /\ clock > 0
  BY DEF AppendEvidence, Mutate, Writers, Mutating, EvidenceInv, Typed, TypeOK
<1>2. /\ Sound(store) /\ store.versions[e] = <<>> /\ store.pointer[e] = "quoting"
      /\ plan[e].stamp \in 1..clock
  BY <1>1 DEF EvidenceInv, Placed, Unborn, Futures
<1>3. PICK v : v = FirstVersion(e)
  OBVIOUS
<1>4. v \in Versions /\ v.recorded \in 1..clock /\ v.closed = Open
  BY <1>1, <1>2, <1>3 DEF FirstVersion, Versions, Status, Open
<1>5. PICK w : w = <<v>>
  OBVIOUS
<1>6. Chained(w) /\ w \in Seq(Versions) /\ w # <<>>
  BY <1>1, <1>4, <1>5, FirstChain
<1>7. PICK m : m = [store EXCEPT !.cited = @ \cup {e}]
  OBVIOUS
<1>8. /\ m \in Stores /\ m.versions = store.versions /\ m.pointer = store.pointer
      /\ m.cited = store.cited \cup {e}
  BY <1>1, <1>7 DEF Stores
<1>9. PICK n : n = [m EXCEPT !.versions[e] = w]
  OBVIOUS
<1>10. /\ n \in Stores /\ n.versions[e] = w /\ n.pointer = m.pointer /\ n.cited = m.cited
       /\ \A d \in Ids : d # e => n.versions[d] = m.versions[d]
  <2>1. PICK f : f = [m.versions EXCEPT ![e] = w]
    OBVIOUS
  <2>2. /\ f \in [Ids -> Seq(Versions)] /\ f[e] = w
        /\ \A d \in Ids : d # e => f[d] = m.versions[d]
    BY <1>6, <1>8, <2>1 DEF Stores
  <2>3. n = [m EXCEPT !.versions = f]
    BY <1>9, <2>1
  <2>4. n \in Stores /\ n.versions = f /\ n.pointer = m.pointer /\ n.cited = m.cited
    BY <1>8, <2>2, <2>3 DEF Stores
  <2> QED
    BY <2>2, <2>4
<1>11. draft' = [by |-> e, store |-> n]
  BY <1>3, <1>5, <1>7, <1>9 DEF AppendEvidence, Mutate
<1>12. Sound(n)
  <2> SUFFICES ASSUME NEW d \in Ids
               PROVE  /\ Chained(n.versions[d])
                      /\ n.versions[d] # <<>> => n.pointer[d] = "quoting"
                      /\ n.versions[d] # <<>> <=> d \in n.cited
    BY DEF Sound
  <2>1. CASE d = e
    BY <1>2, <1>6, <1>8, <1>10, <2>1
  <2>2. CASE d # e
    <3>1. /\ Chained(store.versions[d])
          /\ store.versions[d] # <<>> => store.pointer[d] = "quoting"
          /\ store.versions[d] # <<>> <=> d \in store.cited
      BY <1>2 DEF Sound
    <3>2. n.versions[d] = store.versions[d] /\ n.pointer[d] = store.pointer[d]
          /\ (d \in n.cited <=> d \in store.cited)
      BY <1>8, <1>10, <2>2
    <3> QED
      BY <3>1, <3>2
  <2> QED
    BY <2>1, <2>2
<1>13. GrowsAt(store, n, clock)
  <2> SUFFICES ASSUME NEW d \in Ids
               PROVE  /\ Len(n.versions[d]) >= Len(store.versions[d])
                      /\ \A i \in 1..Len(store.versions[d]) :
                            n.versions[d][i] = store.versions[d][i]
    BY DEF GrowsAt
  <2>1. Len(store.versions[d]) \in Nat
    BY <1>1 DEF Stores
  <2>2. CASE d = e
    <3>1. Len(store.versions[d]) = 0 /\ Len(n.versions[d]) \in Nat
      BY <1>2, <1>6, <1>10, <2>2
    <3> QED
      BY <3>1
  <2>3. CASE d # e
    BY <1>8, <1>10, <2>1, <2>3
  <2> QED
    BY <2>2, <2>3
<1>14. \A d \in Ids : d # e => Usable(n, d) = Usable(store, d) /\ n.versions[d] = store.versions[d]
  BY <1>8, <1>10 DEF Usable
<1>15. n.pointer = store.pointer
  BY <1>8, <1>10
<1>16. UNCHANGED <<store, pc, input, created, governance, queue, world, budget>>
  BY DEF AppendEvidence
<1> QED
  BY <1>1, <1>10, <1>11, <1>12, <1>13, <1>14, <1>15, <1>16, Draws

\* A transition of a stored Evidence: to a status that is not ACTIVE.
LEMMA MovesOn ==
    ASSUME EvidenceInv, draft = NoDraft, NEW w \in Writers, NEW e \in Ids,
           NEW status \in Status \ {"ACTIVE"}, Exists(e),
           pc[w] \in {"compensate", "transition"},
           draft' = [by |-> w, store |-> Moved(e, status)],
           w \in Ids => w = e \/ pc[w] # "compensate",
           UNCHANGED <<store, pc, input, created, governance, queue, world, budget>>
    PROVE  EvidenceInv' /\ Onward
<1>1. Typed /\ Sound(store)
  BY DEF EvidenceInv, Futures
<1>2. PICK n : n = Moved(e, status)
  OBVIOUS
<1>3. /\ n \in Stores /\ Sound(n) /\ GrowsAt(store, n, clock) /\ n.pointer = store.pointer
      /\ \A d \in Ids : d # e => n.versions[d] = store.versions[d]
      /\ ~ Usable(n, e)
  BY <1>1, <1>2, MovedGrows
<1>4. pc[w] \in Mutating
  BY DEF Mutating
<1>5. \A d \in Ids : Usable(n, d) => Usable(store, d)
  BY <1>3 DEF Usable
<1>6. \A d \in Ids : store.versions[d] # <<>> \/ n.versions[d] = <<>>
  BY <1>3 DEF Exists
<1>7. /\ w \in Ids /\ pc[w] = "pointer" => n.pointer[w] = plan[w].hash
      /\ w \in Ids /\ pc[w] = "compensate" => ~ Usable(n, w)
  BY <1>3
<1>8. draft' = [by |-> w, store |-> n]
  BY <1>2
<1> QED
  BY <1>3, <1>4, <1>5, <1>6, <1>7, <1>8, Draws

LEMMA CannotMove ==
    ASSUME EvidenceInv, NEW e \in Ids, ~ MayMove(e, "ACTIVE")
    PROVE  ~ Usable(store, e)
<1>1. Sound(store) /\ store \in Stores
  BY DEF EvidenceInv, Futures, Typed, TypeOK
<1>2. Exists(e) => Current(e).closed = Open
  <2>1. Chained(store.versions[e]) /\ Len(store.versions[e]) \in Nat
    BY <1>1 DEF Sound, Stores
  <2>2. Exists(e) => Len(store.versions[e]) \in 1..Len(store.versions[e])
    BY <1>1 DEF Exists, Stores
  <2> QED
    BY <2>1, <2>2 DEF Chained, Current
<1> QED
  BY <1>2, NoneApart DEF MayMove, Usable, Exists, Current, Status

LEMMA Compensates ==
    ASSUME EvidenceInv, NEW e \in Ids, Compensate(e)
    PROVE  EvidenceInv' /\ Onward
<1>1. /\ e \in Writers /\ pc[e] = "compensate" /\ draft = NoDraft
      /\ UNCHANGED <<store, created, governance, queue, input, world, budget>>
  BY DEF Compensate, Transition, Mutate, Writers
<1>2. CASE MayMove(e, "ACTIVE")
  <2>1. draft' = [by |-> e, store |-> Moved(e, "COMPROMISED")] /\ UNCHANGED pc
    BY <1>2 DEF Compensate, Transition, Mutate
  <2>2. Exists(e) /\ "COMPROMISED" \in Status \ {"ACTIVE"}
    BY <1>2 DEF MayMove, Status
  <2> QED
    BY <1>1, <2>1, <2>2, MovesOn
<1>3. CASE ~ MayMove(e, "ACTIVE")
  <2>1. UNCHANGED <<store, draft, queue, target, plan, clock, created, storeFaults, crashes>>
    BY <1>1, <1>3 DEF Compensate, Transition, world, budget, input
  <2>2. Goto(e, "threw") /\ "threw" \in Places
    BY <1>3 DEF Compensate, Transition, Places, Over
  <2>3. /\ pc' \in [Writers -> Places] /\ pc'[e] = "threw"
        /\ \A x \in Writers : x # e => pc'[x] = pc[x]
    BY <1>1, <2>2, PcTyped, Moves
  <2>4. TypeOK'
    BY <1>1, <2>1, <2>3 DEF EvidenceInv, Typed, TypeOK, Places, input, world, budget
  <2>5. Placed(e)'
    BY <2>1, <2>3 DEF Placed, Unborn
  <2>6. Audited(e)'
    <3>1. ~ Usable(store, e) /\ Futures' = {store}
      BY <1>1, <1>3, <2>1, CannotMove DEF Futures
    <3>2. \A s : Usable(s, e)' = Usable(s, e)
      BY DEF Usable
    <3> QED
      BY <2>3, <3>1, <3>2 DEF Audited
  <2> QED
    BY <1>1, <2>1, <2>3, <2>4, <2>5, <2>6, IdMoves
<1> QED
  BY <1>2, <1>3

-----------------------------------------------------------------------------
(* The requests.                                                           *)

\* A request moves, and the queue keeps what it had or loses its head.
LEMMA CallMoves ==
    ASSUME EvidenceInv, TypeOK', NEW c \in Calls, UNCHANGED <<store, draft, plan, created>>,
           clock' = clock, draft # NoDraft => draft.by # c,
           \A x \in Writers : x # c => pc'[x] = pc[x],
           \A d \in Calls : d # c => target'[d] = target[d],
           storeFaults' = storeFaults /\ crashes' = crashes,
           Asked(c)',
           queue' = queue \/ (queue # <<>> /\ queue' = Tail(queue)),
           pc[c] \in {"event", "done", "threw"} => pc'[c] \in {"event", "done", "threw"}
    PROVE  EvidenceInv' /\ Onward
<1>1. clock \in Nat /\ clock <= clock'
  BY DEF EvidenceInv, Typed, TypeOK
<1>2. /\ Typed' /\ Drafted' /\ (\A s \in Futures : Sound(s))' /\ Onward
      /\ \A e \in Ids : e # c => Placed(e)' /\ Audited(e)'
      /\ \A d \in Calls : d # c => Asked(d)'
  BY <1>1, Still
<1>3. \A e \in Ids : e # c
  BY Identities
<1>4. Waiting'
  <2>1. queue \in Seq(Calls) /\ Waiting
    BY DEF EvidenceInv, Typed, TypeOK
  <2>2. \A i \in 1..Len(queue) : queue[i] \in Calls /\ pc[queue[i]] \in {"event", "done", "threw"}
    BY <2>1 DEF Waiting
  <2>3. \A i \in 1..Len(queue) : pc'[queue[i]] \in {"event", "done", "threw"}
    BY <2>2 DEF Writers
  <2>4. CASE queue' = queue
    BY <2>3, <2>4 DEF Waiting
  <2>5. CASE queue # <<>> /\ queue' = Tail(queue)
    <3>1. \A i \in 1..Len(queue') : i + 1 \in 1..Len(queue) /\ queue'[i] = queue[i + 1]
      BY <2>1, <2>5
    <3> QED
      BY <2>3, <3>1 DEF Waiting
  <2> QED
    BY <2>4, <2>5
<1> QED
  BY <1>2, <1>3, <1>4 DEF EvidenceInv

LEMMA TargetTyped == ASSUME EvidenceInv PROVE target \in [Calls -> Targets]
BY DEF EvidenceInv, Typed, TypeOK

LEMMA Requests ==
    ASSUME EvidenceInv, NEW c \in Calls, NEW status \in Status \ {"ACTIVE"}, NEW e \in Ids,
           Request(c, status, e)
    PROVE  EvidenceInv' /\ Onward
<1>1. c \in Writers /\ pc[c] = "idle"
  BY DEF Request, Writers
<1>2. UNCHANGED <<store, draft, plan, created, governance, queue, world, budget>>
  BY DEF Request
<1>3. draft # NoDraft => draft.by # c
  BY <1>1, NotMutating DEF Mutating
<1>4. Goto(c, "transition") /\ "transition" \in Places
  BY DEF Request, Places, InFlight
<1>5. /\ pc' \in [Writers -> Places] /\ pc'[c] = "transition"
      /\ \A x \in Writers : x # c => pc'[x] = pc[x]
  BY <1>1, <1>4, PcTyped, Moves
<1>6. PICK a : a = [status |-> status, id |-> e]
  OBVIOUS
<1>7. a \in Targets /\ a.status = status /\ a.id = e
  BY <1>6 DEF Targets
<1>8. target' = [target EXCEPT ![c] = a]
  BY <1>6 DEF Request
<1>9. /\ target' \in [Calls -> Targets] /\ target'[c] = a
      /\ \A d \in Calls : d # c => target'[d] = target[d]
  BY <1>7, <1>8, TargetTyped
<1>10. TypeOK'
  BY <1>2, <1>5, <1>9 DEF EvidenceInv, Typed, TypeOK, Places, world, budget
<1>11. Asked(c)'
  BY <1>5, <1>7, <1>9 DEF Asked
<1>12. clock' = clock /\ storeFaults' = storeFaults /\ crashes' = crashes
  BY <1>2 DEF world, budget
<1> QED
  BY <1>1, <1>2, <1>3, <1>5, <1>9, <1>10, <1>11, <1>12, CallMoves

LEMMA MovesEvidence ==
    ASSUME EvidenceInv, NEW c \in Calls, MoveEvidence(c)
    PROVE  EvidenceInv' /\ Onward
<1>1. /\ c \in Writers /\ pc[c] = "transition" /\ draft = NoDraft
      /\ UNCHANGED <<store, created, governance, queue, input, world, budget>>
  BY DEF MoveEvidence, Transition, Mutate, Writers
<1>2. PICK e \in Ids : e = target[c].id
  BY <1>1 DEF EvidenceInv, Asked
<1>3. PICK status \in Status \ {"ACTIVE"} : status = target[c].status
  BY <1>1 DEF EvidenceInv, Asked
<1>4. CASE MayMove(e, Required(c))
  <2>1. draft' = [by |-> c, store |-> Moved(e, status)] /\ UNCHANGED pc
    BY <1>2, <1>3, <1>4 DEF MoveEvidence, Transition, Mutate
  <2>2. Exists(e)
    BY <1>4 DEF MayMove
  <2>3. c \notin Ids
    BY Identities
  <2> QED
    BY <1>1, <2>1, <2>2, <2>3, MovesOn
<1>5. CASE ~ MayMove(e, Required(c))
  <2>1. UNCHANGED <<store, draft, queue, target, plan, clock, created, storeFaults, crashes>>
    BY <1>1, <1>2, <1>3, <1>5 DEF MoveEvidence, Transition, world, budget, input
  <2>2. Goto(c, "threw") /\ "threw" \in Places
    BY <1>2, <1>3, <1>5 DEF MoveEvidence, Transition, Places, Over
  <2>3. /\ pc' \in [Writers -> Places] /\ pc'[c] = "threw"
        /\ \A x \in Writers : x # c => pc'[x] = pc[x]
    BY <1>1, <2>2, PcTyped, Moves
  <2>4. TypeOK'
    BY <1>1, <2>1, <2>3 DEF EvidenceInv, Typed, TypeOK, Places, input, world, budget
  <2>5. Asked(c)'
    BY <2>3 DEF Asked
  <2>6. draft # NoDraft => draft.by # c
    BY <1>1
  <2> QED
    BY <1>1, <2>1, <2>3, <2>4, <2>5, <2>6, CallMoves
<1> QED
  BY <1>4, <1>5

\* The head of the governance queue is a request that waits there.
LEMMA HeadWaits ==
    ASSUME EvidenceInv, queue # <<>>
    PROVE  /\ Head(queue) \in Calls /\ Tail(queue) \in Seq(Calls)
           /\ pc[Head(queue)] \in {"event", "done", "threw"}
           /\ draft # NoDraft => draft.by # Head(queue)
<1>1. queue \in Seq(Calls) /\ Waiting
  BY DEF EvidenceInv, Typed, TypeOK
<1>2. /\ Head(queue) \in Calls /\ Tail(queue) \in Seq(Calls)
      /\ Head(queue) = queue[1] /\ Len(queue) >= 1
  BY <1>1
<1>3. pc[Head(queue)] \in {"event", "done", "threw"}
  BY <1>1, <1>2 DEF Waiting
<1> QED
  BY <1>2, <1>3, NotMutating DEF Mutating

LEMMA GovernanceMoves ==
    ASSUME EvidenceInv, queue # <<>>, NEW label \in {"done", "threw"},
           Goto(Head(queue), label), queue' = Tail(queue), governance' \in Seq(Targets),
           ledgerFaults' \in Nat,
           UNCHANGED <<store, draft, created, input, world, storeFaults, crashes>>
    PROVE  EvidenceInv' /\ Onward
<1>1. PICK c \in Calls : c = Head(queue)
  BY HeadWaits
<1>2. c \in Writers /\ label \in Places
  BY DEF Writers, Places, Over
<1>3. /\ pc' \in [Writers -> Places] /\ pc'[c] = label
      /\ \A x \in Writers : x # c => pc'[x] = pc[x]
  BY <1>1, <1>2, PcTyped, Moves
<1>4. TypeOK'
  <2>1. queue' \in Seq(Calls)
    BY HeadWaits
  <2> QED
    BY <1>3, <2>1 DEF EvidenceInv, Typed, TypeOK, Places, input, world
<1>5. Asked(c)'
  BY <1>3 DEF Asked
<1>6. UNCHANGED <<plan, target, clock>>
  BY DEF input, world
<1> QED
  BY <1>1, <1>3, <1>4, <1>5, <1>6, HeadWaits, CallMoves

LEMMA Governs ==
    ASSUME EvidenceInv, GovernanceAppend \/ GovernanceThrows
    PROVE  EvidenceInv' /\ Onward
<1>1. governance \in Seq(Targets) /\ ledgerFaults \in Nat /\ target \in [Calls -> Targets]
  BY DEF EvidenceInv, Typed, TypeOK
<1>2. CASE GovernanceAppend
  <2>1. Head(queue) \in Calls /\ queue # <<>>
    BY <1>2, HeadWaits DEF GovernanceAppend
  <2>2. target[Head(queue)] \in Targets
    BY <1>1, <2>1
  <2>3. governance' \in Seq(Targets) /\ ledgerFaults' \in Nat
    BY <1>1, <1>2, <2>2 DEF GovernanceAppend, budget
  <2>4. /\ Goto(Head(queue), "done") /\ queue' = Tail(queue)
        /\ UNCHANGED <<store, draft, created, input, world, storeFaults, crashes>>
    BY <1>2 DEF GovernanceAppend, budget
  <2> QED
    BY <2>1, <2>3, <2>4, GovernanceMoves
<1>3. CASE GovernanceThrows
  <2>1. governance' \in Seq(Targets) /\ ledgerFaults' \in Nat /\ queue # <<>>
    BY <1>1, <1>3 DEF GovernanceThrows
  <2>2. /\ Goto(Head(queue), "threw") /\ queue' = Tail(queue)
        /\ UNCHANGED <<store, draft, created, input, world, storeFaults, crashes>>
    BY <1>3 DEF GovernanceThrows
  <2> QED
    BY <2>1, <2>2, GovernanceMoves
<1> QED
  BY <1>2, <1>3

\* The file, the clock and a fault of another store's: nobody moves.
LEMMA NobodyMoves ==
    ASSUME EvidenceInv, UNCHANGED <<store, draft, created, governance, queue, pc, input>>,
           UNCHANGED <<ledgerFaults, crashes>>,
           file' \in Contents, clock' \in Nat, clock <= clock', edits' \in Nat,
           storeFaults' \in Nat, storeFaults <= storeFaults'
    PROVE  EvidenceInv' /\ Onward
<1>1. TypeOK'
  BY DEF EvidenceInv, Typed, TypeOK, input
<1>2. None \notin Ids \cup Calls
  BY Identities
<1>3. storeFaults \in Nat /\ (draft # NoDraft => draft.by # None)
  BY <1>2, FutureStores DEF EvidenceInv, Typed, TypeOK, Writers
<1>4. /\ Typed' /\ Drafted' /\ (\A s \in Futures : Sound(s))' /\ Onward
      /\ \A e \in Ids : e # None => Placed(e)' /\ Audited(e)'
      /\ \A c \in Calls : c # None => Asked(c)'
  <2>1. /\ \A x \in Writers : x # None => pc'[x] = pc[x]
        /\ \A e \in Ids : e # None => plan'[e] = plan[e]
        /\ \A c \in Calls : c # None => target'[c] = target[c]
        /\ created \subseteq created'
        /\ UNCHANGED <<store, draft>>
    BY DEF input
  <2>2. storeFaults' = 0 /\ crashes' = 0 => storeFaults = 0 /\ crashes = 0
    BY <1>3
  <2> QED
    BY <1>1, <1>3, <2>1, <2>2, Still
<1>5. Waiting'
  BY DEF EvidenceInv, Waiting
<1> QED
  BY <1>2, <1>4, <1>5 DEF EvidenceInv

-----------------------------------------------------------------------------
(* A mutation of the store ends.                                           *)

LEMMA Settles ==
    ASSUME EvidenceInv, TypeOK', draft' = NoDraft, store' \in Futures, clock' = clock
    PROVE  /\ Typed' /\ Drafted' /\ (\A s \in Futures : Sound(s))' /\ Onward
           /\ Futures' = {store'} /\ Futures' \subseteq Futures
<1>1. clock \in Nat /\ clock > 0
  BY DEF EvidenceInv, Typed, TypeOK
<1>2. Futures' = {store'} /\ Futures' \subseteq Futures
  BY DEF Futures
<1>3. Typed' /\ Drafted'
  BY <1>1 DEF Typed, Drafted
<1>4. \A s \in Futures : Sound(s)'
  BY <1>1, SoundAges DEF EvidenceInv
<1>5. Onward
  BY <1>1, <1>2 DEF Onward
<1> QED
  BY <1>2, <1>3, <1>4, <1>5

LEMMA AfterMutating ==
    ASSUME NEW w, pc[w] \in Mutating
    PROVE  /\ After(w) \in {"verify", "append", "threw", "event"} \cap Places
           /\ pc[w] = "pointer" => After(w) = "verify"
           /\ pc[w] = "commit" => After(w) = "append"
           /\ pc[w] = "compensate" => After(w) = "threw"
           /\ pc[w] = "transition" => After(w) = "event"
<1>1. pc[w] \in {"pointer", "commit", "compensate", "transition"}
  BY DEF Mutating
<1> QED
  BY <1>1 DEF After, AfterCreate, Places, InFlight, Over

\* Whoever is not storing anything keeps its place when the store moves on.
LEMMA KeepsPlace ==
    ASSUME EvidenceInv, draft' = NoDraft, store' \in Futures, Futures' = {store'},
           UNCHANGED <<plan, clock>>, created' = created,
           storeFaults' = 0 /\ crashes' = 0 => storeFaults = 0 /\ crashes = 0,
           NEW e \in Ids, draft # NoDraft => draft.by # e, pc'[e] = pc[e]
    PROVE  Placed(e)' /\ Audited(e)'
<1>1. Placed(e) /\ Audited(e)
  BY DEF EvidenceInv
<1>2. pc[e] \in Unborn => \A s \in Futures : s.versions[e] = <<>>
  BY <1>1 DEF Placed, Futures
<1>3. Placed(e)'
  BY <1>1, <1>2 DEF Placed
<1>4. \A s : Usable(s, e)' = Usable(s, e)
  BY DEF Usable
<1>5. Audited(e)'
  BY <1>1, <1>4 DEF Audited
<1> QED
  BY <1>3, <1>5

LEMMA Persists ==
    ASSUME EvidenceInv, Persist
    PROVE  EvidenceInv' /\ Onward
<1>1. PICK w \in Writers : w = draft.by
  BY FutureStores DEF Persist, EvidenceInv, Typed
<1>2. /\ draft # NoDraft /\ draft' = NoDraft /\ store' = draft.store /\ Goto(w, After(w))
      /\ queue' = IF w \in Calls THEN Append(queue, w) ELSE queue
      /\ UNCHANGED <<created, governance, input, world, budget>>
  BY <1>1 DEF Persist, Enqueued
<1>3. /\ pc[w] \in Mutating
      /\ w \in Ids /\ pc[w] = "pointer" => draft.store.pointer[w] = plan[w].hash
      /\ w \in Ids /\ pc[w] = "compensate" => ~ Usable(draft.store, w)
  BY <1>1, <1>2 DEF EvidenceInv, Drafted
<1>4. PICK label \in Places : label = After(w)
  BY <1>3, AfterMutating
<1>5. /\ label \in {"verify", "append", "threw", "event"}
      /\ pc[w] = "pointer" => label = "verify"
      /\ pc[w] = "commit" => label = "append"
      /\ pc[w] = "compensate" => label = "threw"
      /\ pc[w] = "transition" => label = "event"
  BY <1>3, <1>4, AfterMutating
<1>6. /\ pc' \in [Writers -> Places] /\ pc'[w] = label
      /\ \A x \in Writers : x # w => pc'[x] = pc[x]
  BY <1>2, <1>4, PcTyped, Moves
<1>7. store' \in Futures /\ store' \in Stores
  BY <1>2, FutureStores DEF EvidenceInv, Typed
<1>8. queue \in Seq(Calls) /\ queue' \in Seq(Calls)
  BY <1>2 DEF EvidenceInv, Typed, TypeOK
<1>9. TypeOK'
  BY <1>2, <1>6, <1>7, <1>8 DEF EvidenceInv, Typed, TypeOK, Places, input, world, budget
<1>10. UNCHANGED <<plan, target, clock, storeFaults, crashes>>
  BY <1>2 DEF input, world, budget
<1>11. /\ Typed' /\ Drafted' /\ (\A s \in Futures : Sound(s))' /\ Onward
       /\ Futures' = {store'} /\ Futures' \subseteq Futures
  BY <1>2, <1>7, <1>9, <1>10, Settles
<1>12. ASSUME NEW e \in Ids
       PROVE  Placed(e)' /\ Audited(e)'
  <2>1. CASE e # w
    <3>1. pc'[e] = pc[e] /\ (draft # NoDraft => draft.by # e)
      BY <1>1, <1>6, <2>1 DEF Writers
    <3> QED
      BY <1>2, <1>7, <1>10, <1>11, <3>1, KeepsPlace
  <2>2. CASE e = w
    <3>1. Placed(e) /\ Audited(e)
      BY DEF EvidenceInv
    <3>2. pc[e] = "pointer" => /\ store'.versions[e] = <<>>
                               /\ plan[e].hash \in Contents /\ plan[e].stamp \in 1..clock
                               /\ store'.pointer[e] = plan[e].hash
      BY <1>2, <1>3, <2>2, <3>1 DEF Placed, Unborn
    <3>3. pc'[e] = "verify" => pc[e] = "pointer"
      BY <1>3, <1>5, <1>6, <2>2 DEF Mutating
    <3>4. pc'[e] \in {"verify", "append", "threw", "event"}
      BY <1>5, <1>6, <2>2
    <3>5. Placed(e)'
      BY <1>2, <1>10, <1>11, <3>2, <3>3, <3>4 DEF Placed, Unborn
    <3>6. \A s : Usable(s, e)' = Usable(s, e)
      BY DEF Usable
    <3>7. Audited(e)'
      <4>1. CASE pc[e] \in {"pointer", "commit"}
        <5>1. pc'[e] \in {"verify", "append"}
          BY <1>5, <1>6, <2>2, <4>1
        <5> QED
          BY <5>1 DEF Audited, Unborn
      <4>2. CASE pc[e] = "compensate"
        <5>1. pc'[e] = "threw" /\ ~ Usable(store', e)
          BY <1>2, <1>3, <1>5, <1>6, <2>2, <4>2
        <5> QED
          BY <1>11, <3>6, <5>1 DEF Audited
      <4>3. CASE pc[e] = "transition"
        <5>1. pc'[e] = "event"
          BY <1>5, <1>6, <2>2, <4>3
        <5>2. storeFaults = 0 /\ crashes = 0 => \A s \in Futures : ~ Usable(s, e)
          BY <3>1, <4>3 DEF Audited, Unborn
        <5> QED
          BY <1>10, <1>11, <3>6, <5>1, <5>2 DEF Audited
      <4> QED
        BY <1>3, <2>2, <4>1, <4>2, <4>3 DEF Mutating
    <3> QED
      BY <3>5, <3>7
  <2> QED
    BY <2>1, <2>2
<1>13. ASSUME NEW c \in Calls
       PROVE  Asked(c)'
  <2>1. Asked(c) /\ c \in Writers
    BY DEF EvidenceInv, Writers
  <2>2. CASE c # w
    BY <1>6, <1>10, <2>1, <2>2 DEF Asked
  <2>3. CASE c = w
    <3>1. pc[c] = "transition"
      BY <1>3, <2>1, <2>3 DEF Asked, Mutating
    <3>2. pc'[c] = "event"
      BY <1>5, <1>6, <2>3, <3>1
    <3> QED
      BY <3>2 DEF Asked
  <2> QED
    BY <2>2, <2>3
<1>14. Waiting'
  <2>1. ASSUME NEW i \in 1..Len(queue)
        PROVE  pc'[queue[i]] \in {"event", "done", "threw"}
    <3>1. queue[i] \in Writers /\ pc[queue[i]] \in {"event", "done", "threw"}
      BY <1>8 DEF EvidenceInv, Waiting, Writers
    <3>2. queue[i] # w
      BY <1>3, <3>1 DEF Mutating
    <3> QED
      BY <1>6, <3>1, <3>2
  <2>2. CASE w \notin Calls
    BY <1>2, <2>1, <2>2 DEF Waiting
  <2>3. CASE w \in Calls
    <3>1. pc'[w] = "event"
      <4>1. pc[w] = "transition"
        BY <1>3, <2>3 DEF EvidenceInv, Asked, Mutating
      <4> QED
        BY <1>5, <1>6, <4>1
    <3>2. PICK q : q = Append(queue, w)
      OBVIOUS
    <3>3. /\ q = queue' /\ Len(q) = Len(queue) + 1 /\ q[Len(queue) + 1] = w
          /\ Len(queue) \in Nat /\ \A i \in 1..Len(queue) : q[i] = queue[i]
      BY <1>2, <1>8, <2>3, <3>2
    <3>4. ASSUME NEW i \in 1..Len(q)
          PROVE  pc'[q[i]] \in {"event", "done", "threw"}
      <4>1. i \in 1..Len(queue) \/ i = Len(queue) + 1
        BY <3>3
      <4> QED
        BY <2>1, <3>1, <3>3, <4>1
    <3> QED
      BY <3>3, <3>4 DEF Waiting
  <2> QED
    BY <2>2, <2>3
<1> QED
  BY <1>11, <1>12, <1>13, <1>14 DEF EvidenceInv

LEMMA PersistThrows ==
    ASSUME EvidenceInv, PersistFails
    PROVE  EvidenceInv' /\ Onward
<1>1. PICK w \in Writers : w = draft.by
  BY FutureStores DEF PersistFails, EvidenceInv, Typed
<1>2. /\ draft # NoDraft /\ draft' = NoDraft /\ Goto(w, "threw") /\ storeFaults' = storeFaults + 1
      /\ UNCHANGED <<store, created, governance, queue, input, world, ledgerFaults, crashes>>
  BY <1>1 DEF PersistFails
<1>3. pc[w] \in Mutating /\ "threw" \in Places
  BY <1>1, <1>2 DEF EvidenceInv, Drafted, Places, Over
<1>4. /\ pc' \in [Writers -> Places] /\ pc'[w] = "threw"
      /\ \A x \in Writers : x # w => pc'[x] = pc[x]
  BY <1>2, <1>3, PcTyped, Moves
<1>5. storeFaults \in Nat /\ storeFaults' \in Nat /\ storeFaults' # 0
  BY <1>2 DEF EvidenceInv, Typed, TypeOK
<1>6. TypeOK'
  BY <1>2, <1>4, <1>5 DEF EvidenceInv, Typed, TypeOK, Places, input, world
<1>7. store' \in Futures /\ UNCHANGED <<plan, target, clock, crashes>>
  BY <1>2 DEF Futures, input, world
<1>8. /\ Typed' /\ Drafted' /\ (\A s \in Futures : Sound(s))' /\ Onward
      /\ Futures' = {store'} /\ Futures' \subseteq Futures
  BY <1>2, <1>6, <1>7, Settles
<1>9. ASSUME NEW e \in Ids
      PROVE  Placed(e)' /\ Audited(e)'
  <2>1. CASE e # w
    <3>1. pc'[e] = pc[e] /\ (draft # NoDraft => draft.by # e)
      BY <1>1, <1>4, <2>1 DEF Writers
    <3> QED
      BY <1>2, <1>5, <1>7, <1>8, <3>1, KeepsPlace
  <2>2. CASE e = w
    BY <1>4, <1>5, <2>2 DEF Placed, Audited, Unborn
  <2> QED
    BY <2>1, <2>2
<1>10. ASSUME NEW c \in Calls
       PROVE  Asked(c)'
  <2>1. Asked(c) /\ c \in Writers
    BY DEF EvidenceInv, Writers
  <2> QED
    BY <1>4, <1>7, <2>1 DEF Asked
<1>11. Waiting'
  <2>1. queue \in Seq(Calls) /\ Waiting
    BY DEF EvidenceInv, Typed, TypeOK
  <2>2. ASSUME NEW i \in 1..Len(queue)
        PROVE  pc'[queue[i]] \in {"event", "done", "threw"}
    <3>1. queue[i] \in Writers /\ pc[queue[i]] \in {"event", "done", "threw"}
      BY <2>1 DEF Waiting, Writers
    <3> QED
      BY <1>4, <3>1
  <2> QED
    BY <1>2, <2>2 DEF Waiting
<1> QED
  BY <1>8, <1>9, <1>10, <1>11 DEF EvidenceInv

LEMMA Restarts ==
    ASSUME EvidenceInv, Restart
    PROVE  EvidenceInv' /\ Onward
<1>1. /\ draft' = NoDraft /\ queue' = <<>> /\ crashes' = crashes + 1
      /\ UNCHANGED <<created, governance, input, world, ledgerFaults, storeFaults>>
  BY DEF Restart
<1>2. store' \in Futures /\ store' \in Stores
  <2>1. store' \in Futures
    BY DEF Restart, Futures
  <2> QED
    BY <2>1, FutureStores DEF EvidenceInv, Typed
<1>3. pc' \in [Writers -> Places]
  <2>1. pc' = [x \in Writers |-> IF pc[x] \in InFlight THEN "threw" ELSE pc[x]]
    BY DEF Restart
  <2>2. "threw" \in Places
    BY DEF Places, Over
  <2> QED
    BY <2>1, <2>2, PcTyped
<1>4. \A x \in Writers : pc'[x] = IF pc[x] \in InFlight THEN "threw" ELSE pc[x]
  BY DEF Restart
<1>5. crashes \in Nat /\ crashes' \in Nat /\ crashes' # 0 /\ queue' \in Seq(Calls)
  BY <1>1 DEF EvidenceInv, Typed, TypeOK
<1>6. TypeOK'
  BY <1>1, <1>2, <1>3, <1>5 DEF EvidenceInv, Typed, TypeOK, Places, input, world
<1>7. UNCHANGED <<plan, target, clock>>
  BY <1>1 DEF input, world
<1>8. /\ Typed' /\ Drafted' /\ (\A s \in Futures : Sound(s))' /\ Onward
      /\ Futures' = {store'} /\ Futures' \subseteq Futures
  BY <1>1, <1>2, <1>6, <1>7, Settles
<1>9. ASSUME NEW e \in Ids
      PROVE  Placed(e)' /\ Audited(e)'
  <2>1. pc'[e] = IF pc[e] \in InFlight THEN "threw" ELSE pc[e]
    BY <1>4 DEF Writers
  <2>2. pc'[e] \in Unborn => pc[e] = "idle" /\ pc'[e] = "idle"
    BY <2>1 DEF Unborn, InFlight
  <2>3. pc[e] = "idle" => \A s \in Futures : s.versions[e] = <<>>
    BY NotYet DEF Unborn
  <2>4. Placed(e)'
    <3>1. pc'[e] \in Unborn => store'.versions[e] = <<>>
      BY <1>2, <2>2, <2>3
    <3>2. pc'[e] \notin {"pointer", "verify", "commit"}
      BY <2>2 DEF Unborn
    <3> QED
      BY <1>1, <3>1, <3>2 DEF Placed
  <2> QED
    BY <1>5, <2>4 DEF Audited
<1>10. ASSUME NEW c \in Calls
       PROVE  Asked(c)'
  <2>1. Asked(c) /\ c \in Writers
    BY DEF EvidenceInv, Writers
  <2>2. pc'[c] \in {"idle", "done", "threw"}
    BY <1>4, <2>1 DEF Asked, InFlight
  <2> QED
    BY <2>2 DEF Asked
<1>11. Waiting'
  BY <1>1 DEF Waiting
<1> QED
  BY <1>8, <1>9, <1>10, <1>11 DEF EvidenceInv

LEMMA EvidenceSteps ==
    ASSUME EvidenceInv, EvidenceStep \/ Restart \/ UNCHANGED vars
    PROVE  EvidenceInv' /\ Onward
<1>1. CASE EvidenceStep
  <2>1. ASSUME NEW e \in Ids, Create(e)
        PROVE  EvidenceInv' /\ Onward
    BY <2>1, Creates, Reads, Points, Verifies, Commits, Audits, AuditFails, Compensates
       DEF Create
  <2>2. ASSUME NEW c \in Calls, Move(c)
        PROVE  EvidenceInv' /\ Onward
    BY <2>2, Requests, MovesEvidence DEF Move
  <2>3. ASSUME EditFile \/ Tick
        PROVE  EvidenceInv' /\ Onward
    <3>1. /\ file \in Contents /\ clock \in Nat /\ edits \in Nat /\ storeFaults \in Nat
      BY DEF EvidenceInv, Typed, TypeOK
    <3>2. CASE EditFile
      BY <3>1, <3>2, NobodyMoves DEF EditFile, budget
    <3>3. CASE Tick
      BY <3>1, <3>3, NobodyMoves DEF Tick, budget
    <3> QED
      BY <2>3, <3>2, <3>3
  <2> QED
    BY <1>1, <2>1, <2>2, <2>3, Persists, PersistThrows, Governs DEF EvidenceStep
<1>2. CASE Restart
  BY <1>2, Restarts
<1>3. CASE UNCHANGED vars
  <2>1. /\ file \in Contents /\ clock \in Nat /\ edits \in Nat /\ storeFaults \in Nat
    BY DEF EvidenceInv, Typed, TypeOK
  <2>2. /\ UNCHANGED <<store, draft, created, governance, queue, pc, input>>
        /\ UNCHANGED <<file, clock, edits, ledgerFaults, storeFaults, crashes>>
    BY <1>3 DEF vars, world, budget
  <2> QED
    BY <2>1, <2>2, NobodyMoves
<1> QED
  BY <1>1, <1>2, <1>3

LEMMA EvidenceBegins ==
    ASSUME NEW edited \in Nat, NEW faulted \in Nat, InitWith(edited, faulted)
    PROVE  EvidenceInv
<1>1. PICK s : s = store
  OBVIOUS
<1>2. /\ s = [versions |-> [e \in Ids |-> <<>>], pointer |-> [e \in Ids |-> None], cited |-> {}]
      /\ draft = NoDraft /\ Futures = {s}
  BY <1>1 DEF InitWith, Futures
<1>3. s \in Stores /\ \A e \in Ids : s.versions[e] = <<>> /\ e \notin s.cited
  <2>1. <<>> \in Seq(Versions)
    OBVIOUS
  <2> QED
    BY <1>2, <2>1 DEF Stores
<1>4. /\ pc \in [Writers -> Places] /\ \A w \in Writers : pc[w] = "idle"
  BY DEF InitWith, Places
<1>5. plan \in [Ids -> Plans]
  <2>1. NoPlan \in Plans
    BY Bounds DEF NoPlan, Plans
  <2> QED
    BY <2>1 DEF InitWith
<1>6. target \in [Calls -> Targets]
  BY DEF InitWith, Targets
<1>7. Typed
  <2>1. governance \in Seq(Targets) /\ queue \in Seq(Calls) /\ created \subseteq Ids
    BY DEF InitWith
  <2>2. /\ file \in Contents /\ clock = 1
        /\ {clock, edits, ledgerFaults, storeFaults, crashes} \subseteq Nat
    BY DEF InitWith, Contents
  <2> QED
    BY <1>1, <1>2, <1>3, <1>4, <1>5, <1>6, <2>1, <2>2 DEF Typed, TypeOK, Places, Plans
<1>8. Drafted /\ Waiting
  BY <1>2 DEF Drafted, Waiting, InitWith
<1>9. Sound(s)
  BY <1>3 DEF Sound, Chained
<1>10. \A e \in Ids : Placed(e) /\ Audited(e)
  BY <1>1, <1>2, <1>3, <1>4 DEF Placed, Audited, Unborn, Writers
<1>11. \A c \in Calls : Asked(c)
  BY <1>4 DEF Asked, Writers
<1> QED
  BY <1>2, <1>7, <1>8, <1>9, <1>10, <1>11 DEF EvidenceInv

-----------------------------------------------------------------------------
(* What a Run is told.                                                     *)

Refs   == [id : Ids, version : Nat]
Labels == {"off", "idle", "denied", "listed", "authorize", "save", "index", "render",
           "clarification", "ok", "threw"}
Builds == [at : Labels, todo : SUBSET Refs, refs : SUBSET Refs, createdAt : Nat]
CapsuleFiles == [run : Runs, refs : SUBSET Refs, createdAt : Nat]

InStore(s, ref)  == ref.version \in 1..Len(s.versions[ref.id])
ActiveIn(s, ref) == s.versions[ref.id][ref.version].status = "ACTIVE"
SeenIn(s, ref, t) ==
    LET version == s.versions[ref.id][ref.version]
    IN  version.recorded <= t /\ (version.closed = Open \/ t <= version.closed)

\* In whatever a reader may come to see: the versions are there, were open at t, are ACTIVE.
Listed(refs)  == \A ref \in refs, s \in Futures : InStore(s, ref)
OpenAt(refs, t) == \A ref \in refs, s \in Futures : SeenIn(s, ref, t)
Allowed(r, refs) ==
    \A ref \in refs : <<r, ref, "ALLOW">> \in decisions /\ \A s \in Futures : ActiveIn(s, ref)
Agree(refs) == \A a, b \in refs : ~ Disagree(a.id, b.id)

Filed(b, r) == [run |-> r, refs |-> b.refs, createdAt |-> b.createdAt] \in capsules

BuildInv(b, r) ==
    /\ b \in Builds
    /\ Listed(b.todo) /\ Listed(b.refs) /\ Allowed(r, b.refs)
    /\ b.at \in {"idle", "listed"} => b.refs = {}
    /\ b.at = "listed" => \E t \in 1..clock : OpenAt(b.todo, t)
    /\ b.at \in {"authorize", "save", "index", "render"} =>
          /\ b.createdAt \in 1..clock
          /\ \E t \in 1..b.createdAt : OpenAt(b.todo, t) /\ OpenAt(b.refs, t)
    /\ b.at \in {"save", "index", "render"} => Agree(b.refs)
    /\ b.at \in {"index", "render"} => Filed(b, r)
    /\ b.at = "render" => r \in index

CapsuleInv(c) ==
    /\ c \in CapsuleFiles
    /\ Listed(c.refs) /\ Allowed(c.run, c.refs) /\ Agree(c.refs)
    /\ c.createdAt \in 1..clock
    /\ \E t \in 1..c.createdAt : OpenAt(c.refs, t)

ToldInv ==
    /\ build \in [Runs -> Builds]
    /\ prompts \in [Runs -> {None} \cup SUBSET Refs]
    /\ \A r \in Runs : BuildInv(build[r], r)
    /\ \A c \in capsules : CapsuleInv(c)
    /\ \A r \in Runs : prompts[r] # None =>
          r \in index /\ \E c \in capsules : c.run = r /\ c.refs = prompts[r]

ContextInv == EvidenceInv /\ ToldInv

\* A version that is in view stays in view, with its status and its instants.
LEMMA StaysInView ==
    ASSUME EvidenceInv, EvidenceInv', Onward, NEW ref \in Refs, Listed({ref}), NEW n \in Futures'
    PROVE  /\ InStore(n, ref)
           /\ (\A s \in Futures : ActiveIn(s, ref)) => ActiveIn(n, ref)
           /\ \A t \in 1..clock : (\A s \in Futures : SeenIn(s, ref, t)) => SeenIn(n, ref, t)
<1>1. CASE n \in Futures
  BY <1>1 DEF Listed
<1>2. CASE GrowsAt(store, n, clock)
  <2>1. store \in Futures /\ store \in Stores /\ n \in Stores
    BY FutureStores DEF EvidenceInv, Typed, TypeOK, Futures, Stores
  <2>2. PICK e \in Ids, i \in Nat : e = ref.id /\ i = ref.version
    BY DEF Refs
  <2>3. Len(store.versions[e]) \in Nat /\ Len(n.versions[e]) \in Nat
    BY <2>1 DEF Stores
  <2>4. i \in 1..Len(store.versions[e])
    BY <2>1, <2>2 DEF Listed, InStore
  <2>5. /\ Len(n.versions[e]) >= Len(store.versions[e])
        /\ n.versions[e][i].status = store.versions[e][i].status
        /\ n.versions[e][i].recorded = store.versions[e][i].recorded
        /\ \/ n.versions[e][i].closed = store.versions[e][i].closed
           \/ store.versions[e][i].closed = Open /\ n.versions[e][i].closed = clock
    BY <1>2, <2>4 DEF GrowsAt
  <2>6. InStore(n, ref)
    BY <2>2, <2>3, <2>4, <2>5 DEF InStore
  <2>7. (\A s \in Futures : ActiveIn(s, ref)) => ActiveIn(n, ref)
    BY <2>1, <2>2, <2>5 DEF ActiveIn
  <2>8. ASSUME NEW t \in 1..clock, \A s \in Futures : SeenIn(s, ref, t)
        PROVE  SeenIn(n, ref, t)
    <3>1. SeenIn(store, ref, t)
      BY <2>1, <2>8
    <3>2. clock \in Nat /\ t <= clock
      BY <2>8 DEF Onward
    <3>3. PICK v, o : v = n.versions[e][i] /\ o = store.versions[e][i]
      OBVIOUS
    <3>4. o.recorded <= t /\ (o.closed = Open \/ t <= o.closed)
      BY <2>2, <3>1, <3>3 DEF SeenIn
    <3>5. v.recorded = o.recorded /\ (v.closed = o.closed \/ (o.closed = Open /\ v.closed = clock))
      BY <2>5, <3>3
    <3>6. v.recorded <= t /\ (v.closed = Open \/ t <= v.closed)
      BY ONLY <3>2, <3>4, <3>5
    <3> QED
      BY <2>2, <3>3, <3>6 DEF SeenIn
  <2> QED
    BY <2>6, <2>7, <2>8
<1> QED
  BY <1>1, <1>2 DEF Onward

LEMMA ViewsStay ==
    ASSUME EvidenceInv, EvidenceInv', Onward, decisions \subseteq decisions',
           NEW refs \in SUBSET Refs, Listed(refs)
    PROVE  /\ Listed(refs)'
           /\ \A r : Allowed(r, refs) => Allowed(r, refs)'
           /\ \A t \in 1..clock : OpenAt(refs, t) => OpenAt(refs, t)'
<1>1. ASSUME NEW ref \in refs, NEW n \in Futures'
      PROVE  /\ InStore(n, ref)
             /\ (\A s \in Futures : ActiveIn(s, ref)) => ActiveIn(n, ref)
             /\ \A t \in 1..clock : (\A s \in Futures : SeenIn(s, ref, t)) => SeenIn(n, ref, t)
  <2>1. ref \in Refs /\ Listed({ref})
    BY DEF Listed
  <2> QED
    BY <2>1, StaysInView
<1>2. \A n, ref, t : /\ InStore(n, ref)' = InStore(n, ref)
                     /\ ActiveIn(n, ref)' = ActiveIn(n, ref)
                     /\ SeenIn(n, ref, t)' = SeenIn(n, ref, t)
  BY DEF InStore, ActiveIn, SeenIn
<1>3. Listed(refs)'
  BY <1>1, <1>2 DEF Listed
<1>4. ASSUME NEW r, Allowed(r, refs)
      PROVE  Allowed(r, refs)'
  BY <1>1, <1>2, <1>4 DEF Allowed
<1>5. ASSUME NEW t \in 1..clock, OpenAt(refs, t)
      PROVE  OpenAt(refs, t)'
  BY <1>1, <1>2, <1>5 DEF OpenAt
<1> QED
  BY <1>3, <1>4, <1>5

LEMMA Grown ==
    ASSUME Onward
    PROVE  /\ clock \in Nat /\ clock' \in Nat /\ 1..clock \subseteq 1..clock'
BY DEF Onward

LEMMA BuildKeeps ==
    ASSUME EvidenceInv, EvidenceInv', Onward, decisions \subseteq decisions',
           capsules \subseteq capsules', index \subseteq index', claim' = claim,
           NEW b, NEW r, BuildInv(b, r)
    PROVE  BuildInv(b, r)'
<1>1. b \in Builds /\ b.todo \in SUBSET Refs /\ b.refs \in SUBSET Refs
  BY DEF BuildInv, Builds
<1>2. 1..clock \subseteq 1..clock' /\ clock \in Nat
  BY Grown
<1>3. Listed(b.todo)' /\ Listed(b.refs)' /\ Allowed(r, b.refs)'
  BY <1>1, ViewsStay DEF BuildInv
<1>4. \A t \in 1..clock : /\ OpenAt(b.todo, t) => OpenAt(b.todo, t)'
                          /\ OpenAt(b.refs, t) => OpenAt(b.refs, t)'
  BY <1>1, ViewsStay DEF BuildInv
<1>5. b.at = "listed" => \E t \in 1..clock' : OpenAt(b.todo, t)'
  BY <1>2, <1>4 DEF BuildInv
<1>6. b.at \in {"authorize", "save", "index", "render"} =>
          /\ b.createdAt \in 1..clock'
          /\ \E t \in 1..b.createdAt : OpenAt(b.todo, t)' /\ OpenAt(b.refs, t)'
  <2> SUFFICES ASSUME b.at \in {"authorize", "save", "index", "render"}
               PROVE  /\ b.createdAt \in 1..clock'
                      /\ \E t \in 1..b.createdAt : OpenAt(b.todo, t)' /\ OpenAt(b.refs, t)'
    OBVIOUS
  <2>1. b.createdAt \in 1..clock
    BY DEF BuildInv
  <2>2. PICK t \in 1..b.createdAt : OpenAt(b.todo, t) /\ OpenAt(b.refs, t)
    BY DEF BuildInv
  <2>3. t \in 1..clock
    BY <1>2, <2>1
  <2> QED
    BY <1>2, <1>4, <2>1, <2>2, <2>3
<1>7. Agree(b.refs) => Agree(b.refs)'
  BY DEF Agree, Disagree, SameKey
<1>8. Filed(b, r) => Filed(b, r)'
  BY DEF Filed
<1>9. /\ b.at \in {"idle", "listed"} => b.refs = {}
      /\ b.at \in {"save", "index", "render"} => Agree(b.refs)
      /\ b.at \in {"index", "render"} => Filed(b, r)
      /\ b.at = "render" => r \in index
  BY DEF BuildInv
<1> QED
  BY <1>1, <1>3, <1>5, <1>6, <1>7, <1>8, <1>9 DEF BuildInv

LEMMA CapsuleKeeps ==
    ASSUME EvidenceInv, EvidenceInv', Onward, decisions \subseteq decisions', claim' = claim,
           NEW c, CapsuleInv(c)
    PROVE  CapsuleInv(c)'
<1>1. /\ c \in CapsuleFiles /\ c.refs \in SUBSET Refs /\ Listed(c.refs)
      /\ Allowed(c.run, c.refs) /\ c.createdAt \in 1..clock
  BY DEF CapsuleInv, CapsuleFiles
<1>2. 1..clock \subseteq 1..clock' /\ clock \in Nat
  BY Grown
<1>3. Listed(c.refs)' /\ Allowed(c.run, c.refs)'
  BY <1>1, ViewsStay
<1>4. PICK t \in 1..c.createdAt : OpenAt(c.refs, t)
  BY DEF CapsuleInv
<1>5. t \in 1..clock
  BY <1>1, <1>2
<1>6. OpenAt(c.refs, t)'
  BY <1>1, <1>4, <1>5, ViewsStay
<1>7. Agree(c.refs)'
  BY DEF CapsuleInv, Agree, Disagree, SameKey
<1> QED
  BY <1>1, <1>2, <1>3, <1>4, <1>6, <1>7 DEF CapsuleInv

\* A step in which at most the build of r moves, to b.
LEMMA RunSteps ==
    ASSUME ContextInv, EvidenceInv', Onward, NEW r \in Runs, NEW b,
           build' = [build EXCEPT ![r] = b], BuildInv(b, r)',
           decisions \subseteq decisions', capsules \subseteq capsules',
           index \subseteq index', claim' = claim,
           \A c \in capsules' \ capsules : CapsuleInv(c)',
           \/ prompts' = prompts
           \/ \E c \in capsules : /\ c.run = r /\ r \in index
                                 /\ prompts' = [prompts EXCEPT ![r] = c.refs]
    PROVE  ContextInv'
<1>1. b \in Builds
  BY DEF BuildInv
<1>2. /\ build' \in [Runs -> Builds] /\ build'[r] = b
      /\ \A q \in Runs : q # r => build'[q] = build[q]
  BY <1>1 DEF ContextInv, ToldInv
<1>3. ASSUME NEW q \in Runs
      PROVE  BuildInv(build[q], q)'
  <2>1. CASE q = r
    BY <1>2, <2>1 DEF BuildInv, Listed, OpenAt, Allowed, Filed
  <2>2. CASE q # r
    <3>1. PICK d : d = build[q]
      OBVIOUS
    <3>2. BuildInv(d, q)
      BY <3>1 DEF ContextInv, ToldInv
    <3>3. BuildInv(d, q)'
      BY <3>2, BuildKeeps DEF ContextInv
    <3>4. build'[q] = d
      BY <1>2, <2>2, <3>1
    <3> QED
      BY <3>3, <3>4 DEF BuildInv, Listed, OpenAt, Allowed, Filed
  <2> QED
    BY <2>1, <2>2
<1>4. ASSUME NEW c \in capsules'
      PROVE  CapsuleInv(c)'
  <2>1. CASE c \in capsules
    BY <2>1, CapsuleKeeps DEF ContextInv, ToldInv
  <2> QED
    BY <2>1
<1>5. /\ prompts' \in [Runs -> {None} \cup SUBSET Refs]
      /\ \A q \in Runs : prompts'[q] # None =>
            q \in index' /\ \E c \in capsules' : c.run = q /\ c.refs = prompts'[q]
  <2>1. /\ prompts \in [Runs -> {None} \cup SUBSET Refs]
        /\ \A q \in Runs : prompts[q] # None =>
              q \in index' /\ \E c \in capsules' : c.run = q /\ c.refs = prompts[q]
    BY DEF ContextInv, ToldInv
  <2>2. CASE prompts' = prompts
    BY <2>1, <2>2
  <2>3. ASSUME NEW c \in capsules, c.run = r, r \in index, prompts' = [prompts EXCEPT ![r] = c.refs]
        PROVE  /\ prompts' \in [Runs -> {None} \cup SUBSET Refs]
               /\ \A q \in Runs : prompts'[q] # None =>
                     q \in index' /\ \E d \in capsules' : d.run = q /\ d.refs = prompts'[q]
    <3>1. c.refs \in SUBSET Refs
      BY DEF ContextInv, ToldInv, CapsuleInv, CapsuleFiles
    <3>2. /\ prompts' \in [Runs -> {None} \cup SUBSET Refs] /\ prompts'[r] = c.refs
          /\ \A q \in Runs : q # r => prompts'[q] = prompts[q]
      BY <2>1, <2>3, <3>1
    <3> QED
      BY <2>1, <2>3, <3>2
  <2> QED
    BY <2>2, <2>3
<1> QED
  BY <1>2, <1>3, <1>4, <1>5 DEF ContextInv, ToldInv

\* A build that has ended holds nothing.
LEMMA Ends ==
    ASSUME NEW r \in Runs, NEW label \in {"denied", "clarification", "ok", "threw"},
           NEW b, b = [NoBuild EXCEPT !.at = label]
    PROVE  BuildInv(b, r)'
<1>1. b.at = label /\ b.todo = {} /\ b.refs = {} /\ b \in Builds
  BY DEF NoBuild, Builds, Labels
<1> QED
  BY <1>1 DEF BuildInv, Listed, Allowed

LEMMA Denies ==
    ASSUME ContextInv, NEW r \in Runs, Deny(r)
    PROVE  ContextInv'
<1>1. EvidenceInv' /\ Onward
  BY EvidenceSteps DEF ContextInv, Deny
<1>2. PICK b : b = [NoBuild EXCEPT !.at = "denied"]
  OBVIOUS
<1>3. build' = [build EXCEPT ![r] = b] /\ UNCHANGED <<claim, told>>
  BY <1>2 DEF Deny, Finish
<1> QED
  BY <1>1, <1>2, <1>3, Ends, RunSteps DEF told

\* What is listed was open together at one instant.
LEMMA ListsTogether ==
    ASSUME EvidenceInv
    PROVE  /\ Candidates \in SUBSET Refs /\ Listed(Candidates)
           /\ \E t \in 1..clock : OpenAt(Candidates, t)
<1>1. store \in Stores /\ clock \in Nat /\ clock > 0 /\ Sound(store) /\ store \in Futures
  BY DEF EvidenceInv, Typed, TypeOK, Futures
<1>2. ASSUME NEW ref \in Candidates
      PROVE  /\ ref \in Refs /\ Len(store.versions[ref.id]) \in Nat
             /\ ref.version = Len(store.versions[ref.id])
             /\ InStore(store, ref)
             /\ store.versions[ref.id][ref.version].closed = Open
  <2>1. PICK e \in Ids : Exists(e) /\ ref = [id |-> e, version |-> Len(store.versions[e])]
    BY DEF Candidates
  <2>2. Len(store.versions[e]) \in Nat /\ Len(store.versions[e]) > 0
    BY <1>1, <2>1 DEF Exists, Stores
  <2>3. ref \in Refs /\ ref.id = e /\ ref.version = Len(store.versions[e])
    BY <2>1, <2>2 DEF Refs
  <2>4. store.versions[e][Len(store.versions[e])].closed = Open
    BY <1>1, <2>2 DEF Sound, Chained
  <2> QED
    BY <2>2, <2>3, <2>4 DEF InStore
<1>3. PICK t \in 1..clock :
         /\ RecordedBy(store, t)
         /\ \A s \in Futures : s = store \/ (s \in Stores /\ GrowsAt(store, s, t))
  <2>1. CASE draft = NoDraft
    <3>1. RecordedBy(store, clock) /\ clock \in 1..clock
      BY <1>1, RecordedByNow
    <3>2. Futures = {store}
      BY <2>1 DEF Futures
    <3> QED
      BY <3>1, <3>2
  <2>2. CASE draft # NoDraft
    <3>1. PICK t \in 1..clock : GrowsAt(store, draft.store, t) /\ RecordedBy(store, t)
      BY <2>2 DEF EvidenceInv, Drafted
    <3>2. Futures = {store, draft.store} /\ draft.store \in Stores
      BY <2>2, FutureStores DEF EvidenceInv, Typed
    <3> QED
      BY <3>1, <3>2
  <2> QED
    BY <2>1, <2>2
<1>4. ASSUME NEW ref \in Candidates, NEW s \in Futures
      PROVE  InStore(s, ref) /\ SeenIn(s, ref, t)
  <2>1. PICK e \in Ids, i \in Nat : e = ref.id /\ i = ref.version
    BY <1>2 DEF Refs
  <2>2. /\ i \in 1..Len(store.versions[e]) /\ store.versions[e][i].closed = Open
        /\ store.versions[e][i].recorded <= t
    BY <1>2, <1>3, <2>1 DEF InStore, RecordedBy
  <2>3. CASE s = store
    BY <2>1, <2>2, <2>3 DEF InStore, SeenIn
  <2>4. CASE s \in Stores /\ GrowsAt(store, s, t)
    <3>1. /\ Len(s.versions[e]) >= Len(store.versions[e])
          /\ s.versions[e][i].recorded = store.versions[e][i].recorded
          /\ s.versions[e][i].closed = Open \/ s.versions[e][i].closed = t
      BY <2>2, <2>4 DEF GrowsAt
    <3>2. Len(s.versions[e]) \in Nat /\ Len(store.versions[e]) \in Nat
      BY <1>1, <2>4 DEF Stores
    <3>3. i \in 1..Len(s.versions[e])
      BY <2>2, <3>1, <3>2
    <3>4. t \in Nat
      OBVIOUS
    <3>5. PICK v : v = s.versions[e][i]
      OBVIOUS
    <3>6. v.recorded <= t /\ (v.closed = Open \/ t <= v.closed)
      BY <2>2, <3>1, <3>4, <3>5
    <3> QED
      BY <2>1, <3>3, <3>5, <3>6 DEF InStore, SeenIn
  <2> QED
    BY <1>3, <2>3, <2>4
<1> QED
  BY <1>2, <1>4 DEF Listed, OpenAt

LEMMA Lists ==
    ASSUME ContextInv, NEW r \in Runs, ListCandidates(r)
    PROVE  ContextInv'
<1>1. EvidenceInv' /\ Onward /\ EvidenceInv
  BY EvidenceSteps DEF ContextInv, ListCandidates
<1>2. PICK o \in Builds : o = build[r] /\ o.refs = {}
  BY DEF ContextInv, ToldInv, BuildInv, ListCandidates, At
<1>3. PICK b : b = [o EXCEPT !.at = "listed", !.todo = Candidates]
  OBVIOUS
<1>4. /\ Candidates \in SUBSET Refs /\ Listed(Candidates)
      /\ \E t \in 1..clock : OpenAt(Candidates, t)
  BY <1>1, ListsTogether
<1>5. b \in Builds /\ b.at = "listed" /\ b.todo = Candidates /\ b.refs = {}
  BY <1>2, <1>3, <1>4 DEF Builds, Labels
<1>6. BuildInv(b, r)
  BY <1>4, <1>5 DEF BuildInv, Listed, Allowed
<1>7. build' = [build EXCEPT ![r] = b] /\ UNCHANGED <<claim, decisions, capsules, index, prompts>>
  BY <1>2, <1>3 DEF ListCandidates, told
<1>8. BuildInv(b, r)'
  BY <1>1, <1>6, <1>7, BuildKeeps
<1> QED
  BY <1>1, <1>7, <1>8, RunSteps

LEMMA Stamps ==
    ASSUME ContextInv, NEW r \in Runs, Stamp(r)
    PROVE  ContextInv'
<1>1. EvidenceInv' /\ Onward /\ EvidenceInv
  BY EvidenceSteps DEF ContextInv, Stamp
<1>2. PICK o \in Builds : o = build[r] /\ o.at = "listed" /\ BuildInv(o, r)
  BY DEF ContextInv, ToldInv, Stamp, At
<1>3. PICK b : b = [o EXCEPT !.at = "authorize", !.createdAt = clock]
  OBVIOUS
<1>4. clock \in Nat /\ clock \in 1..clock
  BY <1>1 DEF EvidenceInv, Typed, TypeOK
<1>5. b \in Builds /\ b.at = "authorize" /\ b.todo = o.todo /\ b.refs = {} /\ b.createdAt = clock
  BY <1>2, <1>3, <1>4 DEF Builds, Labels, BuildInv
<1>6. \E t \in 1..clock : OpenAt(b.todo, t) /\ OpenAt(b.refs, t)
  BY <1>2, <1>5 DEF BuildInv, OpenAt
<1>7. BuildInv(b, r)
  BY <1>2, <1>4, <1>5, <1>6 DEF BuildInv, Listed, Allowed
<1>8. build' = [build EXCEPT ![r] = b] /\ UNCHANGED <<claim, decisions, capsules, index, prompts>>
  BY <1>2, <1>3 DEF Stamp, told
<1>9. BuildInv(b, r)'
  BY <1>1, <1>7, <1>8, BuildKeeps
<1> QED
  BY <1>1, <1>8, <1>9, RunSteps

\* ALLOW is given to versions that are ACTIVE, and they stay so.
LEMMA AllowsActive ==
    ASSUME EvidenceInv, NEW ref \in Refs, Listed({ref}), MayAllow(ref)
    PROVE  \A s \in Futures : ActiveIn(s, ref)
<1>1. PICK e \in Ids, i \in Nat : e = ref.id /\ i = ref.version
  BY DEF Refs
<1>2. store.versions[e][i].status = "ACTIVE" /\ i \in 1..Len(store.versions[e])
  BY <1>1 DEF MayAllow, Version, Listed, Futures, InStore
<1>3. ASSUME draft # NoDraft
      PROVE  draft.store.versions[e][i].status = "ACTIVE"
  <2>1. PICK t \in 1..clock : GrowsAt(store, draft.store, t)
    BY <1>3 DEF EvidenceInv, Drafted
  <2> QED
    BY <1>2, <2>1 DEF GrowsAt
<1> QED
  BY <1>1, <1>2, <1>3 DEF ActiveIn, Futures

LEMMA Authorizes ==
    ASSUME ContextInv, NEW r \in Runs, NEW ref \in build[r].todo, Authorize(r, ref)
    PROVE  ContextInv'
<1>1. EvidenceInv' /\ Onward /\ EvidenceInv
  BY EvidenceSteps DEF ContextInv, Authorize
<1>2. PICK o \in Builds : o = build[r] /\ o.at = "authorize" /\ BuildInv(o, r)
  BY DEF ContextInv, ToldInv, Authorize, At
<1>3. PICK result \in {"ALLOW", "DENY"} :
         /\ result = "ALLOW" => MayAllow(ref)
         /\ decisions' = decisions \cup {<<r, ref, result>>}
         /\ build' = [build EXCEPT
                ![r].todo = @ \ {ref},
                ![r].refs = IF result = "ALLOW" THEN @ \cup {ref} ELSE @]
  BY DEF Authorize, Decided
<1>4. PICK more : more = IF result = "ALLOW" THEN o.refs \cup {ref} ELSE o.refs
  OBVIOUS
<1>5. PICK less : less = o.todo \ {ref}
  OBVIOUS
<1>6. ref \in Refs /\ ref \in o.todo /\ Listed({ref})
  BY <1>2 DEF BuildInv, Builds, Listed
<1>7. /\ less \subseteq o.todo /\ more \subseteq o.refs \cup {ref}
      /\ ref \in more => ref \in o.refs \/ result = "ALLOW"
  BY <1>4, <1>5
<1>8. PICK b : b = [o EXCEPT !.todo = less, !.refs = more]
  OBVIOUS
<1>9. /\ b \in Builds /\ b.at = "authorize" /\ b.todo = less /\ b.refs = more
      /\ b.createdAt = o.createdAt
  BY <1>2, <1>6, <1>7, <1>8 DEF Builds
<1>10. build' = [build EXCEPT ![r] = b]
  <2>1. b = [build[r] EXCEPT !.todo = build[r].todo \ {ref},
                             !.refs = IF result = "ALLOW" THEN build[r].refs \cup {ref}
                                      ELSE build[r].refs]
    BY <1>2, <1>4, <1>5, <1>8
  <2>2. build \in [Runs -> Builds]
    BY DEF ContextInv, ToldInv
  <2> QED
    BY <1>3, <2>1, <2>2
<1>11. UNCHANGED <<claim, capsules, index, prompts>> /\ decisions \subseteq decisions'
  BY <1>3 DEF Authorize
<1>12. BuildInv(o, r)'
  BY <1>1, <1>2, <1>11, BuildKeeps
<1>13. Listed({ref})' /\ (result = "ALLOW" => \A s \in Futures' : ActiveIn(s, ref)')
  <2>1. Listed({ref})'
    BY <1>1, <1>6, <1>11, ViewsStay
  <2>2. ASSUME result = "ALLOW", NEW s \in Futures'
        PROVE  ActiveIn(s, ref)'
    <3>1. \A q \in Futures : ActiveIn(q, ref)
      BY <1>1, <1>3, <1>6, <2>2, AllowsActive
    <3>2. ActiveIn(s, ref)
      BY <1>1, <1>6, <3>1, StaysInView
    <3> QED
      BY <3>2 DEF ActiveIn
  <2> QED
    BY <2>1, <2>2
<1>14. Listed(less)' /\ Listed(more)'
  BY <1>7, <1>12, <1>13 DEF BuildInv, Listed
<1>15. Allowed(r, more)'
  <2> SUFFICES ASSUME NEW x \in more
               PROVE  /\ <<r, x, "ALLOW">> \in decisions'
                      /\ \A s \in Futures' : ActiveIn(s, x)'
    BY DEF Allowed
  <2>1. CASE x \in o.refs
    BY <1>12, <2>1 DEF BuildInv, Allowed
  <2>2. CASE x \notin o.refs
    <3>1. x = ref /\ result = "ALLOW"
      BY <1>7, <2>2
    <3> QED
      BY <1>3, <1>13, <3>1
  <2> QED
    BY <2>1, <2>2
<1>16. PICK t \in 1..o.createdAt : OpenAt(o.todo, t)' /\ OpenAt(o.refs, t)'
  BY <1>2, <1>12 DEF BuildInv
<1>17. OpenAt(less, t)' /\ OpenAt(more, t)'
  BY <1>6, <1>7, <1>16 DEF OpenAt
<1>18. o.createdAt \in 1..clock'
  BY <1>2, <1>12 DEF BuildInv
<1>19. BuildInv(b, r)'
  BY <1>9, <1>14, <1>15, <1>16, <1>17, <1>18 DEF BuildInv
<1> QED
  BY <1>1, <1>10, <1>11, <1>19, RunSteps

LEMMA Clarifies ==
    ASSUME ContextInv, NEW r \in Runs, Clarify(r)
    PROVE  ContextInv'
<1>1. EvidenceInv' /\ Onward
  BY EvidenceSteps DEF ContextInv, Clarify
<1>2. PICK b : b = [NoBuild EXCEPT !.at = "clarification"]
  OBVIOUS
<1>3. build' = [build EXCEPT ![r] = b] /\ UNCHANGED <<claim, decisions, capsules, index, prompts>>
  BY <1>2 DEF Clarify, Finish
<1> QED
  BY <1>1, <1>2, <1>3, Ends, RunSteps

\* A build takes one step of its own, from o to b, and keeps what it holds.
LEMMA Advances ==
    ASSUME ContextInv, EvidenceInv', Onward, UNCHANGED <<claim, decisions, prompts>>,
           capsules \subseteq capsules', index \subseteq index',
           NEW r \in Runs, NEW o, o = build[r], o.at \in {"authorize", "save", "index"},
           NEW label \in {"save", "index", "render"}, NEW b, b = [o EXCEPT !.at = label],
           build' = [build EXCEPT ![r] = b],
           Agree(o.refs), label \in {"index", "render"} => Filed(o, r)',
           label = "render" => r \in index',
           \A c \in capsules' \ capsules : CapsuleInv(c)'
    PROVE  ContextInv'
<1>1. o \in Builds /\ BuildInv(o, r)
  BY DEF ContextInv, ToldInv
<1>2. BuildInv(o, r)'
  BY <1>1, BuildKeeps DEF ContextInv
<1>3. /\ b \in Builds /\ b.at = label /\ b.todo = o.todo /\ b.refs = o.refs
      /\ b.createdAt = o.createdAt
  BY <1>1 DEF Builds, Labels
<1>4. Agree(b.refs)'
  BY <1>3 DEF Agree, Disagree, SameKey
<1>5. label \in {"index", "render"} => Filed(b, r)'
  BY <1>3 DEF Filed
<1>6. BuildInv(b, r)'
  BY <1>2, <1>3, <1>4, <1>5 DEF BuildInv
<1> QED
  BY <1>6, RunSteps

LEMMA Assembles ==
    ASSUME ContextInv, NEW r \in Runs, Assemble(r)
    PROVE  ContextInv'
<1>1. EvidenceInv' /\ Onward /\ EvidenceInv
  BY EvidenceSteps DEF ContextInv, Assemble
<1>2. PICK o \in Builds : o = build[r] /\ o.at = "authorize" /\ BuildInv(o, r)
  BY DEF ContextInv, ToldInv, Assemble, Authorized, At
<1>3. PICK b : b = [o EXCEPT !.at = "save"]
  OBVIOUS
<1>4. build' = [build EXCEPT ![r] = b] /\ UNCHANGED <<claim, decisions, capsules, index, prompts>>
  BY <1>2, <1>3 DEF Assemble, AfterAuthorize, told
<1>5. Agree(o.refs)
  <2>1. \A ref \in o.refs : MayAllow(ref)
    BY <1>2 DEF BuildInv, Allowed, ActiveIn, MayAllow, Version, Futures
  <2> QED
    BY <1>2, <2>1 DEF Assemble, Conflicts, Agree
<1> QED
  BY <1>1, <1>2, <1>3, <1>4, <1>5, Advances

LEMMA SavesCapsule ==
    ASSUME ContextInv, NEW r \in Runs, SaveCapsule(r)
    PROVE  ContextInv'
<1>1. EvidenceInv' /\ Onward /\ EvidenceInv
  BY EvidenceSteps DEF ContextInv, SaveCapsule
<1>2. PICK o \in Builds : o = build[r] /\ o.at = "save" /\ BuildInv(o, r)
  BY DEF ContextInv, ToldInv, SaveCapsule, At
<1>3. PICK b : b = [o EXCEPT !.at = "index"]
  OBVIOUS
<1>4. PICK c : c = [run |-> r, refs |-> o.refs, createdAt |-> o.createdAt]
  OBVIOUS
<1>5. /\ build' = [build EXCEPT ![r] = b] /\ UNCHANGED <<claim, decisions, index, prompts>>
      /\ capsules' = capsules \cup {c}
  BY <1>2, <1>3, <1>4 DEF SaveCapsule
<1>6. c \in CapsuleFiles /\ c.run = r /\ c.refs = o.refs /\ c.createdAt = o.createdAt
  BY <1>2, <1>4 DEF CapsuleFiles, Builds
<1>7. Agree(o.refs) /\ Listed(o.refs) /\ Allowed(r, o.refs) /\ o.createdAt \in 1..clock
      /\ \E t \in 1..o.createdAt : OpenAt(o.refs, t)
  BY <1>2 DEF BuildInv
<1>8. CapsuleInv(c)
  BY <1>6, <1>7 DEF CapsuleInv
<1>9. CapsuleInv(c)'
  BY <1>1, <1>5, <1>8, CapsuleKeeps
<1>10. Filed(o, r)'
  BY <1>4, <1>5 DEF Filed
<1> QED
  BY <1>1, <1>2, <1>3, <1>5, <1>7, <1>9, <1>10, Advances

LEMMA SavesIndex ==
    ASSUME ContextInv, NEW r \in Runs, SaveIndex(r)
    PROVE  ContextInv'
<1>1. EvidenceInv' /\ Onward /\ EvidenceInv
  BY EvidenceSteps DEF ContextInv, SaveIndex
<1>2. PICK o \in Builds : o = build[r] /\ o.at = "index" /\ BuildInv(o, r)
  BY DEF ContextInv, ToldInv, SaveIndex, At
<1>3. PICK b : b = [o EXCEPT !.at = "render"]
  OBVIOUS
<1>4. /\ build' = [build EXCEPT ![r] = b] /\ UNCHANGED <<claim, decisions, capsules, prompts>>
      /\ index' = index \cup {r}
  BY <1>2, <1>3 DEF SaveIndex
<1>5. Agree(o.refs) /\ Filed(o, r)
  BY <1>2 DEF BuildInv
<1>6. Filed(o, r)'
  BY <1>4, <1>5 DEF Filed
<1> QED
  BY <1>1, <1>2, <1>3, <1>4, <1>5, <1>6, Advances

LEMMA Renders ==
    ASSUME ContextInv, NEW r \in Runs, RenderPrompt(r)
    PROVE  ContextInv'
<1>1. EvidenceInv' /\ Onward /\ EvidenceInv
  BY EvidenceSteps DEF ContextInv, RenderPrompt
<1>2. PICK o \in Builds : o = build[r] /\ o.at = "render" /\ BuildInv(o, r)
  BY DEF ContextInv, ToldInv, RenderPrompt, At
<1>3. PICK label \in {"ok", "threw"} :
         /\ build' = [build EXCEPT ![r] = [NoBuild EXCEPT !.at = label]]
         /\ prompts' = prompts \/ prompts' = [prompts EXCEPT ![r] = o.refs]
  BY <1>2 DEF RenderPrompt, Finish
<1>4. PICK b : b = [NoBuild EXCEPT !.at = label]
  OBVIOUS
<1>5. build' = [build EXCEPT ![r] = b] /\ UNCHANGED <<claim, decisions, capsules, index>>
  BY <1>3, <1>4 DEF RenderPrompt
<1>6. PICK c \in capsules : c.run = r /\ c.refs = o.refs
  BY <1>2 DEF BuildInv, Filed
<1>7. r \in index
  BY <1>2 DEF BuildInv
<1>8. \/ prompts' = prompts
      \/ \E d \in capsules : /\ d.run = r /\ r \in index
                             /\ prompts' = [prompts EXCEPT ![r] = d.refs]
  BY <1>3, <1>6, <1>7
<1> QED
  BY <1>1, <1>4, <1>5, <1>8, Ends, RunSteps

LEMMA BuildFails ==
    ASSUME ContextInv, NEW r \in Runs, BuildThrows(r)
    PROVE  ContextInv'
<1>1. EvidenceInv' /\ Onward
  <2>1. /\ EvidenceInv /\ file \in Contents /\ clock \in Nat /\ edits \in Nat
        /\ storeFaults \in Nat
    BY DEF ContextInv, EvidenceInv, Typed, TypeOK
  <2>2. /\ UNCHANGED <<store, draft, created, governance, queue, pc, input>>
        /\ UNCHANGED <<file, clock, edits, ledgerFaults, crashes>>
        /\ storeFaults' = storeFaults + 1
    BY DEF BuildThrows, world
  <2> QED
    BY <2>1, <2>2, NobodyMoves
<1>2. PICK b : b = [NoBuild EXCEPT !.at = "threw"]
  OBVIOUS
<1>3. build' = [build EXCEPT ![r] = b] /\ UNCHANGED <<claim, told>>
  BY <1>2 DEF BuildThrows, Finish
<1> QED
  BY <1>1, <1>2, <1>3, Ends, RunSteps DEF told

\* The Evidence moves on or the process restarts; builds stay where they are or are over.
LEMMA OthersStep ==
    ASSUME ContextInv, EvidenceInv', Onward, UNCHANGED <<claim, told>>,
           build' \in [Runs -> Builds],
           \A r \in Runs : build'[r] = build[r] \/ build'[r] = [NoBuild EXCEPT !.at = "threw"]
    PROVE  ContextInv'
<1>1. UNCHANGED <<claim, decisions, capsules, index, prompts>>
  BY DEF told
<1>2. ASSUME NEW r \in Runs
      PROVE  BuildInv(build[r], r)'
  <2>1. PICK b : b = build'[r]
    OBVIOUS
  <2>2. BuildInv(b, r)'
    <3>1. CASE b = [NoBuild EXCEPT !.at = "threw"]
      BY <3>1, Ends
    <3>2. CASE b = build[r]
      <4>1. BuildInv(b, r)
        BY <3>2 DEF ContextInv, ToldInv
      <4> QED
        BY <1>1, <4>1, BuildKeeps DEF ContextInv
    <3> QED
      BY <2>1, <3>1, <3>2
  <2> QED
    BY <2>1, <2>2 DEF BuildInv, Listed, OpenAt, Allowed, Filed
<1>3. \A c \in capsules' : CapsuleInv(c)'
  BY <1>1, CapsuleKeeps DEF ContextInv, ToldInv
<1>4. /\ prompts' \in [Runs -> {None} \cup SUBSET Refs]
      /\ \A q \in Runs : prompts'[q] # None =>
            q \in index' /\ \E c \in capsules' : c.run = q /\ c.refs = prompts'[q]
  BY <1>1 DEF ContextInv, ToldInv
<1> QED
  BY <1>2, <1>3, <1>4 DEF ContextInv, ToldInv

LEMMA ContextBegins ==
    ASSUME ContextInit
    PROVE  ContextInv
<1>1. EvidenceInv
  BY Bounds, EvidenceBegins DEF ContextInit, Init
<1>2. build = Off \/ build = [r \in Runs |-> NoBuild]
  BY DEF ContextInit
<1>3. /\ build \in [Runs -> Builds]
      /\ \A r \in Runs : /\ build[r].at \in {"off", "idle"}
                         /\ build[r].todo = {} /\ build[r].refs = {}
  BY <1>2 DEF Off, NoBuild, Builds, Labels
<1>4. \A r \in Runs : BuildInv(build[r], r)
  BY <1>3 DEF BuildInv, Listed, Allowed
<1>5. /\ prompts \in [Runs -> {None} \cup SUBSET Refs] /\ capsules = {}
      /\ \A r \in Runs : prompts[r] = None
  BY DEF ContextInit
<1> QED
  BY <1>1, <1>3, <1>4, <1>5 DEF ContextInv, ToldInv

LEMMA ContextSteps ==
    ASSUME ContextInv, [ContextNext]_all
    PROVE  ContextInv'
<1>1. build \in [Runs -> Builds]
  BY DEF ContextInv, ToldInv
<1>2. CASE EvidenceStep /\ UNCHANGED context
  BY <1>1, <1>2, EvidenceSteps, OthersStep DEF ContextInv, context
<1>3. CASE UNCHANGED all
  BY <1>1, <1>3, EvidenceSteps, OthersStep DEF ContextInv, context, all
<1>4. CASE RestartAll
  <2>1. Restart /\ UNCHANGED <<claim, told>>
    BY <1>4 DEF RestartAll
  <2>2. PICK o : o = [NoBuild EXCEPT !.at = "threw"]
    OBVIOUS
  <2>3. o \in Builds
    BY <2>2 DEF NoBuild, Builds, Labels
  <2>4. build' = [r \in Runs |-> IF build[r].at \in Ended THEN build[r] ELSE o]
    BY <1>4, <2>2 DEF RestartAll
  <2>5. /\ build' \in [Runs -> Builds]
        /\ \A r \in Runs : build'[r] = build[r] \/ build'[r] = o
    BY <1>1, <2>3, <2>4
  <2>6. EvidenceInv' /\ Onward
    BY <2>1, EvidenceSteps DEF ContextInv
  <2> QED
    BY <2>1, <2>2, <2>5, <2>6, OthersStep
<1>5. ASSUME NEW r \in Runs, Build(r)
      PROVE  ContextInv'
  BY <1>5, Denies, Lists, Stamps, Authorizes, Clarifies, Assembles, SavesCapsule,
     SavesIndex, Renders, BuildFails DEF Build
<1> QED
  BY <1>2, <1>3, <1>4, <1>5 DEF ContextNext

-----------------------------------------------------------------------------
(* What the governance chain tells.                                        *)

\* What the mutation under way makes of e: a request adds the version it will tell.
Adds(e) ==
    IF draft.by \in Calls /\ target[draft.by].id = e
    THEN /\ store.versions[e] # <<>>
         /\ Len(draft.store.versions[e]) = Len(store.versions[e]) + 1
         /\ draft.store.versions[e][Len(draft.store.versions[e])].status
               = target[draft.by].status
    ELSE \/ Len(draft.store.versions[e]) = Len(store.versions[e])
         \/ store.versions[e] = <<>> /\ Len(draft.store.versions[e]) = 1

\* The chain and what it is owed, against the versions of e.
Recounted(e) ==
    IF Exists(e) THEN Tells(Owed, e, store.versions[e]) ELSE About(Owed, e) = {}

AuditInv ==
    ledgerFaults = 0 /\ crashes = 0 =>
        /\ \A e \in Ids : pc[e] # "compensate" /\ Recounted(e)
        /\ draft # NoDraft => \A e \in Ids : Adds(e)

Tally(o, e, i) == Cardinality({j \in About(o, e) : j <= i})

LEMMA AboutFinite ==
    ASSUME NEW o \in Seq(Targets), NEW e, NEW i
    PROVE  /\ IsFiniteSet(About(o, e)) /\ Cardinality(About(o, e)) \in Nat
           /\ Tally(o, e, i) \in Nat /\ Tally(o, e, i) <= Cardinality(About(o, e))
<1>1. Len(o) \in Nat
  OBVIOUS
<1>2. IsFiniteSet(1..Len(o))
  BY <1>1, FS_Interval
<1>3. About(o, e) \in SUBSET (1..Len(o))
  BY DEF About
<1>4. IsFiniteSet(About(o, e))
  BY <1>2, <1>3, FS_Subset
<1>5. {j \in About(o, e) : j <= i} \in SUBSET About(o, e)
  OBVIOUS
<1>6. /\ IsFiniteSet({j \in About(o, e) : j <= i})
      /\ Cardinality({j \in About(o, e) : j <= i}) <= Cardinality(About(o, e))
  BY <1>4, <1>5, FS_Subset
<1> QED
  BY <1>4, <1>6, FS_CardinalityType DEF Tally

\* Versions with the same status one by one are told by the same entries.
LEMMA TellsOn ==
    ASSUME NEW o \in Seq(Targets), NEW e, NEW vs, NEW ws, Len(vs) \in Nat,
           Tells(o, e, vs), Len(ws) = Len(vs), \A i \in 1..Len(vs) : ws[i].status = vs[i].status
    PROVE  Tells(o, e, ws)
<1>1. ASSUME NEW i \in About(o, e)
      PROVE  1 + Tally(o, e, i) \in 1..Len(vs)
  BY AboutFinite DEF Tells
<1> QED
  BY <1>1 DEF Tells, Tally

LEMMA EntryAdded ==
    ASSUME NEW o \in Seq(Targets), NEW t \in Targets, NEW p, p = Append(o, t), NEW e
    PROVE  /\ p \in Seq(Targets) /\ \A i \in 1..Len(o) : p[i] = o[i]
           /\ t.id # e => About(p, e) = About(o, e)
           /\ t.id = e => About(p, e) = About(o, e) \cup {Len(o) + 1}
           /\ p[Len(o) + 1] = t
<1>1. /\ p \in Seq(Targets) /\ Len(p) = Len(o) + 1 /\ p[Len(o) + 1] = t
      /\ \A i \in 1..Len(o) : p[i] = o[i]
  OBVIOUS
<1>2. Len(o) \in Nat
  OBVIOUS
<1>3. 1..Len(p) = (1..Len(o)) \cup {Len(o) + 1}
  BY <1>1, <1>2
<1> QED
  BY <1>1, <1>2, <1>3 DEF About

\* An entry about another Evidence.
LEMMA OtherTold ==
    ASSUME NEW o \in Seq(Targets), NEW t \in Targets, NEW p, p = Append(o, t),
           NEW e, t.id # e, NEW vs
    PROVE  Tells(o, e, vs) => Tells(p, e, vs)
<1>1. About(p, e) = About(o, e) /\ \A i \in About(o, e) : p[i] = o[i]
  BY EntryAdded DEF About
<1> QED
  BY <1>1 DEF Tells

\* An entry about e, and the version it tells.
LEMMA NextTold ==
    ASSUME NEW o \in Seq(Targets), NEW t \in Targets, NEW p, p = Append(o, t),
           NEW e, t.id = e, NEW vs, NEW ws, Len(vs) \in Nat, Tells(o, e, vs),
           Len(ws) = Len(vs) + 1, ws[Len(ws)].status = t.status,
           \A i \in 1..Len(vs) : ws[i].status = vs[i].status
    PROVE  Tells(p, e, ws)
<1>1. PICK n \in Nat : n = Len(o)
  OBVIOUS
<1>2. /\ About(p, e) = About(o, e) \cup {n + 1} /\ \A i \in 1..n : p[i] = o[i]
      /\ p[n + 1] = t /\ About(o, e) \subseteq 1..n
  BY <1>1, EntryAdded DEF About
<1>3. n + 1 \notin About(o, e)
  BY <1>2
<1>4. IsFiniteSet(About(o, e)) /\ Cardinality(About(o, e)) = Len(vs) - 1
  BY AboutFinite DEF Tells
<1>5. Cardinality(About(p, e)) = Len(vs)
  <2>1. PICK c \in Nat : c = Cardinality(About(o, e))
    BY <1>4, AboutFinite
  <2>2. Cardinality(About(o, e) \cup {n + 1}) = c + 1
    BY <1>3, <1>4, <2>1, FS_AddElement
  <2>3. c + 1 = Len(vs)
    BY <1>4, <2>1
  <2> QED
    BY <1>2, <2>2, <2>3
<1>6. ASSUME NEW i \in About(o, e)
      PROVE  p[i].status = ws[1 + Tally(p, e, i)].status
  <2>1. {j \in About(p, e) : j <= i} = {j \in About(o, e) : j <= i}
    <3>1. i \in 1..n /\ ~ (n + 1 <= i)
      BY <1>2
    <3> QED
      BY <1>2, <3>1
  <2>2. Tally(p, e, i) = Tally(o, e, i)
    BY <2>1 DEF Tally
  <2>3. o[i].status = vs[1 + Tally(o, e, i)].status
    BY DEF Tells, Tally
  <2>4. 1 + Tally(o, e, i) \in 1..Len(vs)
    BY <1>4, AboutFinite
  <2>5. p[i] = o[i]
    BY <1>2
  <2> QED
    BY <2>2, <2>3, <2>4, <2>5
<1>7. p[n + 1].status = ws[1 + Tally(p, e, n + 1)].status
  <2>1. {j \in About(p, e) : j <= n + 1} = About(p, e)
    BY <1>2
  <2>2. Tally(p, e, n + 1) = Len(vs)
    BY <1>5, <2>1 DEF Tally
  <2> QED
    BY <1>2, <2>2
<1>8. \A i \in About(p, e) : p[i].status = ws[1 + Tally(p, e, i)].status
  BY <1>2, <1>6, <1>7
<1>9. Cardinality(About(p, e)) = Len(ws) - 1
  BY <1>5
<1> QED
  BY <1>8, <1>9 DEF Tells, Tally

\* The chain g with the appends owed to the requests in q.
LEMMA OwedTyped ==
    ASSUME NEW g \in Seq(Targets), NEW q \in Seq(Calls), NEW t \in [Calls -> Targets],
           NEW o, o = g \o [i \in 1..Len(q) |-> t[q[i]]]
    PROVE  /\ o \in Seq(Targets) /\ Len(o) = Len(g) + Len(q)
           /\ \A i \in 1..Len(g) : o[i] = g[i]
           /\ \A i \in 1..Len(q) : o[Len(g) + i] = t[q[i]]
<1>1. PICK n \in Nat : n = Len(q)
  OBVIOUS
<1>2. PICK r : r = [i \in 1..n |-> t[q[i]]]
  OBVIOUS
<1>3. \A i \in 1..n : r[i] = t[q[i]] /\ r[i] \in Targets
  BY <1>1, <1>2
<1>4. r \in Seq(Targets) /\ Len(r) = n
  BY <1>2, <1>3
<1>5. o = g \o r
  BY <1>1, <1>2
<1>6. /\ g \o r \in Seq(Targets) /\ Len(g \o r) = Len(g) + n
      /\ \A i \in 1..Len(g) : (g \o r)[i] = g[i]
      /\ \A i \in 1..n : (g \o r)[Len(g) + i] = r[i]
  <2>1. PICK m \in Nat : m = Len(g)
    OBVIOUS
  <2>2. g \o r \in Seq(Targets) /\ Len(g \o r) = m + n
    BY <1>4, <2>1
  <2>3. \A i \in 1..m : (g \o r)[i] = g[i]
    BY <1>4, <2>1
  <2>4. \A i \in 1..n : (g \o r)[m + i] = r[i]
    BY <1>4, <2>1
  <2> QED
    BY <2>1, <2>2, <2>3, <2>4
<1> QED
  BY <1>1, <1>3, <1>5, <1>6

LEMMA OwedNow ==
    ASSUME EvidenceInv
    PROVE  /\ Owed \in Seq(Targets) /\ Len(Owed) = Len(governance) + Len(queue)
           /\ \A i \in 1..Len(governance) : Owed[i] = governance[i]
           /\ \A i \in 1..Len(queue) : Owed[Len(governance) + i] = target[queue[i]]
<1>1. /\ governance \in Seq(Targets) /\ queue \in Seq(Calls)
      /\ target \in [Calls -> Targets]
  BY DEF EvidenceInv, Typed, TypeOK
<1> QED
  BY <1>1, OwedTyped DEF Owed

LEMMA OwedNext ==
    ASSUME EvidenceInv'
    PROVE  /\ Owed' \in Seq(Targets) /\ Len(Owed') = Len(governance') + Len(queue')
           /\ \A i \in 1..Len(governance') : Owed'[i] = governance'[i]
           /\ \A i \in 1..Len(queue') : Owed'[Len(governance') + i] = target'[queue'[i]]
<1>1. /\ governance' \in Seq(Targets) /\ queue' \in Seq(Calls)
      /\ target' \in [Calls -> Targets]
  BY DEF EvidenceInv, Typed, TypeOK
<1>2. PICK o : o = governance' \o [i \in 1..Len(queue') |-> target'[queue'[i]]]
  OBVIOUS
<1>3. Owed' = o
  BY <1>2 DEF Owed
<1> QED
  BY <1>1, <1>2, <1>3, OwedTyped

\* A request that is not waiting may be given what it likes.
LEMMA OwedStays ==
    ASSUME EvidenceInv, EvidenceInv', UNCHANGED <<governance, queue>>,
           \A c \in Calls : pc[c] # "idle" => target'[c] = target[c]
    PROVE  Owed' = Owed
<1>1. governance \in Seq(Targets) /\ queue \in Seq(Calls) /\ Waiting
  BY DEF EvidenceInv, Typed, TypeOK
<1>2. PICK m \in Nat, n \in Nat : m = Len(governance) /\ n = Len(queue)
  BY <1>1
<1>3. ASSUME NEW i \in 1..n
      PROVE  target'[queue[i]] = target[queue[i]]
  <2>1. queue[i] \in Calls /\ pc[queue[i]] # "idle"
    BY <1>1, <1>2 DEF Waiting
  <2> QED
    BY <2>1
<1>4. ASSUME NEW i \in 1..(m + n)
      PROVE  Owed'[i] = Owed[i]
  <2>1. CASE i \in 1..m
    BY <1>2, <2>1, OwedNow, OwedNext
  <2>2. CASE i \notin 1..m
    <3>1. i - m \in 1..n /\ i = m + (i - m)
      BY <2>2
    <3>2. PICK j \in 1..n : i = m + j
      BY <3>1
    <3>3. Owed[m + j] = target[queue[j]] /\ Owed'[m + j] = target'[queue[j]]
      BY <1>2, OwedNow, OwedNext
    <3> QED
      BY <1>3, <3>2, <3>3
  <2> QED
    BY <2>1, <2>2
<1>5. Owed \in Seq(Targets) /\ Owed' \in Seq(Targets) /\ Len(Owed) = m + n /\ Len(Owed') = m + n
  BY <1>2, OwedNow, OwedNext
<1> QED
  BY <1>4, <1>5, SeqEqual

\* What was owed first is in the chain.
LEMMA OwedPaid ==
    ASSUME EvidenceInv, EvidenceInv', GovernanceAppend
    PROVE  Owed' = Owed
<1>1. /\ governance \in Seq(Targets) /\ queue \in Seq(Calls) /\ queue # <<>>
      /\ target \in [Calls -> Targets] /\ target' = target
  BY DEF EvidenceInv, Typed, TypeOK, GovernanceAppend, input
<1>2. PICK m \in Nat, n \in Nat : m = Len(governance) /\ n = Len(queue) /\ n > 0
  BY <1>1
<1>3. PICK t : t = target[queue[1]]
  OBVIOUS
<1>4. t \in Targets
  BY <1>1, <1>2, <1>3
<1>5. governance' = Append(governance, t) /\ queue' = Tail(queue)
  BY <1>1, <1>2, <1>3 DEF GovernanceAppend
<1>6. /\ Len(governance') = m + 1 /\ governance'[m + 1] = t
      /\ \A i \in 1..m : governance'[i] = governance[i]
  BY <1>1, <1>2, <1>4, <1>5
<1>7. Len(queue') = n - 1 /\ \A i \in 1..(n - 1) : queue'[i] = queue[i + 1]
  BY <1>1, <1>2, <1>5
<1>8. ASSUME NEW i \in 1..(m + n)
      PROVE  Owed'[i] = Owed[i]
  <2>1. CASE i \in 1..m
    BY <1>2, <1>6, <2>1, OwedNow, OwedNext
  <2>2. CASE i = m + 1
    <3>1. Owed'[m + 1] = t
      BY <1>6, OwedNext
    <3>2. Owed[m + 1] = t
      BY <1>2, <1>3, OwedNow
    <3> QED
      BY <2>2, <3>1, <3>2
  <2>3. CASE i \notin 1..(m + 1)
    <3>1. i - m - 1 \in 1..(n - 1) /\ i = (m + 1) + (i - m - 1)
      BY <2>3
    <3>2. PICK j \in 1..(n - 1) : i = (m + 1) + j
      BY <3>1
    <3>3. Owed'[(m + 1) + j] = target[queue'[j]]
      BY <1>1, <1>6, <1>7, OwedNext
    <3>4. j + 1 \in 1..n /\ Owed[m + (j + 1)] = target[queue[j + 1]]
      BY <1>2, OwedNow
    <3>5. m + (j + 1) = (m + 1) + j
      OBVIOUS
    <3> QED
      BY <1>7, <3>2, <3>3, <3>4, <3>5
  <2> QED
    BY <2>1, <2>2, <2>3
<1>9. Owed \in Seq(Targets) /\ Owed' \in Seq(Targets) /\ Len(Owed) = m + n /\ Len(Owed') = m + n
  BY <1>2, <1>6, <1>7, OwedNow, OwedNext
<1> QED
  BY <1>8, <1>9, SeqEqual

\* A request whose transition is stored asks for its append at once.
LEMMA OwedMore ==
    ASSUME EvidenceInv, EvidenceInv', NEW c \in Calls, queue' = Append(queue, c),
           UNCHANGED <<governance, target>>
    PROVE  target[c] \in Targets /\ Owed' = Append(Owed, target[c])
<1>1. /\ governance \in Seq(Targets) /\ queue \in Seq(Calls) /\ target \in [Calls -> Targets]
  BY DEF EvidenceInv, Typed, TypeOK
<1>2. PICK m \in Nat, n \in Nat : m = Len(governance) /\ n = Len(queue)
  BY <1>1
<1>3. PICK t \in Targets : t = target[c]
  BY <1>1
<1>4. /\ Len(queue') = n + 1 /\ queue'[n + 1] = c /\ \A i \in 1..n : queue'[i] = queue[i]
  BY <1>1, <1>2
<1>5. PICK o : o = Append(Owed, t)
  OBVIOUS
<1>6. /\ o \in Seq(Targets) /\ Len(o) = (m + n) + 1 /\ o[(m + n) + 1] = t
      /\ \A i \in 1..(m + n) : o[i] = Owed[i]
  <2>1. Owed \in Seq(Targets) /\ Len(Owed) = m + n
    BY <1>2, OwedNow
  <2>2. PICK s \in Seq(Targets) : s = Owed
    BY <2>1
  <2>3. o = Append(s, t) /\ Len(s) = m + n
    BY <1>5, <2>1, <2>2
  <2>4. /\ o \in Seq(Targets) /\ Len(o) = Len(s) + 1 /\ o[Len(s) + 1] = t
        /\ \A i \in 1..Len(s) : o[i] = s[i]
    BY <2>3
  <2> QED
    BY <2>2, <2>3, <2>4
<1>7. ASSUME NEW i \in 1..((m + n) + 1)
      PROVE  Owed'[i] = o[i]
  <2>1. CASE i \in 1..m
    <3>1. Owed'[i] = governance[i] /\ Owed[i] = governance[i]
      BY <1>2, <2>1, OwedNow, OwedNext
    <3>2. i \in 1..(m + n)
      BY <2>1
    <3> QED
      BY <1>6, <3>1, <3>2
  <2>2. CASE i \in (m + 1)..(m + n)
    <3>1. i - m \in 1..n /\ i = m + (i - m)
      BY <2>2
    <3>2. PICK j \in 1..n : i = m + j
      BY <3>1
    <3>3. Owed[m + j] = target[queue[j]]
      BY <1>2, OwedNow
    <3>4. Owed'[m + j] = target[queue'[j]]
      <4>1. j \in 1..Len(queue') /\ Len(governance') = m /\ target' = target
        BY <1>2, <1>4
      <4> QED
        BY <4>1, OwedNext
    <3>5. i \in 1..(m + n)
      BY <2>2
    <3> QED
      BY <1>4, <1>6, <3>2, <3>3, <3>4, <3>5
  <2>3. CASE i = (m + n) + 1
    <3>1. Owed'[m + (n + 1)] = target[queue'[n + 1]]
      <4>1. n + 1 \in 1..Len(queue') /\ Len(governance') = m /\ target' = target
        BY <1>2, <1>4
      <4> QED
        BY <4>1, OwedNext
    <3>2. m + (n + 1) = (m + n) + 1
      OBVIOUS
    <3> QED
      BY <1>3, <1>4, <1>6, <2>3, <3>1, <3>2
  <2> QED
    BY <2>1, <2>2, <2>3
<1>8. Owed' \in Seq(Targets) /\ Len(Owed') = (m + n) + 1
  BY <1>2, <1>4, OwedNext
<1>9. Owed' = o
  BY <1>6, <1>7, <1>8, SeqEqual
<1> QED
  BY <1>3, <1>5, <1>9

\* What no request adds to is told as before.
LEMMA Untold ==
    ASSUME NEW o \in Seq(Targets), NEW e, NEW vs \in Seq(Versions), NEW ws \in Seq(Versions),
           IF vs # <<>> THEN Tells(o, e, vs) ELSE About(o, e) = {},
           Len(ws) = Len(vs) \/ (vs = <<>> /\ Len(ws) = 1),
           \A i \in 1..Len(vs) : ws[i].status = vs[i].status
    PROVE  IF ws # <<>> THEN Tells(o, e, ws) ELSE About(o, e) = {}
<1>1. Len(vs) \in Nat /\ Len(ws) \in Nat
  OBVIOUS
<1>2. (vs = <<>>) = (Len(vs) = 0) /\ (ws = <<>>) = (Len(ws) = 0)
  OBVIOUS
<1>3. CASE vs # <<>>
  BY <1>1, <1>2, <1>3, TellsOn
<1>4. CASE vs = <<>>
  <2>1. About(o, e) = {} /\ Cardinality(About(o, e)) = 0
    BY <1>4, FS_EmptySet
  <2>2. CASE Len(ws) = 1
    BY <2>1, <2>2 DEF Tells
  <2>3. CASE Len(ws) # 1
    BY <1>1, <1>2, <1>4, <2>1, <2>3
  <2> QED
    BY <2>2, <2>3
<1> QED
  BY <1>3, <1>4

\* Nothing is stored and nothing is asked for.
LEMMA AuditStays ==
    ASSUME EvidenceInv, EvidenceInv', AuditInv, UNCHANGED <<store, draft>>, Owed' = Owed,
           ledgerFaults' = 0 /\ crashes' = 0 => ledgerFaults = 0 /\ crashes = 0,
           \A e \in Ids : pc'[e] = "compensate" => pc[e] = "compensate",
           \A c \in Calls : draft # NoDraft /\ draft.by = c => target'[c] = target[c]
    PROVE  AuditInv'
<1> SUFFICES ASSUME ledgerFaults' = 0, crashes' = 0
             PROVE  /\ \A e \in Ids : pc'[e] # "compensate" /\ Recounted(e)'
                    /\ draft' # NoDraft => \A e \in Ids : Adds(e)'
  BY DEF AuditInv
<1>1. /\ \A e \in Ids : pc[e] # "compensate" /\ Recounted(e)
      /\ draft # NoDraft => \A e \in Ids : Adds(e)
  BY DEF AuditInv
<1>2. \A e \in Ids : pc'[e] # "compensate" /\ Recounted(e)'
  BY <1>1 DEF Recounted, Exists
<1>3. ASSUME draft' # NoDraft, NEW e \in Ids
      PROVE  Adds(e)'
  <2>1. Adds(e)
    BY <1>1, <1>3
  <2>2. draft.by \in Calls => target'[draft.by] = target[draft.by]
    BY <1>3
  <2> QED
    BY <2>1, <2>2 DEF Adds
<1> QED
  BY <1>2, <1>3

\* A mutation begins.
LEMMA AuditDraws ==
    ASSUME EvidenceInv, EvidenceInv', AuditInv, NEW w, NEW n,
           draft' = [by |-> w, store |-> n],
           UNCHANGED <<store, pc, governance, queue, target, ledgerFaults, crashes>>,
           ASSUME ledgerFaults = 0, crashes = 0, NEW e \in Ids
           PROVE  IF w \in Calls /\ target[w].id = e
                  THEN /\ store.versions[e] # <<>>
                       /\ Len(n.versions[e]) = Len(store.versions[e]) + 1
                       /\ n.versions[e][Len(n.versions[e])].status = target[w].status
                  ELSE \/ Len(n.versions[e]) = Len(store.versions[e])
                       \/ store.versions[e] = <<>> /\ Len(n.versions[e]) = 1
    PROVE  AuditInv'
<1> SUFFICES ASSUME ledgerFaults' = 0, crashes' = 0
             PROVE  /\ \A e \in Ids : pc'[e] # "compensate" /\ Recounted(e)'
                    /\ draft' # NoDraft => \A e \in Ids : Adds(e)'
  BY DEF AuditInv
<1>1. /\ \A e \in Ids : pc[e] # "compensate" /\ Recounted(e)
  BY DEF AuditInv
<1>2. Owed' = Owed
  BY DEF Owed
<1>3. \A e \in Ids : pc'[e] # "compensate" /\ Recounted(e)'
  BY <1>1, <1>2 DEF Recounted, Exists
<1>4. draft'.by = w /\ draft'.store = n
  OBVIOUS
<1>5. ASSUME NEW e \in Ids
      PROVE  Adds(e)'
  BY <1>4 DEF Adds
<1> QED
  BY <1>3, <1>5

\* Nothing is claimed once an append failed or the process restarted.
LEMMA AuditOver ==
    ASSUME EvidenceInv, \/ ledgerFaults' = ledgerFaults + 1
                        \/ crashes' = crashes + 1
    PROVE  AuditInv'
<1>1. ledgerFaults \in Nat /\ crashes \in Nat
  BY DEF EvidenceInv, Typed, TypeOK
<1>2. ledgerFaults' # 0 \/ crashes' # 0
  BY <1>1
<1> QED
  BY <1>2 DEF AuditInv

LEMMA AuditPoints ==
    ASSUME EvidenceInv, EvidenceInv', AuditInv, NEW e \in Ids, AppendPointer(e)
    PROVE  AuditInv'
<1>1. PICK n : n = [store EXCEPT !.pointer[e] = plan[e].hash]
  OBVIOUS
<1>2. draft' = [by |-> e, store |-> n] /\ n.versions = store.versions /\ e \notin Calls
  <2>1. store \in Stores
    BY DEF EvidenceInv, Typed, TypeOK
  <2> QED
    BY <1>1, <2>1, Identities DEF AppendPointer, Mutate, Stores
<1>3. UNCHANGED <<store, pc, governance, queue, target, ledgerFaults, crashes>>
  BY DEF AppendPointer, input, budget
<1> QED
  BY <1>2, <1>3, AuditDraws

LEMMA AuditCommits ==
    ASSUME EvidenceInv, EvidenceInv', AuditInv, NEW e \in Ids, AppendEvidence(e)
    PROVE  AuditInv'
<1>1. PICK v : v = <<FirstVersion(e)>>
  OBVIOUS
<1>2. PICK n : n = [store EXCEPT !.cited = @ \cup {e}, !.versions[e] = v]
  OBVIOUS
<1>3. store.versions[e] = <<>> /\ store \in Stores /\ e \notin Calls
  BY Identities DEF EvidenceInv, Typed, TypeOK, Placed, Unborn, AppendEvidence
<1>4. n.versions[e] = v /\ \A d \in Ids : d # e => n.versions[d] = store.versions[d]
  BY <1>2, <1>3 DEF Stores
<1>5. Len(v) = 1
  BY <1>1
<1>6. draft' = [by |-> e, store |-> n]
  BY <1>1, <1>2 DEF AppendEvidence, Mutate
<1>7. UNCHANGED <<store, pc, governance, queue, target, ledgerFaults, crashes>>
  BY DEF AppendEvidence, input, budget
<1>8. ASSUME NEW d \in Ids
      PROVE  \/ Len(n.versions[d]) = Len(store.versions[d])
             \/ store.versions[d] = <<>> /\ Len(n.versions[d]) = 1
  BY <1>3, <1>4, <1>5
<1> QED
  BY <1>3, <1>6, <1>7, <1>8, AuditDraws

\* Once audited, Evidence is never taken back without a request.
LEMMA AuditCompensates ==
    ASSUME EvidenceInv, EvidenceInv', AuditInv, NEW e \in Ids, Compensate(e)
    PROVE  AuditInv'
<1>1. pc[e] = "compensate" /\ UNCHANGED <<ledgerFaults, crashes>>
  BY DEF Compensate, budget
<1> QED
  BY <1>1 DEF AuditInv

LEMMA AuditMoves ==
    ASSUME EvidenceInv, EvidenceInv', AuditInv, NEW c \in Calls, MoveEvidence(c)
    PROVE  AuditInv'
<1>1. /\ pc[c] = "transition" /\ target[c].status \in Status \ {"ACTIVE"}
      /\ target[c].id \in Ids /\ c \in Writers /\ c \notin Ids
  BY Identities DEF MoveEvidence, EvidenceInv, Asked, Writers
<1>2. PICK e \in Ids, status \in Status : e = target[c].id /\ status = target[c].status
  BY <1>1
<1>3. UNCHANGED <<store, created, governance, queue, target, ledgerFaults, crashes>>
  BY DEF MoveEvidence, input, budget
<1>4. CASE MayMove(e, Required(c))
  <2>1. Exists(e) /\ draft' = [by |-> c, store |-> Moved(e, status)] /\ UNCHANGED pc
    BY <1>2, <1>4 DEF MoveEvidence, Transition, Mutate, MayMove
  <2>2. Typed /\ Sound(store)
    BY DEF EvidenceInv, Futures
  <2>3. PICK vs \in Seq(Versions) : vs = store.versions[e] /\ vs # <<>> /\ Chained(vs)
    BY <2>1, <2>2 DEF Typed, TypeOK, Stores, Sound, Exists
  <2>4. PICK w : w = NextVersions(vs, status)
    OBVIOUS
  <2>5. Len(w) = Len(vs) + 1 /\ w[Len(w)].status = status /\ w \in Seq(Versions)
    <3>1. clock \in Nat /\ clock > 0
      BY <2>2 DEF Typed, TypeOK
    <3> QED
      BY <2>3, <2>4, <3>1, NextChain
  <2>6. PICK n : n = Moved(e, status)
    OBVIOUS
  <2>7. /\ n = [store EXCEPT !.versions[e] = w] /\ store \in Stores
    BY <2>2, <2>3, <2>4, <2>6 DEF Moved, NextVersions, Typed, TypeOK
  <2>8. n.versions[e] = w /\ \A d \in Ids : d # e => n.versions[d] = store.versions[d]
    BY <2>5, <2>7, VersionsUpdate
  <2> QED
    BY <1>2, <1>3, <2>1, <2>3, <2>5, <2>6, <2>8, AuditDraws
<1>5. CASE ~ MayMove(e, Required(c))
  <2>1. draft = NoDraft /\ Goto(c, "threw") /\ UNCHANGED draft
    BY <1>2, <1>5 DEF MoveEvidence, Transition
  <2>2. \A d \in Ids : pc'[d] = pc[d]
    BY <1>1, <2>1, PcTyped DEF Goto, Writers
  <2>3. Owed' = Owed
    BY <1>3 DEF Owed
  <2> QED
    BY <1>3, <2>1, <2>2, <2>3, AuditStays
<1> QED
  BY <1>4, <1>5

LEMMA AuditRequests ==
    ASSUME EvidenceInv, EvidenceInv', AuditInv, NEW c \in Calls, NEW status, NEW e,
           Request(c, status, e)
    PROVE  AuditInv'
<1>1. /\ pc[c] = "idle" /\ c \notin Ids /\ Goto(c, "transition")
      /\ target' = [target EXCEPT ![c] = [status |-> status, id |-> e]]
      /\ UNCHANGED <<store, draft, governance, queue, ledgerFaults, crashes>>
  BY Identities DEF Request, budget
<1>2. \A d \in Calls : d # c => target'[d] = target[d]
  BY <1>1, TargetTyped
<1>3. \A d \in Ids : pc'[d] = pc[d]
  BY <1>1, PcTyped DEF Goto, Writers
<1>4. Owed' = Owed
  BY <1>1, <1>2, OwedStays
<1>5. draft # NoDraft => draft.by # c
  BY <1>1, NotMutating DEF Mutating
<1> QED
  BY <1>1, <1>2, <1>3, <1>4, <1>5, AuditStays

\* A createEvidence call moves on, but not to take Evidence back.
LEMMA AuditCreates ==
    ASSUME EvidenceInv, EvidenceInv', AuditInv, NEW e \in Ids, NEW label, label # "compensate",
           Goto(e, label), UNCHANGED <<store, draft, governance, queue, target, budget>>
    PROVE  AuditInv'
<1>1. \A d \in Ids : pc'[d] = "compensate" => pc[d] = "compensate"
  BY PcTyped DEF Goto, Writers
<1>2. Owed' = Owed
  BY DEF Owed
<1> QED
  BY <1>1, <1>2, AuditStays DEF budget

\* What was asked for and is stored is owed to the chain.
LEMMA AuditPersists ==
    ASSUME EvidenceInv, EvidenceInv', AuditInv, Persist
    PROVE  AuditInv'
<1> SUFFICES ASSUME ledgerFaults' = 0, crashes' = 0
             PROVE  \A e \in Ids : pc'[e] # "compensate" /\ Recounted(e)'
  BY DEF AuditInv, Persist
<1>1. PICK w \in Writers : w = draft.by
  BY FutureStores DEF Persist, EvidenceInv, Typed
<1>2. /\ draft # NoDraft /\ store' = draft.store /\ Goto(w, After(w))
      /\ queue' = IF w \in Calls THEN Append(queue, w) ELSE queue
      /\ UNCHANGED <<governance, target>> /\ ledgerFaults = 0 /\ crashes = 0
  BY <1>1 DEF Persist, Enqueued, input, budget
<1>3. \A e \in Ids : pc[e] # "compensate" /\ Recounted(e) /\ Adds(e)
  BY <1>2 DEF AuditInv
<1>4. ASSUME NEW e \in Ids
      PROVE  pc'[e] # "compensate"
  <2>1. pc[w] \in Mutating
    BY <1>1, <1>2 DEF EvidenceInv, Drafted
  <2>2. After(w) # "compensate"
    BY <2>1, AfterMutating
  <2> QED
    BY <1>1, <1>2, <1>3, <2>2, PcTyped DEF Goto, Writers
<1>5. Owed \in Seq(Targets)
  BY OwedNow
<1>6. ASSUME NEW e \in Ids
      PROVE  Recounted(e)'
  <2>1. PICK vs \in Seq(Versions), ws \in Seq(Versions) :
           vs = store.versions[e] /\ ws = draft.store.versions[e]
    BY <1>2, FutureStores DEF EvidenceInv, Typed, TypeOK, Stores
  <2>2. \A i \in 1..Len(vs) : ws[i].status = vs[i].status
    BY <1>2, <2>1 DEF EvidenceInv, Drafted, GrowsAt
  <2>3. IF vs # <<>> THEN Tells(Owed, e, vs) ELSE About(Owed, e) = {}
    BY <1>3, <2>1 DEF Recounted, Exists
  <2>4. IF w \in Calls /\ target[w].id = e
        THEN vs # <<>> /\ Len(ws) = Len(vs) + 1 /\ ws[Len(ws)].status = target[w].status
        ELSE Len(ws) = Len(vs) \/ (vs = <<>> /\ Len(ws) = 1)
    <3>1. Adds(e)
      BY <1>3
    <3>2. CASE w \in Calls /\ target[w].id = e
      BY <1>1, <2>1, <3>1, <3>2 DEF Adds
    <3>3. CASE ~ (w \in Calls /\ target[w].id = e)
      BY <1>1, <2>1, <3>1, <3>3 DEF Adds
    <3> QED
      BY <3>2, <3>3
  <2>5. Len(vs) \in Nat /\ Len(ws) \in Nat
    BY <2>1
  <2>6. IF ws # <<>> THEN Tells(Owed', e, ws) ELSE About(Owed', e) = {}
    <3>1. CASE w \in Calls
      <4>1. PICK t \in Targets : t = target[w]
        BY <3>1, TargetTyped
      <4>2. Owed' = Append(Owed, t)
        BY <1>2, <3>1, <4>1, OwedMore
      <4>3. CASE t.id = e
        <5>1. vs # <<>> /\ Len(ws) = Len(vs) + 1 /\ ws[Len(ws)].status = t.status /\ ws # <<>>
          BY <2>4, <2>5, <3>1, <4>1, <4>3
        <5>2. Tells(Owed, e, vs)
          BY <2>3, <5>1
        <5>3. Tells(Append(Owed, t), e, ws)
          BY <1>5, <2>2, <2>5, <4>3, <5>1, <5>2, NextTold
        <5> QED
          BY <4>2, <5>1, <5>3
      <4>4. CASE t.id # e
        <5>1. Len(ws) = Len(vs) \/ (vs = <<>> /\ Len(ws) = 1)
          BY <2>4, <4>1, <4>4
        <5>2. IF ws # <<>> THEN Tells(Owed, e, ws) ELSE About(Owed, e) = {}
          BY <1>5, <2>2, <2>3, <5>1, Untold
        <5>3. Tells(Owed, e, ws) => Tells(Append(Owed, t), e, ws)
          BY <1>5, <4>4, OtherTold
        <5>4. About(Append(Owed, t), e) = About(Owed, e)
          <6>1. PICK o \in Seq(Targets) : o = Owed
            BY <1>5
          <6>2. PICK p : p = Append(o, t)
            OBVIOUS
          <6>3. About(p, e) = About(o, e)
            BY <4>4, <6>1, <6>2, EntryAdded DEF About
          <6> QED
            BY <6>1, <6>2, <6>3
        <5> QED
          BY <4>2, <5>2, <5>3, <5>4
      <4> QED
        BY <4>3, <4>4
    <3>2. CASE w \notin Calls
      <4>1. Owed' = Owed
        BY <1>2, <3>2 DEF Owed
      <4> QED
        BY <1>5, <2>2, <2>3, <2>4, <3>2, <4>1, Untold
    <3> QED
      BY <3>1, <3>2
  <2> QED
    BY <1>2, <2>1, <2>6 DEF Recounted, Exists
<1> QED
  BY <1>4, <1>6

LEMMA AuditSteps ==
    ASSUME EvidenceInv, EvidenceInv', AuditInv, EvidenceStep \/ Restart
    PROVE  AuditInv'
<1>1. ASSUME NEW e \in Ids, Create(e)
      PROVE  AuditInv'
  <2>1. ASSUME NEW class \in 0..MaxLevel, NEW derived \in SUBSET (Ids \ {e}),
               NEW supersedes \in (Ids \ {e}) \cup {None},
               CreateEvidence(e, class, derived, supersedes)
        PROVE  AuditInv'
    <3>1. PICK label \in {"read", "refused"} : Goto(e, label)
      BY <2>1 DEF CreateEvidence
    <3> QED
      BY <2>1, <3>1, AuditCreates DEF CreateEvidence
  <2>2. CASE ReadSource(e)
    <3>1. PICK label \in {"pointer", "refused"} : Goto(e, label)
      BY <2>2 DEF ReadSource
    <3> QED
      BY <2>2, <3>1, AuditCreates DEF ReadSource
  <2>3. CASE Verify(e)
    <3>1. PICK label \in {"commit", "refused"} : Goto(e, label)
      BY <2>3 DEF Verify
    <3> QED
      BY <2>3, <3>1, AuditCreates DEF Verify, input
  <2>4. CASE AppendCreated(e)
    BY <2>4, AuditCreates DEF AppendCreated, input
  <2>5. CASE CreatedThrows(e)
    BY <2>5, AuditOver DEF CreatedThrows
  <2> QED
    BY <1>1, <2>1, <2>2, <2>3, <2>4, <2>5, AuditPoints, AuditCommits, AuditCompensates
       DEF Create
<1>2. ASSUME NEW c \in Calls, Move(c)
      PROVE  AuditInv'
  BY <1>2, AuditRequests, AuditMoves DEF Move
<1>3. CASE PersistFails
  <2>1. PICK w : w = draft.by /\ Goto(w, "threw")
    BY <1>3 DEF PersistFails
  <2>2. \A e \in Ids : pc'[e] = "compensate" => pc[e] = "compensate"
    BY <2>1, PcTyped DEF Goto, Writers
  <2>3. Owed' = Owed /\ draft' = NoDraft /\ UNCHANGED <<store, ledgerFaults, crashes>>
    BY <1>3 DEF PersistFails, Owed, input
  <2> QED
    BY <2>2, <2>3 DEF AuditInv, Recounted, Exists
<1>4. CASE GovernanceAppend
  <2>1. Owed' = Owed /\ UNCHANGED <<store, draft, target, ledgerFaults, crashes>>
    BY <1>4, OwedPaid DEF GovernanceAppend, input, budget
  <2>2. \A e \in Ids : pc'[e] = "compensate" => pc[e] = "compensate"
    BY <1>4, PcTyped DEF GovernanceAppend, Goto, Writers
  <2> QED
    BY <2>1, <2>2, AuditStays
<1>5. CASE GovernanceThrows \/ Restart
  BY <1>5, AuditOver DEF GovernanceThrows, Restart
<1>6. CASE EditFile \/ Tick
  <2>1. UNCHANGED <<store, draft, pc, governance, queue, target, ledgerFaults, crashes>>
    BY <1>6 DEF EditFile, Tick, input, budget
  <2>2. Owed' = Owed
    BY <2>1 DEF Owed
  <2> QED
    BY <2>1, <2>2, AuditStays
<1> QED
  BY <1>1, <1>2, <1>3, <1>4, <1>5, <1>6, AuditPersists DEF EvidenceStep

LEMMA AuditBegins ==
    ASSUME ContextInit
    PROVE  AuditInv
<1>1. PICK edited \in Nat, faulted \in Nat : InitWith(edited, faulted)
  BY Bounds DEF ContextInit, Init
<1>2. /\ draft = NoDraft /\ governance = <<>> /\ queue = <<>>
      /\ \A e \in Ids : store.versions[e] = <<>> /\ pc[e] = "idle"
  BY <1>1 DEF InitWith, Writers
<1>3. EvidenceInv
  BY <1>1, EvidenceBegins
<1>4. Len(Owed) = 0
  BY <1>2, <1>3, OwedNow
<1>5. \A e \in Ids : About(Owed, e) = {}
  <2>1. 1..0 = {}
    OBVIOUS
  <2> QED
    BY <1>4, <2>1 DEF About
<1> QED
  BY <1>2, <1>5 DEF AuditInv, Recounted, Exists

-----------------------------------------------------------------------------
(* The theorems.                                                           *)

LEMMA OneKnown ==
    ASSUME ContextInv, NEW e \in Ids, NEW t \in Nat
    PROVE  Cardinality(KnownAt(e, t)) <= 1
<1>1. Chained(store.versions[e]) /\ store \in Stores /\ clock \in Nat
  BY DEF ContextInv, EvidenceInv, Sound, Futures, Typed, TypeOK
<1>2. PICK vs \in Seq(Versions) : vs = store.versions[e]
  BY <1>1 DEF Stores
<1>3. ASSUME NEW i \in KnownAt(e, t), NEW j \in KnownAt(e, t), i < j
      PROVE  FALSE
  <2>1. i \in 1..Len(vs) /\ j \in 1..Len(vs)
    BY <1>2 DEF KnownAt
  <2>2. vs[j].recorded <= t /\ (vs[i].closed = Open \/ t < vs[i].closed)
    BY <1>2 DEF KnownAt
  <2>3. vs[i].closed <= vs[j].recorded /\ vs[i].closed \in 1..clock /\ vs[j].recorded \in 1..clock
    BY <1>1, <1>2, <1>3, <2>1 DEF Chained
  <2> QED
    BY <1>1, <2>2, <2>3 DEF Open
<1>4. \A i, j \in KnownAt(e, t) : i = j
  <2>1. \A i \in KnownAt(e, t) : i \in Nat
    BY <1>2 DEF KnownAt
  <2> QED
    BY <1>3, <2>1
<1>5. CASE KnownAt(e, t) = {}
  BY <1>5, FS_EmptySet
<1>6. CASE KnownAt(e, t) # {}
  <2>1. PICK i : KnownAt(e, t) = {i}
    BY <1>4, <1>6
  <2>2. Cardinality({i}) = 1
    BY FS_Singleton, Zenon
  <2> QED
    BY <2>1, <2>2
<1> QED
  BY <1>5, <1>6

\* Versions of one Evidence were believed one after the other, and now the last.
LEMMA Believes ==
    ASSUME ContextInv
    PROVE  OneBelief
<1>1. \A e \in Ids : \A t \in 1..MaxTime : Cardinality(KnownAt(e, t)) <= 1
  BY OneKnown, Bounds
<1>2. ASSUME NEW e \in Ids, Exists(e)
      PROVE  KnownAt(e, clock) = {Len(store.versions[e])}
  <2>1. Chained(store.versions[e]) /\ store \in Stores /\ clock \in Nat
    BY DEF ContextInv, EvidenceInv, Sound, Futures, Typed, TypeOK
  <2>2. PICK vs \in Seq(Versions) : vs = store.versions[e] /\ vs # <<>>
    BY <1>2, <2>1 DEF Stores, Exists
  <2>3. PICK n \in Nat : n = Len(vs) /\ n > 0
    BY <2>2
  <2>4. vs[n].recorded \in 1..clock /\ vs[n].closed = Open
    BY <2>1, <2>2, <2>3 DEF Chained
  <2>5. n \in KnownAt(e, clock)
    BY <2>1, <2>2, <2>3, <2>4 DEF KnownAt
  <2>6. ASSUME NEW i \in KnownAt(e, clock)
        PROVE  i = n
    <3>1. i \in 1..n /\ (vs[i].closed = Open \/ clock < vs[i].closed)
      BY <2>2, <2>3 DEF KnownAt
    <3>2. i < n => vs[i].closed \in 1..clock
      BY <2>1, <2>2, <2>3, <3>1 DEF Chained
    <3> QED
      BY <2>1, <3>1, <3>2 DEF Open
  <2> QED
    BY <2>2, <2>3, <2>5, <2>6
<1> QED
  BY <1>1, <1>2 DEF OneBelief

LEMMA Holds ==
    ASSUME ContextInv
    PROVE  /\ TypeOK /\ Provenance /\ UsableIsAudited /\ OneBelief
           /\ NoSilentPick /\ ContextIsOnRecord /\ CapsuleIsSnapshot
<1>1. EvidenceInv /\ store \in Futures /\ Sound(store) /\ TypeOK
  BY DEF ContextInv, EvidenceInv, Futures, Typed
<1>2. Provenance
  BY <1>1 DEF Provenance, Sound, Exists
<1>3. UsableIsAudited
  <2> SUFFICES ASSUME storeFaults = 0, crashes = 0, NEW e \in Ids, IsActive(e)
               PROVE  e \in created \/ pc[e] \in {"append", "compensate"}
    BY DEF UsableIsAudited
  <2>1. Usable(store, e) /\ store.versions[e] # <<>>
    BY DEF IsActive, Exists, Current, Usable
  <2>2. Placed(e) /\ Audited(e)
    BY <1>1 DEF EvidenceInv
  <2>3. pc[e] \notin Unborn
    BY <2>1, <2>2 DEF Placed
  <2> QED
    BY <1>1, <2>1, <2>2, <2>3 DEF Audited
<1>4. OneBelief
  BY Believes
<1>5. ASSUME NEW c \in capsules
      PROVE  /\ c.refs \in SUBSET Refs /\ Listed(c.refs) /\ Allowed(c.run, c.refs)
             /\ Agree(c.refs) /\ \E t \in 1..c.createdAt : OpenAt(c.refs, t)
  BY DEF ContextInv, ToldInv, CapsuleInv, CapsuleFiles
<1>6. NoSilentPick
  BY <1>5 DEF NoSilentPick, Agree
<1>7. ContextIsOnRecord
  <2>1. ASSUME NEW c \in capsules, NEW ref \in c.refs
        PROVE  /\ <<c.run, ref, "ALLOW">> \in decisions
               /\ Resolves(ref) /\ Version(ref).status = "ACTIVE"
    <3>1. /\ <<c.run, ref, "ALLOW">> \in decisions /\ ref.id \in Ids
          /\ InStore(store, ref) /\ ActiveIn(store, ref)
      BY <1>1, <1>5 DEF Refs, Listed, Allowed
    <3>2. Len(store.versions[ref.id]) \in Nat
      BY <1>1, <3>1 DEF TypeOK, Stores
    <3>3. Stored(ref) /\ store.versions[ref.id] # <<>>
      BY <3>1, <3>2 DEF InStore, Stored
    <3>4. store.pointer[ref.id] = "quoting"
      BY <1>1, <3>1, <3>3 DEF Sound
    <3>5. "quoting" # None
      BY NoneApart DEF Contents
    <3> QED
      BY <3>1, <3>3, <3>4, <3>5 DEF Resolves, Version, ActiveIn
  <2>2. \A r \in Runs : prompts[r] # None =>
            r \in index /\ \E c \in capsules : c.run = r /\ c.refs = prompts[r]
    BY DEF ContextInv, ToldInv
  <2> QED
    BY <2>1, <2>2 DEF ContextIsOnRecord
<1>8. CapsuleIsSnapshot
  BY <1>1, <1>5 DEF CapsuleIsSnapshot, OpenAt, SeenIn, Version
<1> QED
  BY <1>1, <1>2, <1>3, <1>4, <1>6, <1>7, <1>8

LEMMA Invariance == ContextSpec => []ContextInv
<1>1. ContextInit => ContextInv
  BY ContextBegins
<1>2. ContextInv /\ [ContextNext]_all => ContextInv'
  BY ContextSteps
<1> QED
  BY <1>1, <1>2, PTL DEF ContextSpec

\* The store, the mutation under way, the chains and the calls keep their types.
THEOREM TypeCorrect == ContextSpec => []TypeOK
<1>1. ContextInv => TypeOK
  BY Holds
<1> QED
  BY <1>1, Invariance, PTL

\* No Evidence without the pointer and the citation it was verified with, however
\* creations, faults and restarts overlap.
THEOREM Proven == ContextSpec => []Provenance
<1>1. ContextInv => Provenance
  BY Holds
<1> QED
  BY <1>1, Invariance, PTL

\* Evidence that may be handed out is in the ledger, or is about to be audited or
\* taken back.
THEOREM Usability == ContextSpec => []UsableIsAudited
<1>1. ContextInv => UsableIsAudited
  BY Holds
<1> QED
  BY <1>1, Invariance, PTL

\* At no instant were two versions of an Evidence the belief.
THEOREM Belief == ContextSpec => []OneBelief
<1>1. ContextInv => OneBelief
  BY Holds
<1> QED
  BY <1>1, Invariance, PTL

\* No capsule holds two pieces that disagree.
THEOREM NoPick == ContextSpec => []NoSilentPick
<1>1. ContextInv => NoSilentPick
  BY Holds
<1> QED
  BY <1>1, Invariance, PTL

\* What a Run was told stays on record: prompt, capsule, decisions and versions.
THEOREM OnRecord == ContextSpec => []ContextIsOnRecord
<1>1. ContextInv => ContextIsOnRecord
  BY Holds
<1> QED
  BY <1>1, Invariance, PTL

\* The versions of a capsule were open together at one instant, although they were
\* listed from one store and authorized, one by one, from others.
THEOREM Snapshot == ContextSpec => []CapsuleIsSnapshot
<1>1. ContextInv => CapsuleIsSnapshot
  BY Holds
<1> QED
  BY <1>1, Invariance, PTL

LEMMA AuditInvariance == ContextSpec => []AuditInv
<1>1. ContextInit => AuditInv
  BY AuditBegins
<1>2. ContextInv /\ ContextInv' /\ AuditInv /\ [ContextNext]_all => AuditInv'
  <2> SUFFICES ASSUME ContextInv, ContextInv', AuditInv, [ContextNext]_all
               PROVE  AuditInv'
    OBVIOUS
  <2>1. EvidenceInv /\ EvidenceInv'
    BY DEF ContextInv
  <2>2. CASE EvidenceStep
    BY <2>1, <2>2, AuditSteps
  <2>3. CASE RestartAll
    BY <2>1, <2>3, AuditSteps DEF RestartAll
  <2>4. CASE \/ UNCHANGED vars
             \/ \E r \in Runs : BuildThrows(r)
    <3>1. UNCHANGED <<store, draft, pc, governance, queue, target, ledgerFaults, crashes>>
      BY <2>4 DEF BuildThrows, vars, input, budget
    <3>2. Owed' = Owed
      BY <3>1 DEF Owed
    <3> QED
      BY <2>1, <3>1, <3>2, AuditStays
  <2>5. ASSUME NEW r \in Runs, Build(r)
        PROVE  UNCHANGED vars \/ BuildThrows(r)
    BY <2>5 DEF Build, Deny, ListCandidates, Stamp, Authorize, Clarify, Assemble, SaveCapsule,
       SaveIndex, RenderPrompt
  <2> QED
    BY <2>2, <2>3, <2>4, <2>5 DEF ContextNext, all
<1> QED
  BY <1>1, <1>2, Invariance, PTL DEF ContextSpec

\* As long as appends succeed and the process lives, the governance chain and the
\* appends it owes have one entry per transition of an Evidence, in version order.
THEOREM AuditOrder == ContextSpec => []AuditInVersionOrder
<1>1. AuditInv => AuditInVersionOrder
  BY DEF AuditInv, AuditInVersionOrder, Recounted
<1> QED
  BY <1>1, AuditInvariance, PTL
=============================================================================
