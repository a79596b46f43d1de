-------------------------- MODULE AuditedStateProofs --------------------------
(***************************************************************************)
(* Of JsonFileState: the JSON file with its cache and queue implements the *)
(* log of resolved mutations, until a load puts an older state back.  Of   *)
(* Ledger and AuditedState: the chain implements the log of its resolved   *)
(* appends until an edit, a failed write or a restart; an edit is found;   *)
(* and the chain tells what is in the state's file.                        *)
(***************************************************************************)
EXTENDS AuditedState, SequenceTheorems, TLAPS

States == Seq(Mutations)

TypeOK ==
    /\ file \in States /\ loaded \in BOOLEAN /\ data \in States
    /\ load \in [Loaders -> {"idle", "mkdir", "opened"}] /\ raw \in [Loaders -> States]
    /\ queue \in Seq(Mutations)
    /\ phase \in {"idle", "load", "persist", "swap"} /\ draft \in States
    /\ answer \in [Mutations -> {"none", "pending", "ok", "rejected", "lost"}]
    /\ faults \in Nat /\ crashes \in Nat /\ overwrites \in Nat

\* Only the head of the queue is under way, and it alone loads for the queue.
HeadOnly ==
    /\ phase # "idle" => queue # <<>>
    /\ load[Queue] # "idle" => phase = "load"

\* Who waits in the queue has no answer yet, and waits once.
Waiting ==
    /\ \A i \in 1..Len(queue) : answer[queue[i]] = "pending"
    /\ \A i, j \in 1..Len(queue) : i # j => queue[i] # queue[j]

\* Before the first load is over nothing was written; what the queue's own load
\* opened is what the file holds, for the head alone writes it.
Opened ==
    /\ \A l \in Loaders : load[l] = "opened" /\ (l = Queue \/ ~ loaded) => raw[l] = file
    /\ ~ loaded => phase \in {"idle", "load"}

\* The cache is the file, but for the moment between the rename and the swap.
Cached ==
    overwrites = 0 =>
        /\ loaded /\ phase # "swap" => data = file
        /\ phase = "persist" => draft = Append(file, Head(queue))
        /\ phase = "swap" => /\ file = draft /\ file # <<>>
                             /\ file[Len(file)] = Head(queue)

Inv == TypeOK /\ HeadOnly /\ Waiting /\ Opened /\ Cached

-----------------------------------------------------------------------------

LEMMA AppendFact ==
    ASSUME NEW S, NEW s \in Seq(S), NEW x \in S
    PROVE  /\ Append(s, x) \in Seq(S) /\ Append(s, x) # <<>>
           /\ Len(Append(s, x)) = Len(s) + 1
           /\ Append(s, x)[Len(Append(s, x))] = x
           /\ SubSeq(Append(s, x), 1, Len(Append(s, x)) - 1) = s
  OBVIOUS

LEMMA HeadFact ==
    ASSUME NEW S, NEW s \in Seq(S), s # <<>>
    PROVE  /\ Head(s) \in S /\ Head(s) = s[1] /\ Tail(s) \in Seq(S)
           /\ 1 \in 1..Len(s) /\ Len(Tail(s)) = Len(s) - 1
           /\ \A i \in 1..Len(Tail(s)) : Tail(s)[i] = s[i + 1] /\ i + 1 \in 1..Len(s)
  OBVIOUS

LEMMA LastFact ==
    ASSUME NEW S, NEW s \in Seq(S), s # <<>>
    PROVE  Append(SubSeq(s, 1, Len(s) - 1), s[Len(s)]) = s
  <1>1. SubSeq(s, 1, Len(s) - 1) \in Seq(S)
    OBVIOUS
  <1>2. Len(s) \in Nat /\ Len(s) > 0 /\ s[Len(s)] \in S
    OBVIOUS
  <1> QED  BY <1>1, <1>2

-----------------------------------------------------------------------------

\* What Settle leaves of the queue and of the answers.
LEMMA SettleFact ==
    ASSUME TypeOK, Waiting, queue # <<>>,
           NEW how \in {"ok", "rejected"}, Settle(how)
    PROVE  /\ Waiting' /\ queue' = Tail(queue) /\ queue' \in Seq(Mutations)
           /\ phase' = "idle" /\ answer[Head(queue)] = "pending"
           /\ answer' = [answer EXCEPT ![Head(queue)] = how]
           /\ answer' \in [Mutations -> {"none", "pending", "ok", "rejected", "lost"}]
  <1>1. /\ queue' = Tail(queue) /\ phase' = "idle"
        /\ answer' = [answer EXCEPT ![Head(queue)] = how]
    BY DEF Settle
  <1>2. /\ Head(queue) \in Mutations /\ Head(queue) = queue[1] /\ Tail(queue) \in Seq(Mutations)
        /\ 1 \in 1..Len(queue) /\ Len(Tail(queue)) = Len(queue) - 1
        /\ \A i \in 1..Len(Tail(queue)) : Tail(queue)[i] = queue[i + 1] /\ i + 1 \in 1..Len(queue)
    BY HeadFact DEF TypeOK
  <1>3. answer[Head(queue)] = "pending"
    BY <1>2 DEF Waiting
  <1>4. answer' \in [Mutations -> {"none", "pending", "ok", "rejected", "lost"}]
    BY <1>1 DEF TypeOK
  <1>5. ASSUME NEW i \in 1..Len(Tail(queue)) PROVE answer'[Tail(queue)[i]] = "pending"
    <2>1. Tail(queue)[i] = queue[i + 1] /\ i + 1 \in 1..Len(queue) /\ i + 1 # 1
      BY <1>2
    <2>2. queue[i + 1] # Head(queue) /\ answer[queue[i + 1]] = "pending"
      BY <1>2, <2>1 DEF Waiting
    <2>3. queue[i + 1] \in Mutations
      BY <2>1 DEF TypeOK
    <2> QED  BY <1>1, <2>1, <2>2, <2>3 DEF TypeOK
  <1>6. ASSUME NEW i \in 1..Len(Tail(queue)), NEW j \in 1..Len(Tail(queue)), i # j
        PROVE  Tail(queue)[i] # Tail(queue)[j]
    <2>1. i + 1 # j + 1
      BY <1>2, <1>6
    <2> QED  BY <1>2, <2>1 DEF Waiting
  <1> QED  BY <1>1, <1>2, <1>3, <1>4, <1>5, <1>6 DEF Waiting

\* fn on the clone of a state, from either place it is called.
LEMMA ChangeFact ==
    ASSUME TypeOK, Waiting, queue # <<>>, NEW current \in States, Change(current),
           overwrites = 0 => current = file
    PROVE  /\ Waiting' /\ queue' \in Seq(Mutations) /\ draft' \in States
           /\ answer' \in [Mutations -> {"none", "pending", "ok", "rejected", "lost"}]
           /\ faults' \in Nat /\ crashes' = crashes /\ overwrites' = overwrites
           /\ \/ /\ phase' = "persist" /\ queue' = queue /\ answer' = answer
                 /\ overwrites = 0 => draft' = Append(file, Head(queue))
              \/ phase' = "idle" /\ Settle("rejected")
  <1>1. CASE /\ draft' = Append(current, Head(queue)) /\ phase' = "persist"
             /\ UNCHANGED <<queue, answer, budget>>
    <2>1. Head(queue) \in Mutations
      BY HeadFact DEF TypeOK
    <2>2. draft' \in States
      BY <1>1, <2>1, AppendFact DEF States
    <2> QED  BY <1>1, <2>2 DEF TypeOK, Waiting, budget
  <1>2. CASE /\ faults < MaxFaults /\ faults' = faults + 1
             /\ Settle("rejected")
             /\ UNCHANGED <<draft, crashes, overwrites>>
    <2>1. /\ Waiting' /\ queue' \in Seq(Mutations) /\ phase' = "idle"
          /\ answer' \in [Mutations -> {"none", "pending", "ok", "rejected", "lost"}]
      BY <1>2, SettleFact
    <2> QED  BY <1>2, <2>1 DEF TypeOK
  <1> QED  BY <1>1, <1>2 DEF Change

\* The load's assignment puts the file into the cache, unless it is counted.
LEMMA FillFact ==
    ASSUME TypeOK, Opened, Cached, NEW l \in Loaders, Fill(l)
    PROVE  /\ load' \in [Loaders -> {"idle", "mkdir", "opened"}] /\ load'[l] = "idle"
           /\ \A k \in Loaders \ {l} : load'[k] = load[k]
           /\ loaded' /\ data' = raw[l] /\ data' \in States
           /\ file' = file /\ raw' = raw
           /\ \A k \in Loaders : load'[k] = "opened" => load[k] = "opened"
           /\ l = Queue => data' = file
  BY DEF TypeOK, Opened, Cached, Fill

-----------------------------------------------------------------------------

LEMMA InitInv == Init => Inv
  <1> SUFFICES ASSUME Init PROVE Inv
    OBVIOUS
  <1>1. <<>> \in States /\ <<>> \in Seq(Mutations)
    BY DEF States
  <1>2. /\ load \in [Loaders -> {"idle", "mkdir", "opened"}] /\ raw \in [Loaders -> States]
        /\ answer \in [Mutations -> {"none", "pending", "ok", "rejected", "lost"}]
    BY <1>1 DEF Init
  <1>3. TypeOK
    BY <1>1, <1>2 DEF Init, TypeOK
  <1>4. HeadOnly /\ Waiting
    BY DEF Init, HeadOnly, Waiting, Loaders
  <1>5. Opened
    BY DEF Init, Opened, Loaders
  <1>6. Cached
    BY DEF Init, Cached
  <1> QED  BY <1>3, <1>4, <1>5, <1>6 DEF Inv

\* Every step keeps the invariant.
LEMMA NextInv == Inv /\ [Next]_vars => Inv'
  <1> SUFFICES ASSUME TypeOK, HeadOnly, Waiting, Opened, Cached, [Next]_vars PROVE Inv'
    BY DEF Inv
  <1>1. ASSUME NEW r \in Readers, Read(r) PROVE Inv'
    <2>1. TypeOK'
      BY <1>1 DEF Read, TypeOK, Loaders, cache, head, budget
    <2>2. HeadOnly'
      BY <1>1, QueueIsNoReader DEF Read, TypeOK, Loaders, HeadOnly, cache, head, budget
    <2>3. Waiting'
      BY <1>1 DEF Read, Waiting, head
    <2>4. Opened'
      BY <1>1 DEF Read, TypeOK, Loaders, Opened, cache, head
    <2>5. Cached'
      BY <1>1 DEF Read, Cached, cache, head, budget
    <2> QED  BY <2>1, <2>2, <2>3, <2>4, <2>5 DEF Inv
  <1>2. ASSUME NEW l \in Loaders, OpenFile(l) PROVE Inv'
    <2>1. TypeOK'
      BY <1>2 DEF OpenFile, TypeOK, cache, head, budget
    <2>2. HeadOnly'
      BY <1>2 DEF OpenFile, TypeOK, Loaders, HeadOnly, head
    <2>3. Waiting'
      BY <1>2 DEF OpenFile, Waiting, head
    <2>4. Opened'
      BY <1>2 DEF OpenFile, TypeOK, Opened, cache, head
    <2>5. Cached'
      BY <1>2 DEF OpenFile, Cached, cache, head, budget
    <2> QED  BY <2>1, <2>2, <2>3, <2>4, <2>5 DEF Inv
  <1>3. ASSUME NEW r \in Readers, EndRead(r) PROVE Inv'
    <2>1. r \in Loaders /\ r # Queue /\ Fill(r)
      BY <1>3, QueueIsNoReader DEF EndRead, Loaders
    <2>2. /\ load' \in [Loaders -> {"idle", "mkdir", "opened"}]
          /\ \A k \in Loaders \ {r} : load'[k] = load[k]
          /\ loaded' /\ data' = raw[r] /\ data' \in States
          /\ file' = file /\ raw' = raw
          /\ \A k \in Loaders : load'[k] = "opened" => load[k] = "opened"
      BY <2>1, FillFact
    <2>3. /\ UNCHANGED head /\ faults' = faults /\ crashes' = crashes
          /\ overwrites' \in Nat
          /\ overwrites' = 0 => overwrites = 0 /\ ~ PutsBack(r)
      BY <1>3 DEF EndRead, TypeOK
    <2>4. TypeOK'
      BY <2>2, <2>3 DEF TypeOK, head
    <2>5. HeadOnly'
      BY <2>1, <2>2, <2>3 DEF HeadOnly, head, Loaders
    <2>6. Waiting'
      BY <2>3 DEF Waiting, head
    <2>7. Opened'
      BY <2>2, <2>3 DEF Opened, head
    <2>8. ASSUME overwrites' = 0, phase # "swap" PROVE data' = file
      <3>1. CASE ~ loaded
        BY <2>1, <2>2, <3>1 DEF Opened, Fill
      <3>2. CASE loaded
        BY <2>2, <2>3, <2>8, <3>2 DEF PutsBack, Cached
      <3> QED  BY <3>1, <3>2
    <2>9. Cached'
      BY <2>2, <2>3, <2>8 DEF Cached, head
    <2> QED  BY <2>4, <2>5, <2>6, <2>7, <2>9 DEF Inv
  <1>4. ASSUME NEW m \in Mutations, Mutate(m) PROVE Inv'
    <2>1. /\ answer[m] = "none" /\ answer' = [answer EXCEPT ![m] = "pending"]
          /\ queue' = Append(queue, m)
          /\ UNCHANGED <<file, cache, loads, phase, draft, budget>>
      BY <1>4 DEF Mutate
    <2>2. TypeOK'
      BY <2>1 DEF TypeOK, cache, loads, budget
    <2>3. HeadOnly'
      BY <2>1 DEF HeadOnly, TypeOK, loads
    <2>4. \A i \in 1..Len(queue) : queue[i] # m /\ queue[i] \in Mutations
      BY <2>1 DEF Waiting, TypeOK
    <2>5. Waiting'
      BY <2>1, <2>4 DEF Waiting, TypeOK
    <2>6. Opened'
      BY <2>1 DEF Opened, cache, loads
    <2>7. queue # <<>> => Head(queue') = Head(queue)
      BY <2>1 DEF TypeOK
    <2>8. Cached'
      BY <2>1, <2>7 DEF Cached, HeadOnly, cache, budget
    <2> QED  BY <2>2, <2>3, <2>5, <2>6, <2>8 DEF Inv
  <1>5. ASSUME Begin PROVE Inv'
    <2>1. queue # <<>> /\ phase = "idle" /\ load[Queue] = "idle" /\ UNCHANGED <<file, cache>>
      BY <1>5 DEF Begin, HeadOnly, TypeOK, Loaders
    <2>2. CASE MustLoad
      <3>1. /\ load' = [load EXCEPT ![Queue] = "mkdir"] /\ phase' = "load"
            /\ UNCHANGED <<raw, queue, draft, answer, budget>>
        BY <1>5, <2>2 DEF Begin
      <3>2. TypeOK'
        BY <2>1, <3>1 DEF TypeOK, Loaders, cache, budget
      <3>3. HeadOnly' /\ Waiting'
        BY <2>1, <3>1 DEF HeadOnly, Waiting
      <3>4. Opened'
        BY <2>1, <3>1 DEF Opened, TypeOK, Loaders, cache
      <3>5. Cached'
        BY <2>1, <2>2, <3>1 DEF Cached, MustLoad, cache, budget
      <3> QED  BY <3>2, <3>3, <3>4, <3>5 DEF Inv
    <2>3. CASE ~ MustLoad
      <3>1. Change(data) /\ UNCHANGED loads /\ loaded
        BY <1>5, <2>3 DEF Begin, MustLoad
      <3>2. data \in States /\ (overwrites = 0 => data = file)
        BY <2>1, <3>1 DEF TypeOK, Cached
      <3>3. /\ Waiting' /\ queue' \in Seq(Mutations) /\ draft' \in States
            /\ answer' \in [Mutations -> {"none", "pending", "ok", "rejected", "lost"}]
            /\ faults' \in Nat /\ crashes' = crashes /\ overwrites' = overwrites
            /\ \/ /\ phase' = "persist" /\ queue' = queue /\ answer' = answer
                  /\ overwrites = 0 => draft' = Append(file, Head(queue))
               \/ phase' = "idle"
        BY <2>1, <3>1, <3>2, ChangeFact
      <3>4. TypeOK'
        BY <2>1, <3>1, <3>3 DEF TypeOK, cache, loads
      <3>5. HeadOnly'
        BY <2>1, <3>1, <3>3 DEF HeadOnly, loads
      <3>6. Opened'
        BY <2>1, <3>1, <3>3 DEF Opened, cache, loads
      <3>7. Cached'
        BY <2>1, <3>2, <3>3 DEF Cached, cache
      <3> QED  BY <3>3, <3>4, <3>5, <3>6, <3>7 DEF Inv
    <2> QED  BY <2>2, <2>3
  <1>6. ASSUME EndLoad PROVE Inv'
    <2>1. phase = "load" /\ queue # <<>> /\ Fill(Queue) /\ Change(raw[Queue]) /\ Queue \in Loaders
      BY <1>6 DEF EndLoad, HeadOnly, Loaders
    <2>2. /\ load' \in [Loaders -> {"idle", "mkdir", "opened"}] /\ load'[Queue] = "idle"
          /\ loaded' /\ data' = raw[Queue] /\ data' \in States
          /\ file' = file /\ raw' = raw
          /\ \A k \in Loaders : load'[k] = "opened" => load[k] = "opened"
          /\ data' = file
      BY <2>1, FillFact
    <2>3. /\ Waiting' /\ queue' \in Seq(Mutations) /\ draft' \in States
          /\ answer' \in [Mutations -> {"none", "pending", "ok", "rejected", "lost"}]
          /\ faults' \in Nat /\ crashes' = crashes /\ overwrites' = overwrites
          /\ \/ /\ phase' = "persist" /\ queue' = queue /\ answer' = answer
                /\ overwrites = 0 => draft' = Append(file, Head(queue))
             \/ phase' = "idle"
      BY <2>1, <2>2, ChangeFact
    <2>4. TypeOK'
      BY <2>2, <2>3 DEF TypeOK
    <2>5. HeadOnly'
      BY <2>1, <2>2, <2>3 DEF HeadOnly
    <2>6. Opened'
      BY <2>2, <2>3 DEF Opened
    <2>7. Cached'
      BY <2>2, <2>3 DEF Cached
    <2> QED  BY <2>3, <2>4, <2>5, <2>6, <2>7 DEF Inv
  <1>7. ASSUME Persist PROVE Inv'
    <2>1. /\ phase = "persist" /\ file' = draft /\ phase' = "swap"
          /\ UNCHANGED <<cache, loads, queue, draft, answer, budget>>
      BY <1>7 DEF Persist
    <2>2. loaded /\ load[Queue] = "idle" /\ queue # <<>> /\ Head(queue) \in Mutations
      BY <2>1, HeadFact DEF Opened, HeadOnly, TypeOK, Loaders
    <2>3. TypeOK'
      BY <2>1 DEF TypeOK, cache, loads, budget
    <2>4. HeadOnly' /\ Waiting'
      BY <2>1, <2>2 DEF HeadOnly, Waiting, loads
    <2>5. Opened'
      BY <2>1, <2>2 DEF Opened, cache, loads
    <2>6. ASSUME overwrites = 0 PROVE draft # <<>> /\ draft[Len(draft)] = Head(queue)
      BY <2>1, <2>2, <2>6, AppendFact DEF Cached, TypeOK, States
    <2>7. Cached'
      BY <2>1, <2>6 DEF Cached, cache, budget
    <2> QED  BY <2>3, <2>4, <2>5, <2>7 DEF Inv
  <1>8. ASSUME PersistFails PROVE Inv'
    <2>1. /\ phase = "persist" /\ faults' = faults + 1 /\ Settle("rejected") /\ queue # <<>>
          /\ UNCHANGED <<file, cache, loads, draft, crashes, overwrites>>
      BY <1>8 DEF PersistFails, HeadOnly
    <2>2. /\ Waiting' /\ queue' \in Seq(Mutations) /\ phase' = "idle"
          /\ answer' \in [Mutations -> {"none", "pending", "ok", "rejected", "lost"}]
      BY <2>1, SettleFact
    <2>3. TypeOK'
      BY <2>1, <2>2 DEF TypeOK, cache, loads
    <2>4. HeadOnly'
      BY <2>1, <2>2 DEF HeadOnly, loads
    <2>5. Opened' /\ Cached'
      BY <2>1, <2>2 DEF Opened, Cached, cache, loads
    <2> QED  BY <2>2, <2>3, <2>4, <2>5 DEF Inv
  <1>9. ASSUME Swap PROVE Inv'
    <2>1. /\ phase = "swap" /\ data' = draft /\ Settle("ok") /\ queue # <<>>
          /\ UNCHANGED <<file, loaded, loads, draft, budget>>
      BY <1>9 DEF Swap, Swapped, HeadOnly
    <2>2. /\ Waiting' /\ queue' \in Seq(Mutations) /\ phase' = "idle"
          /\ answer' \in [Mutations -> {"none", "pending", "ok", "rejected", "lost"}]
      BY <2>1, SettleFact
    <2>3. TypeOK'
      BY <2>1, <2>2 DEF TypeOK, loads, budget
    <2>4. HeadOnly'
      BY <2>1, <2>2 DEF HeadOnly, loads
    <2>5. Opened' /\ Cached'
      BY <2>1, <2>2 DEF Opened, Cached, loads, budget
    <2> QED  BY <2>2, <2>3, <2>4, <2>5 DEF Inv
  <1>10. ASSUME Restart PROVE Inv'
    <2>1. /\ crashes' = crashes + 1 /\ loaded' = FALSE /\ data' = <<>>
          /\ load' = [l \in Loaders |-> "idle"] /\ raw' = [l \in Loaders |-> <<>>]
          /\ queue' = <<>> /\ phase' = "idle" /\ draft' = <<>>
          /\ answer' = [m \in Mutations |-> IF answer[m] = "pending" THEN "lost" ELSE answer[m]]
          /\ UNCHANGED <<file, faults, overwrites>>
      BY <1>10 DEF Restart
    <2>2. <<>> \in States /\ <<>> \in Seq(Mutations)
      BY DEF States
    <2>3. TypeOK'
      <3>1. load' \in [Loaders -> {"idle", "mkdir", "opened"}] /\ raw' \in [Loaders -> States]
        BY <2>1, <2>2
      <3>2. ASSUME NEW m \in Mutations
            PROVE  (IF answer[m] = "pending" THEN "lost" ELSE answer[m])
                        \in {"none", "pending", "ok", "rejected", "lost"}
        BY DEF TypeOK
      <3>3. answer' \in [Mutations -> {"none", "pending", "ok", "rejected", "lost"}]
        BY <2>1, <3>2
      <3>4. file' \in States /\ faults' \in Nat /\ crashes' \in Nat /\ overwrites' \in Nat
        BY <2>1 DEF TypeOK
      <3> QED  BY <2>1, <2>2, <3>1, <3>3, <3>4 DEF TypeOK
    <2>4. HeadOnly' /\ Waiting' /\ Opened' /\ Cached'
      BY <2>1 DEF HeadOnly, Waiting, Opened, Cached, Loaders
    <2> QED  BY <2>3, <2>4 DEF Inv
  <1>11. CASE UNCHANGED vars
    BY <1>11 DEF vars, cache, loads, head, budget, Inv, TypeOK, HeadOnly, Waiting, Opened, Cached
  <1> QED  BY <1>1, <1>2, <1>3, <1>4, <1>5, <1>6, <1>7, <1>8, <1>9, <1>10, <1>11 DEF Next

\* The types of the file, the cache, the loads and the queue.
THEOREM TypeCorrect == Spec => []TypeOK
  <1>1. Inv => TypeOK
    BY DEF Inv
  <1> QED  BY <1>1, InitInv, NextInv, PTL DEF Spec

-----------------------------------------------------------------------------

LEMMA Untouched ==
    ASSUME UNCHANGED <<Published, queue, answer>>
    PROVE  [Log!Next]_Log!vars
  BY DEF Log!vars

LEMMA Rejected ==
    ASSUME TypeOK, Waiting, queue # <<>>, Settle("rejected"), Published' = Published
    PROVE  Log!Next
  <1>1. /\ queue' = Tail(queue) /\ answer[Head(queue)] = "pending"
        /\ answer' = [answer EXCEPT ![Head(queue)] = "rejected"]
    BY SettleFact
  <1>2. {m \in Mutations : answer'[m] = "ok"} = {m \in Mutations : answer[m] = "ok"}
    BY <1>1 DEF TypeOK
  <1>3. Log!Reject
    BY <1>1, <1>2 DEF Log!Reject
  <1> QED  BY <1>3 DEF Log!Next

\* Every step but a restart is a step of the log, or none.
LEMMA StepIsLog ==
    ASSUME Inv, [Next]_vars, overwrites' = 0, crashes' = crashes
    PROVE  [Log!Next]_Log!vars
  <1> USE DEF Inv
  <1>0. overwrites = 0
    BY DEF Next, vars, Read, OpenFile, EndRead, Mutate, Begin, Change, EndLoad, Persist, PersistFails, Swap, Restart, budget, TypeOK
  <1>1. ASSUME NEW r \in Readers, Read(r) PROVE UNCHANGED <<Published, queue, answer>>
    BY <1>1 DEF Read, Published, head
  <1>2. ASSUME NEW l \in Loaders, OpenFile(l) PROVE UNCHANGED <<Published, queue, answer>>
    BY <1>2 DEF OpenFile, Published, head
  <1>3. ASSUME NEW r \in Readers, EndRead(r) PROVE UNCHANGED <<Published, queue, answer>>
    BY <1>3 DEF EndRead, Fill, Published, head
  <1>4. ASSUME NEW m \in Mutations, Mutate(m) PROVE [Log!Next]_Log!vars
    <2>1. /\ answer[m] = "none" /\ answer' = [answer EXCEPT ![m] = "pending"]
          /\ queue' = Append(queue, m) /\ Published' = Published
      BY <1>4 DEF Mutate, Published
    <2>2. {n \in Mutations : answer'[n] = "ok"} = {n \in Mutations : answer[n] = "ok"}
      BY <2>1 DEF TypeOK
    <2>3. Log!Submit(m)
      BY <2>1, <2>2 DEF Log!Submit
    <2> QED  BY <1>4, <2>3 DEF Log!Next
  <1>5. ASSUME Begin PROVE [Log!Next]_Log!vars
    <2>1. queue # <<>> /\ phase = "idle" /\ file' = file
      BY <1>5 DEF Begin
    <2>2. CASE MustLoad
      BY <1>5, <2>1, <2>2, Untouched DEF Begin, Published
    <2>3. CASE ~ MustLoad /\ phase' = "persist"
      BY <1>5, <2>1, <2>3, Untouched DEF Begin, Change, Settle, Published
    <2>4. CASE ~ MustLoad /\ phase' # "persist"
      BY <1>5, <2>1, <2>4, Rejected DEF Begin, Change, Settle, Published
    <2> QED  BY <2>2, <2>3, <2>4
  <1>6. ASSUME EndLoad PROVE [Log!Next]_Log!vars
    <2>1. phase = "load" /\ queue # <<>> /\ file' = file /\ Change(raw[Queue])
      BY <1>6 DEF EndLoad, Fill, HeadOnly
    <2>2. CASE phase' = "persist"
      BY <2>1, <2>2, Untouched DEF Change, Settle, Published
    <2>3. CASE phase' # "persist"
      BY <2>1, <2>3, Rejected DEF Change, Settle, Published
    <2> QED  BY <2>2, <2>3
  <1>7. ASSUME Persist PROVE UNCHANGED <<Published, queue, answer>>
    <2>1. /\ phase = "persist" /\ file' = draft /\ phase' = "swap"
          /\ UNCHANGED <<queue, answer>>
      BY <1>7 DEF Persist
    <2>2. queue # <<>> /\ Head(queue) \in Mutations /\ draft = Append(file, Head(queue))
      BY <1>0, <2>1, HeadFact DEF HeadOnly, TypeOK, Cached
    <2>3. SubSeq(draft, 1, Len(draft) - 1) = file
      BY <2>2, AppendFact DEF TypeOK, States
    <2> QED  BY <2>1, <2>3 DEF Published
  <1>8. ASSUME PersistFails PROVE [Log!Next]_Log!vars
    BY <1>8, Rejected DEF PersistFails, HeadOnly, Settle, Published
  <1>9. ASSUME Swap PROVE [Log!Next]_Log!vars
    <2>1. phase = "swap" /\ queue # <<>> /\ Settle("ok") /\ file' = file
      BY <1>9 DEF Swap, HeadOnly
    <2>2. /\ queue' = Tail(queue) /\ phase' = "idle" /\ Head(queue) \in Mutations
          /\ answer' = [answer EXCEPT ![Head(queue)] = "ok"]
      BY <2>1, SettleFact, HeadFact DEF TypeOK
    <2>3. {m \in Mutations : answer'[m] = "ok"}
            = {m \in Mutations : answer[m] = "ok"} \cup {Head(queue)}
      BY <2>2 DEF TypeOK
    <2>4. Published' = Append(Published, Head(queue))
      <3>1. file # <<>> /\ file[Len(file)] = Head(queue)
        BY <1>0, <2>1 DEF Cached
      <3>2. Append(SubSeq(file, 1, Len(file) - 1), file[Len(file)]) = file
        BY <3>1, LastFact DEF TypeOK, States
      <3> QED  BY <2>1, <2>2, <3>1, <3>2 DEF Published
    <2>5. Log!Accept
      BY <2>1, <2>2, <2>3, <2>4 DEF Log!Accept
    <2> QED  BY <2>5 DEF Log!Next
  <1>10. ASSUME Restart PROVE FALSE
    BY <1>10 DEF Restart, TypeOK
  <1>11. ASSUME UNCHANGED vars PROVE UNCHANGED <<Published, queue, answer>>
    BY <1>11 DEF vars, Published, head
  <1> QED
    BY <1>1, <1>2, <1>3, <1>4, <1>5, <1>6, <1>7, <1>8, <1>9, <1>10, <1>11, Untouched DEF Next

\* Until a load puts an older state back, the JSON state implements the log of the
\* mutations that resolved (AppendLog), whatever throws, reads or restarts.
THEOREM StateIsLog == Spec => ImplementsLog
  <1>1. Init => Log!Init
    <2> SUFFICES ASSUME Init PROVE Log!Init
      OBVIOUS
    <2>1. Published = <<>> /\ queue = <<>>
      BY DEF Init, Published
    <2>2. {m \in Mutations : answer[m] = "ok"} = {}
      BY DEF Init
    <2> QED  BY <2>1, <2>2 DEF Log!Init
  <1>2. Inv /\ [Next]_vars => (overwrites' = 0 /\ crashes' = crashes => [Log!Next]_Log!vars)
    BY StepIsLog
  <1> QED  BY <1>1, <1>2, InitInv, NextInv, PTL DEF Spec, ImplementsLog

-----------------------------------------------------------------------------
(* The file of the chain.                                                  *)

GoodAt(ls, i) == ls[i].seq = i /\ L!Linked(ls, i) /\ L!Sealed(ls, i)
Broken(ls) == \E i \in 1..Len(ls) : ~ GoodAt(ls, i)
Line(l) == /\ l = [seq |-> l.seq, body |-> l.body, prev |-> l.prev, hash |-> l.hash]
           /\ l.seq \in Nat /\ l.body \in Mutations \cup {Forged, None}
Lines(ls) == (\E S : ls \in Seq(S)) /\ \A i \in 1..Len(ls) : Line(ls[i])

\* A chain nobody edited: only its last line can be cut short.
GoodLine(ls, i) == GoodAt(ls, i) /\ ls[i].body \in Mutations
AllGood(ls) == \A i \in 1..Len(ls) : GoodLine(ls, i)
LastIsCut(ls) == ls # <<>> /\ ls[Len(ls)] = L!Garbage
Grown(ls) == \A i \in 1..Len(ls) : GoodLine(ls, i) \/ (i = Len(ls) /\ ls[i] = L!Garbage)

\* verifyChain accepts a file when every line is linked and sealed.
LEMMA VerifiesFact == \A ls : L!Verifies(ls) <=> ~ Broken(ls)
  <1>1. ASSUME NEW ls, NEW i \in 1..Len(ls) PROVE L!Reason(ls, i) = "none" <=> GoodAt(ls, i)
    BY DEF L!Reason, GoodAt, L!Garbage
  <1> QED  BY <1>1 DEF L!Verifies, L!BrokenAt, Broken

\* A line's check looks at the line and at the one before it.
LEMMA SamePrefix ==
    ASSUME NEW ls, NEW lt, NEW i \in Nat, lt[i] = ls[i], i # 1 => lt[i - 1] = ls[i - 1]
    PROVE  GoodAt(lt, i) <=> GoodAt(ls, i)
  BY DEF GoodAt, L!Linked, L!Sealed, L!Before

LEMMA LinesFact ==
    ASSUME NEW ls, Lines(ls)
    PROVE  Len(ls) \in Nat /\ (ls # <<>> <=> Len(ls) > 0)
  <1>1. PICK S : ls \in Seq(S)
    BY DEF Lines
  <1> QED  BY <1>1

LEMMA GarbageFact == Line(L!Garbage) /\ L!Garbage.seq = 0 /\ L!Garbage.body = None
  BY DEF Line, L!Garbage

LEMMA RecordFact ==
    ASSUME NEW h, h.seq \in Nat, NEW m \in Mutations
    PROVE  /\ Line(L!Record(h, m)) /\ L!Record(h, m).body = m
           /\ L!Record(h, m).seq = h.seq + 1 /\ L!Record(h, m).prev = h.hash
           /\ L!Record(h, m).hash = L!Hash(h.hash, h.seq + 1, m)
  BY DEF Line, L!Record

LEMMA AppendLine ==
    ASSUME NEW ls, Lines(ls), NEW l, Line(l)
    PROVE  /\ Lines(Append(ls, l)) /\ Append(ls, l) # <<>>
           /\ Len(Append(ls, l)) = Len(ls) + 1
           /\ Append(ls, l)[Len(ls) + 1] = l
           /\ \A i \in 1..Len(ls) : Append(ls, l)[i] = ls[i]
  <1>1. PICK S : ls \in Seq(S)
    BY DEF Lines
  <1> DEFINE T == S \cup {l}
  <1>2. ls \in Seq(T) /\ l \in T
    BY <1>1
  <1> HIDE DEF T
  <1>3. Append(ls, l) \in Seq(T) /\ Append(ls, l) # <<>>
    BY <1>2, AppendFact
  <1>4. /\ Len(Append(ls, l)) = Len(ls) + 1 /\ Append(ls, l)[Len(ls) + 1] = l
        /\ \A i \in 1..Len(ls) : Append(ls, l)[i] = ls[i]
    BY <1>2
  <1> QED  BY <1>2, <1>3, <1>4 DEF Lines

LEMMA ReplaceLine ==
    ASSUME NEW ls, Lines(ls), NEW i \in 1..Len(ls), NEW l, Line(l)
    PROVE  /\ Lines([ls EXCEPT ![i] = l]) /\ [ls EXCEPT ![i] = l] # <<>>
           /\ Len([ls EXCEPT ![i] = l]) = Len(ls) /\ [ls EXCEPT ![i] = l][i] = l
           /\ \A k \in 1..Len(ls) : k # i => [ls EXCEPT ![i] = l][k] = ls[k]
  <1> DEFINE lt == [ls EXCEPT ![i] = l]
  <1>1. PICK S : ls \in Seq(S)
    BY DEF Lines
  <1> DEFINE T == S \cup {l}
  <1>2. ls \in Seq(T) /\ l \in T
    BY <1>1
  <1> HIDE DEF T
  <1>3. lt \in Seq(T) /\ Len(lt) = Len(ls)
    BY <1>2
  <1>4. lt[i] = l /\ \A k \in 1..Len(ls) : k # i => lt[k] = ls[k]
    BY <1>2
  <1>5. Len(ls) \in Nat
    BY <1>1
  <1> HIDE DEF lt
  <1>6. Lines(lt)
    BY <1>3, <1>4 DEF Lines
  <1>7. lt # <<>>
    BY <1>3, <1>5
  <1> QED  BY <1>3, <1>4, <1>6, <1>7 DEF lt

LEMMA ConcatFact ==
    ASSUME NEW S, NEW a \in Seq(S), NEW b \in Seq(S)
    PROVE  /\ a \o b \in Seq(S) /\ Len(a \o b) = Len(a) + Len(b)
           /\ Len(a) \in Nat /\ Len(b) \in Nat
           /\ \A k \in 1..Len(a) : (a \o b)[k] = a[k]
           /\ \A k \in (Len(a) + 1)..(Len(a) + Len(b)) : (a \o b)[k] = b[k - Len(a)]
  OBVIOUS

LEMMA RemoveLine ==
    ASSUME NEW ls, Lines(ls), NEW i \in 1..Len(ls)
    PROVE  /\ Lines(L!RemoveAt(ls, i)) /\ Len(L!RemoveAt(ls, i)) = Len(ls) - 1
           /\ \A k \in 1..(Len(ls) - 1) :
                 L!RemoveAt(ls, i)[k] = IF k < i THEN ls[k] ELSE ls[k + 1]
  <1>1. PICK S : ls \in Seq(S)
    BY DEF Lines
  <1> DEFINE a == SubSeq(ls, 1, i - 1)
             b == SubSeq(ls, i + 1, Len(ls))
  <1>2. a \in Seq(S) /\ Len(a) = i - 1 /\ \A k \in 1..(i - 1) : a[k] = ls[k]
    BY <1>1
  <1>3. b \in Seq(S) /\ Len(b) = Len(ls) - i /\ \A k \in 1..(Len(ls) - i) : b[k] = ls[k + i]
    BY <1>1
  <1>4. L!RemoveAt(ls, i) = a \o b
    BY DEF L!RemoveAt
  <1> HIDE DEF a, b
  <1>5. /\ a \o b \in Seq(S) /\ Len(a \o b) = Len(ls) - 1
        /\ \A k \in 1..(Len(ls) - 1) : (a \o b)[k] = IF k < i THEN ls[k] ELSE ls[k + 1]
    <2>1. a \o b \in Seq(S) /\ Len(a \o b) = Len(ls) - 1
      <3>1. a \o b \in Seq(S) /\ Len(a \o b) = Len(a) + Len(b)
        BY <1>2, <1>3, ConcatFact
      <3> QED  BY <1>1, <1>2, <1>3, <3>1
    <2>2. ASSUME NEW k \in 1..(i - 1) PROVE (a \o b)[k] = ls[k]
      BY <1>1, <1>2, <1>3
    <2>3. ASSUME NEW k \in i..(Len(ls) - 1) PROVE (a \o b)[k] = ls[k + 1]
      <3>1. k - (i - 1) \in 1..(Len(ls) - i) /\ (k - (i - 1)) + i = k + 1
        BY <1>1
      <3>2. (a \o b)[k] = b[k - (i - 1)]
        BY <1>1, <1>2, <1>3
      <3> QED  BY <1>3, <3>1, <3>2
    <2> QED  BY <1>1, <2>1, <2>2, <2>3
  <1>6. ASSUME NEW k \in 1..(Len(ls) - 1) PROVE Line((a \o b)[k])
    <2>1. k \in 1..Len(ls) /\ k + 1 \in 1..Len(ls)
      BY <1>1
    <2> QED  BY <1>5, <2>1 DEF Lines
  <1> QED  BY <1>4, <1>5, <1>6 DEF Lines

LEMMA InsertLine ==
    ASSUME NEW ls, Lines(ls), NEW i \in 1..Len(ls), NEW j \in 1..Len(ls)
    PROVE  /\ Lines(L!InsertAt(ls, i, ls[j])) /\ Len(L!InsertAt(ls, i, ls[j])) = Len(ls) + 1
           /\ \A k \in 1..(Len(ls) + 1) :
                 L!InsertAt(ls, i, ls[j])[k]
                    = IF k < i THEN ls[k] ELSE IF k = i THEN ls[j] ELSE ls[k - 1]
  <1>1. PICK S : ls \in Seq(S)
    BY DEF Lines
  <1> DEFINE a == SubSeq(ls, 1, i - 1)
             b == SubSeq(ls, i, Len(ls))
             c == a \o <<ls[j]>>
  <1>2. a \in Seq(S) /\ Len(a) = i - 1 /\ \A k \in 1..(i - 1) : a[k] = ls[k]
    BY <1>1
  <1>3. /\ b \in Seq(S) /\ Len(b) = Len(ls) - i + 1
        /\ \A k \in 1..(Len(ls) - i + 1) : b[k] = ls[k + i - 1]
    BY <1>1
  <1>4. ls[j] \in S
    BY <1>1
  <1>5. c \in Seq(S) /\ Len(c) = i /\ c[i] = ls[j] /\ \A k \in 1..(i - 1) : c[k] = ls[k]
    <2> HIDE DEF a
    <2> QED  BY <1>2, <1>4
  <1>6. L!InsertAt(ls, i, ls[j]) = c \o b
    BY DEF L!InsertAt
  <1> HIDE DEF a, b, c
  <1>7. /\ c \o b \in Seq(S) /\ Len(c \o b) = Len(ls) + 1
        /\ \A k \in 1..(Len(ls) + 1) :
              (c \o b)[k] = IF k < i THEN ls[k] ELSE IF k = i THEN ls[j] ELSE ls[k - 1]
    <2>1. c \o b \in Seq(S) /\ Len(c \o b) = Len(ls) + 1
      BY <1>1, <1>3, <1>5
    <2>2. ASSUME NEW k \in 1..i PROVE (c \o b)[k] = IF k < i THEN ls[k] ELSE ls[j]
      BY <1>1, <1>3, <1>5
    <2>3. ASSUME NEW k \in (i + 1)..(Len(ls) + 1) PROVE (c \o b)[k] = ls[k - 1]
      <3>1. k - i \in 1..(Len(ls) - i + 1) /\ (k - i) + i - 1 = k - 1
        BY <1>1
      <3>2. (c \o b)[k] = b[k - i]
        BY <1>1, <1>3, <1>5
      <3> QED  BY <1>3, <3>1, <3>2
    <2> QED  BY <1>1, <2>1, <2>2, <2>3
  <1>8. \A k \in 1..(Len(ls) + 1) : Line((c \o b)[k])
    BY <1>1, <1>7 DEF Lines
  <1> QED  BY <1>6, <1>7, <1>8 DEF Lines

-----------------------------------------------------------------------------
(* What an edit does to a chain nobody edited before.                      *)

\* In a chain that grew by appends, a line's sequence is its place, or the line is cut.
LEMMA GrownSeq ==
    ASSUME NEW ls, Grown(ls), NEW i \in 1..Len(ls)
    PROVE  ls[i].seq \in {i, 0}
  BY GarbageFact DEF Grown, GoodLine, GoodAt

\* One of the edits of Edit.
EditOf(ls, lt, i, j) ==
    \/ lt = [ls EXCEPT ![i].body = Forged]
    \/ i < Len(ls) /\ lt = L!RemoveAt(ls, i)
    \/ lt = L!InsertAt(ls, i, ls[j])
    \/ lt = Append(ls, ls[j])
    \/ i < j /\ lt = [ls EXCEPT ![i] = ls[j], ![j] = ls[i]]

\* An edit leaves lines, with the payloads of the old ones or the forged one, and it
\* breaks a chain that grew by appends.
LEMMA EditBreaks ==
    ASSUME NEW ls, Lines(ls), NEW i \in 1..Len(ls), NEW j \in 1..Len(ls),
           NEW lt, EditOf(ls, lt, i, j)
    PROVE  /\ Lines(lt)
           /\ \A k \in 1..Len(lt) : lt[k].body = Forged
                                    \/ \E q \in 1..Len(ls) : lt[k].body = ls[q].body
           /\ Grown(ls) => Broken(lt)
  <1>0. Len(ls) \in Nat /\ Line(ls[i]) /\ Line(ls[j])
    BY LinesFact DEF Lines
  <1>1. CASE lt = [ls EXCEPT ![i].body = Forged]
    <2> DEFINE l == [seq |-> ls[i].seq, body |-> Forged, prev |-> ls[i].prev, hash |-> ls[i].hash]
    <2>1. Line(l) /\ l.body = Forged /\ l.seq = ls[i].seq /\ l.hash = ls[i].hash
      BY <1>0 DEF Line
    <2>2. lt = [ls EXCEPT ![i] = l]
      <3>1. [ls[i] EXCEPT !.body = Forged] = l
        BY <1>0 DEF Line
      <3>2. lt = [ls EXCEPT ![i] = [ls[i] EXCEPT !.body = Forged]]
        BY <1>1
      <3> QED  BY <3>1, <3>2
    <2> HIDE DEF l
    <2>3. /\ Lines(lt) /\ Len(lt) = Len(ls) /\ lt[i] = l
          /\ \A k \in 1..Len(ls) : k # i => lt[k] = ls[k]
      <3>1. /\ Lines([ls EXCEPT ![i] = l]) /\ Len([ls EXCEPT ![i] = l]) = Len(ls)
            /\ [ls EXCEPT ![i] = l][i] = l
            /\ \A k \in 1..Len(ls) : k # i => [ls EXCEPT ![i] = l][k] = ls[k]
        BY <2>1, ReplaceLine
      <3> QED  BY ONLY <2>2, <3>1
    <2>4. ASSUME Grown(ls) PROVE ~ GoodAt(lt, i)
      <3>1. CASE ls[i] = L!Garbage
        BY <2>1, <2>3, <3>1, GarbageFact DEF GoodAt
      <3>2. CASE GoodLine(ls, i)
        <4>1. ls[i].hash = L!Hash(L!Before(ls, i), ls[i].seq, ls[i].body) /\ ls[i].body # Forged
          BY <3>2, Payloads DEF GoodLine, GoodAt, L!Sealed
        <4>2. lt[i].hash # L!Hash(L!Before(lt, i), lt[i].seq, lt[i].body)
          BY <2>1, <2>3, <4>1 DEF L!Hash
        <4> QED  BY <4>2 DEF GoodAt, L!Sealed
      <3> QED  BY <2>4, <3>1, <3>2 DEF Grown
    <2> QED  BY <2>1, <2>3, <2>4 DEF Broken
  <1>2. CASE i < Len(ls) /\ lt = L!RemoveAt(ls, i)
    <2>1. /\ Lines(lt) /\ Len(lt) = Len(ls) - 1
          /\ \A k \in 1..Len(lt) : lt[k] = IF k < i THEN ls[k] ELSE ls[k + 1]
      BY <1>0, <1>2, RemoveLine
    <2>2. i \in 1..Len(lt) /\ i + 1 \in 1..Len(ls)
      BY <1>0, <1>2, <2>1
    <2>3. ASSUME Grown(ls) PROVE ~ GoodAt(lt, i)
      <3>1. lt[i].seq \in {i + 1, 0}
        BY <2>1, <2>2, <2>3, GrownSeq
      <3> QED  BY <2>2, <3>1 DEF GoodAt
    <2> QED  BY <1>0, <2>1, <2>2, <2>3 DEF Broken
  <1>3. CASE lt = L!InsertAt(ls, i, ls[j])
    <2>1. /\ Lines(lt) /\ Len(lt) = Len(ls) + 1
          /\ \A k \in 1..Len(lt) :
                lt[k] = IF k < i THEN ls[k] ELSE IF k = i THEN ls[j] ELSE ls[k - 1]
      BY <1>0, <1>3, InsertLine
    <2>2. i + 1 \in 1..Len(lt) /\ lt[i + 1] = ls[i]
      BY <1>0, <2>1
    <2>3. ASSUME Grown(ls) PROVE ~ GoodAt(lt, i + 1)
      <3>1. ls[i].seq \in {i, 0}
        BY <2>3, GrownSeq
      <3> QED  BY <2>2, <3>1 DEF GoodAt
    <2>4. \A k \in 1..Len(lt) : \E q \in 1..Len(ls) : lt[k] = ls[q]
      BY <1>0, <2>1
    <2> QED  BY <2>1, <2>2, <2>3, <2>4 DEF Broken
  <1>4. CASE lt = Append(ls, ls[j])
    <2>1. /\ Lines(lt) /\ Len(lt) = Len(ls) + 1 /\ lt[Len(ls) + 1] = ls[j]
          /\ \A k \in 1..Len(ls) : lt[k] = ls[k]
      BY <1>0, <1>4, AppendLine
    <2>2. Len(ls) + 1 \in 1..Len(lt)
      BY <1>0, <2>1
    <2>3. ASSUME Grown(ls) PROVE ~ GoodAt(lt, Len(ls) + 1)
      <3>1. ls[j].seq \in {j, 0}
        BY <2>3, GrownSeq
      <3> QED  BY <1>0, <2>1, <3>1 DEF GoodAt
    <2>4. \A k \in 1..Len(lt) : \E q \in 1..Len(ls) : lt[k] = ls[q]
      BY <1>0, <2>1
    <2> QED  BY <2>1, <2>2, <2>3, <2>4 DEF Broken
  <1>5. CASE i < j /\ lt = [ls EXCEPT ![i] = ls[j], ![j] = ls[i]]
    <2> DEFINE l1 == [ls EXCEPT ![i] = ls[j]]
    <2>1. /\ Lines(l1) /\ Len(l1) = Len(ls) /\ l1[i] = ls[j]
          /\ \A k \in 1..Len(ls) : k # i => l1[k] = ls[k]
      BY <1>0, ReplaceLine
    <2>2. lt = [l1 EXCEPT ![j] = ls[i]]
      BY <1>5
    <2> HIDE DEF l1
    <2>3. /\ Lines(lt) /\ Len(lt) = Len(ls) /\ lt[j] = ls[i]
          /\ \A k \in 1..Len(ls) : k # j => lt[k] = l1[k]
      <3>1. j \in 1..Len(l1)
        BY <2>1
      <3>2. /\ Lines([l1 EXCEPT ![j] = ls[i]]) /\ Len([l1 EXCEPT ![j] = ls[i]]) = Len(l1)
            /\ [l1 EXCEPT ![j] = ls[i]][j] = ls[i]
            /\ \A k \in 1..Len(l1) : k # j => [l1 EXCEPT ![j] = ls[i]][k] = l1[k]
        BY <1>0, <2>1, <3>1, ReplaceLine
      <3> QED  BY ONLY <2>1, <2>2, <3>2
    <2>4. lt[i] = ls[j]
      BY <1>0, <1>5, <2>1, <2>3
    <2>5. ASSUME Grown(ls) PROVE ~ GoodAt(lt, i)
      <3>1. ls[j].seq \in {j, 0}
        BY <2>5, GrownSeq
      <3> QED  BY <1>0, <1>5, <2>4, <3>1 DEF GoodAt
    <2>6. \A k \in 1..Len(lt) : \E q \in 1..Len(ls) : lt[k] = ls[q]
      BY <1>0, <2>1, <2>3
    <2> QED  BY <2>3, <2>5, <2>6 DEF Broken
  <1> QED  BY <1>1, <1>2, <1>3, <1>4, <1>5 DEF EditOf

-----------------------------------------------------------------------------
\* The types of the chain's file and of its queue.
ChainTypeOK ==
    /\ Lines(lines) /\ terminated \in BOOLEAN
    /\ appends \in Seq(Mutations) /\ step \in {"verify", "head", "write"} /\ tip.seq \in Nat
    /\ reported \in [Mutations -> {"none", "pending", "ok", "rejected", "lost"}]
    /\ edits \in Nat

\* Only the head of the queue is under way; who waits in it waits once.
Appending ==
    /\ ~ terminated => lines # <<>>
    /\ step # "verify" => appends # <<>>
    /\ \A i \in 1..Len(appends) : reported[appends[i]] = "pending"
    /\ \A i, j \in 1..Len(appends) : i # j => appends[i] # appends[j]

\* A line's event was asked for, and that only once its mutation resolved.
Asked ==
    /\ \A m \in Mutations : Told(m) => reported[m] # "none"
    /\ \A m \in Mutations : reported[m] # "none" => answer[m] = "ok"

\* Before the first edit: a good chain, but for a last line a failure cut; what the
\* running append read is still so; an event that resolved is in the chain, until a
\* later append runs into the line before it.
Unedited ==
    edits = 0 =>
        /\ Grown(lines)
        /\ step # "verify" => AllGood(lines)
        /\ step = "write" => tip = L!HeadOf(lines)
        /\ \A m \in Mutations : reported[m] = "ok" => Told(m) \/ LastIsCut(lines)

Edited == edits = 1 => Broken(lines)

\* Without a failed write or a restart either, the chain is the resolved appends.
Whole ==
    L!Unharmed =>
        /\ terminated /\ AllGood(lines)
        /\ \A m \in Mutations : Told(m) => reported[m] = "ok"
        /\ \A i, j \in 1..Len(lines) : lines[i].body = lines[j].body => i = j

\* A mutation that resolved stays in the file, as long as no load puts an older state
\* back.
Kept == overwrites = 0 => ResolvedStay

ChainInv == ChainTypeOK /\ Appending /\ Asked /\ Unedited /\ Edited /\ Whole
AuditedInv == Inv /\ Kept /\ ChainInv

-----------------------------------------------------------------------------
LEMMA HeadAppend ==
    ASSUME ChainTypeOK, Appending, appends # <<>>
    PROVE  Head(appends) \in Mutations /\ reported[Head(appends)] = "pending"
  BY HeadFact DEF ChainTypeOK, Appending

\* What Settle leaves of the chain's queue and of the reports.
LEMMA ReportFact ==
    ASSUME ChainTypeOK, Appending, appends # <<>>,
           NEW how \in {"ok", "rejected"}, L!Settle(how)
    PROVE  /\ appends' \in Seq(Mutations) /\ step' = "verify"
           /\ reported' \in [Mutations -> {"none", "pending", "ok", "rejected", "lost"}]
           /\ reported' = [reported EXCEPT ![Head(appends)] = how]
           /\ \A i \in 1..Len(appends') : reported'[appends'[i]] = "pending"
           /\ \A i, j \in 1..Len(appends') : i # j => appends'[i] # appends'[j]
  <1>1. /\ appends' = Tail(appends) /\ step' = "verify"
        /\ reported' = [reported EXCEPT ![Head(appends)] = how]
    BY DEF L!Settle, L!NextPhase
  <1>2. /\ Head(appends) \in Mutations /\ Head(appends) = appends[1]
        /\ Tail(appends) \in Seq(Mutations)
        /\ 1 \in 1..Len(appends) /\ Len(Tail(appends)) = Len(appends) - 1
        /\ \A i \in 1..Len(Tail(appends)) :
              Tail(appends)[i] = appends[i + 1] /\ i + 1 \in 1..Len(appends)
    BY HeadFact DEF ChainTypeOK
  <1>3. reported' \in [Mutations -> {"none", "pending", "ok", "rejected", "lost"}]
    BY <1>1 DEF ChainTypeOK
  <1>4. ASSUME NEW i \in 1..Len(Tail(appends)) PROVE reported'[Tail(appends)[i]] = "pending"
    <2>1. Tail(appends)[i] = appends[i + 1] /\ i + 1 \in 1..Len(appends) /\ i + 1 # 1
      BY <1>2
    <2>2. appends[i + 1] # Head(appends) /\ reported[appends[i + 1]] = "pending"
      BY <1>2, <2>1 DEF Appending
    <2>3. appends[i + 1] \in Mutations
      BY <2>1 DEF ChainTypeOK
    <2> QED  BY <1>1, <2>1, <2>2, <2>3 DEF ChainTypeOK
  <1>5. ASSUME NEW i \in 1..Len(Tail(appends)), NEW j \in 1..Len(Tail(appends)), i # j
        PROVE  Tail(appends)[i] # Tail(appends)[j]
    <2>1. i + 1 # j + 1
      BY <1>2, <1>5
    <2> QED  BY <1>2, <2>1 DEF Appending
  <1> QED  BY <1>1, <1>2, <1>3, <1>4, <1>5

\* The record the running append writes continues an unedited chain.
LEMMA RecordContinues ==
    ASSUME ChainTypeOK, Unedited, edits = 0, step = "write", NEW m \in Mutations
    PROVE  GoodLine(Append(lines, L!Record(tip, m)), Len(lines) + 1)
  <1> DEFINE r == L!Record(tip, m)
             lt == Append(lines, r)
             n == Len(lines)
  <1>1. AllGood(lines) /\ tip = L!HeadOf(lines) /\ tip.seq \in Nat /\ Lines(lines) /\ n \in Nat
    BY LinesFact DEF Unedited, ChainTypeOK
  <1>2. /\ Line(r) /\ r.body = m /\ r.seq = tip.seq + 1 /\ r.prev = tip.hash
        /\ r.hash = L!Hash(tip.hash, tip.seq + 1, m)
    BY <1>1, RecordFact
  <1> HIDE DEF r
  <1>3. lt[n + 1] = r /\ \A i \in 1..n : lt[i] = lines[i]
    BY <1>1, <1>2, AppendLine
  <1>4. tip.seq = n /\ tip.hash = L!Before(lt, n + 1)
    <2>1. CASE lines = <<>>
      <3>1. n = 0
        BY <1>1, <2>1, LinesFact
      <3>2. tip.seq = 0 /\ tip.hash = L!Genesis
        BY <1>1, <2>1 DEF L!HeadOf
      <3> QED  BY <3>1, <3>2 DEF L!Before
    <2>2. CASE lines # <<>>
      <3>1. n \in 1..n /\ n + 1 # 1 /\ (n + 1) - 1 = n
        BY <1>1, <2>2, LinesFact
      <3>2. tip.seq = lines[n].seq /\ tip.hash = lines[n].hash
        BY <1>1, <2>2 DEF L!HeadOf, L!Last
      <3>3. lines[n].seq = n
        BY <1>1, <3>1 DEF AllGood, GoodLine, GoodAt
      <3> QED  BY <1>3, <3>1, <3>2, <3>3 DEF L!Before
    <2> QED  BY <2>1, <2>2
  <1> HIDE DEF lt, n
  <1>5. lt[n + 1].seq = n + 1 /\ lt[n + 1].body = m
    BY <1>1, <1>2, <1>3, <1>4
  <1>6. L!Linked(lt, n + 1)
    BY <1>2, <1>3, <1>4 DEF L!Linked
  <1>7. L!Sealed(lt, n + 1)
    BY <1>2, <1>3, <1>4 DEF L!Sealed
  <1>8. GoodLine(lt, n + 1)
    BY <1>5, <1>6, <1>7 DEF GoodLine, GoodAt
  <1> QED  BY <1>8 DEF lt, n, r

\* What a write leaves that found the file ending where a line ends.
LEMMA WriteOnLine ==
    ASSUME ChainTypeOK, terminated, NEW l, Line(l)
    PROVE  L!Written(l) = Append(lines, l)
  BY DEF L!Written

\* The file after a write, completed or cut short.
Wrote == \/ lines' = lines
         \/ lines' = L!Written(L!Record(tip, Head(appends)))
         \/ lines' = L!Written(L!Garbage)

LEMMA WroteFact ==
    ASSUME ChainTypeOK, Appending, Unedited, step = "write", Wrote
    PROVE  /\ Lines(lines') /\ (lines' = lines \/ lines' # <<>>)
           /\ \A m \in Mutations : Told(m)' => Told(m) \/ m = Head(appends)
           /\ Broken(lines) => Broken(lines')
           /\ edits = 0 => Grown(lines')
           /\ edits = 0 => \A m \in Mutations : Told(m) => Told(m)' \/ LastIsCut(lines')
  <1> DEFINE n == Len(lines)
             h == Head(appends)
  <1>0. /\ Lines(lines) /\ n \in Nat /\ (lines # <<>> <=> n > 0)
        /\ h \in Mutations /\ tip.seq \in Nat
    BY LinesFact, HeadAppend DEF ChainTypeOK, Appending
  <1>1. CASE lines' = lines
    <2>1. \A m \in Mutations : Told(m)' <=> Told(m)
      BY <1>1 DEF Told
    <2>2. edits = 0 => Grown(lines)
      BY DEF Unedited
    <2> QED  BY <1>0, <1>1, <2>1, <2>2
  <1>2. ASSUME NEW l, Line(l), l = L!Record(tip, h) \/ l = L!Garbage, lines' = L!Written(l)
        PROVE  /\ Lines(lines') /\ lines' # <<>>
               /\ \A m \in Mutations : Told(m)' => Told(m) \/ m = h
               /\ Broken(lines) => Broken(lines')
               /\ edits = 0 => Grown(lines')
               /\ edits = 0 => \A m \in Mutations : Told(m) => Told(m)' \/ LastIsCut(lines')
    <2>0. l.body \in {h, None}
      BY <1>0, <1>2, RecordFact, GarbageFact
    <2>1. CASE terminated
      <3>1. lines' = Append(lines, l)
        BY <1>2, <2>1 DEF L!Written
      <3>2. /\ Lines(lines') /\ lines' # <<>> /\ Len(lines') = n + 1 /\ lines'[n + 1] = l
            /\ \A i \in 1..n : lines'[i] = lines[i]
        BY <1>0, <1>2, <3>1, AppendLine
      <3>3. ASSUME NEW i \in 1..n PROVE GoodAt(lines', i) <=> GoodAt(lines, i)
        <4>1. i \in Nat /\ (i # 1 => i - 1 \in 1..n)
          BY <1>0
        <4> QED  BY <3>2, <4>1, SamePrefix
      <3>4. Broken(lines) => Broken(lines')
        BY <1>0, <3>2, <3>3 DEF Broken
      <3>5. \A m \in Mutations : Told(m) => Told(m)'
        BY <1>0, <3>2 DEF Told
      <3>6. ASSUME NEW m \in Mutations, Told(m)' PROVE Told(m) \/ m = h
        <4>1. PICK i \in 1..(n + 1) : lines'[i].body = m
          BY <3>2, <3>6 DEF Told
        <4>2. CASE i = n + 1
          BY <2>0, <3>2, <4>1, <4>2, Payloads
        <4>3. CASE i \in 1..n
          BY <3>2, <4>1, <4>3 DEF Told
        <4> QED  BY <1>0, <4>2, <4>3
      <3>7. ASSUME edits = 0 PROVE Grown(lines')
        <4>1. AllGood(lines)
          BY <3>7 DEF Unedited
        <4>2. \A i \in 1..n : GoodLine(lines', i)
          BY <3>2, <3>3, <4>1 DEF AllGood, GoodLine
        <4>3. GoodLine(lines', n + 1) \/ lines'[n + 1] = L!Garbage
          <5>1. CASE l = L!Garbage
            BY <3>2, <5>1
          <5>2. CASE l = L!Record(tip, h)
            BY <1>0, <3>1, <3>7, <5>2, RecordContinues
          <5> QED  BY <1>2, <5>1, <5>2
        <4>4. ASSUME NEW i \in 1..Len(lines')
              PROVE  GoodLine(lines', i) \/ (i = Len(lines') /\ lines'[i] = L!Garbage)
          <5>1. i \in 1..n \/ i = n + 1
            BY <1>0, <3>2
          <5>2. n + 1 = Len(lines')
            BY <3>2
          <5> HIDE DEF n
          <5> QED  BY ONLY <4>2, <4>3, <5>1, <5>2
        <4> QED  BY ONLY <4>4 DEF Grown
      <3> QED  BY <3>2, <3>4, <3>5, <3>6, <3>7
    <2>2. CASE ~ terminated
      <3>1. n \in 1..n /\ lines' = [lines EXCEPT ![n] = L!Garbage]
        BY <1>0, <1>2, <2>2 DEF L!Written, Appending
      <3>2. /\ Lines(lines') /\ lines' # <<>> /\ Len(lines') = n /\ lines'[n] = L!Garbage
            /\ \A i \in 1..n : i # n => lines'[i] = lines[i]
        <4>1. /\ Lines([lines EXCEPT ![n] = L!Garbage])
              /\ [lines EXCEPT ![n] = L!Garbage] # <<>>
              /\ Len([lines EXCEPT ![n] = L!Garbage]) = n
              /\ [lines EXCEPT ![n] = L!Garbage][n] = L!Garbage
              /\ \A i \in 1..n : i # n => [lines EXCEPT ![n] = L!Garbage][i] = lines[i]
          <5>1. Lines(lines) /\ n \in 1..Len(lines) /\ Line(L!Garbage)
            BY <1>0, <3>1, GarbageFact
          <5> HIDE DEF n
          <5>2. \A i \in 1..Len(lines) : \A l2 : Line(l2) =>
                   /\ Lines([lines EXCEPT ![i] = l2])
                   /\ [lines EXCEPT ![i] = l2] # <<>>
                   /\ Len([lines EXCEPT ![i] = l2]) = Len(lines)
                   /\ [lines EXCEPT ![i] = l2][i] = l2
                   /\ \A k \in 1..Len(lines) : k # i => [lines EXCEPT ![i] = l2][k] = lines[k]
            BY <5>1, ReplaceLine
          <5> QED  BY ONLY <5>1, <5>2 DEF n
        <4> QED  BY ONLY <3>1, <4>1
      <3>3. LastIsCut(lines')
        BY <3>2 DEF LastIsCut
      <3>4. Broken(lines')
        <4>1. ~ GoodAt(lines', n)
          BY <1>0, <3>1, <3>2, GarbageFact DEF GoodAt
        <4> QED  BY <3>1, <3>2, <4>1 DEF Broken
      <3>5. ASSUME NEW m \in Mutations, Told(m)' PROVE Told(m)
        <4>1. PICK i \in 1..n : lines'[i].body = m
          BY <3>2, <3>5 DEF Told
        <4>2. i # n
          BY <3>2, <4>1, GarbageFact, Payloads
        <4> QED  BY <3>2, <4>1, <4>2 DEF Told
      <3>6. ASSUME edits = 0 PROVE Grown(lines')
        <4>1. AllGood(lines)
          BY <3>6 DEF Unedited
        <4>2. ASSUME NEW i \in 1..n, i # n PROVE GoodLine(lines', i)
          <5>1. i \in Nat /\ (i # 1 => i - 1 \in 1..n /\ i - 1 # n)
            BY <1>0
          <5>2. GoodAt(lines', i) <=> GoodAt(lines, i)
            BY <3>2, <4>2, <5>1, SamePrefix
          <5> QED  BY <3>2, <4>1, <4>2, <5>2 DEF AllGood, GoodLine
        <4>3. Len(lines') = n /\ lines'[n] = L!Garbage
          BY <3>2
        <4> HIDE DEF n
        <4> QED  BY ONLY <4>2, <4>3 DEF Grown
      <3> QED  BY <3>2, <3>3, <3>4, <3>5, <3>6
    <2> QED  BY <2>1, <2>2 DEF ChainTypeOK
  <1>3. Line(L!Garbage) /\ Line(L!Record(tip, h))
    BY <1>0, GarbageFact, RecordFact
  <1> QED  BY <1>1, <1>2, <1>3 DEF Wrote

-----------------------------------------------------------------------------
\* The counters only grow.
LEMMA BudgetGrows ==
    ASSUME Inv, [Next]_vars
    PROVE  /\ faults' \in Nat /\ crashes' \in Nat /\ overwrites' \in Nat
           /\ faults' = 0 => faults = 0
           /\ crashes' = 0 => crashes = 0
           /\ overwrites' = 0 => overwrites = 0
  <1>1. faults \in Nat /\ crashes \in Nat /\ overwrites \in Nat
    BY DEF Inv, TypeOK
  <1>2. /\ faults' \in {faults, faults + 1} /\ crashes' \in {crashes, crashes + 1}
        /\ overwrites' \in {overwrites, overwrites + 1}
    BY DEF Next, vars, Read, OpenFile, EndRead, Mutate, Begin, Change, EndLoad, Persist,
           PersistFails, Swap, Restart, budget
  <1> QED  BY <1>1, <1>2

\* What a mutation's step does to the file and to the answers.
LEMMA AnswerStep ==
    ASSUME Inv, [Next]_vars
    PROVE  /\ \A m \in Mutations : answer[m] = "ok" => answer'[m] = "ok"
           /\ \A m \in Mutations : answer'[m] = "ok" =>
                 \/ answer[m] = "ok"
                 \/ phase = "swap" /\ m = Head(queue) /\ file' = file
           /\ file' = file \/ (phase = "persist" /\ file' = draft)
  <1> USE DEF Inv
  <1>1. ASSUME queue # <<>>, NEW how \in {"ok", "rejected"}, Settle(how)
        PROVE  /\ \A m \in Mutations : answer[m] = "ok" => answer'[m] = "ok"
               /\ \A m \in Mutations : answer'[m] = "ok" =>
                     answer[m] = "ok" \/ (how = "ok" /\ m = Head(queue))
    <2>1. answer[Head(queue)] = "pending" /\ answer' = [answer EXCEPT ![Head(queue)] = how]
      BY <1>1, SettleFact
    <2> QED  BY <2>1 DEF TypeOK
  <1>2. ASSUME queue # <<>>, NEW current, Change(current)
        PROVE  /\ \A m \in Mutations : answer[m] = "ok" => answer'[m] = "ok"
               /\ \A m \in Mutations : answer'[m] = "ok" => answer[m] = "ok"
    BY <1>1, <1>2 DEF Change
  <1>3. ASSUME NEW r \in Readers, Read(r) \/ EndRead(r)
        PROVE  answer' = answer /\ file' = file
    BY <1>3 DEF Read, EndRead, Fill, head
  <1>4. ASSUME NEW l \in Loaders, OpenFile(l) PROVE answer' = answer /\ file' = file
    BY <1>4 DEF OpenFile, head
  <1>5. ASSUME NEW n \in Mutations, Mutate(n)
        PROVE  /\ \A m \in Mutations : answer[m] = "ok" <=> answer'[m] = "ok"
               /\ file' = file
    BY <1>5 DEF Mutate, TypeOK
  <1>6. ASSUME Begin
        PROVE  /\ \A m \in Mutations : answer[m] = "ok" <=> answer'[m] = "ok"
               /\ file' = file
    BY <1>2, <1>6 DEF Begin
  <1>7. ASSUME EndLoad
        PROVE  /\ \A m \in Mutations : answer[m] = "ok" <=> answer'[m] = "ok"
               /\ file' = file
    <2>1. queue # <<>> /\ Change(raw[Queue]) /\ file' = file
      BY <1>7 DEF EndLoad, HeadOnly, Fill
    <2> QED  BY <1>2, <2>1
  <1>8. ASSUME Persist PROVE answer' = answer /\ phase = "persist" /\ file' = draft
    BY <1>8 DEF Persist
  <1>9. ASSUME PersistFails
        PROVE  /\ \A m \in Mutations : answer[m] = "ok" <=> answer'[m] = "ok"
               /\ file' = file
    <2>1. queue # <<>> /\ Settle("rejected") /\ file' = file
      BY <1>9 DEF PersistFails, HeadOnly
    <2> QED  BY <1>1, <2>1
  <1>10. ASSUME Swap
         PROVE  /\ \A m \in Mutations : answer[m] = "ok" => answer'[m] = "ok"
                /\ \A m \in Mutations : answer'[m] = "ok" => answer[m] = "ok" \/ m = Head(queue)
                /\ phase = "swap" /\ file' = file
    <2>1. queue # <<>> /\ Settle("ok") /\ file' = file /\ phase = "swap"
      BY <1>10 DEF Swap, HeadOnly
    <2> QED  BY <1>1, <2>1
  <1>11. ASSUME Restart
         PROVE  /\ \A m \in Mutations : answer[m] = "ok" <=> answer'[m] = "ok"
                /\ file' = file
    BY <1>11 DEF Restart, TypeOK
  <1>12. CASE UNCHANGED vars
    BY <1>12 DEF vars, head
  <1> QED
    BY <1>3, <1>4, <1>5, <1>6, <1>7, <1>8, <1>9, <1>10, <1>11, <1>12 DEF Next

\* A resolved mutation stays in the file.
LEMMA KeptStep ==
    ASSUME Inv, Kept, [Next]_vars
    PROVE  Kept'
  <1> SUFFICES ASSUME overwrites' = 0, NEW m \in Mutations, answer'[m] = "ok"
               PROVE  \E i \in 1..Len(file') : file'[i] = m
    BY DEF Kept, ResolvedStay
  <1>0. overwrites = 0
    BY BudgetGrows
  <1>1. \/ answer[m] = "ok"
        \/ phase = "swap" /\ m = Head(queue) /\ file' = file
    BY AnswerStep
  <1>2. CASE phase = "swap" /\ m = Head(queue) /\ file' = file
    <2>1. file # <<>> /\ file[Len(file)] = m /\ file \in Seq(Mutations)
      BY <1>0, <1>2 DEF Inv, Cached, TypeOK, States
    <2>2. Len(file) \in 1..Len(file)
      BY <2>1
    <2> QED  BY <1>2, <2>1, <2>2
  <1>3. CASE answer[m] = "ok"
    <2>1. PICK i \in 1..Len(file) : file[i] = m
      BY <1>0, <1>3 DEF Kept, ResolvedStay
    <2>2. CASE file' = file
      BY <2>1, <2>2
    <2>3. CASE phase = "persist" /\ file' = draft
      <3>1. queue # <<>> /\ Head(queue) \in Mutations /\ file \in Seq(Mutations)
        BY <2>3, HeadFact DEF Inv, HeadOnly, TypeOK, States
      <3>2. file' = Append(file, Head(queue))
        BY <1>0, <2>3 DEF Inv, Cached
      <3>3. i \in 1..Len(file') /\ file'[i] = file[i]
        BY <3>1, <3>2
      <3> QED  BY <2>1, <3>3
    <2> QED  BY <2>2, <2>3, AnswerStep
  <1> QED  BY <1>1, <1>2, <1>3

\* What the store promises its callers, short of a load that puts an older state back:
\* a mutation that resolved stays in the file.
THEOREM ResolvedIsKept == Spec => [](overwrites = 0 => ResolvedStay)
  <1>1. Init => Kept
    BY DEF Init, Kept, ResolvedStay
  <1>2. Inv /\ Kept /\ [Next]_vars => Kept'
    BY KeptStep
  <1>3. Kept => (overwrites = 0 => ResolvedStay)
    BY DEF Kept
  <1> QED  BY <1>1, <1>2, <1>3, InitInv, NextInv, PTL DEF Spec

\* A step of the state leaves the chain's facts.
LEMMA StateKeepsChain ==
    ASSUME Inv, ChainInv, [Next]_vars, UNCHANGED chain
    PROVE  ChainInv'
  <1>1. /\ lines' = lines /\ terminated' = terminated /\ appends' = appends
        /\ step' = step /\ tip' = tip /\ reported' = reported /\ edits' = edits
    BY DEF chain
  <1>2. \A m : Told(m)' <=> Told(m)
    BY <1>1 DEF Told
  <1>3. ChainTypeOK' /\ Appending'
    BY <1>1 DEF ChainInv, ChainTypeOK, Appending
  <1>4. Asked'
    BY <1>1, <1>2, AnswerStep DEF ChainInv, Asked
  <1>5. L!HeadOf(lines)' = L!HeadOf(lines)
    BY <1>1
  <1>6. Unedited' /\ Edited'
    BY <1>1, <1>2, <1>5 DEF ChainInv, Unedited, Edited
  <1>7. L!Unharmed' => L!Unharmed
    BY <1>1, BudgetGrows DEF L!Unharmed
  <1>8. Whole'
    BY <1>1, <1>2, <1>7 DEF ChainInv, Whole
  <1> QED  BY <1>3, <1>4, <1>6, <1>8 DEF ChainInv

-----------------------------------------------------------------------------
LEMMA AppendEventKeeps ==
    ASSUME Inv, ChainInv, NEW m \in Mutations, AppendEvent(m)
    PROVE  ChainInv'
  <1> USE DEF ChainInv
  <1>1. /\ answer[m] = "ok" /\ reported[m] = "none"
        /\ reported' = [reported EXCEPT ![m] = "pending"] /\ appends' = Append(appends, m)
        /\ lines' = lines /\ terminated' = terminated /\ step' = step /\ tip' = tip
        /\ edits' = edits /\ faults' = faults /\ crashes' = crashes /\ answer' = answer
    BY DEF AppendEvent, Report, L!AppendEvent, L!file, L!budget, state, head
  <1>2. \A n : Told(n)' <=> Told(n)
    BY <1>1 DEF Told
  <1>3. ChainTypeOK'
    BY <1>1 DEF ChainTypeOK
  <1>4. \A i \in 1..Len(appends) : appends[i] # m /\ appends[i] \in Mutations
    BY <1>1 DEF Appending, ChainTypeOK
  <1>5. Appending'
    BY <1>1, <1>4 DEF Appending, ChainTypeOK
  <1>6. \A n \in Mutations : reported'[n] = "ok" <=> reported[n] = "ok"
    BY <1>1 DEF ChainTypeOK
  <1>7. \A n \in Mutations : reported'[n] # "none" => reported[n] # "none" \/ n = m
    BY <1>1 DEF ChainTypeOK
  <1>8. reported'[m] # "none" /\ \A n \in Mutations : reported[n] # "none" => reported'[n] # "none"
    BY <1>1 DEF ChainTypeOK
  <1>9. Asked'
    BY <1>1, <1>2, <1>7, <1>8 DEF Asked
  <1>10. Unedited' /\ Edited'
    BY <1>1, <1>2, <1>6 DEF Unedited, Edited
  <1>11. L!Unharmed' <=> L!Unharmed
    BY <1>1 DEF L!Unharmed
  <1>12. Whole'
    BY <1>1, <1>2, <1>6, <1>11 DEF Whole
  <1> QED  BY <1>3, <1>5, <1>9, <1>10, <1>12

\* An append settles, whatever its write left of the file.
LEMMA SettledKeeps ==
    ASSUME Inv, ChainInv, appends # <<>>, NEW how \in {"ok", "rejected"}, L!Settle(how),
           Lines(lines'), terminated' \in BOOLEAN, ~ terminated' => lines' # <<>>,
           tip' = tip, edits' = edits, answer' = answer,
           \A m \in Mutations : Told(m)' => Told(m) \/ m = Head(appends),
           Broken(lines) => Broken(lines'),
           edits = 0 => Grown(lines'),
           edits = 0 => \A m \in Mutations : Told(m) => Told(m)' \/ LastIsCut(lines'),
           edits = 0 => (LastIsCut(lines) => LastIsCut(lines')),
           how = "ok" /\ edits = 0 =>
               \A m \in Mutations : m = Head(appends) => Told(m)' \/ LastIsCut(lines'),
           Whole'
    PROVE  ChainInv'
  <1> USE DEF ChainInv
  <1>0. Head(appends) \in Mutations /\ reported[Head(appends)] = "pending"
    BY HeadAppend
  <1>1. /\ appends' \in Seq(Mutations) /\ step' = "verify"
        /\ reported' \in [Mutations -> {"none", "pending", "ok", "rejected", "lost"}]
        /\ reported' = [reported EXCEPT ![Head(appends)] = how]
        /\ \A i \in 1..Len(appends') : reported'[appends'[i]] = "pending"
        /\ \A i, j \in 1..Len(appends') : i # j => appends'[i] # appends'[j]
    BY ReportFact
  <1>2. ChainTypeOK'
    BY <1>1 DEF ChainTypeOK
  <1>3. Appending'
    BY <1>1 DEF Appending
  <1>4. \A m \in Mutations : m # Head(appends) => reported'[m] = reported[m]
    BY <1>1 DEF ChainTypeOK
  <1>5. reported'[Head(appends)] = how
    BY <1>0, <1>1 DEF ChainTypeOK
  <1>6. Asked'
    <2>1. ASSUME NEW m \in Mutations, Told(m)' PROVE reported'[m] # "none"
      BY <1>4, <1>5, <2>1 DEF Asked
    <2>2. ASSUME NEW m \in Mutations, reported'[m] # "none" PROVE answer'[m] = "ok"
      BY <1>0, <1>4, <2>2 DEF Asked
    <2> QED  BY <2>1, <2>2 DEF Asked
  <1>7. Unedited'
    <2>1. ASSUME edits' = 0, NEW m \in Mutations, reported'[m] = "ok"
          PROVE  Told(m)' \/ LastIsCut(lines')
      <3>1. CASE m = Head(appends)
        BY <1>5, <2>1, <3>1
      <3>2. CASE m # Head(appends)
        BY <1>4, <2>1, <3>2 DEF Unedited
      <3> QED  BY <3>1, <3>2
    <2> QED  BY <1>1, <2>1 DEF Unedited
  <1>8. Edited'
    BY DEF Edited
  <1> QED  BY <1>2, <1>3, <1>6, <1>7, <1>8

-----------------------------------------------------------------------------
LEMMA BrokenNotGood == \A ls : AllGood(ls) => ~ Broken(ls)
  BY DEF AllGood, GoodLine, Broken

LEMMA GoodIsGrown == \A ls : AllGood(ls) => Grown(ls)
  BY DEF AllGood, Grown

LEMMA GrownVerifies == \A ls : Grown(ls) /\ ~ Broken(ls) => AllGood(ls)
  <1> SUFFICES ASSUME NEW ls, Grown(ls), ~ Broken(ls), NEW i \in 1..Len(ls)
               PROVE  GoodLine(ls, i)
    BY DEF AllGood
  <1>1. GoodAt(ls, i) /\ i # 0
    BY DEF Broken
  <1>2. ls[i] # L!Garbage
    BY <1>1, GarbageFact DEF GoodAt
  <1> QED  BY <1>2 DEF Grown

LEMMA GoodNotCut == \A ls : (\E S : ls \in Seq(S)) /\ AllGood(ls) => ~ LastIsCut(ls)
  <1> SUFFICES ASSUME NEW S, NEW ls \in Seq(S), AllGood(ls), LastIsCut(ls) PROVE FALSE
    OBVIOUS
  <1>1. Len(ls) \in 1..Len(ls) /\ Len(ls) # 0
    BY DEF LastIsCut
  <1>2. ls[Len(ls)].seq = Len(ls)
    BY <1>1 DEF AllGood, GoodLine, GoodAt
  <1> QED  BY <1>1, <1>2, GarbageFact DEF LastIsCut

\* An append whose file does not verify, or whose head cannot be read.
LEMMA RefusedKeeps ==
    ASSUME Inv, ChainInv, appends # <<>>, L!Settle("rejected"),
           lines' = lines, terminated' = terminated, tip' = tip, edits' = edits,
           answer' = answer, L!Unharmed' => L!Unharmed
    PROVE  ChainInv'
  <1>1. \A m : Told(m)' <=> Told(m)
    BY DEF Told
  <1>2. \A m \in Mutations : reported'[m] = "ok" <=> reported[m] = "ok"
    <2>1. /\ Head(appends) \in Mutations /\ reported[Head(appends)] = "pending"
          /\ reported' = [reported EXCEPT ![Head(appends)] = "rejected"]
      BY HeadAppend, ReportFact DEF ChainInv
    <2> QED  BY <2>1 DEF ChainInv, ChainTypeOK
  <1>3. Whole'
    BY <1>1, <1>2 DEF ChainInv, Whole
  <1>4. /\ Lines(lines') /\ terminated' \in BOOLEAN /\ (~ terminated' => lines' # <<>>)
        /\ Broken(lines) => Broken(lines')
        /\ edits = 0 => Grown(lines')
    BY DEF ChainInv, ChainTypeOK, Appending, Unedited
  <1>5. /\ \A m \in Mutations : Told(m)' => Told(m) \/ m = Head(appends)
        /\ edits = 0 => \A m \in Mutations : Told(m) => Told(m)' \/ LastIsCut(lines')
        /\ edits = 0 => (LastIsCut(lines) => LastIsCut(lines'))
    BY <1>1
  <1> QED  BY <1>3, <1>4, <1>5, SettledKeeps

LEMMA VerifyKeeps ==
    ASSUME Inv, ChainInv, L!Verify, UNCHANGED state
    PROVE  ChainInv'
  <1>1. /\ appends # <<>> /\ step = "verify"
        /\ lines' = lines /\ terminated' = terminated /\ tip' = tip /\ edits' = edits
        /\ answer' = answer /\ faults' = faults /\ crashes' = crashes
    BY DEF L!Verify, L!file, L!budget, state, head
  <1>2. CASE L!Chained
    <2>1. step' = "head" /\ appends' = appends /\ reported' = reported
      BY <1>2 DEF L!Verify
    <2>2. ~ Broken(lines)
      BY <1>2, VerifiesFact DEF L!Chained
    <2>3. edits = 0 => AllGood(lines)
      BY <2>2, GrownVerifies DEF ChainInv, Unedited
    <2>4. \A m : Told(m)' <=> Told(m)
      BY <1>1 DEF Told
    <2>5. ChainTypeOK' /\ Appending'
      BY <1>1, <2>1 DEF ChainInv, ChainTypeOK, Appending
    <2>6. Asked'
      BY <1>1, <2>1, <2>4 DEF ChainInv, Asked
    <2>7. Unedited' /\ Edited'
      BY <1>1, <2>1, <2>3, <2>4 DEF ChainInv, Unedited, Edited
    <2>8. Whole'
      BY <1>1, <2>1, <2>4 DEF ChainInv, Whole, L!Unharmed
    <2> QED  BY <2>5, <2>6, <2>7, <2>8 DEF ChainInv
  <1>3. CASE ~ L!Chained
    <2>1. L!Settle("rejected")
      BY <1>3 DEF L!Verify
    <2>2. L!Unharmed' => L!Unharmed
      BY <1>1 DEF L!Unharmed
    <2> QED  BY <1>1, <2>1, <2>2, RefusedKeeps
  <1> QED  BY <1>2, <1>3

LEMMA ReadHeadKeeps ==
    ASSUME Inv, ChainInv, L!ReadHead, UNCHANGED state
    PROVE  ChainInv'
  <1>1. /\ appends # <<>> /\ step = "head"
        /\ lines' = lines /\ terminated' = terminated /\ edits' = edits
        /\ answer' = answer /\ faults' = faults /\ crashes' = crashes
    BY DEF L!ReadHead, L!file, L!budget, state, head, ChainInv, Appending
  <1>2. CASE ~ (lines # <<>> /\ L!Last(lines) = L!Garbage)
    <2>1. step' = "write" /\ appends' = appends /\ reported' = reported /\ tip' = L!HeadOf(lines)
      BY <1>2 DEF L!ReadHead
    <2>2. edits = 0 => AllGood(lines)
      BY <1>1 DEF ChainInv, Unedited
    <2>3. tip'.seq \in Nat
      <3>1. CASE lines = <<>>
        BY <2>1, <3>1 DEF L!HeadOf
      <3>2. CASE lines # <<>>
        <4>1. Len(lines) \in 1..Len(lines)
          BY <3>2, LinesFact DEF ChainInv, ChainTypeOK
        <4>2. lines[Len(lines)].seq \in Nat
          BY <4>1 DEF ChainInv, ChainTypeOK, Lines, Line
        <4> QED  BY <2>1, <3>2, <4>2 DEF L!HeadOf, L!Last
      <3> QED  BY <3>1, <3>2
    <2>4. \A m : Told(m)' <=> Told(m)
      BY <1>1 DEF Told
    <2>5. ChainTypeOK' /\ Appending'
      BY <1>1, <2>1, <2>3 DEF ChainInv, ChainTypeOK, Appending
    <2>6. Asked'
      BY <1>1, <2>1, <2>4 DEF ChainInv, Asked
    <2>7. L!HeadOf(lines)' = L!HeadOf(lines)
      BY <1>1
    <2>8. Unedited' /\ Edited'
      BY <1>1, <2>1, <2>2, <2>4, <2>7 DEF ChainInv, Unedited, Edited
    <2>9. Whole'
      BY <1>1, <2>1, <2>4 DEF ChainInv, Whole, L!Unharmed
    <2> QED  BY <2>5, <2>6, <2>8, <2>9 DEF ChainInv
  <1>3. CASE lines # <<>> /\ L!Last(lines) = L!Garbage
    <2>1. L!Settle("rejected") /\ tip' = tip
      BY <1>3 DEF L!ReadHead
    <2>2. L!Unharmed' => L!Unharmed
      BY <1>1 DEF L!Unharmed
    <2> QED  BY <1>1, <2>1, <2>2, RefusedKeeps
  <1> QED  BY <1>2, <1>3

\* The record continues the chain, or runs into a line without its newline.
LEMMA WriteKeeps ==
    ASSUME Inv, ChainInv, L!Write, UNCHANGED state
    PROVE  ChainInv'
  <1> DEFINE r == L!Record(tip, Head(appends))
             n == Len(lines)
  <1>1. /\ appends # <<>> /\ step = "write" /\ L!Settle("ok")
        /\ lines' = L!Written(r) /\ terminated' = TRUE /\ tip' = tip /\ edits' = edits
        /\ answer' = answer /\ faults' = faults /\ crashes' = crashes
    BY DEF L!Write, L!budget, state, head, ChainInv, Appending
  <1>2. /\ Lines(lines') /\ (lines' = lines \/ lines' # <<>>)
        /\ \A m \in Mutations : Told(m)' => Told(m) \/ m = Head(appends)
        /\ Broken(lines) => Broken(lines')
        /\ edits = 0 => Grown(lines')
        /\ edits = 0 => \A m \in Mutations : Told(m) => Told(m)' \/ LastIsCut(lines')
    BY <1>1, WroteFact DEF Wrote, ChainInv
  <1>3. edits = 0 => ~ LastIsCut(lines)
    BY <1>1, GoodNotCut DEF ChainInv, Unedited, ChainTypeOK, Lines
  <1>4. /\ Head(appends) \in Mutations /\ reported[Head(appends)] = "pending"
        /\ Lines(lines) /\ n \in Nat /\ (lines # <<>> <=> n > 0) /\ tip.seq \in Nat
    BY <1>1, HeadAppend, LinesFact DEF ChainInv, ChainTypeOK
  <1>5. Line(r) /\ r.body = Head(appends)
    BY <1>4, RecordFact
  <1>6. ASSUME terminated
        PROVE  /\ lines' = Append(lines, r) /\ Len(lines') = n + 1 /\ lines'[n + 1] = r
               /\ \A i \in 1..n : lines'[i] = lines[i]
    <2>1. lines' = Append(lines, r)
      BY <1>1, <1>6 DEF L!Written
    <2> HIDE DEF r
    <2> QED  BY <1>4, <1>5, <2>1, AppendLine
  <1>7. CASE terminated
    <2>1. n + 1 \in 1..Len(lines') /\ lines'[n + 1].body = Head(appends)
      BY <1>4, <1>5, <1>6, <1>7
    <2>2. \A m \in Mutations : m = Head(appends) => Told(m)'
      BY <2>1 DEF Told
    <2>3. Whole'
      <3>1. SUFFICES ASSUME L!Unharmed' PROVE Whole'
        BY DEF Whole
      <3>2. L!Unharmed /\ edits = 0
        BY <1>1, <3>1 DEF L!Unharmed
      <3>3. AllGood(lines) /\ \A i \in 1..n : GoodLine(lines, i)
        BY <3>2 DEF ChainInv, Whole, AllGood
      <3>4. AllGood(lines')
        <4>1. Grown(lines')
          BY <1>2, <3>2
        <4>2. GoodLine(lines', n + 1)
          BY <1>1, <1>4, <1>6, <1>7, <3>2, RecordContinues DEF ChainInv
        <4>3. \A i \in 1..n : GoodLine(lines', i)
          <5>1. ASSUME NEW i \in 1..n PROVE GoodAt(lines', i) <=> GoodAt(lines, i)
            <6>1. i \in Nat /\ (i # 1 => i - 1 \in 1..n)
              BY <1>4
            <6> QED  BY <1>6, <1>7, <6>1, SamePrefix
          <5> QED  BY <1>6, <1>7, <3>3, <5>1 DEF GoodLine
        <4>4. \A i \in 1..Len(lines') : i \in 1..n \/ i = n + 1
          BY <1>4, <1>6, <1>7
        <4> QED  BY <4>2, <4>3, <4>4 DEF AllGood
      <3>5. /\ reported'[Head(appends)] = "ok"
            /\ \A m \in Mutations : m # Head(appends) => reported'[m] = reported[m]
        BY <1>1, <1>4, ReportFact DEF ChainInv, ChainTypeOK
      <3>6. \A m \in Mutations : Told(m)' => reported'[m] = "ok"
        BY <1>2, <3>2, <3>5 DEF ChainInv, Whole
      <3>7. ~ Told(Head(appends))
        BY <1>4, <3>2 DEF ChainInv, Whole
      <3>8. ASSUME NEW i \in 1..n PROVE lines'[i].body # Head(appends) /\ lines'[i] = lines[i]
        BY <1>6, <1>7, <3>7 DEF Told
      <3>9. ASSUME NEW i \in 1..Len(lines'), NEW j \in 1..Len(lines'),
                   lines'[i].body = lines'[j].body
            PROVE  i = j
        <4>1. (i \in 1..n \/ i = n + 1) /\ (j \in 1..n \/ j = n + 1)
          BY <1>4, <1>6, <1>7
        <4>2. CASE i \in 1..n /\ j \in 1..n
          BY <3>2, <3>8, <3>9, <4>2 DEF ChainInv, Whole
        <4>3. CASE i = n + 1 /\ j = n + 1
          BY <4>3
        <4>4. CASE i = n + 1 /\ j \in 1..n
          BY <2>1, <3>8, <3>9, <4>4
        <4>5. CASE i \in 1..n /\ j = n + 1
          BY <2>1, <3>8, <3>9, <4>5
        <4> QED  BY <4>1, <4>2, <4>3, <4>4, <4>5
      <3> QED  BY <1>1, <3>4, <3>6, <3>9 DEF Whole
    <2>4. lines' # <<>>
      BY <1>4, <1>6, <1>7, AppendLine, <1>5
    <2> HIDE DEF r, n
    <2> QED  BY <1>1, <1>2, <1>3, <2>2, <2>3, SettledKeeps
  <1>8. CASE ~ terminated
    <2>1. LastIsCut(lines')
      <3>1. n \in 1..n
        BY <1>4, <1>8 DEF ChainInv, Appending
      <3>2. lines' = [lines EXCEPT ![n] = L!Garbage]
        BY <1>1, <1>8 DEF L!Written
      <3>3. Len(lines') = n /\ lines'[n] = L!Garbage /\ lines' # <<>>
        BY <1>4, <3>1, <3>2, GarbageFact, ReplaceLine
      <3> QED  BY <3>3 DEF LastIsCut
    <2>2. Whole'
      <3>1. ~ L!Unharmed
        BY <1>8 DEF ChainInv, Whole
      <3>2. ~ L!Unharmed'
        BY <1>1, <3>1 DEF L!Unharmed
      <3> QED  BY <3>2 DEF Whole
    <2> HIDE DEF r, n
    <2> QED  BY <1>1, <1>2, <2>1, <2>2, SettledKeeps
  <1> QED  BY <1>7, <1>8

-----------------------------------------------------------------------------
LEMMA CutShortFact ==
    ASSUME L!CutShort, ChainInv, step = "write"
    PROVE  /\ Wrote /\ terminated' \in BOOLEAN
           /\ (lines' = lines /\ terminated' = terminated) \/ lines' # <<>>
  <1>1. (lines' = lines /\ terminated' = terminated)
        \/ (Wrote /\ terminated' \in BOOLEAN
            /\ \E l \in {L!Record(tip, Head(appends)), L!Garbage} : lines' = L!Written(l))
    BY DEF L!CutShort, L!file, Wrote
  <1>2. terminated \in BOOLEAN /\ tip.seq \in Nat /\ Lines(lines) /\ Head(appends) \in Mutations
    BY HeadAppend DEF ChainInv, ChainTypeOK, Appending
  <1>3. ASSUME NEW l \in {L!Record(tip, Head(appends)), L!Garbage}
        PROVE  L!Written(l) # <<>>
    <2>1. Line(l)
      BY <1>2, <1>3, RecordFact, GarbageFact
    <2>2. CASE terminated
      BY <1>2, <2>1, <2>2, AppendLine DEF L!Written
    <2>3. CASE ~ terminated
      <3>1. Len(lines) \in 1..Len(lines)
        BY <1>2, <2>3, LinesFact DEF ChainInv, Appending
      <3>2. [lines EXCEPT ![Len(lines)] = L!Garbage] # <<>>
        BY <1>2, <3>1, GarbageFact, ReplaceLine
      <3> QED  BY <2>3, <3>2 DEF L!Written
    <2> QED  BY <1>2, <2>2, <2>3
  <1> QED  BY <1>1, <1>2, <1>3 DEF Wrote

LEMMA WriteFailsKeeps ==
    ASSUME Inv, ChainInv, L!WriteFails, UNCHANGED state
    PROVE  ChainInv'
  <1>1. /\ appends # <<>> /\ step = "write" /\ L!Settle("rejected") /\ L!CutShort
        /\ tip' = tip /\ edits' = edits /\ answer' = answer /\ faults' = faults + 1
    BY DEF L!WriteFails, state, head, ChainInv, Appending
  <1>2. /\ Wrote /\ terminated' \in BOOLEAN
        /\ (lines' = lines /\ terminated' = terminated) \/ lines' # <<>>
    BY <1>1, CutShortFact
  <1>3. /\ Lines(lines')
        /\ \A m \in Mutations : Told(m)' => Told(m) \/ m = Head(appends)
        /\ Broken(lines) => Broken(lines')
        /\ edits = 0 => Grown(lines')
        /\ edits = 0 => \A m \in Mutations : Told(m) => Told(m)' \/ LastIsCut(lines')
    BY <1>1, <1>2, WroteFact DEF ChainInv
  <1>4. edits = 0 => ~ LastIsCut(lines)
    BY <1>1, GoodNotCut DEF ChainInv, Unedited, ChainTypeOK, Lines
  <1>5. ~ terminated' => lines' # <<>>
    BY <1>2 DEF ChainInv, Appending
  <1>6. Whole'
    <2>1. faults' # 0
      BY <1>1 DEF Inv, TypeOK
    <2> QED  BY <2>1 DEF Whole, L!Unharmed
  <1> QED  BY <1>1, <1>2, <1>3, <1>4, <1>5, <1>6, SettledKeeps

LEMMA RestartKeeps ==
    ASSUME Inv, ChainInv, Restart, L!Restart
    PROVE  ChainInv'
  <1>1. /\ crashes' = crashes + 1 /\ tip' = tip /\ edits' = edits
        /\ appends' = <<>> /\ step' = "verify"
        /\ reported' = [m \in Mutations |-> IF reported[m] = "pending" THEN "lost"
                                            ELSE reported[m]]
    BY DEF L!Restart
  <1>2. /\ Lines(lines') /\ terminated' \in BOOLEAN /\ (~ terminated' => lines' # <<>>)
        /\ \A m \in Mutations : Told(m)' => Told(m) \/ reported[m] = "pending"
        /\ Broken(lines) => Broken(lines')
        /\ edits = 0 => Grown(lines')
        /\ edits = 0 => \A m \in Mutations :
                           Told(m) \/ LastIsCut(lines) => Told(m)' \/ LastIsCut(lines')
    <2>1. CASE step = "write"
      <3>1. L!CutShort
        BY <2>1 DEF L!Restart
      <3>2. /\ Wrote /\ terminated' \in BOOLEAN
            /\ (lines' = lines /\ terminated' = terminated) \/ lines' # <<>>
        BY <2>1, <3>1, CutShortFact
      <3>3. /\ Lines(lines')
            /\ \A m \in Mutations : Told(m)' => Told(m) \/ m = Head(appends)
            /\ Broken(lines) => Broken(lines')
            /\ edits = 0 => Grown(lines')
            /\ edits = 0 => \A m \in Mutations : Told(m) => Told(m)' \/ LastIsCut(lines')
        BY <2>1, <3>2, WroteFact DEF ChainInv
      <3>4. edits = 0 => ~ LastIsCut(lines)
        BY <2>1, GoodNotCut DEF ChainInv, Unedited, ChainTypeOK, Lines
      <3>5. ~ terminated' => lines' # <<>>
        BY <3>2 DEF ChainInv, Appending
      <3>6. reported[Head(appends)] = "pending"
        BY <2>1, HeadAppend DEF ChainInv, Appending
      <3> QED  BY <3>2, <3>3, <3>4, <3>5, <3>6
    <2>2. CASE step # "write"
      <3>1. lines' = lines /\ terminated' = terminated
        BY <2>2 DEF L!Restart, L!file
      <3>2. \A m : Told(m)' <=> Told(m)
        BY <3>1 DEF Told
      <3> QED  BY <3>1, <3>2 DEF ChainInv, ChainTypeOK, Appending, Unedited
    <2> QED  BY <2>1, <2>2
  <1>3. \A m \in Mutations : /\ reported'[m] = "none" <=> reported[m] = "none"
                             /\ reported'[m] = "ok" <=> reported[m] = "ok"
    BY <1>1
  <1>4. ChainTypeOK'
    <2>1. ASSUME NEW m \in Mutations
          PROVE  (IF reported[m] = "pending" THEN "lost" ELSE reported[m])
                    \in {"none", "pending", "ok", "rejected", "lost"}
      BY DEF ChainInv, ChainTypeOK
    <2>2. reported' \in [Mutations -> {"none", "pending", "ok", "rejected", "lost"}]
      BY <1>1, <2>1
    <2>3. tip'.seq \in Nat /\ edits' \in Nat /\ appends' \in Seq(Mutations)
      BY <1>1 DEF ChainInv, ChainTypeOK
    <2> QED  BY <1>1, <1>2, <2>2, <2>3 DEF ChainTypeOK
  <1>5. Appending'
    BY <1>1, <1>2 DEF Appending
  <1>6. Asked'
    <2>1. \A m \in Mutations : answer[m] = "ok" => answer'[m] = "ok"
      BY DEF Restart, Inv, TypeOK
    <2> QED  BY <1>2, <1>3, <2>1 DEF ChainInv, Asked
  <1>7. Unedited'
    BY <1>1, <1>2, <1>3 DEF ChainInv, Unedited
  <1>8. Edited'
    BY <1>1, <1>2 DEF ChainInv, Edited
  <1>9. Whole'
    <2>1. crashes' # 0
      BY <1>1 DEF Inv, TypeOK
    <2> QED  BY <2>1 DEF Whole, L!Unharmed
  <1> QED  BY <1>4, <1>5, <1>6, <1>7, <1>8, <1>9 DEF ChainInv

LEMMA EditKeeps ==
    ASSUME Inv, ChainInv, L!Edit, UNCHANGED state
    PROVE  ChainInv'
  <1>1. /\ edits' = edits + 1 /\ terminated' = TRUE
        /\ appends' = appends /\ step' = step /\ tip' = tip /\ reported' = reported
        /\ answer' = answer
        /\ \E i, j \in 1..Len(lines) : EditOf(lines, lines', i, j)
    BY DEF L!Edit, EditOf, state, head
  <1>2. PICK i \in 1..Len(lines), j \in 1..Len(lines) : EditOf(lines, lines', i, j)
    BY <1>1
  <1>3. /\ Lines(lines')
        /\ \A k \in 1..Len(lines') : lines'[k].body = Forged
                                     \/ \E q \in 1..Len(lines) : lines'[k].body = lines[q].body
        /\ Grown(lines) => Broken(lines')
    <2>1. Lines(lines)
      BY DEF ChainInv, ChainTypeOK
    <2> QED  BY <1>2, <2>1, EditBreaks
  <1>4. edits \in Nat /\ edits' # 0 /\ (edits' = 1 => edits = 0)
    BY <1>1 DEF ChainInv, ChainTypeOK
  <1>5. ChainTypeOK' /\ Appending'
    BY <1>1, <1>3, <1>4 DEF ChainInv, ChainTypeOK, Appending
  <1>6. ASSUME NEW m \in Mutations, Told(m)' PROVE Told(m)
    <2>1. PICK k \in 1..Len(lines') : lines'[k].body = m
      BY <1>6 DEF Told
    <2> QED  BY <1>3, <2>1, Payloads DEF Told
  <1>7. Asked'
    BY <1>1, <1>6 DEF ChainInv, Asked
  <1>8. Unedited' /\ Edited' /\ Whole'
    BY <1>3, <1>4 DEF ChainInv, Unedited, Edited, Whole, L!Unharmed
  <1> QED  BY <1>5, <1>7, <1>8 DEF ChainInv

-----------------------------------------------------------------------------
LEMMA StateStepIsNext == StateStep => Next
  BY DEF StateStep, Next

LEMMA AuditedInitInv == AuditedInit => AuditedInv
  <1> SUFFICES ASSUME AuditedInit PROVE AuditedInv
    OBVIOUS
  <1>1. Inv
    BY InitInv DEF AuditedInit
  <1>2. /\ lines = <<>> /\ terminated = TRUE /\ appends = <<>> /\ step = "verify"
        /\ tip = [seq |-> 0, hash |-> L!Genesis]
        /\ reported = [m \in Mutations |-> "none"]
        /\ edits = 0 /\ answer = [m \in Mutations |-> "none"]
    BY DEF AuditedInit, L!Init, Init
  <1>3. lines \in Seq({}) /\ appends \in Seq(Mutations) /\ Len(lines) = 0 /\ Len(appends) = 0
    BY <1>2
  <1>4. ChainTypeOK
    BY <1>2, <1>3 DEF ChainTypeOK, Lines
  <1>5. Appending
    BY <1>2, <1>3 DEF Appending
  <1>6. \A m \in Mutations : ~ Told(m) /\ reported[m] = "none" /\ answer[m] = "none"
    <2>1. 1..Len(lines) = {}
      BY <1>3
    <2> QED  BY <1>2, <2>1 DEF Told
  <1>7. Asked /\ Kept
    BY <1>6 DEF Asked, Kept, ResolvedStay
  <1>8. Grown(lines) /\ AllGood(lines)
    BY <1>3 DEF Grown, AllGood
  <1>9. Unedited /\ Edited
    BY <1>2, <1>6, <1>8 DEF Unedited, Edited
  <1>10. Whole
    BY <1>2, <1>3, <1>6, <1>8 DEF Whole
  <1> QED  BY <1>1, <1>4, <1>5, <1>7, <1>9, <1>10 DEF AuditedInv, ChainInv

\* Every step keeps the invariant of the two files.
LEMMA AuditedNextInv == AuditedInv /\ [AuditedNext]_all => AuditedInv'
  <1> SUFFICES ASSUME Inv, Kept, ChainInv, [AuditedNext]_all PROVE AuditedInv'
    BY DEF AuditedInv
  <1>1. ASSUME [Next]_vars, UNCHANGED chain PROVE AuditedInv'
    BY <1>1, NextInv, KeptStep, StateKeepsChain DEF AuditedInv
  <1>2. CASE StateStep /\ UNCHANGED chain
    BY <1>1, <1>2, StateStepIsNext
  <1>3. ASSUME UNCHANGED state, faults' \in Nat, crashes' \in Nat PROVE Inv' /\ Kept'
    <2>1. /\ file' = file /\ loaded' = loaded /\ data' = data /\ load' = load /\ raw' = raw
          /\ queue' = queue /\ phase' = phase /\ draft' = draft /\ answer' = answer
          /\ overwrites' = overwrites
      BY <1>3 DEF state, cache, loads, head
    <2>2. TypeOK'
      BY <1>3, <2>1 DEF Inv, TypeOK
    <2>3. HeadOnly' /\ Waiting' /\ Opened' /\ Cached' /\ Kept'
      BY <2>1 DEF Inv, HeadOnly, Waiting, Opened, Cached, Kept, ResolvedStay
    <2> QED  BY <2>2, <2>3 DEF Inv
  <1>4. faults \in Nat /\ crashes \in Nat
    BY DEF Inv, TypeOK
  <1>5. ASSUME NEW m \in Mutations, AppendEvent(m) PROVE AuditedInv'
    <2>1. UNCHANGED state /\ faults' = faults /\ crashes' = crashes
      BY <1>5 DEF AppendEvent, L!AppendEvent, L!budget
    <2> QED  BY <1>3, <1>4, <1>5, <2>1, AppendEventKeeps DEF AuditedInv
  <1>6. CASE ChainStep /\ UNCHANGED state
    <2>1. faults' = faults /\ crashes' = crashes
      BY <1>6 DEF ChainStep, L!Verify, L!ReadHead, L!Write, L!budget
    <2>2. ChainInv'
      BY <1>6, VerifyKeeps, ReadHeadKeeps, WriteKeeps DEF ChainStep
    <2> QED  BY <1>3, <1>4, <1>6, <2>1, <2>2 DEF AuditedInv
  <1>7. CASE L!WriteFails /\ UNCHANGED state
    <2>1. faults' = faults + 1 /\ crashes' = crashes
      BY <1>7 DEF L!WriteFails
    <2> QED  BY <1>3, <1>4, <1>7, <2>1, WriteFailsKeeps DEF AuditedInv
  <1>8. CASE L!Edit /\ UNCHANGED state
    <2>1. faults' = faults /\ crashes' = crashes
      BY <1>8 DEF L!Edit
    <2> QED  BY <1>3, <1>4, <1>8, <2>1, EditKeeps DEF AuditedInv
  <1>9. CASE Restart /\ L!Restart
    <2>1. Next
      BY <1>9 DEF Next
    <2> QED  BY <1>9, <2>1, NextInv, KeptStep, RestartKeeps DEF AuditedInv
  <1>10. CASE UNCHANGED all
    BY <1>1, <1>10 DEF all
  <1> QED  BY <1>2, <1>5, <1>6, <1>7, <1>8, <1>9, <1>10 DEF AuditedNext

-----------------------------------------------------------------------------
\* The types of the two files and of their queues.
THEOREM AuditedTypes == AuditedSpec => [](TypeOK /\ ChainTypeOK)
  <1>1. AuditedInv => TypeOK /\ ChainTypeOK
    BY DEF AuditedInv, Inv, ChainInv
  <1> QED  BY <1>1, AuditedInitInv, AuditedNextInv, PTL DEF AuditedSpec

\* INV-15, for the one edit between two checks of the chain, whichever append it falls
\* into: verifyChain finds a broken line; and without an edit, a failed write or a
\* restart it finds none, and the chain has each resolved append once.
THEOREM EditIsDetected == AuditedSpec => []ChainEditDetected
  <1>1. ASSUME AuditedInv PROVE ChainEditDetected
    <2>1. L!EditDetected
      BY <1>1, VerifiesFact DEF AuditedInv, ChainInv, Edited, L!EditDetected
    <2>2. L!IntactIfUnedited
      <3> SUFFICES ASSUME L!Unharmed
                   PROVE  /\ L!Verifies(lines)
                          /\ \A e \in Mutations :
                                reported[e] = "ok" <=> \E i \in 1..Len(lines) : lines[i].body = e
                          /\ \A i, j \in 1..Len(lines) : lines[i].body = lines[j].body => i = j
        BY DEF L!IntactIfUnedited
      <3>1. /\ AllGood(lines) /\ edits = 0
            /\ \A m \in Mutations : Told(m) => reported[m] = "ok"
            /\ \A i, j \in 1..Len(lines) : lines[i].body = lines[j].body => i = j
        BY <1>1 DEF AuditedInv, ChainInv, Whole, L!Unharmed
      <3>2. L!Verifies(lines)
        BY <3>1, BrokenNotGood, VerifiesFact
      <3>3. ~ LastIsCut(lines)
        BY <1>1, <3>1, GoodNotCut DEF AuditedInv, ChainInv, ChainTypeOK, Lines
      <3>4. \A m \in Mutations : reported[m] = "ok" => Told(m)
        BY <1>1, <3>1, <3>3 DEF AuditedInv, ChainInv, Unedited
      <3> QED  BY <3>1, <3>2, <3>4 DEF Told
    <2> QED  BY <2>1, <2>2 DEF ChainEditDetected
  <1> QED  BY <1>1, AuditedInitInv, AuditedNextInv, PTL DEF AuditedSpec

\* What the governance chain tells is in the state's file, as long as no load put an
\* older state back; a chain that verifies has every event whose append resolved.
THEOREM ChainTells == AuditedSpec => []ChainTellsState
  <1>1. ASSUME AuditedInv PROVE ChainTellsState
    <2>1. ASSUME NEW m \in Mutations, Told(m), overwrites = 0 PROVE Changed(m)
      BY <1>1, <2>1 DEF AuditedInv, ChainInv, Asked, Kept, ResolvedStay, Changed
    <2>2. ASSUME NEW m \in Mutations, reported[m] = "ok", edits <= 1, L!Verifies(lines)
          PROVE  Told(m)
      <3>1. ~ Broken(lines)
        BY <2>2, VerifiesFact
      <3>2. edits = 0
        BY <1>1, <2>2, <3>1 DEF AuditedInv, ChainInv, ChainTypeOK, Edited
      <3>3. AllGood(lines)
        BY <1>1, <3>1, <3>2, GrownVerifies DEF AuditedInv, ChainInv, Unedited
      <3>4. ~ LastIsCut(lines)
        BY <1>1, <3>3, GoodNotCut DEF AuditedInv, ChainInv, ChainTypeOK, Lines
      <3> QED  BY <1>1, <2>2, <3>2, <3>4 DEF AuditedInv, ChainInv, Unedited
    <2> QED  BY <2>1, <2>2 DEF ChainTellsState
  <1> QED  BY <1>1, AuditedInitInv, AuditedNextInv, PTL DEF AuditedSpec

\* The JSON state implements its log beside the chain, too.
THEOREM AuditedStateIsLog == AuditedSpec => ImplementsLog
  <1>1. AuditedInit => Log!Init
    <2> SUFFICES ASSUME Init PROVE Log!Init
      BY DEF AuditedInit
    <2>1. Published = <<>> /\ queue = <<>>
      BY DEF Init, Published
    <2>2. {m \in Mutations : answer[m] = "ok"} = {}
      BY DEF Init
    <2> QED  BY <2>1, <2>2 DEF Log!Init
  <1>2. ASSUME AuditedInv, [AuditedNext]_all, overwrites' = 0, crashes' = crashes
        PROVE  [Log!Next]_Log!vars
    <2>1. ASSUME [Next]_vars PROVE [Log!Next]_Log!vars
      BY <1>2, <2>1, StepIsLog DEF AuditedInv
    <2>2. ASSUME UNCHANGED state PROVE [Log!Next]_Log!vars
      BY <2>2, Untouched DEF state, head, Published
    <2>3. ASSUME NEW m \in Mutations, AppendEvent(m) PROVE UNCHANGED state
      BY <2>3 DEF AppendEvent
    <2>4. Restart => Next
      BY DEF Next
    <2> QED  BY <1>2, <2>1, <2>2, <2>3, <2>4, StateStepIsNext DEF AuditedNext, all
  <1> QED  BY <1>1, <1>2, AuditedInitInv, AuditedNextInv, PTL DEF AuditedSpec, ImplementsLog

-----------------------------------------------------------------------------
LEMMA ChainUntouched ==
    ASSUME lines' = lines, appends' = appends, reported' = reported
    PROVE  [L!Log!Next]_L!Log!vars
  BY DEF L!Log!vars, L!Bodies

\* The payloads of a longer chain.
LEMMA BodiesFact ==
    ASSUME NEW ls, Lines(ls), NEW lt, NEW m \in Mutations, Len(lt) = Len(ls) + 1,
           lt[Len(ls) + 1].body = m, \A i \in 1..Len(ls) : lt[i] = ls[i]
    PROVE  L!Bodies(lt) = Append(L!Bodies(ls), m)
  <1> DEFINE B == Mutations \cup {Forged, None}
             n == Len(ls)
             s == Append(L!Bodies(ls), m)
  <1>1. n \in Nat /\ \A i \in 1..n : ls[i].body \in B
    BY LinesFact DEF Lines, Line
  <1>2. L!Bodies(ls) \in Seq(B) /\ Len(L!Bodies(ls)) = n
        /\ \A i \in 1..n : L!Bodies(ls)[i] = ls[i].body
    BY <1>1 DEF L!Bodies
  <1>3. m \in B
    OBVIOUS
  <1> HIDE DEF B
  <1>4. s \in Seq(B) /\ Len(s) = n + 1 /\ s[n + 1] = m /\ \A i \in 1..n : s[i] = ls[i].body
    BY <1>1, <1>2, <1>3
  <1>5. ASSUME NEW i \in 1..(n + 1) PROVE lt[i].body = s[i] /\ lt[i].body \in B
    <2>1. i \in 1..n \/ i = n + 1
      BY <1>1
    <2> HIDE DEF s, n
    <2> QED  BY <1>1, <1>3, <1>4, <2>1 DEF n
  <1>6. L!Bodies(lt) \in Seq(B) /\ Len(L!Bodies(lt)) = n + 1
        /\ \A i \in 1..(n + 1) : L!Bodies(lt)[i] = lt[i].body
    BY <1>1, <1>5 DEF L!Bodies
  <1> HIDE DEF s
  <1>7. L!Bodies(lt) = s
    BY <1>4, <1>5, <1>6, SeqEqual
  <1> QED  BY <1>7 DEF s

LEMMA ChainStepIsLog ==
    ASSUME AuditedInv, [AuditedNext]_all, L!Unharmed'
    PROVE  [L!Log!Next]_L!Log!vars
  <1>0. edits \in Nat /\ faults \in Nat /\ crashes \in Nat
    BY DEF AuditedInv, ChainInv, ChainTypeOK, Inv, TypeOK
  <1>1. CASE StateStep /\ UNCHANGED chain
    BY <1>1, ChainUntouched DEF chain
  <1>2. ASSUME NEW m \in Mutations, AppendEvent(m) PROVE [L!Log!Next]_L!Log!vars
    <2>1. /\ reported[m] = "none" /\ reported' = [reported EXCEPT ![m] = "pending"]
          /\ appends' = Append(appends, m) /\ lines' = lines
      BY <1>2 DEF AppendEvent, L!AppendEvent, L!file
    <2>2. {n \in Mutations : reported'[n] = "ok"} = {n \in Mutations : reported[n] = "ok"}
      BY <2>1 DEF AuditedInv, ChainInv, ChainTypeOK
    <2>3. L!Bodies(lines)' = L!Bodies(lines)
      BY <2>1 DEF L!Bodies
    <2>4. L!Log!Submit(m)
      BY <2>1, <2>2, <2>3 DEF L!Log!Submit
    <2> QED  BY <2>4 DEF L!Log!Next
  <1>3. ASSUME L!Settle("rejected"), appends # <<>>, lines' = lines
        PROVE  [L!Log!Next]_L!Log!vars
    <2>1. /\ appends' = Tail(appends)
          /\ reported' = [reported EXCEPT ![Head(appends)] = "rejected"]
          /\ reported[Head(appends)] = "pending"
      BY <1>3, HeadAppend DEF L!Settle, AuditedInv, ChainInv
    <2>2. {n \in Mutations : reported'[n] = "ok"} = {n \in Mutations : reported[n] = "ok"}
      BY <2>1 DEF AuditedInv, ChainInv, ChainTypeOK
    <2>3. L!Bodies(lines)' = L!Bodies(lines)
      BY <1>3 DEF L!Bodies
    <2>4. L!Log!Reject
      BY <1>3, <2>1, <2>2, <2>3 DEF L!Log!Reject
    <2> QED  BY <2>4 DEF L!Log!Next
  <1>4. CASE L!Verify
    <2>1. appends # <<>> /\ lines' = lines
      BY <1>4 DEF L!Verify, L!file
    <2>2. CASE L!Chained
      BY <1>4, <2>1, <2>2, ChainUntouched DEF L!Verify
    <2>3. CASE ~ L!Chained
      BY <1>3, <1>4, <2>1, <2>3 DEF L!Verify
    <2> QED  BY <2>2, <2>3
  <1>5. CASE L!ReadHead
    <2>1. appends # <<>> /\ lines' = lines
      BY <1>5 DEF L!ReadHead, L!file, AuditedInv, ChainInv, Appending
    <2>2. CASE lines # <<>> /\ L!Last(lines) = L!Garbage
      BY <1>3, <1>5, <2>1, <2>2 DEF L!ReadHead
    <2>3. CASE ~ (lines # <<>> /\ L!Last(lines) = L!Garbage)
      BY <1>5, <2>1, <2>3, ChainUntouched DEF L!ReadHead
    <2> QED  BY <2>2, <2>3
  <1>6. CASE L!Write /\ UNCHANGED state
    <2>1. /\ appends # <<>> /\ step = "write" /\ L!Settle("ok")
          /\ lines' = L!Written(L!Record(tip, Head(appends)))
          /\ edits' = edits /\ faults' = faults /\ crashes' = crashes
      BY <1>6 DEF L!Write, L!budget, AuditedInv, ChainInv, Appending
    <2>2. L!Unharmed /\ terminated
      BY <2>1 DEF L!Unharmed, AuditedInv, ChainInv, Whole
    <2>3. /\ Head(appends) \in Mutations /\ reported[Head(appends)] = "pending"
          /\ Lines(lines) /\ tip.seq \in Nat
      BY <2>1, HeadAppend DEF AuditedInv, ChainInv, ChainTypeOK
    <2>4. lines' = Append(lines, L!Record(tip, Head(appends)))
      BY <2>1, <2>2 DEF L!Written
    <2>5. Line(L!Record(tip, Head(appends))) /\ L!Record(tip, Head(appends)).body = Head(appends)
      BY <2>3, RecordFact
    <2>6. /\ Len(lines') = Len(lines) + 1 /\ lines'[Len(lines) + 1].body = Head(appends)
          /\ \A i \in 1..Len(lines) : lines'[i] = lines[i]
      BY <2>3, <2>4, <2>5, AppendLine
    <2>7. L!Bodies(lines') = Append(L!Bodies(lines), Head(appends))
      BY <2>3, <2>6, BodiesFact
    <2>8. /\ appends' = Tail(appends)
          /\ reported' = [reported EXCEPT ![Head(appends)] = "ok"]
      BY <2>1 DEF L!Settle
    <2>9. {n \in Mutations : reported'[n] = "ok"}
            = {n \in Mutations : reported[n] = "ok"} \cup {Head(appends)}
      BY <2>3, <2>8 DEF AuditedInv, ChainInv, ChainTypeOK
    <2>10. L!Bodies(lines)' = L!Bodies(lines')
      BY DEF L!Bodies
    <2>11. L!Log!Accept
      BY <2>1, <2>7, <2>8, <2>9, <2>10 DEF L!Log!Accept
    <2> QED  BY <2>11 DEF L!Log!Next
  <1>7. ASSUME L!WriteFails \/ L!Edit \/ L!Restart PROVE FALSE
    BY <1>0, <1>7 DEF L!WriteFails, L!Edit, L!Restart, L!Unharmed
  <1>8. CASE UNCHANGED all
    BY <1>8, ChainUntouched DEF all, chain
  <1> QED  BY <1>1, <1>2, <1>4, <1>5, <1>6, <1>7, <1>8 DEF AuditedNext, ChainStep

\* Until an edit, a failed write or a restart the chain implements the append-only log
\* of the requests that resolved, in the order of their queue.
THEOREM ChainIsLog == AuditedSpec => ChainImplementsLog
  <1>1. AuditedInit => L!Log!Init
    <2> SUFFICES ASSUME L!Init PROVE L!Log!Init
      BY DEF AuditedInit
    <2>1. lines = <<>> /\ appends = <<>> /\ reported = [m \in Mutations |-> "none"]
      BY DEF L!Init
    <2>2. L!Bodies(lines) = <<>>
      BY <2>1 DEF L!Bodies
    <2>3. {m \in Mutations : reported[m] = "ok"} = {}
      BY <2>1
    <2> QED  BY <2>1, <2>2, <2>3 DEF L!Log!Init
  <1>2. AuditedInv /\ [AuditedNext]_all => (L!Unharmed' => [L!Log!Next]_L!Log!vars)
    BY ChainStepIsLog
  <1> QED
    BY <1>1, <1>2, AuditedInitInv, AuditedNextInv, PTL
    DEF AuditedSpec, ChainImplementsLog, L!ImplementsLog
=============================================================================
