------------------------------- MODULE PageProofs -------------------------------
(***************************************************************************)
(* For any set of Agents and tabs and any number of runs, clicks, faults   *)
(* and reordered answers: what the page and its drawer show is what was    *)
(* selected, and once the page is at rest it tells the truth.              *)
(***************************************************************************)
EXTENDS Page, FiniteSetTheorems, FunctionTheorems, SequenceTheorems,
        WellFoundedInduction, TLAPS

-----------------------------------------------------------------------------
(* Queues.                                                                 *)

Skip(i, k) == IF k < i THEN k ELSE k + 1

LEMMA Removed ==
    ASSUME NEW X, NEW s \in Seq(X), NEW i \in 1..Len(s)
    PROVE  /\ RemoveAt(s, i) \in Seq(X)
           /\ Len(s) - 1 \in Nat /\ Len(RemoveAt(s, i)) = Len(s) - 1
           /\ \A k \in 1..(Len(s) - 1) :
                 /\ Skip(i, k) \in 1..Len(s) /\ Skip(i, k) # i
                 /\ RemoveAt(s, i)[k] = s[Skip(i, k)]
<1>1. PICK n \in Nat : n = Len(s) /\ i \in 1..n
  OBVIOUS
<1>2. PICK a : a = SubSeq(s, 1, i - 1)
  OBVIOUS
<1>3. PICK b : b = SubSeq(s, i + 1, n)
  OBVIOUS
<1>4. a \in Seq(X) /\ Len(a) = i - 1 /\ \A k \in 1..(i - 1) : a[k] = s[k]
  BY <1>1, <1>2
<1>5. b \in Seq(X) /\ Len(b) = n - i /\ \A k \in 1..(n - i) : b[k] = s[i + k]
  BY <1>1, <1>3
<1>6. RemoveAt(s, i) = a \o b
  BY <1>1, <1>2, <1>3 DEF RemoveAt
<1>7. a \o b \in Seq(X) /\ Len(a \o b) = n - 1
  BY <1>1, <1>4, <1>5
<1>8. ASSUME NEW k \in 1..(n - 1)
      PROVE  (a \o b)[k] = s[Skip(i, k)] /\ Skip(i, k) \in 1..n /\ Skip(i, k) # i
  <2>1. CASE k < i
    BY <1>1, <1>4, <1>5, <2>1 DEF Skip
  <2>2. CASE ~ (k < i)
    <3>1. k - (i - 1) \in 1..(n - i) /\ i + (k - (i - 1)) = k + 1
      BY <1>1, <2>2
    <3>2. (a \o b)[k] = b[k - (i - 1)]
      BY <1>1, <1>4, <1>5, <2>2
    <3> QED
      BY <1>1, <1>5, <2>2, <3>1, <3>2 DEF Skip
  <2> QED
    BY <2>1, <2>2
<1> QED
  BY <1>1, <1>6, <1>7, <1>8

\* t is s without the places of R, and with the elements of N after the others.
Follows(s, t, R, N) ==
    /\ \A k \in 1..Len(t) : t[k] \in N \/ \E j \in 1..Len(s) : j \notin R /\ t[k] = s[j]
    /\ \A k, l \in 1..Len(t) : k < l =>
          \E i \in 1..Len(s) :
              /\ i \notin R /\ t[k] = s[i]
              /\ t[l] \in N \/ \E j \in 1..Len(s) : i < j /\ j \notin R /\ t[l] = s[j]
    /\ \A j \in 1..Len(s) : j \notin R => \E k \in 1..Len(t) : t[k] = s[j]
    /\ \A c \in N : \E k \in 1..Len(t) : t[k] = c

LEMMA RemoveFollows ==
    ASSUME NEW X, NEW s \in Seq(X), NEW i \in 1..Len(s)
    PROVE  RemoveAt(s, i) \in Seq(X) /\ Follows(s, RemoveAt(s, i), {i}, {})
<1>1. PICK t : t = RemoveAt(s, i)
  OBVIOUS
<1>2. PICK n \in Nat : n = Len(s) /\ i \in 1..n
  OBVIOUS
<1>3. /\ t \in Seq(X) /\ Len(t) = n - 1
      /\ \A k \in 1..(n - 1) : Skip(i, k) \in 1..n /\ Skip(i, k) # i /\ t[k] = s[Skip(i, k)]
  BY <1>1, <1>2, Removed
<1>4. \A k, l \in 1..(n - 1) : k < l => Skip(i, k) < Skip(i, l)
  BY <1>2 DEF Skip
<1>5. ASSUME NEW j \in 1..n, j # i
      PROVE  \E k \in 1..(n - 1) : t[k] = s[j]
  <2>1. CASE j < i
    BY <1>2, <1>3, <1>5, <2>1 DEF Skip
  <2>2. CASE ~ (j < i)
    <3>1. j - 1 \in 1..(n - 1) /\ Skip(i, j - 1) = j
      BY <1>2, <1>5, <2>2 DEF Skip
    <3> QED
      BY <1>3, <3>1
  <2> QED
    BY <2>1, <2>2
<1>6. \A k \in 1..Len(t) : t[k] \in {} \/ \E j \in 1..Len(s) : j \notin {i} /\ t[k] = s[j]
  BY <1>2, <1>3
<1>7. \A k, l \in 1..Len(t) : k < l =>
         \E m \in 1..Len(s) :
              /\ m \notin {i} /\ t[k] = s[m]
              /\ t[l] \in {} \/ \E j \in 1..Len(s) : m < j /\ j \notin {i} /\ t[l] = s[j]
  BY <1>2, <1>3, <1>4
<1>8. \A j \in 1..Len(s) : j \notin {i} => \E k \in 1..Len(t) : t[k] = s[j]
  BY <1>2, <1>3, <1>5
<1>9. \A d \in {} : \E k \in 1..Len(t) : t[k] = d
  OBVIOUS
<1>10. Follows(s, t, {i}, {})
  BY <1>6, <1>7, <1>8, <1>9, Zenon DEF Follows
<1> QED
  BY <1>1, <1>3, <1>10

LEMMA AppendFollows ==
    ASSUME NEW X, NEW s \in Seq(X), NEW c \in X
    PROVE  Append(s, c) \in Seq(X) /\ Follows(s, Append(s, c), {}, {c})
<1>1. PICK t : t = Append(s, c)
  OBVIOUS
<1>2. PICK n \in Nat : n = Len(s)
  OBVIOUS
<1>3. t \in Seq(X) /\ Len(t) = n + 1 /\ t[n + 1] = c /\ \A k \in 1..n : t[k] = s[k]
  BY <1>1, <1>2
<1>4. \A k \in 1..(n + 1) : k = n + 1 \/ k \in 1..n
  OBVIOUS
<1>5. \A k \in 1..Len(t) : t[k] \in {c} \/ \E j \in 1..Len(s) : j \notin {} /\ t[k] = s[j]
  BY <1>2, <1>3, <1>4
<1>6. ASSUME NEW k \in 1..(n + 1), NEW l \in 1..(n + 1), k < l
      PROVE  \E i \in 1..n :
                /\ i \notin {} /\ t[k] = s[i]
                /\ t[l] \in {c} \/ \E j \in 1..n : i < j /\ j \notin {} /\ t[l] = s[j]
  <2>1. k \in 1..n /\ t[k] = s[k]
    BY <1>3, <1>6
  <2>2. t[l] \in {c} \/ \E j \in 1..n : k < j /\ j \notin {} /\ t[l] = s[j]
    BY <1>3, <1>4, <1>6
  <2> QED
    BY <2>1, <2>2
<1>7. n + 1 \in 1..(n + 1) /\ \A j \in 1..n : j \in 1..(n + 1)
  OBVIOUS
<1>8. \A k, l \in 1..Len(t) : k < l =>
         \E i \in 1..Len(s) :
            /\ i \notin {} /\ t[k] = s[i]
            /\ t[l] \in {c} \/ \E j \in 1..Len(s) : i < j /\ j \notin {} /\ t[l] = s[j]
  BY <1>2, <1>3, <1>6
<1>9. \A j \in 1..Len(s) : j \notin {} => \E k \in 1..Len(t) : t[k] = s[j]
  BY <1>2, <1>3, <1>7
<1>10. \A d \in {c} : \E k \in 1..Len(t) : t[k] = d
  BY <1>3, <1>7
<1>11. Follows(s, t, {}, {c})
  BY <1>5, <1>8, <1>9, <1>10, Zenon DEF Follows
<1> QED
  BY <1>1, <1>3, <1>11

LEMMA InsteadFollows ==
    ASSUME NEW X, NEW s \in Seq(X), NEW i \in 1..Len(s), NEW c \in X
    PROVE  /\ Append(RemoveAt(s, i), c) \in Seq(X)
           /\ Follows(s, Append(RemoveAt(s, i), c), {i}, {c})
<1>1. PICK t : t = RemoveAt(s, i)
  OBVIOUS
<1>2. PICK u : u = Append(t, c)
  OBVIOUS
<1>3. t \in Seq(X) /\ Follows(s, t, {i}, {})
  BY <1>1, RemoveFollows
<1>4. u \in Seq(X) /\ Follows(t, u, {}, {c})
  BY <1>2, <1>3, AppendFollows
<1>5. ASSUME NEW k \in 1..Len(u), u[k] \notin {c}
      PROVE  \E j \in 1..Len(s) : j \notin {i} /\ u[k] = s[j]
  <2>1. PICK p \in 1..Len(t) : p \notin {} /\ u[k] = t[p]
    BY <1>4, <1>5, Zenon DEF Follows
  <2>2. \E j \in 1..Len(s) : j \notin {i} /\ t[p] = s[j]
    BY <1>3 DEF Follows
  <2> QED
    BY <2>1, <2>2
<1>6. ASSUME NEW k \in 1..Len(u), NEW l \in 1..Len(u), k < l
      PROVE  \E m \in 1..Len(s) :
                /\ m \notin {i} /\ u[k] = s[m]
                /\ u[l] \in {c} \/ \E j \in 1..Len(s) : m < j /\ j \notin {i} /\ u[l] = s[j]
  <2>1. PICK p \in 1..Len(t) :
           /\ p \notin {} /\ u[k] = t[p]
           /\ u[l] \in {c} \/ \E q \in 1..Len(t) : p < q /\ q \notin {} /\ u[l] = t[q]
    BY <1>4, <1>6, Zenon DEF Follows
  <2>2. CASE u[l] \in {c}
    <3>1. \E m \in 1..Len(s) : m \notin {i} /\ t[p] = s[m]
      BY <1>3 DEF Follows
    <3> QED
      BY <2>1, <2>2, <3>1
  <2>3. CASE \E q \in 1..Len(t) : p < q /\ u[l] = t[q]
    <3>1. PICK q \in 1..Len(t) : p < q /\ u[l] = t[q]
      BY <2>3
    <3>2. \E m \in 1..Len(s) :
             /\ m \notin {i} /\ t[p] = s[m]
             /\ \E j \in 1..Len(s) : m < j /\ j \notin {i} /\ t[q] = s[j]
      BY <1>3, <3>1 DEF Follows
    <3> QED
      BY <2>1, <3>1, <3>2
  <2> QED
    BY <2>1, <2>2, <2>3
<1>7. \A j \in 1..Len(s) : j \notin {i} => \E k \in 1..Len(u) : u[k] = s[j]
  <2> SUFFICES ASSUME NEW j \in 1..Len(s), j \notin {i}
               PROVE  \E k \in 1..Len(u) : u[k] = s[j]
    OBVIOUS
  <2>1. PICK p \in 1..Len(t) : t[p] = s[j]
    BY <1>3 DEF Follows
  <2>2. \E k \in 1..Len(u) : u[k] = t[p]
    BY <1>4 DEF Follows
  <2> QED
    BY <2>1, <2>2
<1>8. \A d \in {c} : \E k \in 1..Len(u) : u[k] = d
  BY <1>4, Zenon DEF Follows
<1>9. Follows(s, u, {i}, {c})
  BY <1>5, <1>6, <1>7, <1>8 DEF Follows
<1> QED
  BY <1>1, <1>2, <1>4, <1>9
-----------------------------------------------------------------------------
(* The Console: what its state may hold.                                   *)

Loops   == {"poll", "final"}
Forming == Commands \cup {"settle", "created"}
Ops     == {"load", "messages", "send"} \cup Loops \cup Lists \cup Commands
Answers == {None, Sent, Done, Failed, "ok"} \cup RunViews \cup Listings \cup Conversations
Calls   == [op : Ops, agent : Agents \cup {None}, run : RunIds \cup {None},
            fst : Answers, snd : Answers]

ViewOf(v, a) == v \in RunViews /\ v.run[1] = a
TalkOf(m, a) == m \in Conversations /\ \A k \in 1..Len(m) : m[k][1][1] = a

FirstTyped(c) ==
    /\ c.op \in {"load", "final", "messages"} => c.fst \in {Sent, Done, Failed} \/ TalkOf(c.fst, c.agent)
    /\ c.op \in Lists => c.fst \in {Sent, Failed} \cup Listings
    /\ c.op = "poll"  => c.fst \in {Sent, Failed} \/ (c.fst \in RunViews /\ c.fst.run = c.run)
    /\ c.op = "send"  => c.fst \in {Sent, Failed} \/ (ViewOf(c.fst, c.agent) /\ c.fst.status = "active")
    /\ c.op \in Commands => c.fst \in {Sent, Failed, "ok"}
SecondTyped(c) ==
    IF c.op = "load" THEN c.snd \in {Sent, Failed, None} \/ ViewOf(c.snd, c.agent)
    ELSE IF c.op = "final" THEN c.snd \in {Sent, Done, Failed} \cup Listings
    ELSE c.snd = Done
CallTyped(c) ==
    /\ c \in Calls
    /\ IF c.op = "list" THEN c.agent = None ELSE c.agent \in Agents
    /\ IF c.op \in Loops THEN c.run \in RunIds /\ c.agent = c.run[1] ELSE c.run = None
    /\ FirstTyped(c) /\ SecondTyped(c)

\* The runs and the lists an answer brings.
Carried(c) == IF c.op = "load" THEN {c.snd} \cap RunViews
              ELSE IF c.op \in {"poll", "send"} THEN {c.fst} \cap RunViews ELSE {}
Listing(c) == IF c.op \in Lists THEN {c.fst} \cap Listings
              ELSE IF c.op = "final" THEN {c.snd} \cap Listings ELSE {}

TypedServer ==
    /\ service \in [Agents -> {"unborn", "ready", "busy", "stopped", "deleted"}]
    /\ runs \in [Agents -> Seq(RunStatuses)]
    /\ \A a \in Agents : Len(runs[a]) <= MaxRuns /\ (~ Live(a) => runs[a] = <<>>)
TypedPage ==
    /\ agents \in Listings
    /\ selectedId \in Agents \cup {None} /\ ref \in Agents \cup {None}
    /\ effectDue \in BOOLEAN /\ inOrder \in BOOLEAN /\ unsent \in BOOLEAN
    /\ messages \in Conversations /\ activeRun \in {None} \cup RunViews
    /\ polls \subseteq [run : RunIds, owner : {"send", "load"}]
    /\ faults \in Nat

\* An identity, once minted, is never minted again.
Born(a) == service[a] # "unborn"
RunKnown(r) == Born(r[1]) /\ (Live(r[1]) => r \in Started)
Known ==
    /\ \A a \in DOMAIN agents : Born(a)
    /\ selectedId # None => selectedId \in DOMAIN agents
    /\ ref # None => Born(ref)
    /\ activeRun # None => RunKnown(activeRun.run)
    /\ \A p \in polls : RunKnown(p.run)

CallOK(c) ==
    /\ CallTyped(c)
    /\ c.op \notin {"create", "list"} => Born(c.agent)
    /\ \A v \in Carried(c) : RunKnown(v.run)
    /\ \A list \in Listing(c) : \A a \in DOMAIN list : Born(a)
    /\ c.op = "create" /\ c.fst = Sent => service[c.agent] = "unborn"
    /\ c.op = "create" /\ c.fst = "ok" => Live(c.agent)
    /\ c.op = "created" /\ c.fst = Sent => Live(c.agent)
    /\ c.op = "created" /\ c.fst \in Listings => c.agent \in DOMAIN c.fst
    /\ c.op = "load" /\ c.fst = Failed => faults > 0 \/ service[c.agent] = "deleted"
    /\ c.op \in Loops => Looping(c.run)
CallsOK == calls \in Seq(Calls) /\ \A i \in 1..Len(calls) : CallOK(calls[i])

\* Two commands are never under way at once, nor two turns of one loop.
PairOK(c, d) ==
    /\ ~ (c.op \in Forming /\ d.op \in Forming)
    /\ ~ (c.op \in Loops /\ d.op \in Loops /\ c.run = d.run)
Pairs == \A i, j \in 1..Len(calls) : i < j => PairOK(calls[i], calls[j])

\* What is shown, from the end of an effect to the next one.
Excused(a) == LoadUnderWay(a) \/ faults > 0 \/ service[a] = "deleted"
Belongs ==
    ~ effectDue =>
        /\ activeRun # None => activeRun.run[1] = ref
        /\ ref = None => messages = <<>>
        /\ ref # None /\ ~ Excused(ref) => \A k \in 1..Len(messages) : messages[k][1][1] = ref

IInv == TypedServer /\ TypedPage /\ Known /\ CallsOK /\ Pairs /\ Belongs

-----------------------------------------------------------------------------
(* The server's answers.                                                   *)

LEMMA RunIdParts ==
    /\ \A r \in RunIds : r = <<r[1], r[2]>> /\ r[1] \in Agents /\ r[2] \in 1..MaxRuns
    /\ \A a \in Agents, k \in 1..MaxRuns : <<a, k>> \in RunIds
    /\ MaxRuns \in Nat
BY Bounds DEF RunIds

LEMMA SeenFact ==
    ASSUME NEW status \in RunStatuses
    PROVE  /\ Seen(status) \in {"active", "completed", "ended"}
           /\ Seen(status) = "active" <=> status = "active"
<1>1. status \in {"active", "completed", "unrecorded", "ended", "lapsed"}
  BY DEF RunStatuses
<1> QED
  BY <1>1 DEF Seen

LEMMA ShownTyped ==
    ASSUME TypedServer, NEW r \in Started
    PROVE  /\ r \in RunIds /\ Shown(r) \in RunViews /\ Shown(r).run = r
           /\ Shown(r).status = Seen(runs[r[1]][r[2]]) /\ r[2] \in 1..Len(runs[r[1]])
           /\ Shown(r).status = "active" <=> runs[r[1]][r[2]] = "active"
           /\ runs[r[1]] \in Seq(RunStatuses)
<1>1. r \in RunIds /\ r[1] \in Agents /\ r[2] \in 1..MaxRuns /\ r[2] <= Len(runs[r[1]])
  BY RunIdParts DEF Started
<1>2. PICK s \in Seq(RunStatuses) : s = runs[r[1]]
  BY <1>1 DEF TypedServer
<1>3. r[2] \in 1..Len(s) /\ s[r[2]] \in RunStatuses
  BY <1>1, <1>2, RunIdParts
<1>4. /\ Seen(s[r[2]]) \in {"active", "completed", "ended"}
      /\ Seen(s[r[2]]) = "active" <=> s[r[2]] = "active"
  BY <1>3, SeenFact
<1> QED
  BY <1>1, <1>2, <1>3, <1>4 DEF Shown, RunViews

LEMMA ListTyped ==
    ASSUME TypedServer
    PROVE  AgentList \in Listings /\ DOMAIN AgentList = {a \in Agents : Live(a)}
<1>1. PICK S \in SUBSET Agents : S = {a \in Agents : Live(a)}
  OBVIOUS
<1>2. AgentList = [a \in S |-> service[a]]
  BY <1>1 DEF AgentList
<1>3. AgentList \in [S -> {"ready", "busy", "stopped"}]
  BY <1>1, <1>2 DEF Live
<1> QED
  BY <1>1, <1>2, <1>3 DEF Listings

LEMMA StartedOf ==
    ASSUME TypedServer, NEW a \in Agents, NEW k \in 1..Len(runs[a])
    PROVE  <<a, k>> \in Started
<1>1. PICK s \in Seq(RunStatuses) : s = runs[a] /\ Len(s) <= MaxRuns
  BY DEF TypedServer
<1>2. <<a, k>> \in RunIds
  BY <1>1, RunIdParts
<1> QED
  BY <1>1, <1>2 DEF Started

LEMMA TalkTyped ==
    ASSUME TypedServer, NEW a \in Agents
    PROVE  /\ TalkOf(MessagesOf(a), a) /\ Len(MessagesOf(a)) = Len(runs[a])
           /\ \A k \in 1..Len(runs[a]) : MessagesOf(a)[k] = Exchange(<<a, k>>)
<1>1. PICK s \in Seq(RunStatuses) : s = runs[a]
  BY DEF TypedServer
<1>2. PICK n \in Nat : n = Len(s)
  BY <1>1
<1>3. \A k \in 1..n : Exchange(<<a, k>>) \in RunIds \X BOOLEAN /\ Exchange(<<a, k>>)[1] = <<a, k>>
  <2> SUFFICES ASSUME NEW k \in 1..n
               PROVE  Exchange(<<a, k>>) \in RunIds \X BOOLEAN /\ Exchange(<<a, k>>)[1] = <<a, k>>
    OBVIOUS
  <2>1. PICK r : r = <<a, k>> /\ r \in RunIds
    BY <1>1, <1>2, StartedOf DEF Started
  <2>2. (runs[r[1]][r[2]] \in Replied) \in BOOLEAN
    OBVIOUS
  <2>3. Exchange(r)[1] = r /\ Exchange(r) \in RunIds \X BOOLEAN
    BY <2>1, <2>2 DEF Exchange
  <2> QED
    BY <2>1, <2>3
<1>4. PICK m : m = [k \in 1..n |-> Exchange(<<a, k>>)]
  OBVIOUS
<1>5. m \in Seq(RunIds \X BOOLEAN) /\ Len(m) = n /\ \A k \in 1..n : m[k] = Exchange(<<a, k>>)
  <2>1. PICK T : T = RunIds \X BOOLEAN
    OBVIOUS
  <2>2. \A k \in 1..n : Exchange(<<a, k>>) \in T
    BY <1>3, <2>1
  <2>3. m \in Seq(T) /\ Len(m) = n /\ \A k \in 1..n : m[k] = Exchange(<<a, k>>)
    BY <1>4, <2>2
  <2> QED
    BY <2>1, <2>3
<1>6. \A k \in 1..n : Exchange(<<a, k>>)[1][1] = a
  BY DEF Exchange
<1>7. m = MessagesOf(a)
  BY <1>1, <1>2, <1>4 DEF MessagesOf
<1> QED
  BY <1>1, <1>2, <1>5, <1>6, <1>7, Zenon DEF TalkOf, Conversations

LEMMA LatestTyped ==
    ASSUME TypedServer, NEW a \in Agents
    PROVE  IF runs[a] = <<>> THEN LatestOf(a) = None
           ELSE LatestOf(a) = Shown(<<a, Len(runs[a])>>) /\ <<a, Len(runs[a])>> \in Started
<1>1. PICK s \in Seq(RunStatuses) : s = runs[a]
  BY DEF TypedServer
<1>2. CASE s # <<>>
  <2>1. Len(s) \in 1..Len(s)
    BY <1>1, <1>2
  <2> QED
    BY <1>1, <1>2, <2>1, StartedOf DEF LatestOf
<1> QED
  BY <1>1, <1>2 DEF LatestOf

\* What no step undoes.
Onward ==
    /\ \A a \in Agents : Born(a) => Born(a)' /\ (Live(a)' => Live(a))
    /\ \A a \in Agents : service[a] = "deleted" => service'[a] = "deleted"
    /\ \A r \in RunIds : r \in Started /\ Live(r[1])' => r \in Started'
    /\ faults > 0 => faults' > 0

LEMMA RunStays ==
    ASSUME Onward, NEW r \in RunIds, RunKnown(r)
    PROVE  RunKnown(r)'
BY RunIdParts DEF Onward, RunKnown

\* No Agent comes or goes.
Alike == \A a \in Agents : (Born(a)' <=> Born(a)) /\ (Live(a)' <=> Live(a))

LEMMA Unmoved ==
    ASSUME UNCHANGED service
    PROVE  Alike
BY DEF Alike, Born, Live

\* A call stays what it was while its command is not the one that is handled and
\* the loop it belongs to goes on.
LEMMA CallLives ==
    ASSUME Onward, NEW c, CallOK(c),
           c.op \in Forming => Alike,
           c.op \in Loops => Looping(c.run)'
    PROVE  CallOK(c)'
<1>1. CallTyped(c)
  BY DEF CallOK
<1>2. c.op # "list" => c.agent \in Agents
  BY <1>1 DEF CallTyped
<1>3. \A v \in Carried(c) : RunKnown(v.run)'
  <2>1. \A v \in Carried(c) : v.run \in RunIds /\ RunKnown(v.run)
    BY DEF CallOK, Carried, RunViews
  <2> QED
    BY <2>1, RunStays
<1>4. \A list \in Listing(c) : \A a \in DOMAIN list : Born(a)'
  <2>1. \A list \in Listing(c) : \A a \in DOMAIN list : Born(a) /\ a \in Agents
    BY DEF CallOK, Listing, Listings
  <2> QED
    BY <2>1 DEF Onward
<1>5. c.op \notin {"create", "list"} => Born(c.agent)'
  BY <1>2 DEF CallOK, Onward
<1>6. c.op \in {"create", "created"} => (Born(c.agent)' <=> Born(c.agent)) /\ (Live(c.agent)' <=> Live(c.agent))
  BY <1>2 DEF Forming, Commands, Alike
<1>7. c.op = "load" /\ c.fst = Failed => faults' > 0 \/ service'[c.agent] = "deleted"
  BY <1>2 DEF CallOK, Onward
<1> QED
  BY <1>1, <1>3, <1>4, <1>5, <1>6, <1>7 DEF CallOK, Born

LEMMA CallStays ==
    ASSUME Onward, NEW c, CallOK(c),
           c.op \in Forming => UNCHANGED service,
           c.op \in Loops => Looping(c.run)'
    PROVE  CallOK(c)'
BY CallLives, Unmoved

Others(R) == {calls[j] : j \in (1..Len(calls)) \ R}

LEMMA CallsFollow ==
    ASSUME CallsOK, Pairs, NEW R, NEW N,
           calls' \in Seq(Calls), Follows(calls, calls', R, N),
           \A c \in Others(R) \cup N : CallOK(c)',
           \A c \in Others(R), d \in N : PairOK(c, d)
    PROVE  CallsOK' /\ Pairs'
<1>1. PICK s : s = calls
  OBVIOUS
<1>2. PICK t \in Seq(Calls) : t = calls'
  OBVIOUS
<1>3. Follows(s, t, R, N)
  BY <1>1, <1>2
<1>4. \A j \in 1..Len(s) : j \notin R => s[j] \in Others(R)
  BY <1>1 DEF Others
<1>5. \A k \in 1..Len(t) : CallOK(t[k])'
  <2> SUFFICES ASSUME NEW k \in 1..Len(t)
               PROVE  t[k] \in Others(R) \cup N
    OBVIOUS
  <2>1. t[k] \in N \/ \E j \in 1..Len(s) : j \notin R /\ t[k] = s[j]
    BY <1>3, Zenon DEF Follows
  <2> QED
    BY <1>4, <2>1
<1>6. ASSUME NEW k \in 1..Len(t), NEW l \in 1..Len(t), k < l
      PROVE  PairOK(t[k], t[l])
  <2>1. PICK i \in 1..Len(s) :
           /\ i \notin R /\ t[k] = s[i]
           /\ t[l] \in N \/ \E j \in 1..Len(s) : i < j /\ j \notin R /\ t[l] = s[j]
    BY <1>3, <1>6, Zenon DEF Follows
  <2>2. CASE t[l] \in N
    BY <1>4, <2>1, <2>2
  <2>3. CASE \E j \in 1..Len(s) : i < j /\ j \notin R /\ t[l] = s[j]
    BY <1>1, <2>1, <2>3 DEF Pairs
  <2> QED
    BY <2>1, <2>2, <2>3
<1>7. CallsOK'
  BY <1>2, <1>5 DEF CallsOK
<1>8. Pairs'
  BY <1>2, <1>6 DEF Pairs
<1> QED
  BY <1>7, <1>8

LEMMA CallsUpdate ==
    ASSUME CallsOK, Pairs, NEW i \in 1..Len(calls), NEW d, calls' = [calls EXCEPT ![i] = d],
           \A c \in Others({i}) : CallOK(c)' /\ PairOK(c, d),
           CallOK(d)'
    PROVE  CallsOK' /\ Pairs'
<1>1. PICK s \in Seq(Calls) : s = calls /\ i \in 1..Len(s)
  BY DEF CallsOK
<1>2. d \in Calls
  BY DEF CallOK, CallTyped
<1>3. PICK t : t = [s EXCEPT ![i] = d]
  OBVIOUS
<1>4. t \in Seq(Calls) /\ Len(t) = Len(s) /\ t[i] = d /\ \A j \in 1..Len(s) : j # i => t[j] = s[j]
  BY <1>1, <1>2, <1>3
<1>5. t = calls'
  BY <1>1, <1>3
<1>6. \A j \in 1..Len(s) : j # i => s[j] \in Others({i})
  BY <1>1 DEF Others
<1>7. \A j \in 1..Len(s) : j # i => CallOK(s[j])' /\ PairOK(s[j], d)
  BY <1>6
<1>8. \A k \in 1..Len(t) : CallOK(t[k])'
  BY <1>4, <1>7
<1>9. ASSUME NEW k \in 1..Len(t), NEW l \in 1..Len(t), k < l
      PROVE  PairOK(t[k], t[l])
  <2>1. CASE k # i /\ l # i
    BY <1>1, <1>4, <1>9, <2>1 DEF Pairs
  <2>2. CASE l = i
    BY <1>4, <1>9, <1>7, <2>2
  <2>3. CASE k = i
    <3>1. PairOK(t[l], t[k])
      BY <1>4, <1>9, <1>7, <2>3
    <3> QED
      BY <3>1 DEF PairOK
  <2> QED
    BY <2>1, <2>2, <2>3
<1>10. CallsOK'
  BY <1>4, <1>5, <1>8 DEF CallsOK
<1>11. Pairs'
  BY <1>5, <1>9 DEF Pairs
<1> QED
  BY <1>10, <1>11

\* The calls besides the ones of R: all well, and in no conflict with those.
LEMMA OthersOK ==
    ASSUME CallsOK, NEW R
    PROVE  \A c \in Others(R) : CallOK(c) /\ \E j \in 1..Len(calls) : j \notin R /\ c = calls[j]
BY DEF Others, CallsOK

LEMMA OthersApart ==
    ASSUME CallsOK, Pairs, NEW i \in 1..Len(calls)
    PROVE  \A c \in Others({i}) : PairOK(c, calls[i])
<1> SUFFICES ASSUME NEW c \in Others({i})
             PROVE  PairOK(c, calls[i])
  OBVIOUS
<1>1. PICK j \in 1..Len(calls) : j # i /\ c = calls[j]
  BY DEF Others
<1>2. i < j \/ j < i
  BY <1>1
<1> QED
  BY <1>1, <1>2 DEF Pairs, PairOK

\* A call that only got an answer.
LEMMA CallAnswered ==
    ASSUME CallsOK, Pairs, Onward, UNCHANGED polls, NEW i \in 1..Len(calls), NEW d,
           calls' = [calls EXCEPT ![i] = d], d.op = calls[i].op, d.run = calls[i].run,
           Alike \/ calls[i].op \in Commands, CallOK(d)'
    PROVE  CallsOK' /\ Pairs'
<1>1. ASSUME NEW c \in Others({i})
      PROVE  CallOK(c)' /\ PairOK(c, d)
  <2>1. CallOK(c) /\ PairOK(c, calls[i])
    BY <1>1, OthersOK, OthersApart
  <2>2. PairOK(c, d)
    BY <2>1 DEF PairOK
  <2>3. c.op \in Forming => Alike
    BY <2>1 DEF PairOK, Forming
  <2>4. c.op \in Loops => Looping(c.run)'
    BY <2>1 DEF CallOK, Looping
  <2> QED
    BY <2>1, <2>2, <2>3, <2>4, CallLives
<1> QED
  BY <1>1, CallsUpdate

\* Calls that are left alone while others come and go.
LEMMA CallsLeft ==
    ASSUME CallsOK, Pairs, Onward, UNCHANGED service, NEW R, NEW N,
           calls' \in Seq(Calls), Follows(calls, calls', R, N),
           \A c \in Others(R) : c.op \in Loops => Looping(c.run)',
           \A d \in N : CallOK(d)' /\ \A c \in Others(R) : PairOK(c, d)
    PROVE  CallsOK' /\ Pairs'
<1>1. \A c \in Others(R) : CallOK(c)'
  BY OthersOK, CallStays
<1> QED
  BY <1>1, CallsFollow

LEMMA LoadStays ==
    ASSUME NEW a, LoadUnderWay(a), NEW R, NEW N, Follows(calls, calls', R, N),
           \A i \in 1..Len(calls) : i \in R =>
              ~ (calls[i].op = "load" /\ calls[i].agent = a /\ calls[i].fst # Done)
    PROVE  LoadUnderWay(a)'
<1>1. PICK i \in 1..Len(calls) : calls[i].op = "load" /\ calls[i].agent = a /\ calls[i].fst # Done
  BY DEF LoadUnderWay
<1>2. \E k \in 1..Len(calls') : calls'[k] = calls[i]
  BY <1>1 DEF Follows
<1> QED
  BY <1>1, <1>2 DEF LoadUnderWay

LEMMA LoadUpdated ==
    ASSUME NEW a, LoadUnderWay(a), CallsOK, NEW i \in 1..Len(calls), NEW d,
           calls' = [calls EXCEPT ![i] = d],
           calls[i].op = "load" /\ calls[i].agent = a /\ calls[i].fst # Done
              => d.op = "load" /\ d.agent = a /\ d.fst # Done
    PROVE  LoadUnderWay(a)'
<1>1. PICK j \in 1..Len(calls) : calls[j].op = "load" /\ calls[j].agent = a /\ calls[j].fst # Done
  BY DEF LoadUnderWay
<1>2. PICK s \in Seq(Calls) : s = calls
  BY DEF CallsOK
<1>3. /\ calls'[i] = d /\ Len(calls') = Len(calls)
      /\ \A k \in 1..Len(calls) : k # i => calls'[k] = calls[k]
  BY <1>2
<1> QED
  BY <1>1, <1>3 DEF LoadUnderWay

LEMMA BelongsStays ==
    ASSUME Belongs, UNCHANGED <<messages, activeRun, ref, effectDue>>, Onward, TypedPage,
           ref # None => (LoadUnderWay(ref) => Excused(ref)')
    PROVE  Belongs'
<1>1. ref # None /\ Excused(ref) => Excused(ref)'
  BY DEF Excused, Onward, TypedPage
<1> QED
  BY <1>1 DEF Belongs, Excused

-----------------------------------------------------------------------------
(* The server's steps.                                                     *)

\* What Done, Failed and the like are not.
LEMMA Marked ==
    /\ None # Sent /\ None # Done /\ None # Failed /\ Sent # Done /\ Sent # Failed /\ Done # Failed
    /\ \A v \in RunViews \cup Listings \cup Conversations \cup {"ok"} :
          v # None /\ v # Sent /\ v # Done /\ v # Failed
BY Marks

LEMMA LiveFact ==
    ASSUME TypedServer, NEW a \in Agents
    PROVE  /\ Live(a) <=> service[a] \notin {"unborn", "deleted"}
           /\ Live(a) => Born(a)
           /\ Born(a) /\ ~ Live(a) => service[a] = "deleted"
BY DEF TypedServer, Live, Born

LEMMA FirstAnswerOK ==
    ASSUME TypedServer, Known, NEW c, CallOK(c), c.fst = Sent, c.op \notin Commands \cup {"send"},
           NEW d, d = [c EXCEPT !.fst = FirstAnswer(c)]
    PROVE  CallOK(d) /\ d.fst \notin {Sent, Done}
<1>1. CallTyped(c) /\ c \in Calls
  BY DEF CallOK, CallTyped
<1>2. PICK answer : answer = FirstAnswer(c)
  OBVIOUS
<1>3. /\ d.op = c.op /\ d.agent = c.agent /\ d.run = c.run /\ d.snd = c.snd /\ d.fst = answer
      /\ answer \in Answers => d \in Calls
  BY <1>1, <1>2 DEF Calls
<1>4. c.op \in Lists \/ c.op = "poll" \/ c.op \in {"load", "final", "messages"}
  BY <1>1 DEF Calls, Ops, Loops
<1>5. CASE c.op \in Lists
  <2>1. answer = AgentList
    BY <1>2, <1>5 DEF FirstAnswer
  <2>2. answer \in Listings /\ DOMAIN answer = {a \in Agents : Live(a)} /\ answer \notin {Sent, Done, Failed}
    BY <2>1, ListTyped, Marked
  <2>3. d \in Calls
    BY <1>3, <2>2 DEF Answers
  <2>4. CallTyped(d)
    BY <1>1, <1>3, <1>5, <2>2, <2>3 DEF CallTyped, FirstTyped, SecondTyped, Lists, Commands, Loops
  <2>5. Carried(d) = {} /\ Listing(d) = {answer}
    BY <1>3, <1>5, <2>2 DEF Carried, Listing, Lists
  <2>6. \A a \in DOMAIN answer : Born(a)
    BY <2>2, LiveFact
  <2>7. c.op = "created" => c.agent \in DOMAIN answer
    BY <1>1, <2>2 DEF CallOK, CallTyped
  <2> QED
    BY <1>3, <1>5, <2>2, <2>4, <2>5, <2>6, <2>7 DEF CallOK, Lists, Loops
<1>6. CASE c.op = "poll"
  <2>1. c.run \in RunIds /\ c.agent = c.run[1] /\ c.agent \in Agents
    BY <1>1, <1>6 DEF CallTyped, Loops
  <2>2. answer = IF Live(c.agent) THEN Shown(c.run) ELSE Failed
    BY <1>2, <1>6 DEF FirstAnswer, OrNotFound, Lists
  <2>3. Looping(c.run)
    BY <1>6 DEF CallOK, Loops
  <2>4. RunKnown(c.run)
    BY <2>3 DEF Looping, Known
  <2>5. answer = Failed \/ (answer \in RunViews /\ answer.run = c.run)
    BY <2>1, <2>2, <2>4, ShownTyped DEF RunKnown
  <2>6. answer \notin {Sent, Done} /\ d \in Calls
    BY <1>3, <2>5, Marked DEF Answers
  <2>7. CallTyped(d)
    BY <1>1, <1>3, <1>6, <2>5, <2>6 DEF CallTyped, FirstTyped, SecondTyped, Lists, Commands, Loops
  <2>8. Listing(d) = {} /\ \A v \in Carried(d) : v.run = c.run
    BY <1>3, <1>6, <2>5, Marked DEF Carried, Listing, Lists
  <2> QED
    BY <1>3, <1>6, <2>3, <2>4, <2>6, <2>7, <2>8 DEF CallOK, Lists, Loops
<1>7. CASE c.op \in {"load", "final", "messages"}
  <2>1. c.agent \in Agents /\ Born(c.agent)
    BY <1>1, <1>7 DEF CallTyped, CallOK
  <2>2. answer = IF Live(c.agent) THEN MessagesOf(c.agent) ELSE Failed
    BY <1>2, <1>7 DEF FirstAnswer, OrNotFound, Lists
  <2>3. (answer = Failed /\ service[c.agent] = "deleted") \/ TalkOf(answer, c.agent)
    BY <2>1, <2>2, TalkTyped, LiveFact
  <2>4. answer \notin {Sent, Done} /\ d \in Calls
    BY <1>3, <2>3, Marked DEF Answers, TalkOf
  <2>5. TalkOf(answer, c.agent) => answer # Failed
    BY Marked DEF TalkOf
  <2>6. CallTyped(d)
    BY <1>1, <1>3, <1>7, <2>3, <2>4 DEF CallTyped, FirstTyped, SecondTyped, Lists, Commands, Loops
  <2>7. Carried(d) = Carried(c) /\ Listing(d) = Listing(c)
    BY <1>3, <1>7 DEF Carried, Listing, Lists
  <2> QED
    BY <1>3, <1>7, <2>3, <2>4, <2>5, <2>6, <2>7 DEF CallOK, Lists
<1> QED
  BY <1>4, <1>5, <1>6, <1>7

LEMMA SecondAnswerOK ==
    ASSUME TypedServer, NEW c, CallOK(c), c.snd = Sent,
           NEW d, d = [c EXCEPT !.snd = SecondAnswer(c)]
    PROVE  CallOK(d) /\ c.op \in {"load", "final"} /\ d.snd \notin {Sent, Done}
<1>1. CallTyped(c) /\ c \in Calls
  BY DEF CallOK, CallTyped
<1>2. PICK answer : answer = SecondAnswer(c)
  OBVIOUS
<1>3. /\ d.op = c.op /\ d.agent = c.agent /\ d.run = c.run /\ d.fst = c.fst /\ d.snd = answer
      /\ answer \in Answers => d \in Calls
  BY <1>1, <1>2 DEF Calls
<1>4. c.op \in {"load", "final"}
  BY <1>1, Marked DEF CallTyped, SecondTyped
<1>5. c.agent \in Agents /\ Born(c.agent)
  BY <1>1, <1>4 DEF CallTyped, CallOK
<1>6. CASE c.op = "load"
  <2>1. answer = IF Live(c.agent) THEN LatestOf(c.agent) ELSE Failed
    BY <1>2, <1>6 DEF SecondAnswer, OrNotFound
  <2>2. \/ answer \in {None, Failed}
        \/ ViewOf(answer, c.agent) /\ answer.run \in Started
    <3>1. PICK r : r = <<c.agent, Len(runs[c.agent])>>
      OBVIOUS
    <3>2. r[1] = c.agent
      BY <3>1
    <3>3. LatestOf(c.agent) = None \/ (r \in Started /\ LatestOf(c.agent) = Shown(r))
      BY <1>5, <3>1, LatestTyped
    <3>4. r \in Started => Shown(r) \in RunViews /\ Shown(r).run = r
      BY ShownTyped
    <3> QED
      BY <2>1, <3>2, <3>3, <3>4 DEF ViewOf
  <2>3. answer \notin {Sent, Done} /\ d \in Calls
    BY <1>3, <2>2, Marked DEF Answers, ViewOf
  <2>4. CallTyped(d)
    BY <1>1, <1>3, <1>6, <2>2, <2>3 DEF CallTyped, FirstTyped, SecondTyped, Lists, Commands, Loops
  <2>5. Listing(d) = {} /\ \A v \in Carried(d) : RunKnown(v.run)
    BY <1>3, <1>5, <1>6, <2>2, Marked DEF Carried, Listing, Lists, ViewOf, RunKnown
  <2> QED
    BY <1>3, <1>6, <2>3, <2>4, <2>5 DEF CallOK, Lists, Loops
<1>7. CASE c.op = "final"
  <2>1. answer = AgentList
    BY <1>2, <1>7 DEF SecondAnswer
  <2>2. answer \in Listings /\ DOMAIN answer = {a \in Agents : Live(a)} /\ answer \notin {Sent, Done, Failed}
    BY <2>1, ListTyped, Marked
  <2>3. d \in Calls
    BY <1>3, <2>2 DEF Answers
  <2>4. CallTyped(d)
    BY <1>1, <1>3, <1>7, <2>2, <2>3 DEF CallTyped, FirstTyped, SecondTyped, Lists, Commands, Loops
  <2>5. Carried(d) = {} /\ Listing(d) = {answer} /\ \A a \in DOMAIN answer : Born(a)
    BY <1>3, <1>7, <2>2, LiveFact DEF Carried, Listing, Lists
  <2> QED
    BY <1>3, <1>7, <2>2, <2>4, <2>5 DEF CallOK, Lists, Loops
<1> QED
  BY <1>4, <1>6, <1>7

\* A step that leaves the server alone.
LEMMA SameServer ==
    ASSUME UNCHANGED server, TypedPage, faults' \in Nat, faults' >= faults
    PROVE  Onward
<1>1. Started' = Started /\ \A a \in Agents : (Born(a)' <=> Born(a)) /\ (Live(a)' <=> Live(a))
  BY DEF server, Started, Born, Live
<1>2. faults > 0 => faults' > 0
  BY DEF TypedPage
<1>3. service' = service
  BY DEF server
<1> QED
  BY <1>1, <1>2, <1>3, Zenon DEF Onward

LEMMA SameCall ==
    ASSUME Onward, UNCHANGED server, UNCHANGED polls, NEW c, CallOK(c)
    PROVE  CallOK(c)'
<1>1. UNCHANGED service
  BY DEF server
<1>2. c.op \in Loops => Looping(c.run)'
  BY DEF CallOK, Looping
<1> QED
  BY <1>1, <1>2, CallStays

LEMMA KnownStays ==
    ASSUME Known, TypedPage, Onward, UNCHANGED <<agents, select, activeRun, polls>>
    PROVE  Known'
<1>1. \A a \in Agents : Born(a) => Born(a)'
  BY DEF Onward
<1>2. DOMAIN agents \subseteq Agents
  BY DEF TypedPage, Listings
<1>3. activeRun # None => RunKnown(activeRun.run)'
  <2>1. activeRun # None => activeRun.run \in RunIds
    BY DEF TypedPage, RunViews
  <2> QED
    BY <2>1, RunStays DEF Known
<1>4. \A p \in polls : RunKnown(p.run)'
  <2>1. \A p \in polls : p.run \in RunIds
    BY DEF TypedPage
  <2> QED
    BY <2>1, RunStays DEF Known
<1> QED
  BY <1>1, <1>2, <1>3, <1>4 DEF Known, TypedPage, select

\* A step of the server, or of the network, for one call.
LEMMA AnsweredKeeps ==
    ASSUME IInv, NEW i \in 1..Len(calls), NEW d,
           calls' = [calls EXCEPT ![i] = d], CallOK(d)',
           d.op = calls[i].op, d.agent = calls[i].agent, d.run = calls[i].run,
           d.op = "load" /\ calls[i].fst # Done => d.fst # Done,
           Onward, TypedServer', faults' \in Nat,
           Alike \/ d.op \in Commands,
           UNCHANGED <<agents, select, view, polls, inOrder, unsent>>
    PROVE  IInv'
<1>1. CallsOK' /\ Pairs'
  BY CallAnswered DEF IInv
<1>2. Known'
  BY KnownStays DEF IInv, view
<1>3. LoadUnderWay(ref) => LoadUnderWay(ref)'
  <2>1. LoadUnderWay(ref) => \E j \in 1..Len(calls') :
           calls'[j].op = "load" /\ calls'[j].agent = ref /\ calls'[j].fst # Done
    BY LoadUpdated DEF IInv, LoadUnderWay
  <2> QED
    BY <2>1 DEF LoadUnderWay, select
<1>4. Belongs'
  BY <1>3, BelongsStays DEF IInv, Excused, select, view
<1>5. TypedPage'
  BY DEF IInv, TypedPage, select, view
<1> QED
  BY <1>1, <1>2, <1>4, <1>5 DEF IInv

LEMMA SameTypes ==
    ASSUME TypedServer, UNCHANGED server
    PROVE  TypedServer'
BY DEF TypedServer, server, Live

LEMMA AnswerFirstKeeps ==
    ASSUME IInv, NEW i \in 1..Len(calls), AnswerFirst(i)
    PROVE  IInv'
<1>1. PICK c : c = calls[i] /\ CallOK(c) /\ c \in Calls
  BY DEF IInv, CallsOK, CallOK, CallTyped
<1>2. PICK d : d = [c EXCEPT !.fst = FirstAnswer(c)]
  OBVIOUS
<1>3. /\ c.fst = Sent /\ c.op \notin Commands \cup {"send"} /\ calls' = [calls EXCEPT ![i] = d]
      /\ UNCHANGED <<server, agents, select, view, polls, budget>>
  BY <1>1, <1>2 DEF AnswerFirst
<1>4. d.op = c.op /\ d.agent = c.agent /\ d.run = c.run
  BY <1>1, <1>2 DEF Calls
<1>5. CallOK(d) /\ d.fst \notin {Sent, Done}
  BY <1>1, <1>2, <1>3, FirstAnswerOK DEF IInv
<1>6. Onward /\ faults' \in Nat /\ TypedServer'
  BY <1>3, SameServer, SameTypes DEF IInv, TypedPage, budget
<1>7. CallOK(d)'
  BY <1>3, <1>5, <1>6, SameCall
<1>8. Alike /\ UNCHANGED <<agents, select, view, polls, inOrder, unsent>>
  BY <1>3, Unmoved DEF server, budget
<1> QED
  BY <1>1, <1>3, <1>4, <1>5, <1>6, <1>7, <1>8, AnsweredKeeps

LEMMA AnswerSecondKeeps ==
    ASSUME IInv, NEW i \in 1..Len(calls), AnswerSecond(i)
    PROVE  IInv'
<1>1. PICK c : c = calls[i] /\ CallOK(c) /\ c \in Calls
  BY DEF IInv, CallsOK, CallOK, CallTyped
<1>2. PICK d : d = [c EXCEPT !.snd = SecondAnswer(c)]
  OBVIOUS
<1>3. /\ c.snd = Sent /\ calls' = [calls EXCEPT ![i] = d]
      /\ UNCHANGED <<server, agents, select, view, polls, budget>>
  BY <1>1, <1>2 DEF AnswerSecond
<1>4. d.op = c.op /\ d.agent = c.agent /\ d.run = c.run /\ d.fst = c.fst
  BY <1>1, <1>2 DEF Calls
<1>5. CallOK(d)
  BY <1>1, <1>2, <1>3, SecondAnswerOK DEF IInv
<1>6. Onward /\ faults' \in Nat /\ TypedServer'
  BY <1>3, SameServer, SameTypes DEF IInv, TypedPage, budget
<1>7. CallOK(d)'
  BY <1>3, <1>5, <1>6, SameCall
<1>8. Alike /\ UNCHANGED <<agents, select, view, polls, inOrder, unsent>>
  BY <1>3, Unmoved DEF server, budget
<1> QED
  BY <1>1, <1>3, <1>4, <1>6, <1>7, <1>8, AnsweredKeeps

LEMMA LoseKeeps ==
    ASSUME IInv, NEW i \in 1..Len(calls), Lose(i)
    PROVE  IInv'
<1>1. PICK c : c = calls[i] /\ CallOK(c) /\ c \in Calls
  BY DEF IInv, CallsOK, CallOK, CallTyped
<1>2. PICK d : /\ calls' = [calls EXCEPT ![i] = d]
               /\ \/ c.fst \notin {Done, Failed} /\ d = [c EXCEPT !.fst = Failed]
                  \/ c.snd \notin {Done, Failed} /\ d = [c EXCEPT !.snd = Failed]
  BY <1>1 DEF Lose, Pending
<1>3. /\ faults' \in Nat /\ faults' > 0 /\ faults' >= faults
      /\ UNCHANGED <<server, agents, select, view, polls, inOrder, unsent>>
  BY DEF Lose, IInv, TypedPage
<1>4. d.op = c.op /\ d.agent = c.agent /\ d.run = c.run /\ d \in Calls
  BY <1>1, <1>2 DEF Calls, Answers
<1>5. Onward /\ TypedServer'
  BY <1>3, SameServer, SameTypes DEF IInv
<1>6. CallOK(c)'
  BY <1>1, <1>3, <1>5, SameCall
<1>7. CASE c.fst \notin {Done, Failed} /\ d = [c EXCEPT !.fst = Failed]
  <2>1. d.fst = Failed /\ d.snd = c.snd
    BY <1>1, <1>7 DEF Calls
  <2>2. CallTyped(d)
    BY <1>1, <1>4, <2>1 DEF CallOK, CallTyped, FirstTyped, SecondTyped
  <2>3. Carried(d) \subseteq Carried(c) /\ Listing(d) \subseteq Listing(c)
    BY <1>4, <2>1, Marked DEF Carried, Listing
  <2>4. Failed # Sent /\ Failed # "ok" /\ Failed \notin Listings
    BY Marked
  <2>5. CallOK(d)'
    BY <1>3, <1>4, <1>6, <2>1, <2>2, <2>3, <2>4 DEF CallOK
  <2> QED
    BY <1>1, <1>2, <1>3, <1>4, <1>5, <2>1, <2>5, Marked, Unmoved, AnsweredKeeps DEF server
<1>8. CASE c.snd \notin {Done, Failed} /\ d = [c EXCEPT !.snd = Failed]
  <2>1. d.snd = Failed /\ d.fst = c.fst
    BY <1>1, <1>8 DEF Calls
  <2>2. c.op \in {"load", "final"}
    BY <1>1, <1>8 DEF CallOK, CallTyped, SecondTyped
  <2>3. CallTyped(d)
    BY <1>1, <1>4, <2>1, <2>2 DEF CallOK, CallTyped, FirstTyped, SecondTyped
  <2>4. Carried(d) \subseteq Carried(c) /\ Listing(d) \subseteq Listing(c)
    BY <1>4, <2>1, Marked DEF Carried, Listing
  <2>5. CallOK(d)'
    BY <1>3, <1>4, <1>6, <2>1, <2>3, <2>4 DEF CallOK
  <2> QED
    BY <1>1, <1>2, <1>3, <1>4, <1>5, <2>1, <2>5, Unmoved, AnsweredKeeps DEF server
<1> QED
  BY <1>2, <1>7, <1>8

\* The bound on the runs is one on those of each Agent.
LEMMA RoomForRun ==
    ASSUME TypedServer, NEW a \in Agents, Cardinality(Started) < MaxRuns
    PROVE  Len(runs[a]) < MaxRuns
<1>1. PICK n \in Nat : n = Len(runs[a])
  BY DEF TypedServer
<1>2. PICK f : f = [k \in 1..n |-> <<a, k>>]
  OBVIOUS
<1>3. \A k \in 1..n : f[k] = <<a, k>> /\ f[k] \in Started
  BY <1>1, <1>2, StartedOf
<1>4. \A j, k \in 1..n : f[j] = f[k] => j = k
  BY <1>3
<1>5. f \in Injection(1..n, Started)
  BY <1>2, <1>3, <1>4, Fun_IsInj
<1>6. IsFiniteSet(Started) /\ Cardinality(Started) \in Nat
  <2>1. IsFiniteSet(1..MaxRuns) /\ IsFiniteSet(Agents)
    <3>1. PICK m \in Nat : m = MaxRuns
      BY RunIdParts
    <3>2. IsFiniteSet(1..m)
      BY FS_Interval
    <3>3. IsFiniteSet(Agents)
      BY AgentSet
    <3> QED
      BY <3>1, <3>2, <3>3
  <2>2. IsFiniteSet(RunIds)
    BY <2>1, FS_Product DEF RunIds
  <2>3. Started \in SUBSET RunIds
    BY DEF Started
  <2> QED
    BY <2>2, <2>3, FS_Subset, FS_CardinalityType
<1>7. Cardinality(1..n) <= Cardinality(Started)
  BY <1>5, <1>6, FS_Injection
<1>8. Cardinality(1..n) = n
  BY FS_Interval
<1> QED
  BY <1>1, <1>6, <1>7, <1>8, RunIdParts

\* A run starts.
LEMMA Admitted ==
    ASSUME TypedServer, NEW a \in Agents, service[a] = "ready", Admit(a)
    PROVE  /\ TypedServer' /\ Alike /\ Len(runs[a]) \in Nat
           /\ service' = [service EXCEPT ![a] = "busy"]
           /\ \A b \in Agents : service'[b] = IF b = a THEN "busy" ELSE service[b]
           /\ \A b \in Agents : runs'[b] = IF b = a THEN Append(runs[a], "active") ELSE runs[b]
           /\ Len(runs'[a]) = Len(runs[a]) + 1 /\ runs'[a][Len(runs[a]) + 1] = "active"
           /\ \A k \in 1..Len(runs[a]) : runs'[a][k] = runs[a][k]
           /\ <<a, Len(runs[a]) + 1>> \in RunIds \cap Started'
           /\ Started \subseteq Started'
<1>1. PICK s \in Seq(RunStatuses) : s = runs[a]
  BY DEF TypedServer
<1>2. PICK n \in Nat : n = Len(s) /\ n < MaxRuns
  <2>1. Len(runs[a]) < MaxRuns
    BY RoomForRun DEF Admit
  <2> QED
    BY <1>1, <2>1
<1>3. PICK t \in Seq(RunStatuses) : t = Append(s, "active")
  <2>1. PICK status \in RunStatuses : status = "active"
    BY DEF RunStatuses
  <2>2. Append(s, status) \in Seq(RunStatuses)
    OBVIOUS
  <2> QED
    BY <2>1, <2>2
<1>4. Len(t) = n + 1 /\ t[n + 1] = "active" /\ \A k \in 1..n : t[k] = s[k]
  BY <1>1, <1>2, <1>3
<1>5. service' = [service EXCEPT ![a] = "busy"] /\ runs' = [runs EXCEPT ![a] = t]
  BY <1>1, <1>3 DEF Admit
<1>6. /\ \A b \in Agents : service'[b] = IF b = a THEN "busy" ELSE service[b]
      /\ \A b \in Agents : runs'[b] = IF b = a THEN t ELSE runs[b]
      /\ service' \in [Agents -> {"unborn", "ready", "busy", "stopped", "deleted"}]
      /\ runs' \in [Agents -> Seq(RunStatuses)]
  BY <1>5 DEF TypedServer
<1>7. Alike /\ Live(a)
  BY <1>6 DEF Alike, Born, Live
<1>8. MaxRuns \in Nat
  BY RunIdParts
<1>9. TypedServer'
  <2>1. ASSUME NEW b \in Agents
        PROVE  Len(runs'[b]) <= MaxRuns /\ (~ Live(b)' => runs'[b] = <<>>)
    <3>1. CASE b = a
      BY <1>2, <1>4, <1>6, <1>7, <1>8, <3>1 DEF Alike
    <3>2. CASE b # a
      BY <1>6, <1>7, <3>2 DEF Alike, TypedServer
    <3> QED
      BY <3>1, <3>2
  <2> QED
    BY <1>6, <2>1 DEF TypedServer
<1>10. \A q \in RunIds : Len(runs[q[1]]) <= Len(runs'[q[1]]) /\ Len(runs[q[1]]) \in Nat
                        /\ Len(runs'[q[1]]) \in Nat /\ q[2] \in Nat
  BY <1>1, <1>2, <1>4, <1>6, RunIdParts DEF TypedServer
<1>11. Started \subseteq Started'
  BY <1>10 DEF Started
<1>12. <<a, n + 1>> \in RunIds /\ <<a, n + 1>> \in Started'
  <2>1. <<a, n + 1>> \in RunIds
    BY <1>2, <1>8, RunIdParts
  <2>2. runs'[a] = t
    BY <1>6
  <2> QED
    BY <1>4, <2>1, <2>2 DEF Started
<1> QED
  BY <1>1, <1>2, <1>3, <1>4, <1>5, <1>6, <1>7, <1>9, <1>11, <1>12

\* What makes a move of the server one that undoes nothing.
LEMMA MovesOn ==
    ASSUME TypedServer, Alike, Started \subseteq Started', faults \in Nat, faults' \in Nat,
           faults' >= faults,
           \A a \in Agents : service[a] = "deleted" => service'[a] = "deleted"
    PROVE  Onward
BY DEF Onward, Alike

\* A step of the server beside the calls.
LEMMA ServerMoves ==
    ASSUME IInv, Onward, TypedServer', Alike, faults' \in Nat, unsent' \in BOOLEAN,
           UNCHANGED <<agents, select, view, polls, calls, inOrder>>
    PROVE  IInv'
<1>1. CallsOK' /\ Pairs'
  <2>1. \A c : CallOK(c) => CallOK(c)'
    <3> SUFFICES ASSUME NEW c, CallOK(c) PROVE CallOK(c)'
      OBVIOUS
    <3>1. c.op \in Loops => Looping(c.run)'
      BY DEF CallOK, Looping
    <3> QED
      BY <3>1, CallLives
  <2> QED
    BY <2>1 DEF IInv, CallsOK, Pairs
<1>2. Known'
  BY KnownStays DEF IInv, view
<1>3. Belongs'
  <2>1. LoadUnderWay(ref) => LoadUnderWay(ref)'
    BY DEF LoadUnderWay, select
  <2> QED
    BY <2>1, BelongsStays DEF IInv, Excused, select, view
<1>4. TypedPage'
  BY DEF IInv, TypedPage, select, view
<1> QED
  BY <1>1, <1>2, <1>3, <1>4 DEF IInv

LEMMA AnswerSendKeeps ==
    ASSUME IInv, NEW i \in 1..Len(calls), AnswerSend(i)
    PROVE  IInv'
<1>1. PICK c : c = calls[i] /\ CallOK(c) /\ c \in Calls
  BY DEF IInv, CallsOK, CallOK, CallTyped
<1>2. c.op = "send" /\ c.fst = Sent /\ UNCHANGED <<agents, select, view, polls, budget>>
  BY <1>1 DEF AnswerSend
<1>3. PICK a \in Agents : a = c.agent
  BY <1>1, <1>2 DEF CallOK, CallTyped
<1>4. PICK d : /\ calls' = [calls EXCEPT ![i] = d]
               /\ IF service[a] = "ready"
                  THEN /\ Admit(a)
                       /\ d = [c EXCEPT !.fst = [run |-> <<a, Len(runs[a]) + 1>>, status |-> "active"]]
                  ELSE UNCHANGED server /\ d = [c EXCEPT !.fst = Failed]
  BY <1>1, <1>3 DEF AnswerSend
<1>5. d.op = "send" /\ d.agent = a /\ d.run = c.run /\ d.snd = c.snd
  BY <1>1, <1>2, <1>3, <1>4 DEF Calls
<1>6. /\ UNCHANGED <<agents, select, view, polls, inOrder, unsent>>
      /\ faults' = faults /\ faults' \in Nat
  BY <1>2 DEF budget, IInv, TypedPage
<1>7. c.snd = Done /\ c.run = None
  BY <1>1, <1>2 DEF CallOK, CallTyped, SecondTyped, Loops
<1>8. CASE service[a] # "ready"
  <2>1. d = [c EXCEPT !.fst = Failed] /\ UNCHANGED server
    BY <1>4, <1>8
  <2>2. Onward /\ TypedServer'
    BY <1>6, <2>1, SameServer, SameTypes DEF IInv
  <2>3. CallOK(c)'
    BY <1>1, <1>6, <2>1, <2>2, SameCall
  <2>4. d \in Calls /\ d.fst = Failed
    BY <1>1, <2>1 DEF Calls, Answers
  <2>5. CallTyped(d) /\ Carried(d) = {} /\ Listing(d) = {}
    BY <1>1, <1>2, <1>5, <2>4, Marked
       DEF CallOK, CallTyped, FirstTyped, SecondTyped, Carried, Listing, Lists, Commands, Loops
  <2>6. CallOK(d)'
    BY <1>2, <1>3, <1>5, <2>3, <2>5 DEF CallOK, Lists, Loops
  <2>7. Alike
    BY <2>1, Unmoved DEF server
  <2> QED
    BY <1>1, <1>2, <1>3, <1>4, <1>5, <1>6, <2>2, <2>6, <2>7, AnsweredKeeps
<1>9. CASE service[a] = "ready"
  <2>1. /\ TypedServer' /\ Alike /\ Len(runs[a]) \in Nat
        /\ \A b \in Agents : service'[b] = IF b = a THEN "busy" ELSE service[b]
        /\ <<a, Len(runs[a]) + 1>> \in RunIds \cap Started'
        /\ Started \subseteq Started'
    BY <1>4, <1>9, Admitted DEF IInv
  <2>2. PICK n \in Nat : n = Len(runs[a])
    BY <2>1
  <2>3. PICK r : r = <<a, n + 1>>
    OBVIOUS
  <2>4. PICK v : v = [run |-> r, status |-> "active"]
    OBVIOUS
  <2>5. r \in RunIds /\ r[1] = a /\ v \in RunViews /\ v.run = r /\ v.status = "active"
    BY <2>1, <2>2, <2>3, <2>4 DEF RunViews
  <2>6. d = [c EXCEPT !.fst = v]
    BY <1>4, <1>9, <2>2, <2>3, <2>4
  <2>7. d.fst = v /\ d \in Calls
    <3>1. v \in Answers
      BY <2>5 DEF Answers
    <3> QED
      BY <1>1, <2>6, <3>1 DEF Calls
  <2>8. Onward
    BY <1>6, <1>9, <2>1, MovesOn DEF IInv, TypedPage
  <2>9. CallTyped(d) /\ Carried(d) = {v} /\ Listing(d) = {}
    BY <1>1, <1>2, <1>3, <1>5, <1>7, <2>5, <2>7, Marked
       DEF CallOK, CallTyped, FirstTyped, SecondTyped, ViewOf, Carried, Listing, Lists, Commands, Loops
  <2>10. Born(a)' /\ RunKnown(r)'
    BY <2>1, <2>2, <2>3, <2>5 DEF Born, RunKnown
  <2>11. CallOK(d)'
    BY <1>5, <2>5, <2>9, <2>10 DEF CallOK, Lists, Loops
  <2> QED
    BY <1>1, <1>2, <1>3, <1>4, <1>5, <1>6, <2>1, <2>8, <2>11, AnsweredKeeps
<1> QED
  BY <1>8, <1>9

\* A run ends, and its Agent is ready, or stays stopped.
Ends(a, k, status, state) ==
    /\ TypedServer' /\ Alike /\ Started' = Started /\ Live(a)
    /\ \A b \in Agents : service'[b] = IF b = a THEN state ELSE service[b]
    /\ \A b \in Agents : Len(runs'[b]) = Len(runs[b]) /\ Len(runs[b]) \in Nat
    /\ \A b \in Agents : \A j \in 1..Len(runs[b]) :
          runs'[b][j] = IF b = a /\ j = k THEN status ELSE runs[b][j]

LEMMA Moved ==
    ASSUME TypedServer, NEW a \in Agents, NEW k \in 1..MaxRuns, <<a, k>> \in Started,
           NEW status \in RunStatuses,
           NEW state \in {"ready", "stopped"}, state = "stopped" => service[a] = "stopped",
           runs' = [runs EXCEPT ![a][k] = status], service' = [service EXCEPT ![a] = state]
    PROVE  Ends(a, k, status, state)
<1>1. PICK s \in Seq(RunStatuses) : s = runs[a]
  BY DEF TypedServer
<1>2. k \in 1..Len(s)
  BY <1>1, RunIdParts DEF Started
<1>3. PICK t : t = [s EXCEPT ![k] = status]
  OBVIOUS
<1>4. /\ t \in Seq(RunStatuses) /\ Len(t) = Len(s)
      /\ \A j \in 1..Len(s) : t[j] = IF j = k THEN status ELSE s[j]
  BY <1>1, <1>2, <1>3
<1>5. runs' = [runs EXCEPT ![a] = t]
  BY <1>1, <1>3 DEF TypedServer
<1>6. Live(a)
  BY <1>1, <1>2 DEF TypedServer
<1>7. /\ \A b \in Agents : service'[b] = IF b = a THEN state ELSE service[b]
      /\ \A b \in Agents : runs'[b] = IF b = a THEN t ELSE runs[b]
      /\ service' \in [Agents -> {"unborn", "ready", "busy", "stopped", "deleted"}]
      /\ runs' \in [Agents -> Seq(RunStatuses)]
  BY <1>4, <1>5 DEF TypedServer
<1>8. Alike
  BY <1>6, <1>7 DEF Alike, Live, Born
<1>9. \A b \in Agents : Len(runs'[b]) = Len(runs[b]) /\ Len(runs[b]) \in Nat
  BY <1>1, <1>4, <1>7 DEF TypedServer
<1>10. TypedServer'
  <2>1. ASSUME NEW b \in Agents
        PROVE  Len(runs'[b]) <= MaxRuns /\ (~ Live(b)' => runs'[b] = <<>>)
    <3>1. CASE b = a
      BY <1>6, <1>8, <1>9, <3>1 DEF Alike, TypedServer
    <3>2. CASE b # a
      BY <1>7, <1>8, <3>2 DEF Alike, TypedServer
    <3> QED
      BY <3>1, <3>2
  <2> QED
    BY <1>7, <2>1 DEF TypedServer
<1>11. Started' = Started
  BY <1>9, RunIdParts DEF Started
<1>12. \A b \in Agents : \A j \in 1..Len(runs[b]) :
         runs'[b][j] = IF b = a /\ j = k THEN status ELSE runs[b][j]
  BY <1>1, <1>4, <1>7
<1> QED
  BY <1>6, <1>7, <1>8, <1>9, <1>10, <1>11, <1>12 DEF Ends

LEMMA Freed ==
    ASSUME TypedServer, NEW a \in Agents, Free(a)
    PROVE  \E state \in {"ready", "stopped"} :
              /\ state = "stopped" => service[a] = "stopped"
              /\ service' = [service EXCEPT ![a] = state]
<1>1. CASE service[a] = "stopped"
  BY <1>1 DEF Free, TypedServer
<1>2. CASE service[a] # "stopped"
  BY <1>2 DEF Free, TypedServer
<1> QED
  BY <1>1, <1>2

LEMMA EndKeeps ==
    ASSUME IInv, NEW r \in Started, Finish(r) \/ Lapse(r)
    PROVE  /\ IInv' /\ Alike /\ Started' = Started
           /\ UNCHANGED <<agents, select, view, polls, calls, inOrder, unsent>>
           /\ \A a \in Agents : service'[a] # service[a] => service'[a] = "ready" /\ a = r[1]
           /\ \A a \in Agents : Len(runs'[a]) = Len(runs[a]) /\ Len(runs[a]) \in Nat
           /\ \A a \in Agents : \A j \in 1..Len(runs[a]) :
                 runs'[a][j] = runs[a][j] \/ <<a, j>> = r
<1>1. PICK a \in Agents, k \in 1..MaxRuns : r[1] = a /\ r[2] = k /\ r = <<a, k>>
  BY RunIdParts DEF Started
<1>2. PICK status \in RunStatuses : runs' = [runs EXCEPT ![a][k] = status]
  BY <1>1 DEF Finish, Lapse, RunStatuses
<1>3. PICK state \in {"ready", "stopped"} :
         /\ state = "stopped" => service[a] = "stopped"
         /\ service' = [service EXCEPT ![a] = state]
  <2>1. Free(a) \/ service' = [service EXCEPT ![a] = "ready"]
    BY <1>1 DEF Finish, Lapse
  <2> QED
    BY <2>1, Freed DEF IInv
<1>4. /\ TypedServer' /\ Alike /\ Started' = Started /\ Live(a)
      /\ \A b \in Agents : service'[b] = IF b = a THEN state ELSE service[b]
      /\ \A b \in Agents : Len(runs'[b]) = Len(runs[b]) /\ Len(runs[b]) \in Nat
      /\ \A b \in Agents : \A j \in 1..Len(runs[b]) :
            runs'[b][j] = IF b = a /\ j = k THEN status ELSE runs[b][j]
  <2>1. TypedServer /\ <<a, k>> \in Started
    BY <1>1 DEF IInv
  <2>2. state = "stopped" => service[a] = "stopped"
    BY <1>3
  <2>3. runs' = [runs EXCEPT ![a][k] = status] /\ service' = [service EXCEPT ![a] = state]
    BY <1>2, <1>3
  <2>4. Ends(a, k, status, state)
    BY <2>1, <2>2, <2>3, Moved
  <2> QED
    BY <2>4 DEF Ends
<1>5. /\ UNCHANGED <<agents, select, view, polls, calls, inOrder, unsent>>
      /\ faults' \in Nat /\ faults' >= faults
  BY DEF Finish, Lapse, budget, IInv, TypedPage
<1>6. \A b \in Agents : service[b] = "deleted" => service'[b] = "deleted"
  BY <1>4 DEF Live
<1>7. Onward
  BY <1>4, <1>5, <1>6, MovesOn DEF IInv, TypedPage
<1>8. IInv'
  BY <1>4, <1>5, <1>7, ServerMoves DEF IInv, TypedPage
<1> QED
  BY <1>1, <1>3, <1>4, <1>5, <1>8

LEMMA AnswerCommandKeeps ==
    ASSUME IInv, NEW i \in 1..Len(calls), AnswerCommand(i)
    PROVE  IInv'
<1>1. PICK c : c = calls[i] /\ CallOK(c) /\ c \in Calls
  BY DEF IInv, CallsOK, CallOK, CallTyped
<1>2. c.op \in Commands /\ c.fst = Sent /\ UNCHANGED <<agents, select, view, polls, budget>>
  BY <1>1 DEF AnswerCommand
<1>3. PICK a \in Agents : a = c.agent
  BY <1>1, <1>2 DEF CallOK, CallTyped, Commands
<1>4. PICK d : /\ calls' = [calls EXCEPT ![i] = d]
               /\ IF Refused(c.op, a)
                  THEN d = [c EXCEPT !.fst = Failed] /\ UNCHANGED server
                  ELSE /\ d = [c EXCEPT !.fst = "ok"]
                       /\ service' = [service EXCEPT ![a] = Becomes(c.op, @)]
                       /\ runs' = [runs EXCEPT ![a] = After(c.op, @)]
  BY <1>1, <1>3 DEF AnswerCommand
<1>5. /\ d.op = c.op /\ d.agent = a /\ d.run = c.run /\ d.snd = c.snd /\ d \in Calls
      /\ d.fst = IF Refused(c.op, a) THEN Failed ELSE "ok"
  BY <1>1, <1>3, <1>4 DEF Calls, Answers
<1>6. UNCHANGED <<agents, select, view, polls, inOrder, unsent>> /\ faults' = faults /\ faults' \in Nat
  BY <1>2 DEF budget, IInv, TypedPage
<1>7. CallTyped(d) /\ Carried(d) = {} /\ Listing(d) = {}
  BY <1>1, <1>2, <1>3, <1>5, Marked
     DEF CallOK, CallTyped, FirstTyped, SecondTyped, Carried, Listing, Lists, Commands, Loops
<1>8. c.op \notin {"list", "created", "load"} /\ c.op \notin Loops
  BY <1>2 DEF Commands, Loops
<1>9. CASE Refused(c.op, a)
  <2>1. UNCHANGED server /\ d.fst = Failed /\ Failed # "ok" /\ Failed # Sent
    BY <1>4, <1>5, <1>9, Marked
  <2>2. Onward /\ TypedServer'
    BY <1>6, <2>1, SameServer, SameTypes DEF IInv
  <2>3. CallOK(c)'
    BY <1>1, <1>6, <2>1, <2>2, SameCall
  <2>4. CallOK(d)'
    BY <1>3, <1>5, <1>7, <1>8, <2>1, <2>3 DEF CallOK
  <2> QED
    BY <1>1, <1>2, <1>3, <1>4, <1>5, <1>6, <1>8, <2>2, <2>4, AnsweredKeeps
<1>10. CASE ~ Refused(c.op, a)
  <2>1. PICK s \in Seq(RunStatuses) : s = runs[a] /\ Len(s) <= MaxRuns
    BY DEF IInv, TypedServer
  <2>2. /\ After(c.op, s) \in Seq(RunStatuses)
        /\ c.op # "delete" => Len(After(c.op, s)) = Len(s)
    <3>1. PICK n \in Nat : n = Len(s)
      BY <2>1
    <3>2. PICK t : t = [k \in 1..n |-> IF c.op = "stop" /\ k = n THEN Settled(s[k]) ELSE s[k]]
      OBVIOUS
    <3>3. \A status \in RunStatuses : Settled(status) \in RunStatuses
      BY DEF Settled, RunStatuses
    <3>4. t \in Seq(RunStatuses) /\ Len(t) = n
      BY <2>1, <3>1, <3>2, <3>3
    <3> QED
      BY <3>1, <3>2, <3>4 DEF After
  <2>3. Becomes(c.op, service[a]) \in {"ready", "stopped", "deleted"}
    BY <1>2, <1>10 DEF Becomes, Refused, Live, Busy, Commands
  <2>4. /\ service' \in [Agents -> {"unborn", "ready", "busy", "stopped", "deleted"}]
        /\ service'[a] = Becomes(c.op, service[a])
        /\ \A b \in Agents : b # a => service'[b] = service[b]
    BY <1>4, <1>10, <2>3 DEF IInv, TypedServer
  <2>5. /\ runs' \in [Agents -> Seq(RunStatuses)]
        /\ runs'[a] = After(c.op, s)
        /\ \A b \in Agents : b # a => runs'[b] = runs[b]
    BY <1>4, <1>10, <2>1, <2>2 DEF IInv, TypedServer
  <2>6. c.op = "delete" => service'[a] = "deleted" /\ runs'[a] = <<>>
    BY <2>4, <2>5 DEF Becomes, After
  <2>7. c.op # "delete" => service'[a] \in {"ready", "stopped"} /\ Len(runs'[a]) = Len(s)
    <3>1. c.op # "delete" => Becomes(c.op, service[a]) \in {"ready", "stopped"}
      BY <1>2, <1>10 DEF Becomes, Refused, Live, Busy, Commands
    <3> QED
      BY <2>2, <2>4, <2>5, <3>1
  <2>8. IF c.op = "create" THEN service[a] = "unborn" ELSE Live(a)
    BY <1>1, <1>2, <1>3, <1>10 DEF CallOK, Refused
  <2>9. TypedServer'
    <3>1. ASSUME NEW b \in Agents
          PROVE  Len(runs'[b]) <= MaxRuns /\ (~ Live(b)' => runs'[b] = <<>>)
      <4>1. CASE b = a
        BY <2>1, <2>6, <2>7, <4>1, RunIdParts DEF Live
      <4>2. CASE b # a
        BY <2>4, <2>5, <4>2 DEF IInv, TypedServer, Live
      <4> QED
        BY <4>1, <4>2
    <3> QED
      BY <2>4, <2>5, <3>1 DEF TypedServer
  <2>10. Onward
    <3>1. \A b \in Agents : Born(b) => Born(b)' /\ (Live(b)' => Live(b))
      BY <2>3, <2>4, <2>6, <2>8 DEF Born, Live
    <3>2. \A b \in Agents : service[b] = "deleted" => service'[b] = "deleted"
      BY <2>4, <2>8 DEF Live
    <3>3. \A r \in RunIds : r \in Started /\ Live(r[1])' => r \in Started'
      <4> SUFFICES ASSUME NEW r \in RunIds, r \in Started, Live(r[1])'
                   PROVE  r \in Started'
        OBVIOUS
      <4>1. r[1] \in Agents /\ r[2] <= Len(runs[r[1]])
        BY RunIdParts DEF Started
      <4>2. Len(runs'[r[1]]) = Len(runs[r[1]])
        BY <2>1, <2>5, <2>6, <2>7, <4>1 DEF Live
      <4> QED
        BY <4>1, <4>2 DEF Started
    <3> QED
      BY <1>6, <3>1, <3>2, <3>3 DEF Onward
  <2>11. d.fst = "ok" /\ "ok" # Sent
    BY <1>5, <1>10, Marked
  <2>12. Born(a)' /\ (c.op = "create" => Live(a)')
    BY <2>3, <2>4, <2>7 DEF Born, Live
  <2>13. CallOK(d)'
    BY <1>5, <1>7, <1>8, <2>11, <2>12 DEF CallOK
  <2> QED
    BY <1>1, <1>2, <1>3, <1>4, <1>5, <1>6, <1>8, <2>9, <2>10, <2>13, AnsweredKeeps
<1> QED
  BY <1>9, <1>10

-----------------------------------------------------------------------------
(* The page's steps.                                                       *)

\* A call that is followed by another one, and asks for the list besides.
LEMMA CallsUpdateAdd ==
    ASSUME CallsOK, Pairs, NEW i \in 1..Len(calls), NEW d, NEW e,
           calls' = Append([calls EXCEPT ![i] = d], e),
           \A c \in Others({i}) : CallOK(c)' /\ PairOK(c, d),
           CallOK(d)', CallOK(e)', e.op = "list"
    PROVE  CallsOK' /\ Pairs'
<1>1. PICK s \in Seq(Calls) : s = calls /\ i \in 1..Len(s)
  BY DEF CallsOK
<1>2. PICK n \in Nat : n = Len(s)
  BY <1>1
<1>3. d \in Calls /\ e \in Calls
  BY DEF CallOK, CallTyped
<1>4. PICK t : t = Append([s EXCEPT ![i] = d], e)
  OBVIOUS
<1>5. /\ t \in Seq(Calls) /\ Len(t) = n + 1 /\ t[n + 1] = e /\ t[i] = d
      /\ \A j \in 1..n : j # i => t[j] = s[j]
  BY <1>1, <1>2, <1>3, <1>4
<1>6. t = calls'
  BY <1>1, <1>4
<1>7. \A j \in 1..n : j # i => CallOK(s[j])' /\ PairOK(s[j], d)
  <2>1. \A j \in 1..n : j # i => s[j] \in Others({i})
    BY <1>1, <1>2 DEF Others
  <2> QED
    BY <2>1
<1>8. \A k \in 1..(n + 1) : k = n + 1 \/ k \in 1..n
  OBVIOUS
<1>9. \A k \in 1..Len(t) : CallOK(t[k])'
  BY <1>5, <1>7, <1>8
<1>10. ASSUME NEW k \in 1..(n + 1), NEW l \in 1..(n + 1), k < l
       PROVE  PairOK(t[k], t[l])
  <2>1. CASE l = n + 1
    BY <1>5, <2>1 DEF PairOK, Forming, Loops, Commands
  <2>2. CASE l # n + 1 /\ k # i /\ l # i
    BY <1>1, <1>2, <1>5, <1>10, <2>2 DEF Pairs
  <2>3. CASE l # n + 1 /\ l = i
    BY <1>2, <1>5, <1>7, <1>10, <2>3
  <2>4. CASE l # n + 1 /\ k = i
    <3>1. PairOK(t[l], t[k])
      BY <1>1, <1>2, <1>5, <1>7, <1>10, <2>4
    <3> QED
      BY <3>1 DEF PairOK
  <2> QED
    BY <2>1, <2>2, <2>3, <2>4
<1>11. CallsOK'
  BY <1>5, <1>6, <1>9 DEF CallsOK
<1>12. Pairs'
  BY <1>5, <1>6, <1>10 DEF Pairs
<1> QED
  BY <1>11, <1>12

LEMMA LoadUpdatedAdd ==
    ASSUME NEW a, LoadUnderWay(a), CallsOK, NEW i \in 1..Len(calls), NEW d, NEW e,
           calls' = Append([calls EXCEPT ![i] = d], e), calls[i].op # "load"
    PROVE  LoadUnderWay(a)'
<1>1. PICK j \in 1..Len(calls) : calls[j].op = "load" /\ calls[j].agent = a /\ calls[j].fst # Done
  BY DEF LoadUnderWay
<1>2. PICK s \in Seq(Calls) : s = calls
  BY DEF CallsOK
<1>3. Len(calls') = Len(s) + 1 /\ calls'[j] = calls[j] /\ j \in 1..(Len(s) + 1)
  BY <1>1, <1>2
<1> QED
  BY <1>1, <1>3 DEF LoadUnderWay

\* What a step of the page that leaves the server alone leaves known.
LEMMA SameFacts ==
    ASSUME UNCHANGED server
    PROVE  /\ Started' = Started
           /\ \A a \in Agents : (Born(a)' <=> Born(a)) /\ (Live(a)' <=> Live(a))
           /\ \A r \in RunIds : RunKnown(r)' <=> RunKnown(r)
<1>1. service' = service /\ runs' = runs
  BY DEF server
<1>2. Started' = Started
  BY <1>1 DEF Started
<1>3. \A a : (Born(a)' <=> Born(a)) /\ (Live(a)' <=> Live(a))
  BY <1>1 DEF Born, Live
<1> QED
  BY <1>2, <1>3 DEF RunKnown

\* A call of the page that is new.
LEMMA NewCall ==
    ASSUME UNCHANGED server, NEW d, CallTyped(d), d.fst = Sent,
           Carried(d) = {}, \A list \in Listing(d) : \A a \in DOMAIN list : Born(a),
           d.op \notin {"create", "list"} => Born(d.agent),
           d.op = "create" => service[d.agent] = "unborn",
           d.op = "created" => Live(d.agent),
           d.op \in Loops => Looping(d.run)'
    PROVE  CallOK(d)'
<1>1. service' = service
  BY DEF server
<1>2. Sent # "ok" /\ Sent # Failed /\ Sent \notin Listings
  BY Marked
<1> QED
  BY <1>1, <1>2 DEF CallOK, Born, Live

LEMMA ListCall ==
    /\ One("list", None, None).op = "list" /\ One("list", None, None) \in Calls
    /\ UNCHANGED server => CallOK(One("list", None, None))'
    /\ \A c : PairOK(c, One("list", None, None))
<1>1. PICK d : d = One("list", None, None)
  OBVIOUS
<1>2. d.op = "list" /\ d.agent = None /\ d.run = None /\ d.fst = Sent /\ d.snd = Done /\ d \in Calls
  BY <1>1 DEF One, Call, Calls, Answers, Ops, Lists
<1>3. CallTyped(d) /\ Carried(d) = {} /\ Listing(d) = {}
  BY <1>2, Marked DEF CallTyped, FirstTyped, SecondTyped, Carried, Listing, Lists, Loops, Commands
<1>4. UNCHANGED server => CallOK(d)'
  BY <1>2, <1>3, NewCall DEF Loops
<1>5. \A c : PairOK(c, d)
  BY <1>2 DEF PairOK, Forming, Loops, Commands
<1> QED
  BY <1>1, <1>2, <1>4, <1>5

\* A step of the page: from R of the calls to N, with what it knows and shows.
LEMMA PageKeeps ==
    ASSUME IInv, UNCHANGED server, UNCHANGED faults, TypedPage', Known',
           NEW R, NEW N, calls' \in Seq(Calls), Follows(calls, calls', R, N),
           \A c \in Others(R) : c.op \in Loops => Looping(c.run)',
           \A d \in N : CallOK(d)' /\ \A c \in Others(R) : PairOK(c, d),
           Belongs'
    PROVE  IInv'
<1>1. Onward /\ TypedServer' /\ UNCHANGED service
  BY SameServer, SameTypes DEF IInv, TypedPage, server
<1>2. CallsOK' /\ Pairs'
  BY <1>1, CallsLeft DEF IInv
<1> QED
  BY <1>1, <1>2 DEF IInv

LEMMA PageDrops ==
    ASSUME IInv, UNCHANGED server, UNCHANGED faults, TypedPage', Known',
           NEW i \in 1..Len(calls), calls' \in Seq(Calls), Follows(calls, calls', {i}, {}),
           \A c \in Others({i}) : c.op \in Loops => Looping(c.run)',
           Belongs'
    PROVE  IInv'
<1>1. PICK R, N : R = {i} /\ N = {}
  OBVIOUS
<1>2. \A d \in N : CallOK(d)' /\ \A c \in Others(R) : PairOK(c, d)
  BY <1>1
<1>3. /\ calls' \in Seq(Calls) /\ Follows(calls, calls', R, N)
      /\ \A c \in Others(R) : c.op \in Loops => Looping(c.run)'
  BY <1>1
<1> QED
  BY <1>2, <1>3, PageKeeps, Zenon

\* What is shown belongs where it is, if nothing of it changes and the calls that
\* went were no load of the selected Agent's messages.
LEMMA BelongsKept ==
    ASSUME IInv, UNCHANGED server, UNCHANGED faults,
           UNCHANGED <<messages, activeRun, ref, effectDue>>,
           NEW R, NEW N, Follows(calls, calls', R, N),
           \A i \in 1..Len(calls) : i \in R => calls[i].op # "load"
    PROVE  Belongs'
<1>1. Onward
  BY SameServer DEF IInv, TypedPage
<1>2. LoadUnderWay(ref) => \E k \in 1..Len(calls') :
         calls'[k].op = "load" /\ calls'[k].agent = ref /\ calls'[k].fst # Done
  BY LoadStays DEF LoadUnderWay
<1>3. LoadUnderWay(ref) => LoadUnderWay(ref)'
  BY <1>2 DEF LoadUnderWay
<1> QED
  BY <1>1, <1>3, BelongsStays DEF IInv, Excused

LEMMA RenderKeeps ==
    ASSUME IInv, Render
    PROVE  IInv'
<1>1. /\ ref' = selectedId /\ effectDue' = TRUE
      /\ UNCHANGED <<server, agents, selectedId, view, polls, calls, budget>>
  BY DEF Render
<1>2. Onward /\ TypedServer'
  BY <1>1, SameServer, SameTypes DEF IInv, TypedPage, budget
<1>3. CallsOK' /\ Pairs'
  <2>1. \A c : CallOK(c) => CallOK(c)'
    BY <1>1, <1>2, SameCall
  <2> QED
    BY <1>1, <2>1 DEF IInv, CallsOK, Pairs
<1>4. Known'
  <2>1. \A a \in DOMAIN agents : Born(a) /\ Born(a)'
    BY <1>1 DEF IInv, Known, server, Born
  <2>2. activeRun # None => RunKnown(activeRun.run)'
    BY <1>1, SameFacts DEF IInv, Known, TypedPage, RunViews, view
  <2>3. \A p \in polls : RunKnown(p.run)'
    BY <1>1, SameFacts DEF IInv, Known, TypedPage
  <2> QED
    BY <1>1, <2>1, <2>2, <2>3 DEF IInv, Known, view
<1>5. TypedPage'
  BY <1>1 DEF IInv, TypedPage, view, budget
<1> QED
  BY <1>1, <1>2, <1>3, <1>4, <1>5 DEF IInv, Belongs

LEMMA EffectKeeps ==
    ASSUME IInv, Effect
    PROVE  IInv'
<1>1. /\ effectDue /\ effectDue' = FALSE /\ activeRun' = None
      /\ UNCHANGED <<server, agents, selectedId, ref, polls, budget>>
  BY DEF Effect, EffectRun
<1>2. UNCHANGED faults
  BY <1>1 DEF budget
<1>3. Known'
  <2>1. \A a \in Agents : Born(a)' <=> Born(a)
    BY <1>1, SameFacts
  <2>2. \A p \in polls : RunKnown(p.run)'
    BY <1>1, SameFacts DEF IInv, Known, TypedPage
  <2>3. DOMAIN agents \subseteq Agents
    BY DEF IInv, TypedPage, Listings
  <2> QED
    BY <1>1, <2>1, <2>2, <2>3 DEF IInv, Known, TypedPage
<1>4. CASE ref = None
  <2>1. messages' = <<>> /\ UNCHANGED calls
    BY <1>4 DEF Effect
  <2>2. <<>> \in Conversations
    BY DEF Conversations
  <2>3. TypedPage'
    BY <1>1, <2>1, <2>2 DEF IInv, TypedPage, budget
  <2>4. Belongs'
    BY <1>1, <1>4, <2>1 DEF Belongs
  <2>5. Onward /\ TypedServer'
    BY <1>1, <1>2, SameServer, SameTypes DEF IInv, TypedPage
  <2>6. CallsOK' /\ Pairs'
    <3>1. \A c : CallOK(c) => CallOK(c)'
      BY <1>1, <2>5, SameCall
    <3> QED
      BY <2>1, <3>1 DEF IInv, CallsOK, Pairs
  <2> QED
    BY <1>3, <2>3, <2>4, <2>5, <2>6 DEF IInv
<1>5. CASE ref # None
  <2>1. PICK d : d = Pair("load", ref, None)
    OBVIOUS
  <2>2. calls' = Append(calls, d) /\ UNCHANGED messages
    BY <1>5, <2>1 DEF Effect
  <2>3. ref \in Agents /\ Born(ref)
    BY <1>5 DEF IInv, TypedPage, Known
  <2>4. d.op = "load" /\ d.agent = ref /\ d.run = None /\ d.fst = Sent /\ d.snd = Sent /\ d \in Calls
    BY <2>1, <2>3 DEF Pair, Call, Calls, Answers, Ops
  <2>5. CallTyped(d) /\ Carried(d) = {} /\ Listing(d) = {}
    BY <2>3, <2>4, Marked DEF CallTyped, FirstTyped, SecondTyped, Carried, Listing, Lists, Loops, Commands
  <2>6. CallOK(d)'
    BY <1>1, <2>3, <2>4, <2>5, NewCall DEF Loops
  <2>7. \A c : PairOK(c, d)
    BY <2>4 DEF PairOK, Forming, Loops, Commands
  <2>8. calls' \in Seq(Calls) /\ Follows(calls, calls', {}, {d})
    BY <2>2, <2>4, AppendFollows DEF IInv, CallsOK
  <2>9. TypedPage'
    BY <1>1, <2>2 DEF IInv, TypedPage, budget
  <2>10. \A c \in Others({}) : c.op \in Loops => Looping(c.run)'
    BY <1>1, OthersOK DEF IInv, CallOK, Looping
  <2>11. \E k \in 1..Len(calls') : calls'[k] = d
    BY <2>8 DEF Follows
  <2>12. Belongs'
    BY <1>1, <1>5, <2>4, <2>11, Marked DEF Belongs, Excused, LoadUnderWay
  <2> QED
    BY <1>1, <1>2, <1>3, <2>6, <2>7, <2>8, <2>9, <2>10, <2>12, PageKeeps
<1> QED
  BY <1>4, <1>5

LEMMA RefreshedKeeps ==
    ASSUME IInv, NEW i \in 1..Len(calls), Refreshed(i)
    PROVE  IInv'
<1>1. PICK c : c = calls[i] /\ CallOK(c)
  BY DEF IInv, CallsOK
<1>2. /\ c.op = "messages" /\ c.fst \notin {Sent, Done} /\ calls' = RemoveAt(calls, i)
      /\ UNCHANGED <<server, agents, select, activeRun, polls, budget>>
      /\ messages' = IF c.fst # Failed /\ ref = c.agent THEN c.fst ELSE messages
  BY <1>1 DEF Refreshed, Arrived, Without, ApplyMessages, ForSelected
<1>3. calls' \in Seq(Calls) /\ Follows(calls, calls', {i}, {})
  BY <1>2, RemoveFollows DEF IInv, CallsOK
<1>4. c.fst = Failed \/ TalkOf(c.fst, c.agent)
  BY <1>1, <1>2 DEF CallOK, CallTyped, FirstTyped
<1>5. Onward /\ UNCHANGED faults
  BY <1>2, SameServer DEF IInv, TypedPage, budget
<1>6. Known'
  BY <1>2, <1>5, KnownStays DEF IInv
<1>7. TypedPage'
  BY <1>2, <1>4 DEF IInv, TypedPage, select, budget, TalkOf
<1>8. \A d \in Others({i}) : d.op \in Loops => Looping(d.run)'
  BY <1>2, OthersOK DEF IInv, CallOK, Looping
<1>9. Belongs'
  <2>1. CASE c.fst # Failed /\ ref = c.agent
    <3>1. c.agent \in Agents
      BY <1>1, <1>2 DEF CallOK, CallTyped
    <3> QED
      BY <1>2, <1>4, <2>1, <3>1, AgentSet DEF IInv, Belongs, TalkOf, select
  <2>2. CASE ~ (c.fst # Failed /\ ref = c.agent)
    BY <1>1, <1>2, <1>3, <1>5, <2>2, BelongsKept DEF select
  <2> QED
    BY <2>1, <2>2
<1> QED
  BY <1>2, <1>3, <1>5, <1>6, <1>7, <1>8, <1>9, PageDrops

LEMMA ListedKeeps ==
    ASSUME IInv, NEW i \in 1..Len(calls), Listed(i)
    PROVE  IInv'
<1>1. PICK c : c = calls[i] /\ CallOK(c)
  BY DEF IInv, CallsOK
<1>2. /\ c.op \in Lists /\ c.fst \notin {Sent, Done} /\ calls' = RemoveAt(calls, i)
      /\ UNCHANGED <<server, ref, effectDue, view, polls, budget>>
  BY <1>1 DEF Listed, Arrived, Without
<1>3. \/ c.fst = Failed /\ UNCHANGED <<agents, selectedId>>
      \/ /\ c.fst # Failed /\ agents' = c.fst
         /\ \/ c.op = "created" /\ selectedId' = c.agent
            \/ selectedId' = None \/ selectedId' \in DOMAIN c.fst
  BY <1>1 DEF Listed, ApplyList
<1>4. c.fst = Failed \/ c.fst \in Listings
  BY <1>1, <1>2 DEF CallOK, CallTyped, FirstTyped
<1>5. calls' \in Seq(Calls) /\ Follows(calls, calls', {i}, {})
  BY <1>2, RemoveFollows DEF IInv, CallsOK
<1>6. Onward /\ UNCHANGED faults
  BY <1>2, SameServer DEF IInv, TypedPage, budget
<1>7. c.fst # Failed => /\ agents' \in Listings /\ \A a \in DOMAIN agents' : Born(a)
                        /\ selectedId' = None \/ selectedId' \in DOMAIN agents'
                        /\ DOMAIN agents' \subseteq Agents
  BY <1>1, <1>2, <1>3, <1>4 DEF CallOK, Listing, Listings
<1>8. TypedPage'
  BY <1>2, <1>3, <1>7 DEF IInv, TypedPage, view, budget
<1>9. Known'
  <2>1. \A a \in Agents : Born(a)' <=> Born(a)
    BY <1>2, SameFacts
  <2>2. \A p \in polls : RunKnown(p.run)'
    BY <1>2, SameFacts DEF IInv, Known, TypedPage
  <2>3. activeRun # None => RunKnown(activeRun.run)'
    BY <1>2, SameFacts DEF IInv, Known, TypedPage, RunViews, view
  <2>4. DOMAIN agents \subseteq Agents
    BY DEF IInv, TypedPage, Listings
  <2> QED
    BY <1>2, <1>3, <1>7, <2>1, <2>2, <2>3, <2>4 DEF IInv, Known, TypedPage, view
<1>10. \A d \in Others({i}) : d.op \in Loops => Looping(d.run)'
  BY <1>2, OthersOK DEF IInv, CallOK, Looping
<1>11. Belongs'
  <2>1. c.op # "load"
    BY <1>2 DEF Lists
  <2> QED
    BY <1>1, <1>2, <1>5, <1>6, <2>1, BelongsKept DEF view
<1> QED
  BY <1>2, <1>5, <1>6, <1>8, <1>9, <1>10, <1>11, PageDrops

\* What is shown belongs where it is, if what is new of it is the selected Agent's.
LEMMA BelongsShown ==
    ASSUME IInv, UNCHANGED server, UNCHANGED faults, UNCHANGED <<ref, effectDue>>,
           activeRun' \in {activeRun, None} \/ activeRun'.run[1] = ref,
           \/ messages' = messages
           \/ ref # None /\ \A k \in 1..Len(messages') :
                 \/ messages'[k][1][1] = ref
                 \/ k \in 1..Len(messages) /\ messages'[k] = messages[k],
           ref # None /\ LoadUnderWay(ref) => Excused(ref)'
    PROVE  Belongs'
<1>1. service' = service
  BY DEF server
<1>2. ref # None /\ Excused(ref) => Excused(ref)'
  BY <1>1 DEF Excused
<1> QED
  BY <1>2 DEF IInv, Belongs

LEMMA LoadsKept ==
    ASSUME UNCHANGED ref, NEW R, NEW N, Follows(calls, calls', R, N),
           \A i \in 1..Len(calls) : i \in R => calls[i].op # "load" \/ calls[i].fst = Done,
           LoadUnderWay(ref)
    PROVE  Excused(ref)'
<1>1. \E k \in 1..Len(calls') :
         calls'[k].op = "load" /\ calls'[k].agent = ref /\ calls'[k].fst # Done
  BY LoadStays DEF LoadUnderWay
<1> QED
  BY <1>1 DEF Excused, LoadUnderWay

LEMMA LoadedMessagesKeeps ==
    ASSUME IInv, NEW i \in 1..Len(calls), LoadedMessages(i)
    PROVE  IInv'
<1>1. PICK c : c = calls[i] /\ CallOK(c) /\ c \in Calls
  BY DEF IInv, CallsOK, CallOK, CallTyped
<1>2. /\ c.op = "load" /\ c.fst \notin {Sent, Done}
      /\ UNCHANGED <<server, agents, select, activeRun, polls, budget>>
  BY <1>1 DEF LoadedMessages, Arrived
<1>3. c.fst = Failed \/ TalkOf(c.fst, c.agent)
  BY <1>1, <1>2 DEF CallOK, CallTyped, FirstTyped
<1>4. Onward /\ UNCHANGED faults /\ TypedServer' /\ c.agent \in Agents
  BY <1>1, <1>2, SameServer, SameTypes DEF IInv, TypedPage, budget, CallOK, CallTyped
<1>5. Known'
  BY <1>2, <1>4, KnownStays DEF IInv
<1>6. CASE c.fst = Failed
  <2>1. calls' = RemoveAt(calls, i) /\ UNCHANGED messages
    BY <1>1, <1>6 DEF LoadedMessages, Without
  <2>2. calls' \in Seq(Calls) /\ Follows(calls, calls', {i}, {})
    BY <2>1, RemoveFollows DEF IInv, CallsOK
  <2>3. TypedPage'
    BY <1>2, <2>1 DEF IInv, TypedPage, select, budget
  <2>4. \A d \in Others({i}) : d.op \in Loops => Looping(d.run)'
    BY <1>2, OthersOK DEF IInv, CallOK, Looping
  <2>5. ref # None /\ LoadUnderWay(ref) => Excused(ref)'
    <3>1. CASE c.agent = ref
      BY <1>1, <1>2, <1>4, <1>6, <3>1 DEF CallOK, Excused, select, server
    <3>2. CASE c.agent # ref
      <4>1. LoadUnderWay(ref) => \E k \in 1..Len(calls') :
               calls'[k].op = "load" /\ calls'[k].agent = ref /\ calls'[k].fst # Done
        BY <1>1, <2>2, <3>2, LoadStays DEF LoadUnderWay
      <4> QED
        BY <1>2, <4>1 DEF Excused, LoadUnderWay, select
    <3> QED
      BY <3>1, <3>2
  <2>6. Belongs'
    BY <1>2, <1>4, <2>1, <2>5, BelongsShown DEF select
  <2> QED
    BY <1>2, <1>4, <1>5, <2>2, <2>3, <2>4, <2>6, PageDrops
<1>7. CASE c.fst # Failed
  <2>1. PICK d : d = [c EXCEPT !.fst = Done]
    OBVIOUS
  <2>2. /\ calls' = [calls EXCEPT ![i] = d]
        /\ messages' = IF ref = c.agent THEN c.fst ELSE messages
    BY <1>1, <1>7, <2>1 DEF LoadedMessages, ApplyMessages, ForSelected
  <2>3. /\ d.op = "load" /\ d.agent = c.agent /\ d.run = c.run /\ d.snd = c.snd /\ d.fst = Done
        /\ d \in Calls
    BY <1>1, <1>2, <2>1 DEF Calls, Answers
  <2>4. CallTyped(d) /\ Carried(d) = Carried(c) /\ Listing(d) = Listing(c)
    BY <1>1, <1>2, <2>3
       DEF CallOK, CallTyped, FirstTyped, SecondTyped, Carried, Listing, Lists, Commands, Loops
  <2>5. CallOK(d)
    BY <1>1, <1>2, <2>3, <2>4, Marked DEF CallOK, Lists, Loops
  <2>6. CallsOK' /\ Pairs'
    <3>1. Alike
      BY <1>2, Unmoved DEF server
    <3>2. UNCHANGED polls /\ UNCHANGED server
      BY <1>2
    <3>3. CallOK(d)'
      BY <1>4, <2>5, <3>2, SameCall
    <3>4. /\ d.op = calls[i].op /\ d.run = calls[i].run 
          /\ CallsOK /\ Pairs
      BY <1>1, <1>2, <2>3, <3>1 DEF IInv
    <3> QED
      BY <1>4, <2>2, <3>1, <3>2, <3>3, <3>4, CallAnswered
  <2>7. TypedPage'
    BY <1>2, <1>3, <1>7, <2>2 DEF IInv, TypedPage, select, budget, TalkOf
  <2>8. c.agent # ref /\ LoadUnderWay(ref) => Excused(ref)'
    <3>1. c.agent # ref /\ LoadUnderWay(ref) => \E k \in 1..Len(calls') :
             calls'[k].op = "load" /\ calls'[k].agent = ref /\ calls'[k].fst # Done
      BY <1>1, <2>2, LoadUpdated DEF IInv, LoadUnderWay
    <3> QED
      BY <1>2, <3>1 DEF Excused, LoadUnderWay, select
  <2>9. Belongs'
    <3>1. CASE c.agent # ref
      BY <1>2, <1>4, <2>2, <2>8, <3>1, BelongsShown DEF select
    <3>2. CASE c.agent = ref
      BY <1>2, <1>3, <1>4, <1>7, <2>2, <3>2, AgentSet DEF IInv, Belongs, TalkOf, select
    <3> QED
      BY <3>1, <3>2
  <2> QED
    BY <1>4, <1>5, <2>6, <2>7, <2>9 DEF IInv
<1> QED
  BY <1>6, <1>7

LEMMA LoadedRunsKeeps ==
    ASSUME IInv, NEW i \in 1..Len(calls), LoadedRuns(i)
    PROVE  IInv'
<1>1. PICK c : c = calls[i] /\ CallOK(c)
  BY DEF IInv, CallsOK
<1>2. /\ c.op = "load" /\ c.fst = Done /\ c.snd \notin {Sent, Done} /\ calls' = RemoveAt(calls, i)
      /\ UNCHANGED <<server, agents, select, messages, budget>>
      /\ \/ UNCHANGED <<activeRun, polls>>
         \/ /\ c.snd # Failed /\ ref = c.agent /\ activeRun' = c.snd
            /\ \/ UNCHANGED polls
               \/ Active(c.snd) /\ polls' = Start(c.snd.run, "load")
  BY <1>1 DEF LoadedRuns, Arrived, Without, ForSelected
<1>3. c.snd \in {Failed, None} \/ (ViewOf(c.snd, c.agent) /\ RunKnown(c.snd.run) /\ c.snd.run \in RunIds)
  BY <1>1, <1>2 DEF CallOK, CallTyped, SecondTyped, Carried, ViewOf, RunViews
<1>4. calls' \in Seq(Calls) /\ Follows(calls, calls', {i}, {})
  BY <1>2, RemoveFollows DEF IInv, CallsOK
<1>5. Onward /\ UNCHANGED faults
  BY <1>2, SameServer DEF IInv, TypedPage, budget
<1>6. /\ polls \subseteq polls' /\ polls' \subseteq [run : RunIds, owner : {"send", "load"}]
      /\ \A p \in polls' : p \in polls \/ RunKnown(p.run)
  <2>1. CASE UNCHANGED polls
    BY <2>1 DEF IInv, TypedPage
  <2>2. CASE ~ UNCHANGED polls
    <3>1. ViewOf(c.snd, c.agent) /\ RunKnown(c.snd.run) /\ c.snd.run \in RunIds
      BY <1>2, <1>3, <2>2 DEF Active
    <3> QED
      BY <1>2, <2>2, <3>1 DEF IInv, TypedPage, Start
  <2> QED
    BY <2>1, <2>2
<1>7. TypedPage'
  BY <1>2, <1>3, <1>6 DEF IInv, TypedPage, select, budget, ViewOf
<1>8. Known'
  <2>1. \A a \in Agents : Born(a)' <=> Born(a)
    BY <1>2, SameFacts
  <2>2. \A p \in polls' : RunKnown(p.run)'
    BY <1>2, <1>6, SameFacts DEF IInv, Known
  <2>3. activeRun' # None => activeRun'.run \in RunIds /\ RunKnown(activeRun'.run)
    BY <1>2, <1>3 DEF IInv, Known, TypedPage, RunViews
  <2>4. activeRun' # None => RunKnown(activeRun.run)'
    BY <1>2, <2>3, SameFacts DEF RunKnown
  <2>5. DOMAIN agents \subseteq Agents
    BY DEF IInv, TypedPage, Listings
  <2> QED
    BY <1>2, <2>1, <2>2, <2>4, <2>5 DEF IInv, Known, TypedPage, select
<1>9. \A d \in Others({i}) : d.op \in Loops => Looping(d.run)'
  BY <1>6, OthersOK DEF IInv, CallOK, Looping
<1>10. Belongs'
  <2>1. LoadUnderWay(ref) => Excused(ref)'
    BY <1>1, <1>2, <1>4, LoadsKept DEF select
  <2>2. activeRun' \in {activeRun, None} \/ activeRun'.run[1] = ref
    BY <1>2, <1>3 DEF ViewOf
  <2> QED
    BY <1>2, <1>5, <2>1, <2>2, BelongsShown DEF select
<1> QED
  BY <1>2, <1>4, <1>5, <1>7, <1>8, <1>9, <1>10, PageDrops

LEMMA PostedKeeps ==
    ASSUME IInv, NEW i \in 1..Len(calls), Posted(i)
    PROVE  IInv'
<1>1. PICK c : c = calls[i] /\ CallOK(c)
  BY DEF IInv, CallsOK
<1>2. c.op = "send" /\ c.fst \notin {Sent, Done} /\ UNCHANGED <<server, select, budget>>
  BY <1>1 DEF Posted, Arrived
<1>3. Onward /\ UNCHANGED faults
  BY <1>2, SameServer DEF IInv, TypedPage, budget
<1>4. \A a \in Agents : Born(a)' <=> Born(a)
  BY <1>2, SameFacts
<1>5. DOMAIN agents \subseteq Agents
  BY DEF IInv, TypedPage, Listings
<1>6. CASE c.fst = Failed
  <2>1. PICK e : e = One("list", None, None)
    OBVIOUS
  <2>2. /\ calls' = Append(RemoveAt(calls, i), e) /\ activeRun' = None
        /\ UNCHANGED <<agents, messages, polls>>
    BY <1>1, <1>6, <2>1 DEF Posted, Instead, Without
  <2>3. e \in Calls /\ CallOK(e)' /\ \A d : PairOK(d, e)
    BY <1>2, <2>1, ListCall
  <2>4. calls' \in Seq(Calls) /\ Follows(calls, calls', {i}, {e})
    BY <2>2, <2>3, InsteadFollows DEF IInv, CallsOK
  <2>5. TypedPage'
    BY <1>2, <2>2 DEF IInv, TypedPage, select, budget
  <2>6. \A p \in polls : RunKnown(p.run)'
    BY <1>2, SameFacts DEF IInv, Known, TypedPage
  <2>7. Known'
    BY <1>2, <1>4, <1>5, <2>2, <2>6 DEF IInv, Known, TypedPage, select
  <2>8. \A d \in Others({i}) : d.op \in Loops => Looping(d.run)'
    BY <2>2, OthersOK DEF IInv, CallOK, Looping
  <2>9. LoadUnderWay(ref) => Excused(ref)'
    BY <1>1, <1>2, <2>4, LoadsKept DEF select
  <2>10. Belongs'
    BY <1>2, <1>3, <2>2, <2>9, BelongsShown DEF select
  <2>11. \A d \in {e} : CallOK(d)' /\ \A b \in Others({i}) : PairOK(b, d)
    BY <2>3
  <2>12. UNCHANGED server /\ UNCHANGED faults
    BY <1>2, <1>3
  <2>13. PICK R, N : R = {i} /\ N = {e}
    OBVIOUS
  <2>14. calls' \in Seq(Calls) /\ Follows(calls, calls', R, N)
    BY <2>4, <2>13
  <2>15. \A d \in N : CallOK(d)' /\ \A b \in Others(R) : PairOK(b, d)
    BY <2>11, <2>13
  <2>16. \A d \in Others(R) : d.op \in Loops => Looping(d.run)'
    BY <2>8, <2>13
  <2> QED
    BY <2>5, <2>7, <2>10, <2>12, <2>14, <2>15, <2>16, PageKeeps, Zenon
<1>7. CASE c.fst # Failed
  <2>1. PICK v : v = c.fst
    OBVIOUS
  <2>2. /\ v \in RunViews /\ v.run \in RunIds /\ v.run[1] = c.agent /\ v.status = "active"
        /\ RunKnown(v.run) /\ c.agent \in Agents
    BY <1>1, <1>2, <1>7, <2>1 DEF CallOK, CallTyped, FirstTyped, ViewOf, Carried, RunViews
  <2>3. /\ calls' = RemoveAt(calls, i)
        /\ \/ UNCHANGED view
           \/ ref = c.agent /\ messages' = Append(messages, <<v.run, FALSE>>) /\ activeRun' = v
        /\ agents' = [b \in DOMAIN agents |-> IF b = c.agent THEN "busy" ELSE agents[b]]
        /\ polls' = Start(v.run, "send")
    BY <1>1, <1>7, <2>1 DEF Posted, Without, ForSelected
  <2>4. calls' \in Seq(Calls) /\ Follows(calls, calls', {i}, {})
    BY <2>3, RemoveFollows DEF IInv, CallsOK
  <2>5. agents' \in Listings /\ DOMAIN agents' = DOMAIN agents
    <3>1. PICK S \in SUBSET Agents : agents \in [S -> {"ready", "busy", "stopped"}]
      BY DEF IInv, TypedPage, Listings
    <3>2. agents' \in [S -> {"ready", "busy", "stopped"}] /\ DOMAIN agents' = S
      BY <2>3, <3>1
    <3> QED
      BY <3>1, <3>2 DEF Listings
  <2>6. /\ polls \subseteq polls' /\ polls' \subseteq [run : RunIds, owner : {"send", "load"}]
        /\ \A p \in polls' : p \in polls \/ RunKnown(p.run)
    BY <2>2, <2>3 DEF IInv, TypedPage, Start
  <2>7. /\ messages' \in Conversations
        /\ \/ messages' = messages
           \/ /\ ref = c.agent
              /\ \A k \in 1..Len(messages') :
                    \/ messages'[k][1][1] = ref
                    \/ k \in 1..Len(messages) /\ messages'[k] = messages[k]
    <3>1. CASE UNCHANGED view
      BY <3>1 DEF IInv, TypedPage, view
    <3>2. CASE ref = c.agent /\ messages' = Append(messages, <<v.run, FALSE>>)
      <4>1. PICK X : X = RunIds \X BOOLEAN
        OBVIOUS
      <4>2. PICK m \in Seq(X) : m = messages
        BY <4>1 DEF IInv, TypedPage, Conversations
      <4>3. PICK n \in Nat : n = Len(m)
        BY <4>2
      <4>4. PICK x : x = <<v.run, FALSE>>
        OBVIOUS
      <4>5. x \in X /\ x[1] = v.run
        BY <2>2, <4>1, <4>4
      <4>6. PICK t : t = Append(m, x)
        OBVIOUS
      <4>7. /\ t \in Seq(X) /\ Len(t) = n + 1 /\ t[n + 1] = x
            /\ \A k \in 1..n : t[k] = m[k]
        BY <4>2, <4>3, <4>5, <4>6
      <4>8. x[1][1] = ref
        BY <2>2, <3>2, <4>5
      <4>9. messages' = t
        BY <3>2, <4>2, <4>6, <4>4
      <4>10. \A k \in 1..(n + 1) : k = n + 1 \/ k \in 1..n
        OBVIOUS
      <4> QED
        BY <3>2, <4>1, <4>2, <4>3, <4>7, <4>8, <4>9, <4>10 DEF Conversations
    <3> QED
      BY <2>3, <3>1, <3>2
  <2>8. TypedPage'
    BY <1>2, <2>2, <2>3, <2>5, <2>6, <2>7 DEF IInv, TypedPage, select, view, budget
  <2>9. Known'
    <3>1. \A p \in polls' : RunKnown(p.run)'
      BY <1>2, <2>6, SameFacts DEF IInv, Known
    <3>2. activeRun' # None => activeRun'.run \in RunIds /\ RunKnown(activeRun'.run)
      BY <2>2, <2>3 DEF IInv, Known, TypedPage, RunViews, view
    <3>3. activeRun' # None => RunKnown(activeRun.run)'
      BY <1>2, <3>2, SameFacts DEF RunKnown
    <3> QED
      BY <1>2, <1>4, <1>5, <2>5, <3>1, <3>3 DEF IInv, Known, TypedPage, select
  <2>10. \A d \in Others({i}) : d.op \in Loops => Looping(d.run)'
    BY <2>6, OthersOK DEF IInv, CallOK, Looping
  <2>11. LoadUnderWay(ref) => Excused(ref)'
    BY <1>1, <1>2, <2>4, LoadsKept DEF select
  <2>12. Belongs'
    <3>1. c.agent # None
      BY <2>2, AgentSet
    <3>2. activeRun' \in {activeRun, None} \/ activeRun'.run[1] = ref
      BY <2>2, <2>3 DEF view
    <3> QED
      BY <1>2, <1>3, <2>7, <2>11, <3>1, <3>2, BelongsShown DEF select
  <2> QED
    BY <1>2, <1>3, <2>4, <2>8, <2>9, <2>10, <2>12, PageDrops
<1> QED
  BY <1>6, <1>7

\* A step that only changes the calls.
LEMMA CallsKeep ==
    ASSUME IInv, UNCHANGED <<server, agents, select, view, polls, inOrder, unsent, faults>>,
           NEW R, NEW N, calls' \in Seq(Calls), Follows(calls, calls', R, N),
           \A i \in 1..Len(calls) : i \in R => calls[i].op # "load",
           \A d \in N : CallOK(d)' /\ \A c \in Others(R) : PairOK(c, d)
    PROVE  IInv'
<1>1. Onward
  BY SameServer DEF IInv, TypedPage
<1>2. Known'
  BY <1>1, KnownStays DEF IInv, view
<1>3. TypedPage'
  BY DEF IInv, TypedPage, select, view
<1>4. \A c \in Others(R) : c.op \in Loops => Looping(c.run)'
  BY OthersOK DEF IInv, CallOK, Looping
<1>5. Belongs'
  BY BelongsKept DEF select, view
<1> QED
  BY <1>2, <1>3, <1>4, <1>5, PageKeeps

LEMMA CommandedKeeps ==
    ASSUME IInv, NEW i \in 1..Len(calls), Commanded(i)
    PROVE  IInv'
<1>1. PICK c : c = calls[i] /\ CallOK(c)
  BY DEF IInv, CallsOK
<1>2. /\ c.op \in Commands /\ c.fst \notin {Sent, Done}
      /\ UNCHANGED <<server, agents, select, view, polls, inOrder, unsent, faults>>
  BY <1>1 DEF Commanded, Arrived, budget
<1>3. c.agent \in Agents /\ (c.fst = Failed \/ c.fst = "ok") /\ c.op # "load"
  BY <1>1, <1>2 DEF CallOK, CallTyped, FirstTyped, Commands
<1>4. CASE c.fst = Failed
  <2>1. PICK R, N : R = {i} /\ N = {}
    OBVIOUS
  <2>2. calls' = RemoveAt(calls, i)
    BY <1>1, <1>4 DEF Commanded, Without
  <2>3. calls' \in Seq(Calls) /\ Follows(calls, calls', R, N)
    BY <2>1, <2>2, RemoveFollows DEF IInv, CallsOK
  <2>4. \A d \in N : CallOK(d)' /\ \A b \in Others(R) : PairOK(b, d)
    BY <2>1
  <2>5. \A j \in 1..Len(calls) : j \in R => calls[j].op # "load"
    BY <1>1, <1>3, <2>1
  <2> QED
    BY <1>2, <2>3, <2>4, <2>5, CallsKeep, Zenon
<1>5. CASE c.fst = "ok"
  <2>1. PICK d : d = One(IF c.op = "create" THEN "created" ELSE "settle", c.agent, None)
    OBVIOUS
  <2>2. calls' = Append(RemoveAt(calls, i), d)
    BY <1>1, <1>5, <2>1, Marked DEF Commanded, Instead, Without
  <2>3. /\ d.op = (IF c.op = "create" THEN "created" ELSE "settle") /\ d.agent = c.agent
        /\ d.run = None /\ d.fst = Sent /\ d.snd = Done /\ d \in Calls
    BY <1>3, <2>1 DEF One, Call, Calls, Answers, Ops, Lists
  <2>4. CallTyped(d) /\ Carried(d) = {} /\ Listing(d) = {}
    BY <1>3, <2>3, Marked
       DEF CallTyped, FirstTyped, SecondTyped, Carried, Listing, Lists, Loops, Commands
  <2>5. Born(c.agent) /\ (c.op = "create" => Live(c.agent))
    BY <1>1, <1>2, <1>3, <1>5, LiveFact DEF CallOK, IInv, Commands
  <2>6. CallOK(d)'
    BY <1>2, <2>3, <2>4, <2>5, NewCall DEF Loops
  <2>7. \A b \in Others({i}) : PairOK(b, d)
    <3>1. \A b \in Others({i}) : PairOK(b, c)
      BY <1>1, OthersApart DEF IInv
    <3> QED
      BY <1>2, <2>3, <3>1 DEF PairOK, Forming, Loops
  <2>8. calls' \in Seq(Calls) /\ Follows(calls, calls', {i}, {d})
    BY <2>2, <2>3, InsteadFollows DEF IInv, CallsOK
  <2> QED
    BY <1>1, <1>2, <1>3, <2>6, <2>7, <2>8, CallsKeep
<1> QED
  BY <1>3, <1>4, <1>5

LEMMA TickKeeps ==
    ASSUME IInv, NEW p \in polls, Tick(p)
    PROVE  IInv'
<1>1. p.run \in RunIds /\ p.run[1] \in Agents /\ RunKnown(p.run)
  BY RunIdParts DEF IInv, TypedPage, Known
<1>2. PICK d : d = One("poll", p.run[1], p.run)
  OBVIOUS
<1>3. /\ \A i \in 1..Len(calls) : ~ (calls[i].op \in Loops /\ calls[i].run = p.run)
      /\ calls' = Append(calls, d)
      /\ UNCHANGED <<server, agents, select, view, polls, inOrder, unsent, faults>>
  BY <1>2 DEF Tick, Loops, budget
<1>4. /\ d.op = "poll" /\ d.agent = p.run[1] /\ d.run = p.run
      /\ d.fst = Sent /\ d.snd = Done /\ d \in Calls
  BY <1>1, <1>2 DEF One, Call, Calls, Answers, Ops, Loops
<1>5. CallTyped(d) /\ Carried(d) = {} /\ Listing(d) = {}
  BY <1>1, <1>4, Marked DEF CallTyped, FirstTyped, SecondTyped, Carried, Listing, Lists, Loops, Commands
<1>6. Looping(d.run)'
  BY <1>3, <1>4 DEF Looping
<1>7. CallOK(d)'
  BY <1>1, <1>3, <1>4, <1>5, <1>6, NewCall DEF RunKnown
<1>8. \A c \in Others({}) : PairOK(c, d)
  <2>1. \A c \in Others({}) : ~ (c.op \in Loops /\ c.run = p.run)
    BY <1>3, OthersOK DEF IInv
  <2> QED
    BY <1>4, <2>1 DEF PairOK, Forming, Loops, Commands
<1>9. calls' \in Seq(Calls) /\ Follows(calls, calls', {}, {d})
  BY <1>3, <1>4, AppendFollows DEF IInv, CallsOK
<1> QED
  BY <1>3, <1>7, <1>8, <1>9, CallsKeep

\* A loop that ends takes no other with it.
LEMMA LoopsGoOn ==
    ASSUME IInv, NEW i \in 1..Len(calls), calls[i].op \in Loops,
           polls' = polls \/ polls' = Stop(calls[i].run)
    PROVE  \A d \in Others({i}) : d.op \in Loops => Looping(d.run)'
<1> SUFFICES ASSUME NEW d \in Others({i}), d.op \in Loops
             PROVE  Looping(d.run)'
  OBVIOUS
<1>1. CallOK(d) /\ PairOK(d, calls[i])
  BY OthersOK, OthersApart DEF IInv
<1>2. d.run # calls[i].run /\ Looping(d.run)
  BY <1>1 DEF PairOK, CallOK
<1> QED
  BY <1>2 DEF Looping, Stop

\* What is known after a step that forgets loops, and shows a run it knew.
LEMMA KnownShown ==
    ASSUME IInv, UNCHANGED server, UNCHANGED <<agents, select>>, polls' \subseteq polls,
           activeRun' \in {activeRun, None} \/ (activeRun' \in RunViews /\ RunKnown(activeRun'.run))
    PROVE  Known'
<1>1. \A a \in Agents : Born(a)' <=> Born(a)
  BY SameFacts
<1>2. \A p \in polls' : RunKnown(p.run)'
  BY SameFacts DEF IInv, Known, TypedPage
<1>3. activeRun' # None => activeRun'.run \in RunIds /\ RunKnown(activeRun'.run)
  BY DEF IInv, Known, TypedPage, RunViews
<1>4. activeRun' # None => RunKnown(activeRun.run)'
  BY <1>3, SameFacts DEF RunKnown
<1>5. DOMAIN agents \subseteq Agents
  BY DEF IInv, TypedPage, Listings
<1> QED
  BY <1>1, <1>2, <1>4, <1>5 DEF IInv, Known, TypedPage, select

\* A turn of a loop that ends with this call, or goes on with N.
LEMMA TurnKeeps ==
    ASSUME IInv, NEW i \in 1..Len(calls), calls[i].op \in Loops,
           UNCHANGED server, UNCHANGED <<agents, select, messages, inOrder, unsent, faults>>,
           polls' = polls \/ polls' = Stop(calls[i].run),
           \/ activeRun' \in {activeRun, None}
           \/ activeRun' \in RunViews /\ RunKnown(activeRun'.run) /\ activeRun'.run[1] = ref,
           NEW N, calls' \in Seq(Calls), Follows(calls, calls', {i}, N),
           \A d \in N : CallOK(d)' /\ \A c \in Others({i}) : PairOK(c, d)
    PROVE  IInv'
<1>1. polls' \subseteq polls
  BY DEF Stop
<1>2. Known'
  BY <1>1, KnownShown
<1>3. TypedPage'
  BY <1>1 DEF IInv, TypedPage, select
<1>4. \A c \in Others({i}) : c.op \in Loops => Looping(c.run)'
  BY LoopsGoOn
<1>5. \A j \in 1..Len(calls) : j \in {i} => calls[j].op # "load"
  BY DEF Loops
<1>6. UNCHANGED ref /\ UNCHANGED <<ref, effectDue>> /\ UNCHANGED faults /\ messages' = messages
  BY DEF select
<1>7. LoadUnderWay(ref) => Excused(ref)'
  BY <1>5, <1>6, LoadsKept
<1>8. Belongs'
  BY <1>6, <1>7, BelongsShown
<1> QED
  BY <1>2, <1>3, <1>4, <1>6, <1>8, PageKeeps

LEMMA PolledKeeps ==
    ASSUME IInv, NEW i \in 1..Len(calls), Polled(i)
    PROVE  IInv'
<1>1. PICK c : c = calls[i] /\ CallOK(c)
  BY DEF IInv, CallsOK
<1>2. /\ c.op = "poll" /\ c.op \in Loops /\ c.fst \notin {Sent, Done} /\ UNCHANGED server
      /\ UNCHANGED <<agents, select, messages, inOrder, unsent, faults>>
  BY <1>1 DEF Polled, Arrived, budget, Loops
<1>3. c.fst = Failed \/ (c.fst \in RunViews /\ c.fst.run = c.run /\ RunKnown(c.fst.run))
  BY <1>1, <1>2 DEF CallOK, CallTyped, FirstTyped, Carried
<1>4. c.run \in RunIds /\ c.agent = c.run[1] /\ c.agent \in Agents /\ Looping(c.run) /\ Born(c.agent)
  BY <1>1, <1>2, RunIdParts DEF CallOK, CallTyped
<1>5. RemoveAt(calls, i) \in Seq(Calls) /\ Follows(calls, RemoveAt(calls, i), {i}, {})
  BY RemoveFollows DEF IInv, CallsOK
<1>6. ASSUME calls' = RemoveAt(calls, i),
             polls' = polls \/ polls' = Stop(c.run),
             \/ activeRun' \in {activeRun, None}
             \/ activeRun' \in RunViews /\ RunKnown(activeRun'.run) /\ activeRun'.run[1] = ref
      PROVE  IInv'
  <2>1. PICK N : N = {}
    OBVIOUS
  <2>2. calls' \in Seq(Calls) /\ Follows(calls, calls', {i}, N)
    BY <1>5, <1>6, <2>1
  <2>3. \A d \in N : CallOK(d)' /\ \A b \in Others({i}) : PairOK(b, d)
    BY <2>1
  <2>4. calls[i].op \in Loops /\ (polls' = polls \/ polls' = Stop(calls[i].run))
    BY <1>1, <1>2, <1>6
  <2> QED
    BY <1>2, <1>6, <2>2, <2>3, <2>4, TurnKeeps, Zenon
<1>7. CASE c.fst = Failed
  <2>1. PICK e : e = One("list", None, None)
    OBVIOUS
  <2>2. /\ polls' = Stop(c.run)
        /\ \/ activeRun' = None /\ calls' = Append(RemoveAt(calls, i), e)
           \/ calls' = RemoveAt(calls, i) /\ UNCHANGED activeRun
    BY <1>1, <1>7, <2>1 DEF Polled, Throw, Without
  <2>3. CASE activeRun' = None /\ calls' = Append(RemoveAt(calls, i), e)
    <3>1. e \in Calls /\ CallOK(e)' /\ \A d : PairOK(d, e)
      BY <1>2, <2>1, ListCall
    <3>2. PICK N : N = {e}
      OBVIOUS
    <3>3. calls' \in Seq(Calls) /\ Follows(calls, calls', {i}, N)
      BY <2>3, <3>1, <3>2, InsteadFollows DEF IInv, CallsOK
    <3>4. \A d \in N : CallOK(d)' /\ \A b \in Others({i}) : PairOK(b, d)
      BY <3>1, <3>2
    <3>5. calls[i].op \in Loops /\ polls' = Stop(calls[i].run) /\ activeRun' \in {activeRun, None}
      BY <1>1, <1>2, <2>2, <2>3
    <3> QED
      BY <1>2, <3>3, <3>4, <3>5, TurnKeeps, Zenon
  <2>4. CASE calls' = RemoveAt(calls, i) /\ UNCHANGED activeRun
    BY <1>6, <2>2, <2>4
  <2> QED
    BY <2>2, <2>3, <2>4
<1>8. CASE c.fst # Failed
  <2>1. /\ activeRun' = IF ref = c.agent THEN c.fst ELSE activeRun
        /\ calls' = IF Active(c.fst) THEN RemoveAt(calls, i)
                    ELSE Append(RemoveAt(calls, i), Final(c))
        /\ UNCHANGED polls
    BY <1>1, <1>8 DEF Polled, ForSelected, Without, Instead
  <2>2. \/ activeRun' \in {activeRun, None}
        \/ activeRun' \in RunViews /\ RunKnown(activeRun'.run) /\ activeRun'.run[1] = ref
    BY <1>3, <1>4, <1>8, <2>1
  <2>3. CASE Active(c.fst)
    BY <1>6, <2>1, <2>2, <2>3
  <2>4. CASE ~ Active(c.fst)
    <3>1. PICK d : d = Final(c)
      OBVIOUS
    <3>2. /\ d.op = "final" /\ d.agent = c.agent /\ d.run = c.run
          /\ d.fst = Sent /\ d.snd = Sent /\ d \in Calls
      BY <1>4, <3>1 DEF Final, Pair, Call, Calls, Answers, Ops, Loops
    <3>3. CallTyped(d) /\ Carried(d) = {} /\ Listing(d) = {}
      BY <1>4, <3>2, Marked
         DEF CallTyped, FirstTyped, SecondTyped, Carried, Listing, Lists, Loops, Commands
    <3>4. Looping(d.run)'
      BY <1>4, <2>1, <3>2 DEF Looping
    <3>5. CallOK(d)'
      BY <1>2, <1>4, <3>2, <3>3, <3>4, NewCall
    <3>6. \A b \in Others({i}) : PairOK(b, d)
      <4>1. \A b \in Others({i}) : PairOK(b, c)
        BY <1>1, OthersApart DEF IInv
      <4> QED
        BY <1>2, <3>2, <4>1 DEF PairOK, Forming, Loops, Commands
    <3>7. PICK N : N = {d}
      OBVIOUS
    <3>8. calls' \in Seq(Calls) /\ Follows(calls, calls', {i}, N)
      BY <2>1, <2>4, <3>1, <3>2, <3>7, InsteadFollows DEF IInv, CallsOK
    <3>9. \A b \in N : CallOK(b)' /\ \A e \in Others({i}) : PairOK(e, b)
      BY <3>5, <3>6, <3>7
    <3>10. calls[i].op \in Loops /\ polls' = polls
      BY <1>1, <1>2, <2>1
    <3> QED
      BY <1>2, <2>2, <3>8, <3>9, <3>10, TurnKeeps, Zenon
  <2> QED
    BY <2>3, <2>4
<1> QED
  BY <1>7, <1>8

\* A turn of a loop that leaves another call in its place.
LEMMA TurnChanges ==
    ASSUME IInv, NEW i \in 1..Len(calls), calls[i].op \in Loops, UNCHANGED server, UNCHANGED faults,
           UNCHANGED <<ref, effectDue>>, TypedPage', Known',
           polls' = polls \/ polls' = Stop(calls[i].run),
           activeRun' \in {activeRun, None},
           \/ messages' = messages
           \/ ref # None /\ \A k \in 1..Len(messages') :
                 \/ messages'[k][1][1] = ref
                 \/ k \in 1..Len(messages) /\ messages'[k] = messages[k],
           NEW d, CallOK(d)', d.op \in {"list", "messages"} \/ (d.op = "final" /\ d.run = calls[i].run),
           \/ calls' = [calls EXCEPT ![i] = d]
           \/ calls' = Append([calls EXCEPT ![i] = d], One("list", None, None))
    PROVE  IInv'
<1>1. Onward /\ TypedServer' /\ UNCHANGED service
  BY SameServer, SameTypes DEF IInv, TypedPage, server
<1>2. \A c \in Others({i}) : CallOK(c)' /\ PairOK(c, d)
  <2> SUFFICES ASSUME NEW c \in Others({i})
               PROVE  CallOK(c)' /\ PairOK(c, d)
    OBVIOUS
  <2>1. CallOK(c) /\ PairOK(c, calls[i])
    BY OthersOK, OthersApart DEF IInv
  <2>2. c.op \in Loops => Looping(c.run)'
    BY LoopsGoOn
  <2>3. CallOK(c)'
    BY <1>1, <2>1, <2>2, CallStays
  <2>4. PairOK(c, d)
    BY <2>1 DEF PairOK, Forming, Loops, Commands
  <2> QED
    BY <2>3, <2>4
<1>3. calls[i].op # "load"
  BY DEF Loops
<1>4. PICK e : e = One("list", None, None)
  OBVIOUS
<1>5. CallOK(e)' /\ e.op = "list"
  BY <1>4, ListCall
<1>6. CallsOK' /\ Pairs' /\ (LoadUnderWay(ref) => Excused(ref)')
  <2>1. CASE calls' = [calls EXCEPT ![i] = d]
    <3>1. CallsOK' /\ Pairs'
      BY <1>2, <2>1, CallsUpdate DEF IInv
    <3>2. LoadUnderWay(ref) => \E k \in 1..Len(calls') :
             calls'[k].op = "load" /\ calls'[k].agent = ref /\ calls'[k].fst # Done
      BY <1>3, <2>1, LoadUpdated DEF IInv, LoadUnderWay
    <3> QED
      BY <3>1, <3>2 DEF Excused, LoadUnderWay
  <2>2. CASE calls' = Append([calls EXCEPT ![i] = d], e)
    <3>1. CallsOK' /\ Pairs'
      BY <1>2, <1>5, <2>2, CallsUpdateAdd DEF IInv
    <3>2. LoadUnderWay(ref) => \E k \in 1..Len(calls') :
             calls'[k].op = "load" /\ calls'[k].agent = ref /\ calls'[k].fst # Done
      BY <1>3, <2>2, LoadUpdatedAdd DEF IInv, LoadUnderWay
    <3> QED
      BY <3>1, <3>2 DEF Excused, LoadUnderWay
  <2> QED
    BY <1>4, <2>1, <2>2
<1>7. Belongs'
  BY <1>6, BelongsShown
<1> QED
  BY <1>1, <1>6, <1>7 DEF IInv

LEMMA FinalMessagesKeeps ==
    ASSUME IInv, NEW i \in 1..Len(calls), FinalMessages(i)
    PROVE  IInv'
<1>1. PICK c : c = calls[i] /\ CallOK(c) /\ c \in Calls
  BY DEF IInv, CallsOK, CallOK, CallTyped
<1>2. /\ c.op = "final" /\ c.op \in Loops /\ c.fst \notin {Sent, Done} /\ UNCHANGED server
      /\ UNCHANGED <<agents, select, inOrder, unsent, faults>> /\ UNCHANGED <<ref, effectDue>>
      /\ UNCHANGED faults
  BY <1>1 DEF FinalMessages, Arrived, budget, select, Loops
<1>3. /\ c.fst = Failed \/ TalkOf(c.fst, c.agent)
      /\ c.snd \in {Sent, Done, Failed} \cup Listings
      /\ c.run \in RunIds /\ c.agent \in Agents /\ Born(c.agent) /\ Looping(c.run)
      /\ \A list \in {c.snd} \cap Listings : \A a \in DOMAIN list : Born(a)
  BY <1>1, <1>2 DEF CallOK, CallTyped, FirstTyped, SecondTyped, Loops, Listing, Lists
<1>4. Onward
  BY <1>2, SameServer DEF IInv, TypedPage
<1>5. calls[i].op \in Loops /\ calls[i].run = c.run
  BY <1>1, <1>2
<1>6. RemoveAt(calls, i) \in Seq(Calls) /\ Follows(calls, RemoveAt(calls, i), {i}, {})
  BY RemoveFollows DEF IInv, CallsOK
<1>7. CASE c.fst = Failed
  <2>1. PICK e : e = One("list", None, None)
    OBVIOUS
  <2>2. PICK d : d = Call("list", None, None, c.snd, Done)
    OBVIOUS
  <2>3. PICK rest : rest = IF c.snd = Done THEN RemoveAt(calls, i) ELSE [calls EXCEPT ![i] = d]
    OBVIOUS
  <2>4. /\ polls' = Stop(c.run) /\ messages' = messages
        /\ \/ activeRun' = None /\ calls' = Append(rest, e)
           \/ calls' = rest /\ UNCHANGED activeRun
    BY <1>1, <1>7, <2>1, <2>2, <2>3 DEF FinalMessages, Throw, Without
  <2>5. activeRun' \in {activeRun, None} /\ polls' \subseteq polls /\ polls' = Stop(calls[i].run)
    BY <1>5, <2>4 DEF Stop
  <2>6. e \in Calls /\ CallOK(e)' /\ \A b : PairOK(b, e)
    BY <1>2, <2>1, ListCall
  <2>7. CASE c.snd = Done
    <3>1. PICK N : N = IF calls' = rest THEN {} ELSE {e}
      OBVIOUS
    <3>2. calls' \in Seq(Calls) /\ Follows(calls, calls', {i}, N)
      <4>1. CASE calls' = rest
        BY <1>6, <2>3, <2>7, <3>1, <4>1
      <4>2. CASE calls' # rest
        BY <2>3, <2>4, <2>6, <2>7, <3>1, <4>2, InsteadFollows DEF IInv, CallsOK
      <4> QED
        BY <4>1, <4>2
    <3>3. \A b \in N : CallOK(b)' /\ \A f \in Others({i}) : PairOK(f, b)
      BY <2>6, <3>1
    <3>4. UNCHANGED <<agents, select, messages, inOrder, unsent, faults>>
      BY <1>2, <2>4
    <3> QED
      BY <1>2, <1>5, <2>5, <3>2, <3>3, <3>4, TurnKeeps, Zenon
  <2>8. CASE c.snd # Done
    <3>1. /\ d.op = "list" /\ d.agent = None /\ d.run = None /\ d.fst = c.snd /\ d.snd = Done
          /\ d \in Calls
      BY <1>3, <2>2 DEF Call, Calls, Answers, Ops, Lists
    <3>2. CallTyped(d) /\ Carried(d) = {} /\ Listing(d) = {c.snd} \cap Listings
      BY <1>3, <2>8, <3>1, Marked
         DEF CallTyped, FirstTyped, SecondTyped, Carried, Listing, Lists, Loops, Commands
    <3>3. CallOK(d)
      BY <1>3, <3>1, <3>2 DEF CallOK, Loops
    <3>4. CallOK(d)'
      BY <1>2, <1>4, <3>1, <3>3, CallStays DEF server, Loops
    <3>5. Known'
      BY <1>2, <2>5, KnownShown
    <3>6. TypedPage'
      BY <1>2, <2>4, <2>5 DEF IInv, TypedPage, select
    <3>7. \/ calls' = [calls EXCEPT ![i] = d]
          \/ calls' = Append([calls EXCEPT ![i] = d], One("list", None, None))
      BY <2>1, <2>3, <2>4, <2>8
    <3> QED
      BY <1>2, <1>5, <2>4, <2>5, <3>1, <3>4, <3>5, <3>6, <3>7, TurnChanges
  <2> QED
    BY <2>7, <2>8
<1>8. CASE c.fst # Failed
  <2>1. PICK d : d = [c EXCEPT !.fst = Done]
    OBVIOUS
  <2>2. /\ messages' = IF ref = c.agent THEN c.fst ELSE messages
        /\ polls' = IF c.snd = Done THEN Stop(c.run) ELSE polls
        /\ UNCHANGED activeRun
        /\ calls' = IF c.snd = Done THEN RemoveAt(calls, i) ELSE [calls EXCEPT ![i] = d]
    BY <1>1, <1>8, <2>1 DEF FinalMessages, ApplyMessages, ForSelected, EndsWith, Without
  <2>3. /\ messages' \in Conversations
        /\ \/ messages' = messages
           \/ ref # None /\ \A k \in 1..Len(messages') :
                 \/ messages'[k][1][1] = ref
                 \/ k \in 1..Len(messages) /\ messages'[k] = messages[k]
    BY <1>3, <1>8, <2>2, AgentSet DEF IInv, TypedPage, TalkOf
  <2>4. /\ polls' \subseteq polls /\ (polls' = polls \/ polls' = Stop(calls[i].run))
        /\ activeRun' \in {activeRun, None}
    BY <1>5, <2>2 DEF Stop
  <2>5. Known'
    BY <1>2, <2>4, KnownShown
  <2>6. TypedPage'
    BY <1>2, <2>2, <2>3, <2>4 DEF IInv, TypedPage, select
  <2>7. CASE c.snd = Done
    <3>1. calls' = RemoveAt(calls, i)
      BY <2>2, <2>7
    <3>2. \A b \in Others({i}) : b.op \in Loops => Looping(b.run)'
      BY <1>5, <2>4, LoopsGoOn
    <3>3. LoadUnderWay(ref) => Excused(ref)'
      <4>1. \A j \in 1..Len(calls) : j \in {i} => calls[j].op # "load" \/ calls[j].fst = Done
        BY <1>5 DEF Loops
      <4> QED
        BY <1>2, <1>6, <3>1, <4>1, LoadsKept DEF select
    <3>4. Belongs'
      BY <1>2, <2>3, <2>4, <3>3, BelongsShown
    <3> QED
      BY <1>2, <1>6, <2>5, <2>6, <3>1, <3>2, <3>4, PageDrops
  <2>8. CASE c.snd # Done
    <3>1. /\ d.op = "final" /\ d.agent = c.agent /\ d.run = c.run /\ d.fst = Done /\ d.snd = c.snd
          /\ d \in Calls
      BY <1>1, <1>2, <2>1 DEF Calls, Answers
    <3>2. CallTyped(d) /\ Carried(d) = Carried(c) /\ Listing(d) = Listing(c)
      BY <1>1, <1>2, <3>1
         DEF CallOK, CallTyped, FirstTyped, SecondTyped, Carried, Listing, Lists, Commands, Loops
    <3>3. CallOK(d)
      BY <1>1, <1>2, <3>1, <3>2 DEF CallOK, Lists, Loops
    <3>4. CallOK(d)'
      BY <1>2, <1>4, <2>2, <2>8, <3>3, SameCall
    <3>5. calls' = [calls EXCEPT ![i] = d]
      BY <2>2, <2>8
    <3> QED
      BY <1>2, <1>5, <2>3, <2>4, <2>5, <2>6, <3>1, <3>4, <3>5, TurnChanges
  <2> QED
    BY <2>7, <2>8
<1> QED
  BY <1>7, <1>8

LEMMA FinalListKeeps ==
    ASSUME IInv, NEW i \in 1..Len(calls), FinalList(i)
    PROVE  IInv'
<1>1. PICK c : c = calls[i] /\ CallOK(c) /\ c \in Calls
  BY DEF IInv, CallsOK, CallOK, CallTyped
<1>2. /\ c.op = "final" /\ c.op \in Loops /\ c.snd \notin {Sent, Done} /\ UNCHANGED server
      /\ UNCHANGED <<messages, inOrder, unsent, faults>> /\ UNCHANGED <<ref, effectDue>>
      /\ UNCHANGED faults
  BY <1>1 DEF FinalList, Arrived, budget, Loops
<1>3. /\ c.fst \in {Sent, Done, Failed} \/ TalkOf(c.fst, c.agent)
      /\ c.snd = Failed \/ (c.snd \in Listings /\ \A a \in DOMAIN c.snd : Born(a))
      /\ c.run \in RunIds /\ c.agent \in Agents /\ Born(c.agent) /\ Looping(c.run)
  BY <1>1, <1>2 DEF CallOK, CallTyped, FirstTyped, SecondTyped, Loops, Listing, Lists
<1>4. Onward
  BY <1>2, SameServer DEF IInv, TypedPage
<1>5. calls[i].op \in Loops /\ calls[i].run = c.run
  BY <1>1, <1>2
<1>6. RemoveAt(calls, i) \in Seq(Calls) /\ Follows(calls, RemoveAt(calls, i), {i}, {})
  BY RemoveFollows DEF IInv, CallsOK
<1>7. CASE c.snd = Failed
  <2>1. PICK e : e = One("list", None, None)
    OBVIOUS
  <2>2. PICK d : d = Call("messages", c.agent, None, c.fst, Done)
    OBVIOUS
  <2>3. PICK rest : rest = IF c.fst = Done THEN RemoveAt(calls, i) ELSE [calls EXCEPT ![i] = d]
    OBVIOUS
  <2>4. /\ polls' = Stop(c.run) /\ UNCHANGED <<agents, select>>
        /\ \/ activeRun' = None /\ calls' = Append(rest, e)
           \/ calls' = rest /\ UNCHANGED activeRun
    BY <1>1, <1>7, <2>1, <2>2, <2>3 DEF FinalList, Throw, Without, select
  <2>5. activeRun' \in {activeRun, None} /\ polls' \subseteq polls /\ polls' = Stop(calls[i].run)
    BY <1>5, <2>4 DEF Stop
  <2>6. e \in Calls /\ CallOK(e)' /\ \A b : PairOK(b, e)
    BY <1>2, <2>1, ListCall
  <2>7. CASE c.fst = Done
    <3>1. PICK N : N = IF calls' = rest THEN {} ELSE {e}
      OBVIOUS
    <3>2. calls' \in Seq(Calls) /\ Follows(calls, calls', {i}, N)
      <4>1. CASE calls' = rest
        BY <1>6, <2>3, <2>7, <3>1, <4>1
      <4>2. CASE calls' # rest
        BY <2>3, <2>4, <2>6, <2>7, <3>1, <4>2, InsteadFollows DEF IInv, CallsOK
      <4> QED
        BY <4>1, <4>2
    <3>3. \A b \in N : CallOK(b)' /\ \A f \in Others({i}) : PairOK(f, b)
      BY <2>6, <3>1
    <3>4. UNCHANGED <<agents, select, messages, inOrder, unsent, faults>>
      BY <1>2, <2>4
    <3> QED
      BY <1>2, <1>5, <2>5, <3>2, <3>3, <3>4, TurnKeeps, Zenon
  <2>8. CASE c.fst # Done
    <3>1. /\ d.op = "messages" /\ d.agent = c.agent /\ d.run = None /\ d.fst = c.fst /\ d.snd = Done
          /\ d \in Calls
      BY <1>1, <1>3, <2>2 DEF Call, Calls, Answers, Ops
    <3>2. CallTyped(d) /\ Carried(d) = {} /\ Listing(d) = {}
      BY <1>3, <3>1, Marked
         DEF CallTyped, FirstTyped, SecondTyped, Carried, Listing, Lists, Loops, Commands
    <3>3. CallOK(d)
      BY <1>3, <3>1, <3>2 DEF CallOK, Loops
    <3>4. CallOK(d)'
      BY <1>2, <1>4, <3>1, <3>3, CallStays DEF server, Loops
    <3>5. Known'
      BY <1>2, <2>4, <2>5, KnownShown
    <3>6. TypedPage'
      BY <1>2, <2>4, <2>5 DEF IInv, TypedPage, select
    <3>7. \/ calls' = [calls EXCEPT ![i] = d]
          \/ calls' = Append([calls EXCEPT ![i] = d], One("list", None, None))
      BY <2>1, <2>3, <2>4, <2>8
    <3> QED
      BY <1>2, <1>5, <2>4, <2>5, <3>1, <3>4, <3>5, <3>6, <3>7, TurnChanges
  <2> QED
    BY <2>7, <2>8
<1>8. CASE c.snd # Failed
  <2>1. PICK d : d = [c EXCEPT !.snd = Done]
    OBVIOUS
  <2>2. /\ agents' = c.snd /\ (selectedId' = None \/ selectedId' \in DOMAIN c.snd)
        /\ polls' = IF c.fst = Done THEN Stop(c.run) ELSE polls
        /\ UNCHANGED activeRun
        /\ calls' = IF c.fst = Done THEN RemoveAt(calls, i) ELSE [calls EXCEPT ![i] = d]
    BY <1>1, <1>8, <2>1 DEF FinalList, ApplyList, EndsWith, Without
  <2>3. /\ agents' \in Listings /\ DOMAIN agents' \subseteq Agents
        /\ \A a \in DOMAIN agents' : Born(a)
    BY <1>3, <1>8, <2>2 DEF Listings
  <2>4. /\ polls' \subseteq polls /\ (polls' = polls \/ polls' = Stop(calls[i].run))
        /\ activeRun' \in {activeRun, None}
    BY <1>5, <2>2 DEF Stop
  <2>5. Known'
    <3>1. \A a \in Agents : Born(a)' <=> Born(a)
      BY <1>2, SameFacts
    <3>2. \A p \in polls' : RunKnown(p.run)'
      BY <1>2, <2>4, SameFacts DEF IInv, Known, TypedPage
    <3>3. activeRun # None => RunKnown(activeRun.run)'
      BY <1>2, <2>2, SameFacts DEF IInv, Known, TypedPage, RunViews
    <3> QED
      BY <1>2, <2>2, <2>3, <3>1, <3>2, <3>3 DEF IInv, Known, TypedPage
  <2>6. TypedPage'
    BY <1>2, <2>2, <2>3, <2>4 DEF IInv, TypedPage
  <2>7. CASE c.fst = Done
    <3>1. calls' = RemoveAt(calls, i)
      BY <2>2, <2>7
    <3>2. \A b \in Others({i}) : b.op \in Loops => Looping(b.run)'
      BY <1>5, <2>4, LoopsGoOn
    <3>3. LoadUnderWay(ref) => Excused(ref)'
      <4>1. \A j \in 1..Len(calls) : j \in {i} => calls[j].op # "load" \/ calls[j].fst = Done
        BY <1>5 DEF Loops
      <4> QED
        BY <1>2, <1>6, <3>1, <4>1, LoadsKept
    <3>4. Belongs'
      BY <1>2, <2>4, <3>3, BelongsShown
    <3> QED
      BY <1>2, <1>6, <2>5, <2>6, <3>1, <3>2, <3>4, PageDrops
  <2>8. CASE c.fst # Done
    <3>1. /\ d.op = "final" /\ d.agent = c.agent /\ d.run = c.run /\ d.fst = c.fst /\ d.snd = Done
          /\ d \in Calls
      BY <1>1, <1>2, <2>1 DEF Calls, Answers
    <3>2. CallTyped(d) /\ Carried(d) = Carried(c) /\ Listing(d) = {}
      BY <1>1, <1>2, <3>1, Marked
         DEF CallOK, CallTyped, FirstTyped, SecondTyped, Carried, Listing, Lists, Commands, Loops
    <3>3. CallOK(d)
      BY <1>1, <1>2, <3>1, <3>2 DEF CallOK, Lists, Loops
    <3>4. CallOK(d)'
      BY <1>2, <1>4, <2>2, <2>8, <3>3, SameCall
    <3>5. calls' = [calls EXCEPT ![i] = d]
      BY <2>2, <2>8
    <3> QED
      BY <1>2, <1>5, <2>4, <2>5, <2>6, <3>1, <3>4, <3>5, TurnChanges
  <2> QED
    BY <2>7, <2>8
<1> QED
  BY <1>7, <1>8

LEMMA SelectKeeps ==
    ASSUME IInv, NEW a \in Agents, Select(a)
    PROVE  IInv'
<1>1. /\ a \in DOMAIN agents /\ selectedId' = a /\ calls' = calls
      /\ UNCHANGED <<server, agents, ref, effectDue, view, polls, inOrder, unsent, faults>>
  BY DEF Select, Acts
<1>2. Onward /\ TypedServer'
  BY <1>1, SameServer, SameTypes DEF IInv, TypedPage
<1>3. CallsOK' /\ Pairs'
  <2>1. \A c : CallOK(c) => CallOK(c)'
    BY <1>1, <1>2, SameCall
  <2> QED
    BY <1>1, <2>1 DEF IInv, CallsOK, Pairs
<1>4. Known'
  <2>1. \A b \in Agents : Born(b)' <=> Born(b)
    BY <1>1, SameFacts
  <2>2. activeRun # None => RunKnown(activeRun.run)'
    BY <1>1, SameFacts DEF IInv, Known, TypedPage, RunViews, view
  <2>3. \A p \in polls : RunKnown(p.run)'
    BY <1>1, SameFacts DEF IInv, Known, TypedPage
  <2>4. DOMAIN agents \subseteq Agents
    BY DEF IInv, TypedPage, Listings
  <2> QED
    BY <1>1, <2>1, <2>2, <2>3, <2>4 DEF IInv, Known, TypedPage, view
<1>5. TypedPage'
  BY <1>1 DEF IInv, TypedPage, view
<1>6. Belongs'
  BY <1>1 DEF IInv, Belongs, Excused, LoadUnderWay, view, server
<1> QED
  BY <1>2, <1>3, <1>4, <1>5, <1>6 DEF IInv

LEMMA SendKeeps ==
    ASSUME IInv, Send
    PROVE  IInv'
<1>1. PICK d : d = One("send", ref, None)
  OBVIOUS
<1>2. /\ ref \in DOMAIN agents /\ calls' = Append(calls, d)
      /\ UNCHANGED <<server, agents, select, view, polls, inOrder, unsent, faults>>
  BY <1>1 DEF Send, Acts, select
<1>3. ref \in Agents /\ Born(ref)
  BY <1>2 DEF IInv, TypedPage, Listings, Known
<1>4. d.op = "send" /\ d.agent = ref /\ d.run = None /\ d.fst = Sent /\ d.snd = Done /\ d \in Calls
  BY <1>1, <1>3 DEF One, Call, Calls, Answers, Ops
<1>5. CallTyped(d) /\ Carried(d) = {} /\ Listing(d) = {}
  BY <1>3, <1>4, Marked DEF CallTyped, FirstTyped, SecondTyped, Carried, Listing, Lists, Loops, Commands
<1>6. CallOK(d)'
  BY <1>2, <1>3, <1>4, <1>5, NewCall DEF Loops
<1>7. \A c : PairOK(c, d)
  BY <1>4 DEF PairOK, Forming, Loops, Commands
<1>8. calls' \in Seq(Calls) /\ Follows(calls, calls', {}, {d})
  BY <1>2, <1>4, AppendFollows DEF IInv, CallsOK
<1> QED
  BY <1>2, <1>6, <1>7, <1>8, CallsKeep

LEMMA CommandKeeps ==
    ASSUME IInv, NEW op \in Commands, NEW a \in Agents, Command(op, a)
    PROVE  IInv'
<1>1. PICK d : d = One(op, a, None)
  OBVIOUS
<1>2. /\ Forms = {} /\ Offered(op, a) /\ calls' = Append(calls, d)
      /\ UNCHANGED <<server, agents, select, view, polls, inOrder, unsent, faults>>
  BY <1>1 DEF Command, Acts, select
<1>3. IF op = "create" THEN service[a] = "unborn" ELSE Born(a)
  BY <1>2 DEF Offered, IInv, Known
<1>4. d.op = op /\ d.agent = a /\ d.run = None /\ d.fst = Sent /\ d.snd = Done /\ d \in Calls
  BY <1>1 DEF One, Call, Calls, Answers, Ops
<1>5. CallTyped(d) /\ Carried(d) = {} /\ Listing(d) = {}
  BY <1>4, Marked DEF CallTyped, FirstTyped, SecondTyped, Carried, Listing, Lists, Loops, Commands
<1>6. CallOK(d)'
  BY <1>2, <1>3, <1>4, <1>5, NewCall DEF Loops, Commands
<1>7. \A c \in Others({}) : PairOK(c, d)
  <2>1. \A c \in Others({}) : c.op \notin Forming
    BY <1>2, OthersOK DEF IInv, Forms, Forming
  <2> QED
    BY <1>4, <2>1 DEF PairOK, Loops, Commands
<1>8. calls' \in Seq(Calls) /\ Follows(calls, calls', {}, {d})
  BY <1>2, <1>4, AppendFollows DEF IInv, CallsOK
<1> QED
  BY <1>2, <1>6, <1>7, <1>8, CallsKeep

\* Every step of the Console keeps it.
LEMMA ApplyKeeps ==
    ASSUME IInv, NEW i \in 1..Len(calls), Apply(i)
    PROVE  IInv'
BY ListedKeeps, RefreshedKeeps, LoadedMessagesKeeps, LoadedRunsKeeps, PostedKeeps, CommandedKeeps,
   PolledKeeps, FinalMessagesKeeps, FinalListKeeps, Zenon DEF Apply

LEMMA StepKeeps ==
    ASSUME IInv, Next
    PROVE  IInv'
<1>1. ASSUME NEW i \in 1..Len(calls),
             \/ AnswerFirst(i) \/ AnswerSecond(i) \/ AnswerSend(i) \/ AnswerCommand(i)
             \/ Lose(i) \/ Apply(i)
      PROVE  IInv'
  BY <1>1, AnswerFirstKeeps, AnswerSecondKeeps, AnswerSendKeeps, AnswerCommandKeeps, LoseKeeps,
     ApplyKeeps, Zenon
<1>2. ASSUME NEW r \in Started, Finish(r) \/ Lapse(r)
      PROVE  IInv'
  BY <1>2, EndKeeps
<1>3. CASE Render
  BY <1>3, RenderKeeps
<1>4. ASSUME NEW p \in polls, Tick(p)
      PROVE  IInv'
  BY <1>4, TickKeeps
<1>5. ASSUME NEW a \in Agents, Select(a)
      PROVE  IInv'
  BY <1>5, SelectKeeps
<1>6. CASE Send
  BY <1>6, SendKeeps
<1>7. ASSUME NEW op \in Commands, NEW a \in Agents, Command(op, a)
      PROVE  IInv'
  BY <1>7, CommandKeeps
<1>8. CASE Effect
  BY <1>8, EffectKeeps
<1> QED
  BY <1>1, <1>2, <1>3, <1>4, <1>5, <1>6, <1>7, <1>8, Zenon DEF Next, OtherThanEffect

LEMMA StutterKeeps ==
    ASSUME IInv, UNCHANGED vars
    PROVE  IInv'
<1>1. UNCHANGED <<server, agents, select, view, polls, calls, budget>>
  BY DEF vars
<1>2. /\ UNCHANGED service /\ UNCHANGED runs /\ UNCHANGED agents /\ UNCHANGED <<selectedId, ref>>
      /\ UNCHANGED effectDue /\ UNCHANGED <<messages, activeRun>> /\ UNCHANGED polls /\ UNCHANGED calls
      /\ UNCHANGED <<inOrder, unsent, faults>>
  BY <1>1 DEF server, select, view, budget
<1>3. Onward /\ TypedServer'
  BY <1>1, <1>2, SameServer, SameTypes DEF IInv, TypedPage
<1>4. CallsOK' /\ Pairs'
  <2>1. \A c : CallOK(c) => CallOK(c)'
    BY <1>1, <1>3, SameCall
  <2> QED
    BY <1>2, <2>1 DEF IInv, CallsOK, Pairs
<1>5. Known'
  BY <1>1, <1>3, KnownStays DEF IInv, view
<1>6. TypedPage'
  BY <1>2 DEF IInv, TypedPage
<1>7. Belongs'
  BY <1>2 DEF IInv, Belongs, Excused, LoadUnderWay
<1> QED
  BY <1>3, <1>4, <1>5, <1>6, <1>7 DEF IInv

-----------------------------------------------------------------------------
(* The first states: a page that is opened, and one at rest.               *)

LEMMA OpenedHolds ==
    ASSUME Init
    PROVE  IInv
<1>1. /\ service \in [Agents -> {"unborn", "ready", "busy"}]
      /\ runs \in [Agents -> {<<>>, <<"active">>}]
      /\ \A a \in Agents : runs[a] # <<>> => Live(a)
      /\ unsent \in BOOLEAN
  <2>1. PICK born \in SUBSET Agents :
          LET there == [a \in Agents |-> IF a \in born THEN "ready" ELSE "unborn"] IN
          \/ unsent = FALSE /\ service = there /\ runs = [a \in Agents |-> <<>>]
          \/ /\ unsent = TRUE
             /\ \E a \in born : /\ service = [there EXCEPT ![a] = "busy"]
                               /\ runs = [b \in Agents |-> IF b = a THEN <<"active">> ELSE <<>>]
    BY DEF Init, Bootstrap
  <2>2. PICK there \in [Agents -> {"ready", "unborn"}] :
          there = [a \in Agents |-> IF a \in born THEN "ready" ELSE "unborn"]
    OBVIOUS
  <2>3. CASE unsent = FALSE /\ service = there /\ runs = [a \in Agents |-> <<>>]
    BY <2>2, <2>3
  <2>4. ASSUME unsent = TRUE, NEW a \in Agents, service = [there EXCEPT ![a] = "busy"],
               runs = [b \in Agents |-> IF b = a THEN <<"active">> ELSE <<>>]
        PROVE  /\ service \in [Agents -> {"unborn", "ready", "busy"}]
               /\ runs \in [Agents -> {<<>>, <<"active">>}]
               /\ \A b \in Agents : runs[b] # <<>> => Live(b)
    BY <2>2, <2>4 DEF Live
  <2> QED
    BY <2>1, <2>2, <2>3, <2>4
<1>2. PICK e : e = One("list", None, None)
  OBVIOUS
<1>3. /\ service \in [Agents -> {"unborn", "ready", "busy"}]
      /\ agents = <<>> /\ selectedId = None /\ ref = None /\ effectDue = FALSE
      /\ messages = <<>> /\ activeRun = None /\ polls = {} /\ calls = <<e>>
      /\ inOrder \in BOOLEAN /\ faults = 0 /\ unsent \in BOOLEAN
  BY <1>1, <1>2 DEF Init, Bootstrap
<1>4. TypedServer
  <2>1. /\ runs \in [Agents -> {<<>>, <<"active">>}]
        /\ \A a \in Agents : runs[a] # <<>> => Live(a)
    BY <1>1
  <2>2. /\ <<>> \in Seq(RunStatuses) /\ Len(<<>>) <= MaxRuns
        /\ <<"active">> \in Seq(RunStatuses) /\ Len(<<"active">>) <= MaxRuns
    BY Bounds DEF RunStatuses
  <2>3. \A a \in Agents : runs[a] \in {<<>>, <<"active">>}
    BY <2>1
  <2>4. runs \in [Agents -> Seq(RunStatuses)]
    BY <2>1, <2>2, <2>3
  <2>5. \A a \in Agents : Len(runs[a]) <= MaxRuns
    BY <2>2, <2>3
  <2>6. \A a \in Agents : ~ Live(a) => runs[a] = <<>>
    BY <2>1 DEF Live
  <2> QED
    BY <1>3, <2>4, <2>5, <2>6 DEF TypedServer
<1>5. agents \in Listings /\ DOMAIN agents = {}
  <2>1. agents \in [{} -> {"ready", "busy", "stopped"}]
    BY <1>3
  <2> QED
    BY <2>1 DEF Listings
<1>6. messages \in Conversations
  BY <1>3 DEF Conversations
<1>7. TypedPage
  BY <1>3, <1>5, <1>6 DEF TypedPage
<1>8. Known
  BY <1>3, <1>5 DEF Known
<1>9. CallsOK /\ Pairs
  <2>1. e.op = "list" /\ e.agent = None /\ e.run = None /\ e.fst = Sent /\ e.snd = Done /\ e \in Calls
    BY <1>2 DEF One, Call, Calls, Answers, Ops, Lists
  <2>2. CallTyped(e) /\ Carried(e) = {} /\ Listing(e) = {}
    BY <2>1, Marked DEF CallTyped, FirstTyped, SecondTyped, Carried, Listing, Lists, Loops, Commands
  <2>3. CallOK(e)
    BY <2>1, <2>2 DEF CallOK, Loops
  <2>4. calls \in Seq(Calls) /\ Len(calls) = 1 /\ calls[1] = e
    BY <1>3, <2>1
  <2> QED
    BY <2>3, <2>4 DEF CallsOK, Pairs
<1>10. Belongs
  BY <1>3 DEF Belongs
<1> QED
  BY <1>4, <1>7, <1>8, <1>9, <1>10 DEF IInv

LEMMA AtRestHolds ==
    ASSUME AtRest
    PROVE  IInv
<1>1. PICK a \in Agents : /\ runs = [b \in Agents |-> IF b = a THEN <<"completed">> ELSE <<>>]
                          /\ selectedId = a /\ activeRun = Shown(<<a, 1>>)
  BY DEF AtRest
<1>2. /\ service = [b \in Agents |-> "ready"] /\ unsent = FALSE /\ agents = AgentList
      /\ ref = a /\ effectDue = FALSE /\ messages = MessagesOf(a) /\ polls = {} /\ calls = <<>>
      /\ inOrder \in BOOLEAN /\ faults = MaxFaults /\ MaxFaults \in Nat
  BY <1>1, Bounds DEF AtRest
<1>3. \A b \in Agents : service[b] = "ready" /\ Live(b) /\ Born(b)
  BY <1>2 DEF Live, Born
<1>4. TypedServer
  <2>1. /\ <<>> \in Seq(RunStatuses) /\ Len(<<>>) <= MaxRuns
        /\ <<"completed">> \in Seq(RunStatuses) /\ Len(<<"completed">>) <= MaxRuns
    BY Bounds DEF RunStatuses
  <2> QED
    BY <1>1, <1>2, <1>3, <2>1 DEF TypedServer
<1>5. runs[a] = <<"completed">> /\ Len(runs[a]) = 1
  BY <1>1
<1>6. <<a, 1>> \in Started
  BY <1>4, <1>5, StartedOf
<1>7. activeRun \in RunViews /\ activeRun.run = <<a, 1>>
  BY <1>1, <1>4, <1>6, ShownTyped
<1>8. agents \in Listings /\ DOMAIN agents \subseteq Agents /\ a \in DOMAIN agents
  BY <1>2, <1>3, <1>4, ListTyped
<1>9. TalkOf(messages, a)
  BY <1>2, <1>4, TalkTyped
<1>10. TypedPage
  BY <1>1, <1>2, <1>7, <1>8, <1>9 DEF TypedPage, TalkOf
<1>11. Known
  BY <1>1, <1>2, <1>3, <1>6, <1>7, <1>8 DEF Known, RunKnown
<1>12. CallsOK /\ Pairs
  BY <1>2 DEF CallsOK, Pairs
<1>13. Belongs
  BY <1>1, <1>2, <1>7, <1>9, AgentSet DEF Belongs, TalkOf
<1> QED
  BY <1>4, <1>10, <1>11, <1>12, <1>13 DEF IInv

\* A run the page did not send.
LEMMA ReplacedKeeps ==
    ASSUME IInv, NEW i \in 1..Len(asks), NEW a \in Agents, Replaced(i, a)
    PROVE  IInv'
<1>1. /\ service[a] = "ready" /\ Admit(a) /\ unsent' = TRUE
      /\ UNCHANGED <<agents, select, view, polls, calls, inOrder, faults>>
  BY DEF Replaced
<1>2. /\ TypedServer' /\ Alike /\ Started \subseteq Started'
      /\ \A b \in Agents : service'[b] = IF b = a THEN "busy" ELSE service[b]
  BY <1>1, Admitted DEF IInv
<1>3. faults \in Nat /\ faults' \in Nat /\ faults' >= faults
  BY <1>1 DEF IInv, TypedPage
<1>4. Onward
  BY <1>1, <1>2, <1>3, MovesOn DEF IInv
<1> QED
  BY <1>1, <1>2, <1>3, <1>4, ServerMoves

LEMMA PageStep ==
    ASSUME [PageNext]_all
    PROVE  Next \/ UNCHANGED vars \/ \E i \in 1..Len(asks), a \in Agents : Replaced(i, a)
BY DEF PageNext, ConsoleStep, Selected, Toggle, PanelStep, Next, all

LEMMA PageInvariant == PageSpec => []IInv
<1>1. PageInit => IInv
  BY OpenedHolds, AtRestHolds DEF PageInit
<1>2. IInv /\ [PageNext]_all => IInv'
  BY PageStep, StepKeeps, StutterKeeps, ReplacedKeeps
<1> QED
  BY <1>1, <1>2, PTL DEF PageSpec

\* ShownIsSelected holds: between renders, the run shown is the selected Agent's, and so
\* are the messages, unless the Agent's load is under way, failed with a fault, or
\* found the Agent deleted (the tests of selectedIdRef in App.tsx).
THEOREM SelectedShown == PageSpec => []ShownIsSelected
<1>1. IInv => ShownIsSelected
  <2> SUFFICES ASSUME IInv
               PROVE  ShownIsSelected
    OBVIOUS
  <2>1. ~ effectDue /\ ref = None => Len(messages) = 0
    BY DEF IInv, Belongs
  <2>2. ~ effectDue => \A k \in 1..Len(messages) : messages[k][1][1] = ref \/ Excused(ref)
    BY <2>1 DEF IInv, Belongs
  <2> QED
    BY <2>2 DEF IInv, Belongs, ShownIsSelected, Rendered, Excused
<1> QED
  BY <1>1, PageInvariant, PTL

-----------------------------------------------------------------------------
(* The page at rest: what a network that keeps the order will bring.       *)

\* Nothing is reordered or lost, and no run was under way when the page was opened.
Calm == inOrder /\ faults = 0 /\ ~ unsent

\* Answers are given in the order of the calls; what a later one says of a run is newer.
HasSent(c)  == Sent \in {c.fst, c.snd}
Answered(c) == Arrived(c.fst) \/ Arrived(c.snd)
InTurn(c, d) ==
    /\ Answered(d) => ~ HasSent(c)
    /\ \A v \in Carried(c), w \in Carried(d) :
          v.run = w.run => d.op # "send" /\ (v.status # "active" => w.status # "active")
Turns(q) == \A i, j \in 1..Len(q) : i < j => InTurn(q[i], q[j])

\* A run whose end the page will hear of: its loop goes on, or starts with the answer
\* of its send.
Posts(c, r)    == c.op = "send" /\ c.fst \in RunViews /\ c.fst.run = r
Posting(q, r)  == \E i \in 1..Len(q) : Posts(q[i], r)
Ending(q, r)   == \E i \in 1..Len(q) : q[i].op = "final" /\ q[i].run = r
Watched(r)     == Posting(calls, r) \/ (Looping(r) /\ ~ Ending(calls, r))

\* What a view says of a run that has ended is how it ended.  Whatever completed is
\* recorded: nothing else makes an Agent ready before its run has ended.
ViewOK(v) ==
    Live(v.run[1]) =>
        v.run \in Started /\ (v.status # "active" => v.status = runs[v.run[1]][v.run[2]])
ViewWatched(v) == Live(v.run[1]) /\ v.status = "active" => Watched(v.run)

\* Only what is about a deleted Agent fails, and what a send brings is new to the page.
Honest(c) ==
    /\ c.op # "messages"
    /\ c.op \in {"load", "final", "poll"} /\ c.fst = Failed => ~ Live(c.agent)
    /\ c.op = "load" /\ c.snd = Failed => ~ Live(c.agent)
    /\ c.op \in Lists => c.fst # Failed
    /\ c.op = "final" => c.snd # Failed
    /\ Arrived(c.snd) => c.fst # Sent
    /\ \A v \in Carried(c) : ViewOK(v)
NewRun(c) ==
    c.op = "send" /\ c.fst \in RunViews /\ Live(c.agent) =>
        ~ Looping(c.fst.run) /\ (activeRun = None \/ activeRun.run # c.fst.run)
CalmCall(c) == Honest(c) /\ NewRun(c) /\ \A v \in Carried(c) : ViewWatched(v)

\* The lists of Agents (of a = None) and the messages of a that a call brings or will bring.
Payload(c, a) ==
    IF a = None THEN Listing(c)
    ELSE IF c.op \in {"load", "final"} /\ c.agent = a THEN {c.fst} \cap Conversations ELSE {}
Coming(c, a) ==
    IF a = None
    THEN \/ c.op \in Lists /\ c.fst = Sent
         \/ c.op = "final" /\ c.snd = Sent
         \/ c.op \in Commands /\ c.fst = "ok"
    ELSE c.op \in {"load", "final"} /\ c.agent = a /\ c.fst = Sent
Comes(q, a) == \E i \in 1..Len(q) : Coming(q[i], a)
Brings(q, a, shown, truth) ==
    \/ shown = truth /\ \A i \in 1..Len(q) : Payload(q[i], a) = {}
    \/ \E i \in 1..Len(q) :
          Payload(q[i], a) = {truth} /\ \A j \in 1..Len(q) : j > i => Payload(q[j], a) = {}
Awake(a) == \E r \in RunIds : Live(r[1]) /\ (a = None \/ r[1] = a) /\ Watched(r)
Settles(a, shown, truth) == Comes(calls, a) \/ Awake(a) \/ Brings(calls, a, shown, truth)

CallsCalm    == \A i \in 1..Len(calls) : CalmCall(calls[i])
Served       ==
    /\ \A r \in Started : runs[r[1]][r[2]] \notin {"unrecorded", "lapsed"}
    /\ \A a \in Agents : Busy(a) => \E r \in Started : r[1] = a /\ runs[r[1]][r[2]] = "active"
RunsWatched  == \A r \in Started : runs[r[1]][r[2]] = "active" => Watched(r)
ViewCalm     == activeRun # None => ViewOK(activeRun) /\ (~ effectDue => ViewWatched(activeRun))
ListSettles  == Settles(None, agents, AgentList)
TalkSettles  == ~ effectDue /\ ref # None /\ Live(ref) => Settles(ref, messages, MessagesOf(ref))
AllCalm      ==
    CallsCalm /\ Turns(calls) /\ Served /\ RunsWatched /\ ViewCalm /\ ListSettles /\ TalkSettles
CalmInv      == Calm => AllCalm

-----------------------------------------------------------------------------
(* Queues that keep their order.                                           *)

Has(q, c)   == \E k \in 1..Len(q) : q[k] = c
Later(q, c) == \E k \in 1..Len(q) : k # 1 /\ q[k] = c

\* A call just issued.
Fresh(c) == c \in Calls /\ c.fst = Sent /\ c.snd \in {Sent, Done}

\* A queue without its first call, with one more, with another one in a place.
Drop(q, p)      == q \in Seq(Calls) /\ q # <<>> /\ p = RemoveAt(q, 1)
Add(q, c, p)    == q \in Seq(Calls) /\ Fresh(c) /\ p = Append(q, c)
Put(q, i, c, p) == q \in Seq(Calls) /\ i \in 1..Len(q) /\ c \in Calls /\ p = [q EXCEPT ![i] = c]

LEMMA FreshFact ==
    ASSUME NEW c, Fresh(c)
    PROVE  /\ ~ Answered(c) /\ Carried(c) = {}
           /\ \A a : Payload(c, a) = {}
           /\ \A r : ~ Posts(c, r)
BY Marked DEF Fresh, Answered, Arrived, Carried, Payload, Listing, Posts

LEMMA FirstDropped ==
    ASSUME NEW X, NEW q \in Seq(X), q # <<>>
    PROVE  /\ RemoveAt(q, 1) \in Seq(X) /\ Len(RemoveAt(q, 1)) = Len(q) - 1 /\ Len(q) \in Nat \ {0}
           /\ \A k \in 1..(Len(q) - 1) : k + 1 \in 1..Len(q) /\ RemoveAt(q, 1)[k] = q[k + 1]
<1>1. 1 \in 1..Len(q) /\ Len(q) \in Nat \ {0}
  OBVIOUS
<1>2. \A k \in 1..(Len(q) - 1) : Skip(1, k) = k + 1
  BY <1>1 DEF Skip
<1> QED
  BY <1>1, <1>2, Removed

LEMMA DropKeeps ==
    ASSUME NEW q, NEW p, Drop(q, p)
    PROVE  /\ p \in Seq(Calls)
           /\ \A c : Has(p, c) => Later(q, c)
           /\ Turns(q) => Turns(p)
           /\ \A r : Posting(p, r) => Posting(q, r)
           /\ \A r : Posting(q, r) => Posting(p, r) \/ Posts(q[1], r)
           /\ \A r : Ending(p, r) => Ending(q, r)
           /\ \A a : Comes(q, a) => Comes(p, a) \/ Coming(q[1], a)
           /\ \A a, s, t : Brings(q, a, s, t) /\ Payload(q[1], a) = {} => Brings(p, a, s, t)
           /\ \A a, s, t, u : Brings(q, a, s, t) /\ Payload(q[1], a) = {u} => Brings(p, a, u, t)
<1>1. PICK n \in Nat : Len(q) = n + 1 /\ p \in Seq(Calls) /\ Len(p) = n /\ \A k \in 1..n : p[k] = q[k + 1]
  <2>1. Len(q) \in Nat \ {0} /\ p \in Seq(Calls) /\ Len(p) = Len(q) - 1
        /\ \A k \in 1..(Len(q) - 1) : p[k] = q[k + 1]
    BY FirstDropped DEF Drop
  <2> QED
    BY <2>1
<1>2. \A k \in 1..n : k + 1 \in 1..(n + 1) /\ k + 1 # 1 /\ p[k] = q[k + 1]
  BY <1>1
<1>3. \A i \in 1..(n + 1) : i = 1 \/ \E k \in 1..n : i = k + 1 /\ q[i] = p[k]
  <2> SUFFICES ASSUME NEW i \in 1..(n + 1), i # 1
               PROVE  \E k \in 1..n : i = k + 1 /\ q[i] = p[k]
    OBVIOUS
  <2>1. i - 1 \in 1..n /\ i = (i - 1) + 1
    OBVIOUS
  <2> QED
    BY <1>1, <2>1
<1>4. \A c : Has(p, c) => Later(q, c)
  BY <1>1, <1>2 DEF Has, Later
<1>5. Turns(q) => Turns(p)
  <2> SUFFICES ASSUME Turns(q), NEW i \in 1..n, NEW j \in 1..n, i < j
               PROVE  InTurn(p[i], p[j])
    BY <1>1 DEF Turns
  <2>1. i + 1 < j + 1
    OBVIOUS
  <2> QED
    BY <1>1, <1>2, <2>1 DEF Turns
<1>6. \A r : Posting(p, r) => Posting(q, r)
  BY <1>1, <1>2 DEF Posting
<1>7. \A r : Posting(q, r) => Posting(p, r) \/ Posts(q[1], r)
  BY <1>1, <1>3 DEF Posting
<1>8. \A r : Ending(p, r) => Ending(q, r)
  BY <1>1, <1>2 DEF Ending
<1>9. \A a : Comes(q, a) => Comes(p, a) \/ Coming(q[1], a)
  BY <1>1, <1>3 DEF Comes
<1>10. ASSUME NEW a, NEW s, NEW t, NEW i \in 1..(n + 1), i # 1, Payload(q[i], a) = {t},
              \A j \in 1..(n + 1) : j > i => Payload(q[j], a) = {}
       PROVE  \A u : Brings(p, a, u, t)
  <2>1. PICK k \in 1..n : i = k + 1 /\ q[i] = p[k]
    BY <1>3, <1>10
  <2>2. \A l \in 1..n : l > k => l + 1 > i /\ l + 1 \in 1..(n + 1)
    BY <2>1
  <2>3. \A l \in 1..n : l > k => Payload(p[l], a) = {}
    BY <1>1, <1>10, <2>2
  <2> QED
    BY <1>1, <1>10, <2>1, <2>3 DEF Brings
<1>11. ASSUME NEW a, NEW s, NEW t, Brings(q, a, s, t), Payload(q[1], a) = {}
       PROVE  Brings(p, a, s, t)
  <2>1. CASE s = t /\ \A i \in 1..(n + 1) : Payload(q[i], a) = {}
    BY <1>1, <1>2, <2>1 DEF Brings
  <2>2. CASE \E i \in 1..(n + 1) : Payload(q[i], a) = {t}
                                   /\ \A j \in 1..(n + 1) : j > i => Payload(q[j], a) = {}
    <3>1. PICK i \in 1..(n + 1) : Payload(q[i], a) = {t}
                                  /\ \A j \in 1..(n + 1) : j > i => Payload(q[j], a) = {}
      BY <2>2
    <3>2. i # 1
      BY <1>11, <3>1
    <3> QED
      BY <1>10, <3>1, <3>2
  <2> QED
    BY <1>1, <1>11, <2>1, <2>2 DEF Brings
<1>12. ASSUME NEW a, NEW s, NEW t, NEW u, Brings(q, a, s, t), Payload(q[1], a) = {u}
       PROVE  Brings(p, a, u, t)
  <2>1. 1 \in 1..(n + 1)
    OBVIOUS
  <2>2. PICK i \in 1..(n + 1) : Payload(q[i], a) = {t}
                                /\ \A j \in 1..(n + 1) : j > i => Payload(q[j], a) = {}
    BY <1>1, <1>12, <2>1 DEF Brings
  <2>3. CASE i = 1
    <3>1. u = t
      BY <1>12, <2>2, <2>3
    <3>2. \A k \in 1..n : k + 1 > 1 /\ k + 1 \in 1..(n + 1)
      OBVIOUS
    <3>3. \A k \in 1..n : Payload(p[k], a) = {}
      BY <1>1, <2>2, <2>3, <3>2
    <3> QED
      BY <1>1, <3>1, <3>3 DEF Brings
  <2>4. CASE i # 1
    BY <1>10, <2>2, <2>4
  <2> QED
    BY <2>3, <2>4
<1> QED
  BY <1>1, <1>4, <1>5, <1>6, <1>7, <1>8, <1>9, <1>11, <1>12, Zenon

LEMMA AddKeeps ==
    ASSUME NEW q, NEW c, NEW p, Add(q, c, p)
    PROVE  /\ p \in Seq(Calls)
           /\ \A d : Has(p, d) => d = c \/ Has(q, d)
           /\ Turns(q) => Turns(p)
           /\ \A r : Posting(p, r) <=> Posting(q, r)
           /\ \A r : Ending(p, r) => Ending(q, r) \/ (c.op = "final" /\ c.run = r)
           /\ \A a : Comes(q, a) \/ Coming(c, a) => Comes(p, a)
           /\ \A a, s, t : Brings(q, a, s, t) => Brings(p, a, s, t)
<1>1. PICK n \in Nat : /\ Len(q) = n /\ p \in Seq(Calls) /\ Len(p) = n + 1 /\ p[n + 1] = c
                       /\ \A k \in 1..n : p[k] = q[k]
  BY DEF Fresh, Add
<1>2. /\ Fresh(c) /\ n + 1 \in 1..(n + 1)
      /\ \A k \in 1..(n + 1) : k = n + 1 \/ k \in 1..n
      /\ \A k \in 1..n : k \in 1..(n + 1)
  BY DEF Add
<1>3. Turns(q) => Turns(p)
  <2> SUFFICES ASSUME Turns(q), NEW i \in 1..(n + 1), NEW j \in 1..(n + 1), i < j
               PROVE  InTurn(p[i], p[j])
    BY <1>1 DEF Turns
  <2>1. i \in 1..n
    OBVIOUS
  <2>2. CASE j \in 1..n
    BY <1>1, <2>1, <2>2 DEF Turns
  <2>3. CASE j = n + 1
    BY <1>1, <1>2, <2>3, FreshFact DEF InTurn
  <2> QED
    BY <1>2, <2>2, <2>3
<1>4. \A r : Posting(p, r) <=> Posting(q, r)
  BY <1>1, <1>2, FreshFact DEF Posting
<1>5. \A r : Ending(p, r) => Ending(q, r) \/ (c.op = "final" /\ c.run = r)
  BY <1>1, <1>2 DEF Ending
<1>6. \A a : Comes(q, a) \/ Coming(c, a) => Comes(p, a)
  BY <1>1, <1>2 DEF Comes
<1>7. ASSUME NEW a, NEW s, NEW t, Brings(q, a, s, t)
      PROVE  Brings(p, a, s, t)
  <2>1. \A j \in 1..(n + 1) : j \in 1..n \/ Payload(p[j], a) = {}
    BY <1>1, <1>2, FreshFact
  <2> QED
    BY <1>1, <1>2, <1>7, <2>1 DEF Brings
<1>8. \A d : Has(p, d) => d = c \/ Has(q, d)
  BY <1>1, <1>2 DEF Has
<1> QED
  BY <1>1, <1>3, <1>4, <1>5, <1>6, <1>7, <1>8

LEMMA PutKeeps ==
    ASSUME NEW q, NEW i, NEW c, NEW p, Put(q, i, c, p)
    PROVE  /\ p \in Seq(Calls)
           /\ \A d : Has(p, d) => d = c \/ Has(q, d)
           /\ Turns(q) /\ (\A j \in 1..Len(q) : (j < i => InTurn(q[j], c)) /\ (i < j => InTurn(c, q[j])))
                 => Turns(p)
           /\ \A r : Posting(p, r) => Posting(q, r) \/ Posts(c, r)
           /\ \A r : Posts(c, r) => Posting(p, r)
           /\ \A r : Ending(p, r) => Ending(q, r) \/ (c.op = "final" /\ c.run = r)
<1>1. PICK n \in Nat : /\ Len(q) = n /\ p \in Seq(Calls) /\ Len(p) = n /\ i \in 1..n /\ p[i] = c
                       /\ \A k \in 1..n : k # i => p[k] = q[k]
  BY DEF Put
<1>2. \A d : Has(p, d) => d = c \/ Has(q, d)
  BY <1>1 DEF Has
<1>3. ASSUME Turns(q), \A j \in 1..n : (j < i => InTurn(q[j], c)) /\ (i < j => InTurn(c, q[j]))
      PROVE  Turns(p)
  <2> SUFFICES ASSUME NEW k \in 1..n, NEW l \in 1..n, k < l
               PROVE  InTurn(p[k], p[l])
    BY <1>1 DEF Turns
  <2>1. CASE k = i
    BY <1>1, <1>3, <2>1
  <2>2. CASE l = i
    BY <1>1, <1>3, <2>2
  <2>3. CASE k # i /\ l # i
    BY <1>1, <1>3, <2>3 DEF Turns
  <2> QED
    BY <2>1, <2>2, <2>3
<1>4. \A r : (Posting(p, r) => Posting(q, r) \/ Posts(c, r)) /\ (Posts(c, r) => Posting(p, r))
  BY <1>1 DEF Posting
<1>5. \A r : Ending(p, r) => Ending(q, r) \/ (c.op = "final" /\ c.run = r)
  BY <1>1 DEF Ending
<1> QED
  BY <1>1, <1>2, <1>3, <1>4, <1>5, Zenon

LEMMA PutPosts ==
    ASSUME NEW q, NEW i, NEW c, NEW p, Put(q, i, c, p),
           \A r : ~ Posts(q[i], r)
    PROVE  \A r : Posting(q, r) => Posting(p, r)
<1>1. PICK n \in Nat : /\ Len(q) = n /\ p \in Seq(Calls) /\ Len(p) = n /\ i \in 1..n /\ p[i] = c
                       /\ \A k \in 1..n : k # i => p[k] = q[k]
  BY DEF Put
<1> QED
  BY <1>1 DEF Posting

LEMMA PutBrings ==
    ASSUME NEW q, NEW i, NEW c, NEW p, Put(q, i, c, p), NEW a
    PROVE  /\ Comes(q, a) => Comes(p, a) \/ (Coming(q[i], a) /\ ~ Coming(c, a))
           /\ Coming(c, a) => Comes(p, a)
           /\ \A s, t : Brings(q, a, s, t) /\ Payload(c, a) = Payload(q[i], a) => Brings(p, a, s, t)
           /\ \A s, t, u : Brings(q, a, s, t) /\ i = 1 /\ Payload(q[1], a) = {u} /\ Payload(c, a) = {}
                 => Brings(p, a, u, t)
<1>1. PICK n \in Nat : /\ Len(q) = n /\ p \in Seq(Calls) /\ Len(p) = n /\ i \in 1..n /\ p[i] = c
                       /\ \A k \in 1..n : k # i => p[k] = q[k]
  BY DEF Put
<1>2. Comes(q, a) => Comes(p, a) \/ (Coming(q[i], a) /\ ~ Coming(c, a))
  BY <1>1 DEF Comes
<1>3. Coming(c, a) => Comes(p, a)
  BY <1>1 DEF Comes
<1>4. ASSUME NEW s, NEW t, Brings(q, a, s, t), Payload(c, a) = Payload(q[i], a)
      PROVE  Brings(p, a, s, t)
  <2>1. \A j \in 1..n : Payload(p[j], a) = Payload(q[j], a)
    BY <1>1, <1>4
  <2> QED
    BY <1>1, <1>4, <2>1 DEF Brings
<1>5. ASSUME NEW s, NEW t, NEW u, Brings(q, a, s, t), i = 1, Payload(q[1], a) = {u}, Payload(c, a) = {}
       PROVE  Brings(p, a, u, t)
  <2>1. PICK k \in 1..n : Payload(q[k], a) = {t} /\ \A j \in 1..n : j > k => Payload(q[j], a) = {}
    BY <1>1, <1>5 DEF Brings
  <2>2. CASE k = 1
    <3>1. u = t
      BY <1>5, <2>1, <2>2
    <3>2. \A j \in 1..n : Payload(p[j], a) = {}
      BY <1>1, <1>5, <2>1, <2>2
    <3> QED
      BY <1>1, <3>1, <3>2 DEF Brings
  <2>3. CASE k # 1
    <3>1. \A j \in 1..n : j # 1 => p[j] = q[j]
      BY <1>1, <1>5
    <3>2. \A j \in 1..n : j > k => j # 1
      BY <2>3
    <3>3. Payload(p[k], a) = {t} /\ \A j \in 1..n : j > k => Payload(p[j], a) = {}
      BY <2>1, <2>3, <3>1, <3>2, Zenon
    <3> QED
      BY <1>1, <3>3 DEF Brings
  <2> QED
    BY <2>2, <2>3
<1> QED
  BY <1>1, <1>2, <1>3, <1>4, <1>5, Zenon

LEMMA PutTells ==
    ASSUME NEW q, NEW i, NEW c, NEW p, Put(q, i, c, p),
           NEW a, NEW t, Payload(c, a) = {t}, \A j \in 1..Len(q) : i < j => Payload(q[j], a) = {}
    PROVE  \A s : Brings(p, a, s, t)
<1>1. PICK n \in Nat : /\ Len(q) = n /\ p \in Seq(Calls) /\ Len(p) = n /\ i \in 1..n /\ p[i] = c
                       /\ \A k \in 1..n : k # i => p[k] = q[k]
  BY DEF Put
<1>2. Payload(p[i], a) = {t} /\ \A j \in 1..n : j > i => Payload(p[j], a) = {}
  BY <1>1
<1> QED
  BY <1>1, <1>2 DEF Brings

\* What a queue brings in the end, another one brings too.
Passes(q, p, a, s, u, t) == Comes(q, a) \/ Brings(q, a, s, t) => Comes(p, a) \/ Brings(p, a, u, t)

LEMMA DropPasses ==
    ASSUME NEW q, NEW p, Drop(q, p), NEW a, ~ Coming(q[1], a)
    PROVE  /\ Payload(q[1], a) = {} => \A s, t : Passes(q, p, a, s, s, t)
           /\ \A s, t, u : Payload(q[1], a) = {u} => Passes(q, p, a, s, u, t)
<1>1. \A s, t : Brings(q, a, s, t) /\ Payload(q[1], a) = {} => Brings(p, a, s, t)
  BY DropKeeps
<1>2. \A s, t, u : Brings(q, a, s, t) /\ Payload(q[1], a) = {u} => Brings(p, a, u, t)
  BY DropKeeps
<1>3. Comes(q, a) => Comes(p, a)
  BY DropKeeps
<1> QED
  BY <1>1, <1>2, <1>3 DEF Passes

LEMMA AddPasses ==
    ASSUME NEW q, NEW c, NEW p, Add(q, c, p)
    PROVE  \A a, s, t : Passes(q, p, a, s, s, t)
BY AddKeeps DEF Passes

-----------------------------------------------------------------------------
(* Steps that leave the server alone.                                      *)

LEMMA ServerSame ==
    ASSUME UNCHANGED server
    PROVE  /\ Started' = Started /\ AgentList' = AgentList /\ UNCHANGED <<service, runs>>
           /\ \A a : Live(a)' = Live(a) /\ MessagesOf(a)' = MessagesOf(a)
           /\ \A v : ViewOK(v)' = ViewOK(v)
           /\ \A c : Honest(c)' = Honest(c)
<1>1. UNCHANGED <<service, runs>>
  BY DEF server
<1>2. Started' = Started /\ \A a : Live(a)' = Live(a)
  BY <1>1 DEF Started, Live
<1>3. AgentList' = AgentList /\ \A a : MessagesOf(a)' = MessagesOf(a)
  BY <1>1 DEF AgentList, MessagesOf, Live, Exchange
<1>4. \A v : ViewOK(v)' = ViewOK(v)
  BY <1>1, <1>2 DEF ViewOK
<1>5. \A c : Honest(c)' = Honest(c)
  BY <1>2, <1>4 DEF Honest
<1> QED
  BY <1>1, <1>2, <1>3, <1>4, <1>5

LEMMA StartedLive ==
    ASSUME TypedServer, NEW r \in Started
    PROVE  r \in RunIds /\ r[1] \in Agents /\ Live(r[1])
<1>1. r \in RunIds /\ r[1] \in Agents /\ r[2] \in 1..MaxRuns /\ r[2] <= Len(runs[r[1]])
  BY RunIdParts DEF Started
<1>2. runs[r[1]] # <<>>
  BY <1>1, RunIdParts
<1> QED
  BY <1>1, <1>2 DEF TypedServer

Watching == \A r \in RunIds : Live(r[1]) /\ Watched(r) => Watched(r)'

LEMMA WatchingOn ==
    ASSUME \A r : Looping(r) => Looping(r)',
           \A r : Posting(calls, r) => Posting(calls', r),
           \A r : Ending(calls', r) => Ending(calls, r)
    PROVE  Watching
BY DEF Watching, Watched

LEMMA CalmKeeps ==
    ASSUME TypedServer, AllCalm, UNCHANGED server, Watching, Turns(calls'), ViewCalm',
           \A c : Has(calls', c) => Honest(c) /\ NewRun(c)' /\ \A v \in Carried(c) : ViewWatched(v),
           ListSettles', TalkSettles'
    PROVE  AllCalm'
<1>1. UNCHANGED <<service, runs>> /\ \A a : Live(a)' = Live(a)
  BY ServerSame
<1>2. ASSUME NEW v \in RunViews, ViewWatched(v)
      PROVE  ViewWatched(v)'
    BY <1>1, <1>2 DEF ViewWatched, Watching, RunViews
<1>3. ASSUME NEW c, Has(calls', c)
      PROVE  CalmCall(c)'
  <2>1. Honest(c)' /\ NewRun(c)'
    BY <1>3, ServerSame
  <2>2. \A v \in Carried(c) : v \in RunViews /\ ViewWatched(v)
    BY <1>3 DEF Carried
  <2> QED
    BY <1>2, <2>1, <2>2 DEF CalmCall
<1>4. CallsCalm'
  <2>1. PICK q : q = calls'
    OBVIOUS
  <2>2. ASSUME NEW k \in 1..Len(q)
        PROVE  CalmCall(q[k])'
    <3>1. PICK c : c = q[k]
      OBVIOUS
    <3>2. Has(calls', c)
      BY <2>1, <3>1 DEF Has
    <3> QED
      BY <1>3, <3>1, <3>2
  <2> QED
    BY <2>1, <2>2 DEF CallsCalm
<1>5. RunsWatched'
  <2>1. Started' = Started
    BY ServerSame
  <2>2. \A r \in Started : r \in RunIds /\ Live(r[1])
    BY StartedLive
  <2> QED
    BY <1>1, <2>1, <2>2 DEF AllCalm, RunsWatched, Watching
<1>6. Served'
  BY <1>1, ServerSame DEF AllCalm, Served, Busy
<1> QED
  BY <1>4, <1>5, <1>6 DEF AllCalm

LEMMA ListStays ==
    ASSUME TypedServer, AllCalm, UNCHANGED server, Watching,
           Passes(calls, calls', None, agents, agents', AgentList)
    PROVE  ListSettles'
<1>1. AgentList' = AgentList /\ \A a : Live(a)' = Live(a)
  BY ServerSame
<1>2. Awake(None) => Awake(None)'
  BY <1>1 DEF Awake, Watching
<1>3. PICK q, l : q = calls' /\ l = agents'
  OBVIOUS
<1>4. Comes(q, None) \/ Brings(q, None, l, AgentList) \/ Awake(None)'
  BY <1>2, <1>3 DEF AllCalm, ListSettles, Settles, Passes
<1> QED
  BY <1>1, <1>3, <1>4 DEF ListSettles, Settles

LEMMA TalkStays ==
    ASSUME TypedPage, AllCalm, UNCHANGED server, Watching, UNCHANGED ref, ~ effectDue' => ~ effectDue,
           \A a \in Agents : a = ref /\ Live(a) => Passes(calls, calls', a, messages, messages', MessagesOf(a))
    PROVE  TalkSettles'
<1> SUFFICES ASSUME ~ effectDue', ref # None, Live(ref)'
             PROVE  Settles(ref, messages, MessagesOf(ref))'
  BY DEF TalkSettles
<1>1. PICK a \in Agents : a = ref
  BY DEF TypedPage
<1>2. Live(a) /\ MessagesOf(a)' = MessagesOf(a) /\ \A b : Live(b)' = Live(b)
  BY <1>1, ServerSame
<1>3. Settles(a, messages, MessagesOf(a))
  BY <1>1, <1>2 DEF AllCalm, TalkSettles
<1>4. Awake(a) => Awake(a)'
  BY <1>2 DEF Awake, Watching
<1>5. PICK q, m : q = calls' /\ m = messages'
  OBVIOUS
<1>6. Comes(q, a) \/ Brings(q, a, m, MessagesOf(a)) \/ Awake(a)'
  BY <1>1, <1>2, <1>3, <1>4, <1>5 DEF Settles, Passes
<1>7. Settles(a, messages, MessagesOf(a))'
  BY <1>2, <1>5, <1>6 DEF Settles
<1> QED
  BY <1>1, <1>7

LEMMA ViewStays ==
    ASSUME AllCalm, TypedPage, UNCHANGED server, Watching, UNCHANGED activeRun, ~ effectDue' => ~ effectDue
    PROVE  ViewCalm'
<1> SUFFICES ASSUME activeRun # None
             PROVE  ViewOK(activeRun)' /\ (~ effectDue => ViewWatched(activeRun)')
  BY DEF ViewCalm
<1>1. PICK v \in RunViews : v = activeRun
  BY DEF TypedPage
<1>2. ViewOK(v)' = ViewOK(v) /\ \A a : Live(a)' = Live(a)
  BY ServerSame
<1>3. ViewOK(v) /\ (~ effectDue => ViewWatched(v))
  BY <1>1 DEF AllCalm, ViewCalm
<1>4. ViewOK(v)'
  BY <1>2, <1>3
<1>5. ViewWatched(v) => ViewWatched(v)'
  BY <1>2 DEF ViewWatched, Watching, RunViews
<1> QED
  BY <1>1, <1>3, <1>4, <1>5

\* A step of the calls, the list and the messages alone.
LEMMA QueueSteps ==
    ASSUME IInv, AllCalm, UNCHANGED <<server, polls, activeRun, ref, effectDue>>, Turns(calls'),
           \A r : Posting(calls, r) => Posting(calls', r),
           \A r : Ending(calls', r) => Ending(calls, r),
           \A c : Has(calls', c) => CalmCall(c),
           Passes(calls, calls', None, agents, agents', AgentList),
           \A a \in Agents : a = ref /\ Live(a) => Passes(calls, calls', a, messages, messages', MessagesOf(a))
    PROVE  AllCalm'
<1>1. TypedServer /\ TypedPage /\ UNCHANGED server
  BY DEF IInv
<1>2. Watching
  BY WatchingOn DEF Looping
<1>3. ViewCalm'
  BY <1>1, <1>2, ViewStays
<1>4. ListSettles' /\ TalkSettles'
  BY <1>1, <1>2, ListStays, TalkStays
<1>5. ASSUME NEW c, CalmCall(c)
      PROVE  NewRun(c)'
  <2>1. \A a : Live(a)' = Live(a)
    BY <1>1, ServerSame
  <2> QED
    BY <1>5, <2>1 DEF CalmCall, NewRun, Looping
<1> QED
  BY <1>1, <1>2, <1>3, <1>4, <1>5, CalmKeeps DEF CalmCall

LEMMA FreshCalm ==
    ASSUME NEW c, Fresh(c), c.op # "messages"
    PROVE  CalmCall(c)
<1>1. c.fst # Failed /\ c.snd # Failed /\ ~ Arrived(c.snd) /\ c.fst \notin RunViews
  BY Marked DEF Fresh, Arrived
<1> QED
  BY <1>1, FreshFact DEF CalmCall, Honest, NewRun

-----------------------------------------------------------------------------
(* The answers.                                                            *)

Truth(a) == IF a = None THEN AgentList ELSE MessagesOf(a)

\* With its answer, c, which is now d, tells the truth to who waits for it.
Tells(c, d, a) ==
    \/ Payload(d, a) = {Truth(a)}
    \/ Payload(d, a) = Payload(c, a) /\ (Coming(c, a) => Coming(d, a))
Newest(w) == ViewOK(w) /\ ViewWatched(w) /\ Live(w.run[1]) /\ w.status = runs[w.run[1]][w.run[2]]

LEMMA UnansweredFact ==
    ASSUME NEW c, CallTyped(c), ~ Answered(c)
    PROVE  /\ Carried(c) = {} /\ \A a : Payload(c, a) = {}
BY Marked DEF Answered, Arrived, Carried, Payload, Listing

LEMMA ShownNewest ==
    ASSUME TypedServer, RunsWatched, Served, NEW r \in Started
    PROVE  Shown(r) \in RunViews /\ Shown(r).run = r /\ Newest(Shown(r))
<1>1. Seen(runs[r[1]][r[2]]) = runs[r[1]][r[2]]
  BY DEF Served, Seen
<1> QED
  BY <1>1, ShownTyped, StartedLive DEF Newest, ViewOK, ViewWatched, RunsWatched

\* The calls around the one that is answered.
LEMMA AroundAnswer ==
    ASSUME IInv, AllCalm, NEW q \in Seq(Calls), q = calls, NEW i \in 1..Len(q), HasSent(q[i]),
           \A j \in 1..(i - 1) : ~ HasSent(calls[j])
    PROVE  /\ \A j \in 1..Len(q) : CallOK(q[j]) /\ CallTyped(q[j]) /\ CalmCall(q[j])
           /\ \A j \in 1..Len(q) : j < i => ~ HasSent(q[j])
           /\ \A j \in 1..Len(q) : i < j => ~ Answered(q[j]) /\ Carried(q[j]) = {} /\ \A a : Payload(q[j], a) = {}
           /\ \A r : ~ Posts(q[i], r)
<1>1. \A j \in 1..Len(q) : CallOK(q[j]) /\ CallTyped(q[j]) /\ CalmCall(q[j])
  BY DEF IInv, CallsOK, CallOK, AllCalm, CallsCalm
<1>2. \A j \in 1..Len(q) : i < j => ~ Answered(q[j])
  BY DEF AllCalm, Turns, InTurn
<1>3. \A j \in 1..Len(q) : j < i => ~ HasSent(q[j])
  OBVIOUS
<1>4. \A r : ~ Posts(q[i], r)
  <2>1. q[i].op = "send" => q[i].snd = Done
    BY <1>1 DEF CallTyped, SecondTyped
  <2>2. q[i].op = "send" => q[i].fst = Sent
    BY <2>1, Marked DEF HasSent
  <2> QED
    BY <2>2, Marked DEF Posts
<1> QED
  BY <1>1, <1>2, <1>3, <1>4, UnansweredFact, Zenon

LEMMA AnsweredCalm ==
    ASSUME IInv, AllCalm, UNCHANGED <<server, polls, activeRun, ref, effectDue, agents, messages>>,
           NEW i \in 1..Len(calls), HasSent(calls[i]),
           \A j \in 1..(i - 1) : ~ HasSent(calls[j]),
           NEW d \in Calls, calls' = [calls EXCEPT ![i] = d], Honest(d),
           d.op = calls[i].op, d.run = calls[i].run, d.op = "send" => Carried(d) = {},
           \A w \in Carried(d) : Newest(w),
           \A a \in Agents \cup {None} : a = None \/ Live(a) => Tells(calls[i], d, a)
    PROVE  AllCalm'
<1>1. PICK q \in Seq(Calls) : q = calls
  BY DEF IInv, CallsOK
<1>2. PICK p : p = [q EXCEPT ![i] = d]
  OBVIOUS
<1>3. i \in 1..Len(q) /\ calls' = p /\ Put(q, i, d, p)
  BY <1>1, <1>2 DEF Put
<1>4. /\ \A j \in 1..Len(q) : CallOK(q[j]) /\ CallTyped(q[j]) /\ CalmCall(q[j])
      /\ \A j \in 1..Len(q) : j < i => ~ HasSent(q[j])
      /\ \A j \in 1..Len(q) : i < j => ~ Answered(q[j]) /\ Carried(q[j]) = {} /\ \A a : Payload(q[j], a) = {}
      /\ \A r : ~ Posts(q[i], r)
  BY <1>1, <1>3, AroundAnswer
<1>5. ASSUME NEW j \in 1..Len(q), i < j
      PROVE  InTurn(d, q[j])
  BY <1>4, <1>5 DEF InTurn
<1>6. ASSUME NEW j \in 1..Len(q), j < i
      PROVE  InTurn(q[j], d)
  <2>1. ASSUME NEW v \in Carried(q[j]), NEW w \in Carried(d), v.run = w.run, v.status # "active"
        PROVE  w.status # "active"
    <3>1. ViewOK(v) /\ Newest(w)
      BY <1>4, <2>1 DEF CalmCall, Honest
    <3> QED
      BY <2>1, <3>1 DEF ViewOK, Newest
  <2> QED
    BY <1>4, <1>6, <2>1 DEF InTurn
<1>7. Turns(p)
  <2>1. Turns(q) /\ \A j \in 1..Len(q) : (j < i => InTurn(q[j], d)) /\ (i < j => InTurn(d, q[j]))
    BY <1>1, <1>5, <1>6 DEF AllCalm
  <2> QED
    BY <1>1, <1>2, <1>3, <2>1, PutKeeps
<1>8. \A r : Posting(q, r) => Posting(p, r)
  BY <1>2, <1>3, <1>4, PutPosts
<1>9. \A r : Ending(p, r) => Ending(q, r)
  <2>1. \A r : d.op = "final" /\ d.run = r => Ending(q, r)
    BY <1>1, <1>3 DEF Ending
  <2>2. \A r : Ending(p, r) => Ending(q, r) \/ (d.op = "final" /\ d.run = r)
    BY <1>1, <1>2, <1>3, PutKeeps
  <2> QED
    BY <2>1, <2>2
<1>10. \A c : Has(p, c) => CalmCall(c)
  <2>1. CalmCall(d)
    BY DEF CalmCall, NewRun, Newest, Carried
  <2>2. \A c : Has(q, c) => CalmCall(c)
    BY <1>4 DEF Has
  <2> QED
    BY <1>1, <1>2, <1>3, <2>1, <2>2, PutKeeps
<1>11. ASSUME NEW a \in Agents \cup {None}, a = None \/ Live(a)
       PROVE  \A s : Passes(q, p, a, s, s, Truth(a))
  <2>1. PICK t : t = Truth(a)
    OBVIOUS
  <2>2. Tells(q[i], d, a)
    BY <1>1, <1>11
  <2>3. CASE Payload(d, a) = {t}
    <3>1. \A s : Brings(p, a, s, t)
      <4>1. Put(q, i, d, p) /\ \A j \in 1..Len(q) : i < j => Payload(q[j], a) = {}
        BY <1>3, <1>4
      <4> QED
        BY <2>3, <4>1, PutTells
    <3> QED
      BY <2>1, <3>1 DEF Passes
  <2>4. CASE Payload(d, a) = Payload(q[i], a) /\ (Coming(q[i], a) => Coming(d, a))
    <3>1. Comes(q, a) => Comes(p, a)
      BY <1>1, <1>2, <1>3, <2>4, PutBrings
    <3>2. \A s : Brings(q, a, s, t) => Brings(p, a, s, t)
      BY <1>1, <1>2, <1>3, <2>4, PutBrings
    <3> QED
      BY <2>1, <3>1, <3>2 DEF Passes
  <2> QED
    BY <2>1, <2>2, <2>3, <2>4 DEF Tells
<1>12. \A s : Passes(q, p, None, s, s, AgentList)
  BY <1>11 DEF Truth
<1>13. \A a \in Agents : a = ref /\ Live(a) => \A s : Passes(q, p, a, s, s, MessagesOf(a))
  BY <1>11, AgentSet DEF Truth
<1> QED
  BY <1>1, <1>3, <1>7, <1>8, <1>9, <1>10, <1>12, <1>13, QueueSteps

LEMMA FirstCalm ==
    ASSUME IInv, Calm, AllCalm, NEW i \in 1..Len(calls), AnswerFirst(i)
    PROVE  AllCalm'
<1>1. PICK c \in Calls : c = calls[i] /\ CallOK(c) /\ CallTyped(c) /\ Honest(c)
  BY DEF IInv, CallsOK, CallOK, CallTyped, AllCalm, CallsCalm, CalmCall
<1>2. PICK answer : answer = FirstAnswer(c)
  OBVIOUS
<1>3. PICK d : d = [c EXCEPT !.fst = answer]
  OBVIOUS
<1>4. /\ c.fst = Sent /\ c.op \notin Commands \cup {"send"} /\ calls' = [calls EXCEPT ![i] = d]
      /\ UNCHANGED <<server, polls, activeRun, ref, effectDue, agents, messages>>
  BY <1>1, <1>2, <1>3 DEF AnswerFirst, select, view
<1>5. \A j \in 1..(i - 1) : ~ HasSent(calls[j])
  BY DEF AnswerFirst, MayAnswer, Calm, HasSent
<1>6. CallOK(d) /\ d.fst \notin {Sent, Done}
  BY <1>1, <1>2, <1>3, <1>4, FirstAnswerOK DEF IInv
<1>7. d \in Calls /\ d.op = c.op /\ d.agent = c.agent /\ d.run = c.run /\ d.fst = answer /\ d.snd = c.snd
  BY <1>1, <1>3, <1>6 DEF Calls, CallOK, CallTyped
<1>8. HasSent(c) /\ ~ Arrived(c.snd)
  BY <1>1, <1>4 DEF HasSent, Honest
<1>9. c.op \in Lists \cup {"load", "final", "poll"}
  BY <1>1, <1>4 DEF Honest, Calls, Ops, Loops
<1>10. /\ c.op \in Lists => answer = AgentList
       /\ c.op = "poll" => answer = IF Live(c.agent) THEN Shown(c.run) ELSE Failed
       /\ c.op \in {"load", "final"} => answer = IF Live(c.agent) THEN MessagesOf(c.agent) ELSE Failed
  BY <1>2 DEF FirstAnswer, OrNotFound, Lists
<1>11. c.op \notin {"list", "create"} => c.agent \in Agents /\ Born(c.agent)
  BY <1>1 DEF CallOK, CallTyped
<1>12. AgentList \in Listings /\ AgentList # Failed
  BY ListTyped, Marked DEF IInv
<1>13. c.op \in {"load", "final"} => MessagesOf(c.agent) \in Conversations /\ MessagesOf(c.agent) # Failed
  BY <1>11, TalkTyped, Marked DEF IInv, TalkOf
<1>14. c.op = "poll" /\ Live(c.agent) => Shown(c.run) \in RunViews /\ Newest(Shown(c.run))
  <2> SUFFICES ASSUME c.op = "poll", Live(c.agent)
               PROVE  Shown(c.run) \in RunViews /\ Newest(Shown(c.run))
    OBVIOUS
  <2>1. c.run \in RunIds /\ c.agent = c.run[1] /\ Looping(c.run)
    BY <1>1 DEF CallOK, CallTyped, Loops
  <2>2. RunKnown(c.run)
    BY <2>1 DEF Looping, IInv, Known
  <2> QED
    BY <2>1, <2>2, ShownNewest DEF RunKnown, IInv, AllCalm
<1>15. ASSUME NEW w \in Carried(d)
       PROVE  Newest(w)
  <2>1. d.op \in {"load", "poll"}
    BY <1>4, <1>7, <1>15 DEF Carried
  <2>2. CASE c.op = "load"
    <3>1. d.snd \in RunViews
      BY <1>7, <1>15, <2>2 DEF Carried
    <3> QED
      BY <1>7, <1>8, <3>1, Marked DEF Arrived
  <2>3. CASE c.op = "poll"
    <3>1. w = answer /\ answer \in RunViews
      BY <1>7, <1>15, <2>3 DEF Carried
    <3> QED
      BY <1>10, <1>14, <2>3, <3>1, Marked
  <2> QED
    BY <1>7, <2>1, <2>2, <2>3
<1>16. Honest(d)
  <2>1. d.op \in {"load", "final", "poll"} /\ d.fst = Failed => ~ Live(d.agent)
    BY <1>7, <1>10, <1>13, <1>14, Marked
  <2>2. d.op \in Lists => d.fst # Failed
    BY <1>7, <1>10, <1>12
  <2>3. \A v \in Carried(d) : ViewOK(v)
    BY <1>15 DEF Newest
  <2> QED
    BY <1>1, <1>6, <1>7, <2>1, <2>2, <2>3 DEF Honest
<1>17. Tells(c, d, None)
  <2>1. CASE c.op \in Lists
    <3>1. Listing(d) = {AgentList}
      BY <1>7, <1>10, <1>12, <2>1 DEF Listing
    <3> QED
      BY <3>1 DEF Tells, Payload, Truth
  <2>2. CASE c.op \notin Lists
    <3>1. Listing(d) = Listing(c) /\ (Coming(c, None) => Coming(d, None))
      BY <1>4, <1>7, <2>2 DEF Listing, Coming
    <3> QED
      BY <3>1 DEF Tells, Payload
  <2> QED
    BY <2>1, <2>2
<1>18. ASSUME NEW a \in Agents, Live(a)
       PROVE  Tells(c, d, a)
  <2>1. a # None
    BY AgentSet
  <2>2. CASE c.op \in {"load", "final"} /\ c.agent = a
    <3>1. {answer} \cap Conversations = {MessagesOf(a)}
      BY <1>10, <1>13, <1>18, <2>2
    <3> QED
      BY <1>7, <2>1, <2>2, <3>1 DEF Tells, Payload, Truth
  <2>3. CASE ~ (c.op \in {"load", "final"} /\ c.agent = a)
    BY <1>7, <2>1, <2>3 DEF Tells, Payload, Coming
  <2> QED
    BY <2>2, <2>3
<1> QED
  BY <1>1, <1>4, <1>5, <1>7, <1>8, <1>15, <1>16, <1>17, <1>18, AnsweredCalm

LEMMA SecondCalm ==
    ASSUME IInv, Calm, AllCalm, NEW i \in 1..Len(calls), AnswerSecond(i)
    PROVE  AllCalm'
<1>1. PICK c \in Calls : c = calls[i] /\ CallOK(c) /\ CallTyped(c) /\ Honest(c)
  BY DEF IInv, CallsOK, CallOK, CallTyped, AllCalm, CallsCalm, CalmCall
<1>2. PICK answer : answer = SecondAnswer(c)
  OBVIOUS
<1>3. PICK d : d = [c EXCEPT !.snd = answer]
  OBVIOUS
<1>4. /\ c.snd = Sent /\ c.fst # Sent /\ calls' = [calls EXCEPT ![i] = d]
      /\ UNCHANGED <<server, polls, activeRun, ref, effectDue, agents, messages>>
  BY <1>1, <1>2, <1>3 DEF AnswerSecond, select, view, Calm
<1>5. \A j \in 1..(i - 1) : ~ HasSent(calls[j])
  BY DEF AnswerSecond, MayAnswer, Calm, HasSent
<1>6. CallOK(d) /\ c.op \in {"load", "final"} /\ d.snd \notin {Sent, Done}
  BY <1>1, <1>2, <1>3, <1>4, SecondAnswerOK DEF IInv
<1>7. d \in Calls /\ d.op = c.op /\ d.agent = c.agent /\ d.run = c.run /\ d.snd = answer /\ d.fst = c.fst
  BY <1>1, <1>3, <1>6 DEF Calls, CallOK, CallTyped
<1>8. HasSent(c)
  BY <1>4 DEF HasSent
<1>9. /\ c.op = "final" => answer = AgentList
      /\ c.op = "load" => answer = IF Live(c.agent) THEN LatestOf(c.agent) ELSE Failed
  BY <1>2 DEF SecondAnswer, OrNotFound
<1>10. c.agent \in Agents /\ Born(c.agent)
  BY <1>1, <1>6 DEF CallOK, CallTyped
<1>11. AgentList \in Listings /\ AgentList # Failed
  BY ListTyped, Marked DEF IInv
<1>12. LatestOf(c.agent) = None \/ (LatestOf(c.agent) \in RunViews /\ Newest(LatestOf(c.agent)))
  <2>1. \A r \in Started : Shown(r) \in RunViews /\ Newest(Shown(r))
    BY ShownNewest DEF IInv, AllCalm
  <2>2. PICK r : r = <<c.agent, Len(runs[c.agent])>>
    OBVIOUS
  <2>3. LatestOf(c.agent) = None \/ (r \in Started /\ LatestOf(c.agent) = Shown(r))
    BY <1>10, <2>2, LatestTyped DEF IInv
  <2> QED
    BY <2>1, <2>3
<1>13. ASSUME NEW w \in Carried(d)
       PROVE  Newest(w)
  <2>1. c.op = "load" /\ w = answer /\ answer \in RunViews
    BY <1>6, <1>7, <1>13 DEF Carried
  <2> QED
    BY <1>9, <1>12, <2>1, Marked
<1>14. Honest(d)
  <2>1. d.op = "load" /\ d.snd = Failed => ~ Live(d.agent)
    BY <1>7, <1>9, <1>12, Marked
  <2>2. d.op = "final" => d.snd # Failed
    BY <1>7, <1>9, <1>11
  <2>3. \A v \in Carried(d) : ViewOK(v)
    BY <1>13 DEF Newest
  <2> QED
    BY <1>1, <1>4, <1>7, <2>1, <2>2, <2>3 DEF Honest
<1>15. Tells(c, d, None)
  <2>1. CASE c.op = "final"
    <3>1. Listing(d) = {AgentList}
      BY <1>7, <1>9, <1>11, <2>1 DEF Listing, Lists
    <3> QED
      BY <3>1 DEF Tells, Payload, Truth
  <2>2. CASE c.op = "load"
    <3>1. Listing(d) = Listing(c) /\ (Coming(c, None) => Coming(d, None))
      BY <1>7, <2>2 DEF Listing, Coming, Lists, Commands
    <3> QED
      BY <3>1 DEF Tells, Payload
  <2> QED
    BY <1>6, <2>1, <2>2
<1>16. ASSUME NEW a \in Agents
       PROVE  Tells(c, d, a)
  BY <1>7, AgentSet DEF Tells, Payload, Coming
<1>17. d.op # "send"
  BY <1>6, <1>7
<1> QED
  BY <1>1, <1>4, <1>5, <1>7, <1>8, <1>13, <1>14, <1>15, <1>16, <1>17, AnsweredCalm

-----------------------------------------------------------------------------
(* Calls that are issued.                                                  *)

LEMMA OneFresh ==
    ASSUME NEW op \in Ops, NEW a \in Agents \cup {None}, NEW r \in RunIds \cup {None},
           NEW c, c = One(op, a, r)
    PROVE  Fresh(c) /\ c.op = op /\ c.agent = a /\ c.run = r /\ c.fst = Sent
BY DEF Fresh, One, Call, Calls, Answers

LEMMA PairFresh ==
    ASSUME NEW op \in Ops, NEW a \in Agents \cup {None}, NEW r \in RunIds \cup {None},
           NEW c, c = Pair(op, a, r)
    PROVE  Fresh(c) /\ c.op = op /\ c.agent = a /\ c.run = r /\ c.fst = Sent /\ c.snd = Sent
BY DEF Fresh, Pair, Call, Calls, Answers

LEMMA ListFresh ==
    ASSUME NEW c, c = One("list", None, None)
    PROVE  Fresh(c) /\ c.op = "list" /\ c.fst = Sent
<1>1. "list" \in Ops /\ None \in Agents \cup {None} /\ None \in RunIds \cup {None}
  BY DEF Ops, Lists
<1> QED
  BY <1>1, OneFresh

LEMMA IssuedCalm ==
    ASSUME IInv, AllCalm, UNCHANGED <<server, polls, activeRun, ref, effectDue, agents, messages>>,
           NEW c, Fresh(c), c.op \notin {"messages", "final"}, calls' = Append(calls, c)
    PROVE  AllCalm'
<1>1. PICK q \in Seq(Calls) : q = calls
  BY DEF IInv, CallsOK
<1>2. PICK p : p = Append(q, c) /\ Add(q, c, p)
  BY <1>1 DEF Add
<1>3. CalmCall(c)
  BY FreshCalm
<1>4. \A d : Has(q, d) => CalmCall(d)
  BY <1>1 DEF Has, AllCalm, CallsCalm
<1>5. /\ Turns(q) => Turns(p)
      /\ \A r : Posting(q, r) => Posting(p, r)
      /\ \A r : Ending(p, r) => Ending(q, r)
      /\ \A d : Has(p, d) => d = c \/ Has(q, d)
  BY <1>2, AddKeeps
<1>6. \A a, s, t : Passes(q, p, a, s, s, t)
  BY <1>2, AddPasses
<1>7. calls' = p /\ Turns(p)
  BY <1>1, <1>2, <1>5 DEF AllCalm
<1>8. \A d : Has(p, d) => CalmCall(d)
  BY <1>3, <1>4, <1>5
<1> QED
  BY <1>1, <1>5, <1>6, <1>7, <1>8, QueueSteps

LEMMA TickCalm ==
    ASSUME IInv, AllCalm, NEW r \in polls, Tick(r)
    PROVE  AllCalm'
<1>1. r.run \in RunIds /\ r.run[1] \in Agents
  BY RunIdParts DEF IInv, TypedPage
<1>2. PICK c : c = One("poll", r.run[1], r.run)
  OBVIOUS
<1>3. Fresh(c) /\ c.op = "poll"
  BY <1>1, <1>2, OneFresh DEF Ops, Loops
<1>4. /\ calls' = Append(calls, c)
      /\ UNCHANGED <<server, polls, activeRun, ref, effectDue, agents, messages>>
  BY <1>2 DEF Tick, select, view
<1> QED
  BY <1>3, <1>4, IssuedCalm

LEMMA SendCalm ==
    ASSUME IInv, AllCalm, Send
    PROVE  AllCalm'
<1>1. ref \in Agents \cup {None}
  BY DEF IInv, TypedPage
<1>2. PICK c : c = One("send", ref, None)
  OBVIOUS
<1>3. Fresh(c) /\ c.op = "send"
  BY <1>1, <1>2, OneFresh DEF Ops
<1>4. /\ calls' = Append(calls, c)
      /\ UNCHANGED <<server, polls, activeRun, ref, effectDue, agents, messages>>
  BY <1>2 DEF Send, Acts, view
<1> QED
  BY <1>3, <1>4, IssuedCalm

LEMMA CommandCalm ==
    ASSUME IInv, AllCalm, NEW op \in Commands, NEW a \in Agents, Command(op, a)
    PROVE  AllCalm'
<1>1. PICK c : c = One(op, a, None)
  OBVIOUS
<1>2. Fresh(c) /\ c.op = op
  <2>1. op \in Ops /\ a \in Agents \cup {None} /\ None \in RunIds \cup {None}
    BY DEF Ops
  <2> QED
    BY <1>1, <2>1, OneFresh
<1>3. /\ calls' = Append(calls, c)
      /\ UNCHANGED <<server, polls, activeRun, ref, effectDue, agents, messages>>
  BY <1>1 DEF Command, Acts, view
<1> QED
  BY <1>2, <1>3, IssuedCalm DEF Commands

\* A step of other things.
LEMMA AsideCalm ==
    ASSUME IInv, AllCalm, UNCHANGED <<server, polls, activeRun, ref, effectDue, agents, messages, calls>>
    PROVE  AllCalm'
<1>1. PICK q : q = calls
  OBVIOUS
<1>2. \A a, s, t : Passes(q, q, a, s, s, t)
  BY DEF Passes
<1>3. \A d : Has(q, d) => CalmCall(d)
  BY <1>1 DEF Has, AllCalm, CallsCalm
<1>4. calls' = q /\ Turns(q)
  BY <1>1 DEF AllCalm
<1> QED
  BY <1>1, <1>2, <1>3, <1>4, QueueSteps

-----------------------------------------------------------------------------
(* The oldest call, whose answers are applied.                             *)

LEMMA OldestCall ==
    ASSUME IInv, AllCalm, Calm, NEW i \in 1..Len(calls), MayApply(i)
    PROVE  /\ i = 1 /\ calls # <<>> /\ Without(i) = RemoveAt(calls, 1)
           /\ calls \in Seq(Calls) /\ calls[1] \in Calls /\ CallOK(calls[1]) /\ CallTyped(calls[1])
           /\ CalmCall(calls[1]) /\ Honest(calls[1])
<1>1. i = 1 /\ calls \in Seq(Calls)
  BY DEF Calm, MayApply, IInv, CallsOK
<1>2. calls # <<>>
  BY <1>1
<1> QED
  BY <1>1, <1>2 DEF IInv, CallsOK, CallOK, CallTyped, AllCalm, CallsCalm, CalmCall, Without

\* It is gone.
LEMMA GoneKeeps ==
    ASSUME IInv, AllCalm, calls # <<>>, NEW p, p = RemoveAt(calls, 1)
    PROVE  /\ p \in Seq(Calls) /\ Turns(p)
           /\ \A c : Has(p, c) => CalmCall(c) /\ CallOK(c) /\ InTurn(calls[1], c)
           /\ \A r : Posting(calls, r) => Posting(p, r) \/ Posts(calls[1], r)
           /\ \A r : Posting(p, r) => Posting(calls, r)
           /\ \A r : Ending(p, r) => Ending(calls, r)
<1>1. PICK q \in Seq(Calls) : q = calls
  BY DEF IInv, CallsOK
<1>2. /\ p \in Seq(Calls)
      /\ \A c : Has(p, c) => Later(q, c)
      /\ Turns(q) => Turns(p)
      /\ \A r : Posting(q, r) => Posting(p, r) \/ Posts(q[1], r)
      /\ \A r : Posting(p, r) => Posting(q, r)
      /\ \A r : Ending(p, r) => Ending(q, r)
  <2>1. Drop(q, p)
    BY <1>1 DEF Drop
  <2> QED
    BY <2>1, DropKeeps
<1>3. ASSUME NEW c, Later(q, c)
      PROVE  CalmCall(c) /\ CallOK(c) /\ InTurn(calls[1], c)
  <2>1. PICK k \in 1..Len(q) : k # 1 /\ q[k] = c
    BY <1>3 DEF Later
  <2>2. 1 \in 1..Len(q) /\ 1 < k
    BY <2>1
  <2> QED
    BY <1>1, <2>1, <2>2 DEF AllCalm, CallsCalm, Turns, IInv, CallsOK
<1> QED
  BY <1>1, <1>2, <1>3 DEF AllCalm

\* Another call takes its place.
LEMMA SwapKeeps ==
    ASSUME IInv, AllCalm, calls # <<>>, NEW c, Fresh(c), c.op # "messages",
           NEW p, p = Append(RemoveAt(calls, 1), c)
    PROVE  /\ p \in Seq(Calls) /\ Turns(p)
           /\ \A d : Has(p, d) => CalmCall(d) /\ (d = c \/ (CallOK(d) /\ InTurn(calls[1], d)))
           /\ \A r : Posting(calls, r) => Posting(p, r) \/ Posts(calls[1], r)
           /\ \A r : Posting(p, r) => Posting(calls, r)
           /\ \A r : Ending(p, r) => Ending(calls, r) \/ (c.op = "final" /\ c.run = r)
           /\ \A a : Coming(c, a) => Comes(p, a)
<1>1. PICK o : o = RemoveAt(calls, 1)
  OBVIOUS
<1>2. /\ o \in Seq(Calls) /\ Turns(o)
      /\ \A d : Has(o, d) => CalmCall(d) /\ CallOK(d) /\ InTurn(calls[1], d)
      /\ \A r : Posting(calls, r) => Posting(o, r) \/ Posts(calls[1], r)
      /\ \A r : Posting(o, r) => Posting(calls, r)
      /\ \A r : Ending(o, r) => Ending(calls, r)
  BY <1>1, GoneKeeps
<1>3. /\ p \in Seq(Calls)
      /\ \A d : Has(p, d) => d = c \/ Has(o, d)
      /\ Turns(o) => Turns(p)
      /\ \A r : Posting(p, r) <=> Posting(o, r)
      /\ \A r : Ending(p, r) => Ending(o, r) \/ (c.op = "final" /\ c.run = r)
      /\ \A a : Comes(o, a) \/ Coming(c, a) => Comes(p, a)
  <2>1. Add(o, c, p)
    BY <1>1, <1>2 DEF Add
  <2>2. p \in Seq(Calls)
    BY <2>1, AddKeeps
  <2>3. ASSUME NEW d, Has(p, d)
        PROVE  d = c \/ Has(o, d)
    BY <2>1, <2>3, AddKeeps
  <2>4. Turns(o) => Turns(p)
    BY <2>1, AddKeeps
  <2>5. \A r : Posting(p, r) <=> Posting(o, r)
    BY <2>1, AddKeeps
  <2>6. \A r : Ending(p, r) => Ending(o, r) \/ (c.op = "final" /\ c.run = r)
    BY <2>1, AddKeeps
  <2>7. \A a : Comes(o, a) \/ Coming(c, a) => Comes(p, a)
    BY <2>1, AddKeeps
  <2> QED
    BY <2>2, <2>4, <2>5, <2>6, <2>7, <2>3
<1>4. CalmCall(c)
  BY FreshCalm
<1> QED
  BY <1>2, <1>3, <1>4, Zenon

\* What follows for who waits.
LEMMA GonePasses ==
    ASSUME IInv, calls # <<>>, NEW p, p = RemoveAt(calls, 1), NEW a, ~ Coming(calls[1], a)
    PROVE  /\ Payload(calls[1], a) = {} => \A s, t : Passes(calls, p, a, s, s, t)
           /\ \A s, t, u : Payload(calls[1], a) = {u} => Passes(calls, p, a, s, u, t)
<1>1. PICK q \in Seq(Calls) : q = calls
  BY DEF IInv, CallsOK
<1>2. /\ Payload(q[1], a) = {} => \A s, t : Passes(q, p, a, s, s, t)
      /\ \A s, t, u : Payload(q[1], a) = {u} => Passes(q, p, a, s, u, t)
  <2>1. Drop(q, p)
    BY <1>1 DEF Drop
  <2> QED
    BY <1>1, <2>1, DropPasses
<1> QED
  BY <1>1, <1>2

LEMMA SwapPasses ==
    ASSUME IInv, calls # <<>>, NEW c, Fresh(c), NEW p, p = Append(RemoveAt(calls, 1), c), NEW a,
           Coming(c, a) \/ (~ Coming(calls[1], a) /\ Payload(calls[1], a) = {})
    PROVE  \A s, t : Passes(calls, p, a, s, s, t)
<1>1. PICK q \in Seq(Calls) : q = calls
  BY DEF IInv, CallsOK
<1>2. PICK o : o = RemoveAt(q, 1)
  OBVIOUS
<1>3. Drop(q, o) /\ Add(o, c, p)
  BY <1>1, <1>2, FirstDropped DEF Drop, Add
<1>4. CASE Coming(c, a)
  <2>1. Comes(p, a)
    BY <1>3, <1>4, AddKeeps
  <2> QED
    BY <2>1 DEF Passes
<1>5. CASE ~ Coming(q[1], a) /\ Payload(q[1], a) = {}
  <2>1. \A s, t : Passes(q, o, a, s, s, t)
    BY <1>3, <1>5, DropPasses
  <2>2. \A s, t : Passes(o, p, a, s, s, t)
    BY <1>3, AddPasses
  <2> QED
    BY <1>1, <2>1, <2>2 DEF Passes
<1> QED
  BY <1>1, <1>4, <1>5

\* It has been read in part.
LEMMA PartReadCalm ==
    ASSUME IInv, AllCalm, UNCHANGED <<server, polls, activeRun, ref, effectDue, agents>>,
           calls # <<>>, NEW c, c = calls[1], c.op \in {"load", "final"}, c.fst \in Conversations,
           NEW d, d = [c EXCEPT !.fst = Done], calls' = [calls EXCEPT ![1] = d],
           messages' = IF ref = c.agent THEN c.fst ELSE messages
    PROVE  AllCalm'
<1>1. PICK q \in Seq(Calls) : q = calls
  BY DEF IInv, CallsOK
<1>2. PICK p : p = [q EXCEPT ![1] = d]
  OBVIOUS
<1>3. 1 \in 1..Len(q) /\ c = q[1] /\ c \in Calls /\ calls' = p
  BY <1>1, <1>2
<1>4. /\ d \in Calls /\ d.op = c.op /\ d.agent = c.agent /\ d.run = c.run /\ d.snd = c.snd /\ d.fst = Done
      /\ Put(q, 1, d, p)
  BY <1>2, <1>3 DEF Calls, Answers, Put
<1>5. \A j \in 1..Len(q) : CalmCall(q[j]) /\ (j # 1 => InTurn(q[1], q[j]))
  BY <1>1, <1>3 DEF AllCalm, CallsCalm, Turns
<1>6. Carried(d) = Carried(c)
  BY <1>4 DEF Carried
<1>7. CalmCall(d)
  <2>1. CalmCall(c)
    BY <1>3, <1>5
  <2>2. Honest(d)
    BY <1>4, <1>6, <2>1, Marked DEF CalmCall, Honest, Lists
  <2> QED
    BY <1>4, <1>6, <2>1, <2>2 DEF CalmCall, NewRun
<1>8. Turns(p)
  <2>1. HasSent(d) => HasSent(c)
    BY <1>4, Marked DEF HasSent
  <2>2. ASSUME NEW j \in 1..Len(q), j # 1
        PROVE  InTurn(d, q[j])
    BY <1>3, <1>5, <1>6, <2>1, <2>2 DEF InTurn
  <2>3. Turns(q) /\ \A j \in 1..Len(q) : (j < 1 => InTurn(q[j], d)) /\ (1 < j => InTurn(d, q[j]))
    BY <1>1, <2>2 DEF AllCalm
  <2> QED
    BY <1>3, <1>4, <2>3, PutKeeps
<1>9. \A r : Posting(q, r) => Posting(p, r)
  <2>1. \A r : ~ Posts(q[1], r)
    BY <1>3 DEF Posts
  <2> QED
    BY <1>2, <1>3, <1>4, <2>1, PutPosts
<1>10. \A r : Ending(p, r) => Ending(q, r)
  <2>1. Len(p) = Len(q) /\ \A j \in 1..Len(q) : p[j].op = q[j].op /\ p[j].run = q[j].run
    BY <1>2, <1>3, <1>4
  <2> QED
    BY <2>1 DEF Ending
<1>11. \A e : Has(p, e) => CalmCall(e)
  <2>1. \A e : Has(q, e) => CalmCall(e)
    BY <1>5 DEF Has
  <2> QED
    BY <1>2, <1>3, <1>4, <1>7, <2>1, PutKeeps
<1>12. \A s, t : Passes(q, p, None, s, s, t)
  <2>1. Payload(d, None) = Payload(q[1], None) /\ (Coming(q[1], None) => Coming(d, None))
    BY <1>3, <1>4 DEF Payload, Listing, Coming, Lists, Commands
  <2>2. PICK a : a = None
    OBVIOUS
  <2>3. Payload(d, a) = Payload(q[1], a) /\ (Coming(q[1], a) => Coming(d, a))
    BY <2>1, <2>2
  <2>4. Comes(q, a) => Comes(p, a)
    BY <1>4, <2>3, PutBrings
  <2>5. \A s, t : Brings(q, a, s, t) => Brings(p, a, s, t)
    BY <1>4, <2>3, PutBrings
  <2> QED
    BY <2>2, <2>4, <2>5 DEF Passes
<1>13. ASSUME NEW a \in Agents, a = ref
       PROVE  \A t : Passes(q, p, a, messages, messages', t)
  <2>1. a # None /\ ~ Coming(q[1], a)
    BY <1>3, AgentSet, Marked DEF Coming
  <2>2. Comes(q, a) => Comes(p, a)
    BY <1>2, <1>3, <1>4, <2>1, PutBrings
  <2>3. Done \notin Conversations
    BY Marked
  <2>4. Payload(d, a) = {}
    BY <1>4, <2>1, <2>3 DEF Payload
  <2>5. CASE c.agent = a
    <3>1. Payload(q[1], a) = {c.fst} /\ messages' = c.fst
      BY <1>3, <1>13, <2>1, <2>5 DEF Payload
    <3>2. \A s, t : Brings(q, a, s, t) => Brings(p, a, c.fst, t)
      BY <1>2, <1>3, <1>4, <2>4, <3>1, PutBrings
    <3>3. \A t : Brings(q, a, messages, t) => Brings(p, a, messages', t)
      BY <3>1, <3>2
    <3> QED
      BY <2>2, <3>3 DEF Passes
  <2>6. CASE c.agent # a
    <3>1. Payload(d, a) = Payload(q[1], a) /\ messages' = messages
      BY <1>3, <1>13, <2>1, <2>4, <2>6 DEF Payload
    <3>2. \A s, t : Brings(q, a, s, t) => Brings(p, a, s, t)
      BY <1>2, <1>3, <1>4, <3>1, PutBrings
    <3> QED
      BY <2>2, <3>1, <3>2 DEF Passes
  <2> QED
    BY <2>5, <2>6
<1>14. /\ Turns(calls') /\ \A e : Has(calls', e) => CalmCall(e)
       /\ \A r : Posting(calls, r) => Posting(calls', r)
       /\ \A r : Ending(calls', r) => Ending(calls, r)
  BY <1>1, <1>3, <1>8, <1>9, <1>10, <1>11
<1>15. Passes(calls, calls', None, agents, agents', AgentList)
  <2>1. Passes(q, p, None, agents, agents, AgentList)
    BY <1>12
  <2> QED
    BY <1>1, <1>3, <2>1
<1>16. \A a \in Agents : a = ref => Passes(calls, calls', a, messages, messages', MessagesOf(a))
  <2> SUFFICES ASSUME NEW a \in Agents, a = ref
               PROVE  Passes(calls, calls', a, messages, messages', MessagesOf(a))
    OBVIOUS
  <2>1. PICK t : t = MessagesOf(a)
    OBVIOUS
  <2>2. Passes(q, p, a, messages, messages', t)
    BY <1>13
  <2> QED
    BY <1>1, <1>3, <2>1, <2>2
<1> QED
  BY <1>14, <1>15, <1>16, QueueSteps

\* The answer to a call that changes no loop and no run shown is read, and the call is gone.
LEMMA ReadCalm ==
    ASSUME IInv, AllCalm, UNCHANGED <<server, polls, activeRun, ref, effectDue>>,
           calls # <<>>, calls[1].op # "send", calls' = RemoveAt(calls, 1),
           Passes(calls, calls', None, agents, agents', AgentList),
           \A a \in Agents : a = ref /\ Live(a) => Passes(calls, calls', a, messages, messages', MessagesOf(a))
    PROVE  AllCalm'
<1>1. PICK p : p = calls'
  OBVIOUS
<1>2. /\ Turns(p)
      /\ \A c : Has(p, c) => CalmCall(c)
      /\ \A r : Posting(calls, r) => Posting(p, r) \/ Posts(calls[1], r)
      /\ \A r : Ending(p, r) => Ending(calls, r)
  BY <1>1, GoneKeeps
<1>3. \A r : Posting(calls, r) => Posting(p, r)
  BY <1>2 DEF Posts
<1> QED
  BY <1>1, <1>2, <1>3, QueueSteps

LEMMA ListedCalm ==
    ASSUME IInv, Calm, AllCalm, NEW i \in 1..Len(calls), Listed(i)
    PROVE  AllCalm'
<1>1. PICK c \in Calls : c = calls[1] /\ CallTyped(c) /\ Honest(c)
  BY OldestCall DEF Listed
<1>2. i = 1 /\ calls # <<>> /\ c.op \in Lists /\ Arrived(c.fst) /\ calls' = RemoveAt(calls, 1)
  BY <1>1, OldestCall DEF Listed
<1>3. c.fst \in Listings
  BY <1>1, <1>2 DEF CallTyped, FirstTyped, Honest, Arrived
<1>4. agents' = c.fst /\ UNCHANGED <<server, polls, activeRun, ref, effectDue, messages>>
  BY <1>1, <1>2 DEF Listed, Honest, ApplyList, view
<1>5. Passes(calls, calls', None, agents, agents', AgentList)
  <2>1. PICK a : a = None
    OBVIOUS
  <2>2. Payload(c, a) = {c.fst} /\ ~ Coming(c, a)
    BY <1>2, <1>3, <2>1 DEF Payload, Listing, Coming, Lists, Commands, Arrived
  <2> QED
    BY <1>1, <1>2, <1>4, <2>1, <2>2, GonePasses
<1>6. ASSUME NEW a \in Agents
      PROVE  Passes(calls, calls', a, messages, messages', MessagesOf(a))
  <2>1. Payload(c, a) = {} /\ ~ Coming(c, a)
    BY <1>2, AgentSet DEF Payload, Coming, Lists
  <2> QED
    BY <1>1, <1>2, <1>4, <2>1, GonePasses
<1> QED
  BY <1>1, <1>2, <1>4, <1>5, <1>6, ReadCalm DEF Lists

LEMMA LoadedMessagesCalm ==
    ASSUME IInv, Calm, AllCalm, NEW i \in 1..Len(calls), LoadedMessages(i)
    PROVE  AllCalm'
<1>1. PICK c \in Calls : c = calls[1] /\ CallTyped(c) /\ Honest(c)
  BY OldestCall DEF LoadedMessages
<1>2. i = 1 /\ calls # <<>> /\ c.op = "load" /\ Arrived(c.fst) /\ Without(i) = RemoveAt(calls, 1)
  BY <1>1, OldestCall DEF LoadedMessages
<1>3. UNCHANGED <<server, agents, activeRun, ref, effectDue, polls>>
  BY DEF LoadedMessages, select
<1>4. CASE c.fst = Failed
  <2>1. calls' = RemoveAt(calls, 1) /\ UNCHANGED messages /\ ~ Live(c.agent)
    BY <1>1, <1>2, <1>4 DEF LoadedMessages, Honest
  <2>2. Passes(calls, calls', None, agents, agents', AgentList)
    <3>1. PICK a : a = None
      OBVIOUS
    <3>2. Payload(c, a) = {} /\ ~ Coming(c, a)
      BY <1>2, <3>1 DEF Payload, Listing, Coming, Lists, Commands
    <3> QED
      BY <1>1, <1>2, <1>3, <2>1, <3>1, <3>2, GonePasses
  <2>3. ASSUME NEW a \in Agents, Live(a)
        PROVE  Passes(calls, calls', a, messages, messages', MessagesOf(a))
    <3>1. Payload(c, a) = {} /\ ~ Coming(c, a)
      BY <2>1, <2>3, AgentSet DEF Payload, Coming
    <3> QED
      BY <1>1, <1>2, <2>1, <3>1, GonePasses
  <2> QED
    BY <1>1, <1>2, <1>3, <2>1, <2>2, <2>3, ReadCalm
<1>5. CASE c.fst # Failed
  <2>1. c.fst \in Conversations
    BY <1>1, <1>2, <1>5 DEF CallTyped, FirstTyped, TalkOf, Arrived
  <2>2. PICK d : d = [c EXCEPT !.fst = Done]
    OBVIOUS
  <2>3. calls' = [calls EXCEPT ![1] = d]
    BY <1>1, <1>2, <1>5, <2>2 DEF LoadedMessages
  <2>4. messages' = IF ref = c.agent THEN c.fst ELSE messages
    BY <1>1, <1>2, <1>5 DEF LoadedMessages, ApplyMessages, ForSelected
  <2>5. c.op \in {"load", "final"}
    BY <1>2
  <2> QED
    BY <1>1, <1>2, <1>3, <2>1, <2>2, <2>3, <2>4, <2>5, PartReadCalm
<1> QED
  BY <1>4, <1>5

LEMMA CommandedCalm ==
    ASSUME IInv, Calm, AllCalm, NEW i \in 1..Len(calls), Commanded(i)
    PROVE  AllCalm'
<1>1. PICK c \in Calls : c = calls[1] /\ CallTyped(c) /\ Honest(c)
  BY OldestCall DEF Commanded
<1>2. i = 1 /\ calls # <<>> /\ c.op \in Commands /\ Arrived(c.fst) /\ Without(i) = RemoveAt(calls, 1)
  BY <1>1, OldestCall DEF Commanded
<1>3. UNCHANGED <<server, agents, activeRun, ref, effectDue, messages, polls>>
  BY DEF Commanded, select, view
<1>4. \A a \in Agents : Payload(c, a) = {} /\ ~ Coming(c, a)
  BY <1>2, AgentSet DEF Payload, Coming, Commands
<1>5. c.op \notin Lists \cup {"send", "load", "final"} /\ c.fst \in {Failed, "ok"}
  BY <1>1, <1>2 DEF Commands, Lists, CallTyped, FirstTyped, Arrived
<1>6. CASE c.fst = Failed
  <2>1. calls' = RemoveAt(calls, 1)
    BY <1>1, <1>2, <1>6 DEF Commanded
  <2>2. Passes(calls, calls', None, agents, agents', AgentList)
    <3>1. PICK a : a = None
      OBVIOUS
    <3>2. Failed # "ok"
      BY Marked
    <3>3. Payload(c, a) = {} /\ ~ Coming(c, a)
      BY <1>5, <1>6, <3>1, <3>2 DEF Payload, Listing, Coming
    <3> QED
      BY <1>1, <1>2, <1>3, <2>1, <3>1, <3>3, GonePasses
  <2>3. \A a \in Agents : Passes(calls, calls', a, messages, messages', MessagesOf(a))
    BY <1>1, <1>2, <1>3, <1>4, <2>1, GonePasses
  <2> QED
    BY <1>1, <1>2, <1>3, <1>5, <2>1, <2>2, <2>3, ReadCalm
<1>7. CASE c.fst = "ok"
  <2>1. PICK d : d = One(IF c.op = "create" THEN "created" ELSE "settle", c.agent, None)
    OBVIOUS
  <2>2. Fresh(d) /\ d.op \in Lists /\ d.fst = Sent
    <3>1. PICK op \in Lists : op = IF c.op = "create" THEN "created" ELSE "settle"
      BY DEF Lists
    <3>2. op \in Ops /\ c.agent \in Agents \cup {None} /\ None \in RunIds \cup {None}
      BY <1>1 DEF Ops, Calls
    <3>3. d = One(op, c.agent, None)
      BY <2>1, <3>1
    <3> QED
      BY <3>1, <3>2, <3>3, OneFresh
  <2>3. PICK p : p = Append(RemoveAt(calls, 1), d)
    OBVIOUS
  <2>4. c.fst # Failed
    BY <1>7, Marked
  <2>5. calls' = p
    BY <1>1, <1>2, <2>1, <2>3, <2>4 DEF Commanded, Instead
  <2>6. d.op \notin {"messages", "final"}
    BY <2>2 DEF Lists
  <2>7. /\ Turns(p)
        /\ \A e : Has(p, e) => CalmCall(e)
        /\ \A r : Posting(calls, r) => Posting(p, r) \/ Posts(calls[1], r)
        /\ \A r : Ending(p, r) => Ending(calls, r)
    BY <1>2, <2>2, <2>3, <2>6, SwapKeeps
  <2>8. \A r : Posting(calls, r) => Posting(p, r)
    BY <1>1, <1>5, <2>7 DEF Posts
  <2>9. \A s, t : Passes(calls, p, None, s, s, t)
    <3>1. PICK a : a = None
      OBVIOUS
    <3>2. Coming(d, a)
      BY <2>2, <3>1 DEF Coming
    <3> QED
      BY <1>2, <2>2, <2>3, <3>1, <3>2, SwapPasses
  <2>10. \A a \in Agents : \A s, t : Passes(calls, p, a, s, s, t)
    BY <1>1, <1>2, <1>4, <2>2, <2>3, SwapPasses
  <2> QED
    BY <1>3, <2>5, <2>7, <2>8, <2>9, <2>10, QueueSteps
<1> QED
  BY <1>5, <1>6, <1>7

\* What the calls that remain say, once loops have begun and a run is shown.
LEMMA StillNew ==
    ASSUME UNCHANGED service, NEW c, NewRun(c), NEW R,
           \A r : Looping(r)' => Looping(r) \/ r \in R,
           activeRun' = None \/ activeRun' = activeRun \/ activeRun'.run \in R,
           c.op = "send" /\ c.fst \in RunViews => c.fst.run \notin R
    PROVE  NewRun(c)'
<1>1. \A a : Live(a)' = Live(a)
  BY DEF Live
<1> QED
  BY <1>1 DEF NewRun

\* What they say when no loop begins and no other run is shown.
LEMMA StillCalm ==
    ASSUME UNCHANGED server, NEW c, CalmCall(c),
           \A r : Looping(r)' => Looping(r), activeRun' = None \/ activeRun' = activeRun
    PROVE  Honest(c) /\ NewRun(c)' /\ \A w \in Carried(c) : ViewWatched(w)
<1>1. \A a : Live(a)' = Live(a)
  BY DEF server, Live
<1>2. NewRun(c)'
  BY <1>1 DEF CalmCall, NewRun
<1> QED
  BY <1>2 DEF CalmCall

LEMMA LoadedRunsCalm ==
    ASSUME IInv, Calm, AllCalm, NEW i \in 1..Len(calls), LoadedRuns(i)
    PROVE  AllCalm'
<1>1. PICK c \in Calls : c = calls[1] /\ CallTyped(c) /\ CalmCall(c) /\ Honest(c)
  BY OldestCall DEF LoadedRuns
<1>2. /\ i = 1 /\ calls # <<>> /\ c.op = "load" /\ c.fst = Done /\ Arrived(c.snd)
      /\ calls' = RemoveAt(calls, 1)
  BY <1>1, OldestCall DEF LoadedRuns
<1>3. UNCHANGED <<server, agents, ref, effectDue, messages>>
  BY DEF LoadedRuns, select
<1>4. ASSUME NEW a \in Agents \cup {None}
      PROVE  \A s, t : Passes(calls, calls', a, s, s, t)
  <2>1. Payload(c, a) = {} /\ ~ Coming(c, a)
    BY <1>2, Marked DEF Payload, Listing, Coming, Lists, Commands
  <2> QED
    BY <1>1, <1>2, <2>1, GonePasses
<1>5. Passes(calls, calls', None, agents, agents', AgentList)
  <2>1. \A s, t : Passes(calls, calls', None, s, s, t)
    BY <1>4
  <2>2. agents' = agents
    BY <1>3
  <2> QED
    BY <2>1, <2>2
<1>6. \A a \in Agents : Passes(calls, calls', a, messages, messages', MessagesOf(a))
  <2>1. messages' = messages
    BY <1>3
  <2> QED
    BY <1>4, <2>1
<1>7. CASE UNCHANGED <<activeRun, polls>>
  <2>1. calls[1].op # "send"
    BY <1>1, <1>2
  <2> QED
    BY <1>2, <1>3, <1>5, <1>6, <1>7, <2>1, ReadCalm
<1>8. CASE ~ UNCHANGED <<activeRun, polls>>
  <2>1. PICK v : v = c.snd
    OBVIOUS
  <2>2. activeRun' = v /\ polls' = (IF Active(v) THEN Start(v.run, "load") ELSE polls)
    BY <1>1, <1>2, <1>8, <2>1 DEF LoadedRuns
  <2>3. v = None \/ v \in RunViews
    BY <1>1, <1>2, <1>8, <2>1 DEF LoadedRuns, CallTyped, SecondTyped, ViewOf, Arrived
  <2>4. Carried(c) = {v} \cap RunViews
    BY <1>2, <2>1 DEF Carried
  <2>5. \A r : /\ Looping(r) => Looping(r)'
               /\ Looping(r)' => Looping(r) \/ (Active(v) /\ r = v.run)
    BY <2>2 DEF Looping, Start
  <2>6. PICK p : p = calls'
    OBVIOUS
  <2>7. /\ Turns(p)
        /\ \A d : Has(p, d) => CalmCall(d) /\ InTurn(c, d)
        /\ \A r : Posting(calls, r) => Posting(p, r) \/ Posts(c, r)
        /\ \A r : Ending(p, r) => Ending(calls, r)
    BY <1>1, <1>2, <2>6, GoneKeeps
  <2>8. Watching
    <3>1. \A r : Posting(calls, r) => Posting(p, r)
      BY <1>2, <2>7 DEF Posts
    <3> QED
      BY <2>5, <2>6, <2>7, <3>1, WatchingOn
  <2>9. ASSUME NEW d, Has(p, d)
        PROVE  Honest(d) /\ NewRun(d)' /\ \A w \in Carried(d) : ViewWatched(w)
    <3>1. CalmCall(d) /\ InTurn(c, d)
      BY <2>7, <2>9
    <3>2. PICK R : R = IF v = None THEN {} ELSE {v.run}
      OBVIOUS
    <3>3. d.op = "send" /\ d.fst \in RunViews => d.fst.run \notin R
      <4> SUFFICES ASSUME d.op = "send", d.fst \in RunViews, v # None
                   PROVE  d.fst.run # v.run
        BY <3>2
      <4>1. v \in Carried(c) /\ d.fst \in Carried(d)
        BY <2>3, <2>4 DEF Carried
      <4> QED
        BY <3>1, <4>1 DEF InTurn
    <3>4. \A r : Looping(r)' => Looping(r) \/ r \in R
      BY <2>5, <3>2 DEF Active
    <3>5. activeRun' = None \/ activeRun'.run \in R
      BY <2>2, <3>2
    <3>6. UNCHANGED service
      BY <1>3 DEF server
    <3>7. NewRun(d)'
      BY <3>1, <3>3, <3>4, <3>5, <3>6, StillNew DEF CalmCall
    <3> QED
      BY <3>1, <3>7 DEF CalmCall
  <2>10. ViewCalm'
    <3> SUFFICES ASSUME v # None
                 PROVE  ViewOK(v)' /\ ViewWatched(v)'
      BY <2>2 DEF ViewCalm
    <3>1. v \in RunViews /\ ViewOK(v) /\ ViewWatched(v)
      BY <1>1, <2>3, <2>4 DEF CalmCall, Honest
    <3>2. ViewOK(v)' /\ \A a : Live(a)' = Live(a)
      BY <1>3, <3>1, ServerSame
    <3> QED
      BY <2>8, <3>1, <3>2 DEF ViewWatched, Watching, RunViews
  <2>11. ListSettles' /\ TalkSettles'
    BY <1>3, <1>5, <1>6, <2>8, ListStays, TalkStays DEF IInv
  <2> QED
    BY <1>3, <2>6, <2>7, <2>8, <2>9, <2>10, <2>11, CalmKeeps DEF IInv
<1> QED
  BY <1>7, <1>8

\* What is shown now is what an answer says.
LEMMA ViewRead ==
    ASSUME UNCHANGED server, Watching, NEW v \in RunViews, ViewOK(v), ViewWatched(v)
    PROVE  ViewOK(v)' /\ ViewWatched(v)'
<1>1. ViewOK(v)' /\ \A a : Live(a)' = Live(a)
  BY ServerSame
<1> QED
  BY <1>1 DEF ViewWatched, Watching, RunViews

LEMMA PostFailedCalm ==
    ASSUME IInv, Calm, AllCalm, NEW i \in 1..Len(calls), Posted(i), calls[i].fst = Failed
    PROVE  AllCalm'
<1>1. PICK c \in Calls : c = calls[1] /\ CallTyped(c) /\ CalmCall(c) /\ Honest(c)
  BY OldestCall DEF Posted
<1>2. /\ i = 1 /\ calls # <<>> /\ c.op = "send" /\ c.fst = Failed
      /\ Without(i) = RemoveAt(calls, 1)
  BY <1>1, OldestCall DEF Posted
<1>3. /\ activeRun' = None /\ UNCHANGED <<server, agents, messages, ref, effectDue, polls>>
      /\ calls' = Instead(1, One("list", None, None))
  BY <1>1, <1>2 DEF Posted, select
<1>4. PICK d : d = One("list", None, None)
  OBVIOUS
<1>5. Fresh(d) /\ d.op = "list"
  BY <1>4, ListFresh
<1>6. PICK p : p = Append(RemoveAt(calls, 1), d)
  OBVIOUS
<1>7. calls' = p
  BY <1>2, <1>3, <1>4, <1>6 DEF Instead
<1>8. /\ Turns(p)
      /\ \A e : Has(p, e) => CalmCall(e)
      /\ \A r : Posting(calls, r) => Posting(p, r) \/ Posts(calls[1], r)
      /\ \A r : Ending(p, r) => Ending(calls, r)
  BY <1>2, <1>5, <1>6, SwapKeeps
<1>9. Watching
  <2>1. \A r : Posting(calls, r) => Posting(p, r)
    BY <1>1, <1>2, <1>8, Marked DEF Posts
  <2>2. \A r : Looping(r) => Looping(r)'
    BY <1>3 DEF Looping
  <2> QED
    BY <1>7, <1>8, <2>1, <2>2, WatchingOn
<1>10. ASSUME NEW e, Has(p, e)
       PROVE  Honest(e) /\ NewRun(e)' /\ \A w \in Carried(e) : ViewWatched(w)
  <2>1. CalmCall(e)
    BY <1>8, <1>10
  <2>2. \A r : Looping(r)' => Looping(r)
    BY <1>3 DEF Looping
  <2> QED
    BY <1>3, <2>1, <2>2, StillCalm
<1>11. ASSUME NEW a \in Agents \cup {None}
       PROVE  \A s, t : Passes(calls, p, a, s, s, t)
  <2>1. Payload(c, a) = {} /\ ~ Coming(c, a)
    BY <1>2 DEF Payload, Listing, Coming, Lists, Commands
  <2> QED
    BY <1>1, <1>2, <1>5, <1>6, <2>1, SwapPasses
<1>12. ListSettles' /\ TalkSettles'
  <2>1. messages' = messages /\ agents' = agents
    BY <1>3
  <2>2. \A s, t : Passes(calls, p, None, s, s, t)
    BY <1>11
  <2>3. Passes(calls, calls', None, agents, agents', AgentList)
    BY <1>7, <2>1, <2>2
  <2>4. \A a \in Agents : Passes(calls, calls', a, messages, messages', MessagesOf(a))
    BY <1>7, <1>11, <2>1
  <2> QED
    BY <1>3, <1>9, <2>3, <2>4, ListStays, TalkStays DEF IInv
<1>13. ViewCalm'
  BY <1>3 DEF ViewCalm
<1> QED
  BY <1>3, <1>7, <1>8, <1>9, <1>10, <1>12, <1>13, CalmKeeps DEF IInv

LEMMA PostedCalm ==
    ASSUME IInv, Calm, AllCalm, NEW i \in 1..Len(calls), Posted(i), calls[i].fst # Failed
    PROVE  AllCalm'
<1>1. PICK c \in Calls : c = calls[1] /\ CallTyped(c) /\ CalmCall(c) /\ Honest(c) /\ CallOK(c)
  BY OldestCall DEF Posted
<1>2. /\ i = 1 /\ calls # <<>> /\ c.op = "send" /\ Arrived(c.fst) /\ c.fst # Failed
      /\ Without(i) = RemoveAt(calls, 1)
  BY <1>1, OldestCall DEF Posted
<1>3. PICK v \in RunViews : /\ v = c.fst /\ v.run[1] = c.agent /\ v.status = "active" /\ Carried(c) = {v}
                            /\ v.run \in RunIds
  BY <1>1, <1>2 DEF CallTyped, FirstTyped, ViewOf, Arrived, Carried, RunViews
<1>4. /\ UNCHANGED <<server, ref, effectDue>> /\ calls' = RemoveAt(calls, 1)
      /\ polls' = Start(v.run, "send")
      /\ agents' = [b \in DOMAIN agents |-> IF b = c.agent THEN "busy" ELSE agents[b]]
      /\ IF ref = c.agent THEN activeRun' = v ELSE UNCHANGED <<activeRun, messages>>
  BY <1>1, <1>2, <1>3 DEF Posted, select, view, ForSelected
<1>5. \A r : /\ Looping(r) => Looping(r)'
             /\ Looping(r)' => Looping(r) \/ r = v.run
  BY <1>4 DEF Looping, Start
<1>6. Looping(v.run)'
  <2>1. CASE ~ Looping(v.run)
    <3>1. [run |-> v.run, owner |-> "send"] \in polls'
      BY <1>4, <2>1 DEF Start
    <3> QED
      BY <3>1 DEF Looping
  <2> QED
    BY <1>5, <2>1
<1>7. PICK p : p = calls'
  OBVIOUS
<1>8. /\ Turns(p)
      /\ \A d : Has(p, d) => CalmCall(d) /\ InTurn(c, d)
      /\ \A r : Posting(calls, r) => Posting(p, r) \/ Posts(c, r)
      /\ \A r : Ending(p, r) => Ending(calls, r)
  BY <1>1, <1>2, <1>4, <1>7, GoneKeeps
<1>9. Live(c.agent) => ~ Looping(v.run) /\ Watched(v.run)'
  <2> SUFFICES ASSUME Live(c.agent)
               PROVE  ~ Looping(v.run) /\ Watched(v.run)'
    OBVIOUS
  <2>1. ~ Looping(v.run)
    BY <1>1, <1>2, <1>3 DEF CalmCall, NewRun
  <2>2. \A r : Ending(calls, r) => Looping(r)
    BY DEF Ending, IInv, CallsOK, CallOK, Loops
  <2> QED
    BY <1>6, <1>7, <1>8, <2>1, <2>2 DEF Watched
<1>10. Watching
  <2> SUFFICES ASSUME NEW r \in RunIds, Live(r[1]), Watched(r)
               PROVE  Watched(r)'
    BY DEF Watching
  <2>1. CASE Posts(c, r)
    BY <1>3, <1>9, <2>1 DEF Posts
  <2>2. CASE ~ Posts(c, r)
    BY <1>5, <1>7, <1>8, <2>2 DEF Watched
  <2> QED
    BY <2>1, <2>2
<1>11. ASSUME NEW d, Has(p, d)
       PROVE  Honest(d) /\ NewRun(d)' /\ \A w \in Carried(d) : ViewWatched(w)
  <2>1. CalmCall(d) /\ InTurn(c, d)
    BY <1>8, <1>11
  <2>2. PICK R : R = {v.run}
    OBVIOUS
  <2>3. d.op = "send" /\ d.fst \in RunViews => d.fst.run \notin R
    BY <1>3, <2>1, <2>2 DEF InTurn, Carried
  <2>4. \A r : Looping(r)' => Looping(r) \/ r \in R
    BY <1>5, <2>2
  <2>5. activeRun' = activeRun \/ activeRun'.run \in R
    BY <1>4, <2>2
  <2>6. UNCHANGED service
    BY <1>4 DEF server
  <2>7. NewRun(d)'
    BY <2>1, <2>3, <2>4, <2>5, <2>6, StillNew DEF CalmCall
  <2> QED
    BY <2>1, <2>7 DEF CalmCall
<1>12. ViewCalm'
  <2>1. CASE ref = c.agent
    <3>1. ViewOK(v)' /\ ViewWatched(v)'
      BY <1>1, <1>3, <1>4, <1>10, ViewRead DEF CalmCall, Honest
    <3> QED
      BY <1>4, <2>1, <3>1 DEF ViewCalm
  <2>2. CASE ref # c.agent
    BY <1>4, <1>10, <2>2, ViewStays DEF IInv
  <2> QED
    BY <2>1, <2>2
<1>13. \A a : Live(a)' = Live(a)
  BY <1>4, ServerSame
<1>14. Live(c.agent) => Awake(None)' /\ Awake(c.agent)'
  BY <1>3, <1>9, <1>13 DEF Awake
<1>15. ASSUME NEW a \in Agents \cup {None}
       PROVE  Payload(c, a) = {} /\ ~ Coming(c, a) /\ \A s, t : Passes(calls, calls', a, s, s, t)
  <2>1. Payload(c, a) = {} /\ ~ Coming(c, a)
    BY <1>2 DEF Payload, Listing, Coming, Lists, Commands
  <2> QED
    BY <1>1, <1>2, <1>4, <2>1, GonePasses
<1>16. ListSettles'
  <2>1. CASE Live(c.agent)
    BY <1>14, <2>1 DEF ListSettles, Settles
  <2>2. CASE ~ Live(c.agent)
    <3>1. DOMAIN AgentList = {a \in Agents : Live(a)}
      BY ListTyped DEF IInv
    <3>2. agents \in Listings
      BY DEF IInv, TypedPage
    <3>3. c.agent \notin DOMAIN agents => agents' = agents
      <4>1. PICK S \in SUBSET Agents : agents \in [S -> {"ready", "busy", "stopped"}]
        BY <3>2 DEF Listings
      <4> QED
        BY <1>4, <4>1
    <3>4. Passes(calls, calls', None, agents, agents', AgentList)
      <4>1. \A s, t : Passes(calls, calls', None, s, s, t)
        BY <1>15
      <4>2. CASE c.agent \notin DOMAIN agents
        BY <3>3, <4>1, <4>2
      <4>3. CASE c.agent \in DOMAIN agents
        <5>1. agents # AgentList
          BY <2>2, <3>1, <4>3
        <5>2. Brings(calls, None, agents, AgentList) => Brings(calls, None, agents', AgentList)
          BY <5>1 DEF Brings
        <5> QED
          BY <4>1, <5>2 DEF Passes
      <4> QED
        BY <4>2, <4>3
    <3> QED
      BY <1>4, <1>10, <3>4, ListStays DEF IInv
  <2> QED
    BY <2>1, <2>2
<1>17. TalkSettles'
  <2>1. CASE ref = c.agent
    <3>1. UNCHANGED ref /\ Live(ref)' = Live(ref)
      BY <1>4, <1>13
    <3> QED
      BY <1>14, <2>1, <3>1 DEF TalkSettles, Settles
  <2>2. CASE ref # c.agent
    <3>1. messages' = messages
      BY <1>4, <2>2
    <3>2. \A a \in Agents : Passes(calls, calls', a, messages, messages', MessagesOf(a))
      BY <1>15, <3>1
    <3> QED
      BY <1>4, <1>10, <3>2, TalkStays DEF IInv
  <2> QED
    BY <2>1, <2>2
<1> QED
  BY <1>4, <1>7, <1>8, <1>10, <1>11, <1>12, <1>16, <1>17, CalmKeeps DEF IInv

\* A loop that throws: the answer was about an Agent that is gone.
LEMMA ThrownCalm ==
    ASSUME IInv, AllCalm, UNCHANGED <<server, agents, messages, ref, effectDue>>,
           NEW r \in RunIds, ~ Live(r[1]),
           NEW q \in Seq(Calls), Turns(q), \A c : Has(q, c) => CalmCall(c),
           \A s : Posting(calls, s) => Posting(q, s),
           \A s : Ending(q, s) => Ending(calls, s),
           \A a \in Agents \cup {None} : a = None \/ Live(a) => \A s, t : Passes(calls, q, a, s, s, t),
           Throw(r, q)
    PROVE  AllCalm'
<1>1. PICK d : d = One("list", None, None)
  OBVIOUS
<1>2. Fresh(d) /\ d.op = "list"
  BY <1>1, ListFresh
<1>3. PICK o : o = Append(q, d) /\ Add(q, d, o)
  BY <1>2 DEF Add
<1>4. PICK p : p = calls'
  OBVIOUS
<1>5. /\ polls' = Stop(r) /\ (p = o \/ p = q)
      /\ activeRun' = None \/ UNCHANGED activeRun
  BY <1>1, <1>3, <1>4 DEF Throw
<1>6. \A s : /\ Looping(s)' => Looping(s)
             /\ Looping(s) /\ s # r => Looping(s)'
  BY <1>5 DEF Looping, Stop
<1>7. /\ Turns(q) => Turns(o)
      /\ \A s : Posting(q, s) => Posting(o, s)
      /\ \A s : Ending(o, s) => Ending(q, s)
  BY <1>2, <1>3, AddKeeps
<1>8. \A c : Has(o, c) => c = d \/ Has(q, c)
  BY <1>3, AddKeeps
<1>9. CalmCall(d)
  BY <1>2, FreshCalm
<1>10. /\ Turns(p) /\ \A c : Has(p, c) => CalmCall(c)
       /\ \A s : Posting(calls, s) => Posting(p, s)
       /\ \A s : Ending(p, s) => Ending(calls, s)
  BY <1>5, <1>7, <1>8, <1>9
<1>11. Watching
  BY <1>4, <1>6, <1>10 DEF Watching, Watched
<1>12. ASSUME NEW c, Has(p, c)
       PROVE  Honest(c) /\ NewRun(c)' /\ \A w \in Carried(c) : ViewWatched(w)
  <2>1. CalmCall(c)
    BY <1>10, <1>12
  <2>2. \A s : Looping(s)' => Looping(s)
    BY <1>6
  <2>3. activeRun' = None \/ activeRun' = activeRun
    BY <1>5
  <2> QED
    BY <2>1, <2>2, <2>3, StillCalm
<1>13. ASSUME NEW a \in Agents \cup {None}, a = None \/ Live(a)
       PROVE  \A s, t : Passes(calls, p, a, s, s, t)
  <2>1. \A s, t : Passes(calls, q, a, s, s, t)
    BY <1>13
  <2>2. \A s, t : Passes(q, o, a, s, s, t)
    BY <1>3, AddPasses
  <2> QED
    BY <1>5, <2>1, <2>2 DEF Passes
<1>14. ListSettles' /\ TalkSettles'
  <2>1. messages' = messages /\ agents' = agents
    OBVIOUS
  <2>2. \A s, t : Passes(calls, p, None, s, s, t)
    BY <1>13
  <2>3. Passes(calls, calls', None, agents, agents', AgentList)
    BY <1>4, <2>1, <2>2
  <2>4. \A a \in Agents : Live(a) => Passes(calls, calls', a, messages, messages', MessagesOf(a))
    BY <1>4, <1>13, <2>1
  <2> QED
    BY <1>11, <2>3, <2>4, ListStays, TalkStays DEF IInv
<1>15. ViewCalm'
  <2>1. CASE activeRun' = None
    BY <2>1 DEF ViewCalm
  <2>2. CASE UNCHANGED activeRun
    BY <1>11, <2>2, ViewStays DEF IInv
  <2> QED
    BY <1>5, <2>1, <2>2
<1> QED
  BY <1>4, <1>10, <1>11, <1>12, <1>14, <1>15, CalmKeeps DEF IInv

LEMMA PollFailedCalm ==
    ASSUME IInv, Calm, AllCalm, NEW i \in 1..Len(calls), Polled(i), calls[i].fst = Failed
    PROVE  AllCalm'
<1>1. PICK c \in Calls : c = calls[1] /\ CallTyped(c) /\ CalmCall(c) /\ Honest(c)
  BY OldestCall DEF Polled
<1>2. /\ i = 1 /\ calls # <<>> /\ c.op = "poll" /\ c.fst = Failed
      /\ Without(i) = RemoveAt(calls, 1)
  BY <1>1, OldestCall DEF Polled
<1>3. UNCHANGED <<server, agents, messages, ref, effectDue>>
  BY DEF Polled, select
<1>4. PICK r \in RunIds : r = c.run /\ ~ Live(r[1])
  BY <1>1, <1>2 DEF CallTyped, Loops, Honest
<1>5. PICK q : q = RemoveAt(calls, 1)
  OBVIOUS
<1>6. Throw(r, q)
  BY <1>1, <1>2, <1>4, <1>5 DEF Polled
<1>7. /\ q \in Seq(Calls) /\ Turns(q) /\ \A d : Has(q, d) => CalmCall(d)
      /\ \A s : Posting(calls, s) => Posting(q, s) \/ Posts(c, s)
      /\ \A s : Ending(q, s) => Ending(calls, s)
  BY <1>1, <1>2, <1>5, GoneKeeps
<1>8. \A s : Posting(calls, s) => Posting(q, s)
  BY <1>2, <1>7 DEF Posts
<1>9. ASSUME NEW a \in Agents \cup {None}
      PROVE  \A s, t : Passes(calls, q, a, s, s, t)
  <2>1. Payload(c, a) = {} /\ ~ Coming(c, a)
    BY <1>2 DEF Payload, Listing, Coming, Lists, Commands
  <2> QED
    BY <1>1, <1>2, <1>5, <2>1, GonePasses
<1> QED
  BY <1>3, <1>4, <1>6, <1>7, <1>8, <1>9, ThrownCalm

LEMMA PolledActiveCalm ==
    ASSUME IInv, Calm, AllCalm, NEW i \in 1..Len(calls), Polled(i), calls[i].fst # Failed, Active(calls[i].fst)
    PROVE  AllCalm'
<1>1. PICK c \in Calls : c = calls[1] /\ CallTyped(c) /\ CalmCall(c) /\ Honest(c)
  BY OldestCall DEF Polled
<1>2. /\ i = 1 /\ calls # <<>> /\ c.op = "poll" /\ Arrived(c.fst) /\ c.fst # Failed
      /\ Without(i) = RemoveAt(calls, 1)
  BY <1>1, OldestCall DEF Polled
<1>3. PICK v \in RunViews : v = c.fst /\ v.run = c.run /\ Carried(c) = {v}
  BY <1>1, <1>2 DEF CallTyped, FirstTyped, Arrived, Carried
<1>4. /\ UNCHANGED <<server, agents, messages, ref, effectDue, polls>> /\ calls' = RemoveAt(calls, 1)
      /\ activeRun' = v \/ UNCHANGED activeRun
  BY <1>1, <1>2, <1>3 DEF Polled, select
<1>5. PICK p : p = calls'
  OBVIOUS
<1>6. /\ Turns(p)
      /\ \A d : Has(p, d) => CalmCall(d) /\ InTurn(c, d)
      /\ \A r : Posting(calls, r) => Posting(p, r) \/ Posts(c, r)
      /\ \A r : Ending(p, r) => Ending(calls, r)
  BY <1>1, <1>2, <1>4, <1>5, GoneKeeps
<1>7. (\A r : Looping(r)' <=> Looping(r)) /\ UNCHANGED service
  BY <1>4 DEF Looping, server
<1>8. Watching
  <2>1. \A r : Posting(calls, r) => Posting(p, r)
    BY <1>2, <1>6 DEF Posts
  <2> QED
    BY <1>5, <1>6, <1>7, <2>1, WatchingOn
<1>9. ASSUME NEW d, Has(p, d)
      PROVE  Honest(d) /\ NewRun(d)' /\ \A w \in Carried(d) : ViewWatched(w)
  <2>1. CalmCall(d) /\ InTurn(c, d)
    BY <1>6, <1>9
  <2>2. PICK R : R = {v.run}
    OBVIOUS
  <2>3. d.op = "send" /\ d.fst \in RunViews => d.fst.run \notin R
    BY <1>3, <2>1, <2>2 DEF InTurn, Carried
  <2>4. \A r : Looping(r)' => Looping(r) \/ r \in R
    BY <1>7
  <2>5. activeRun' = activeRun \/ activeRun'.run \in R
    BY <1>4, <2>2
  <2>6. NewRun(d)'
    BY <1>7, <2>1, <2>3, <2>4, <2>5, StillNew DEF CalmCall
  <2> QED
    BY <2>1, <2>6 DEF CalmCall
<1>10. ViewCalm'
  <2>1. CASE activeRun' = v
    <3>1. ViewOK(v)' /\ ViewWatched(v)'
      BY <1>1, <1>3, <1>4, <1>8, ViewRead DEF CalmCall, Honest
    <3> QED
      BY <2>1, <3>1 DEF ViewCalm
  <2>2. CASE UNCHANGED activeRun
    BY <1>4, <1>8, <2>2, ViewStays DEF IInv
  <2> QED
    BY <1>4, <2>1, <2>2
<1>11. ASSUME NEW a \in Agents \cup {None}
       PROVE  \A s, t : Passes(calls, p, a, s, s, t)
  <2>1. Payload(c, a) = {} /\ ~ Coming(c, a)
    BY <1>2 DEF Payload, Listing, Coming, Lists, Commands
  <2> QED
    BY <1>1, <1>2, <1>4, <1>5, <2>1, GonePasses
<1>12. ListSettles' /\ TalkSettles'
  <2>1. messages' = messages /\ agents' = agents
    BY <1>4
  <2>2. \A s, t : Passes(calls, p, None, s, s, t)
    BY <1>11
  <2>3. Passes(calls, calls', None, agents, agents', AgentList)
    BY <1>5, <2>1, <2>2
  <2>4. \A a \in Agents : Passes(calls, calls', a, messages, messages', MessagesOf(a))
    BY <1>5, <1>11, <2>1
  <2> QED
    BY <1>4, <1>8, <2>3, <2>4, ListStays, TalkStays DEF IInv
<1> QED
  BY <1>4, <1>5, <1>6, <1>8, <1>9, <1>10, <1>12, CalmKeeps DEF IInv

\* The run has ended: its loop asks for the messages and the list, and it is
\* not watched any more.
LEMMA PolledEndCalm ==
    ASSUME IInv, Calm, AllCalm, NEW i \in 1..Len(calls), Polled(i), calls[i].fst # Failed, ~ Active(calls[i].fst)
    PROVE  AllCalm'
<1>1. PICK c \in Calls : c = calls[1] /\ CallTyped(c) /\ CalmCall(c) /\ Honest(c)
  BY OldestCall DEF Polled
<1>2. /\ i = 1 /\ calls # <<>> /\ c.op = "poll" /\ Arrived(c.fst) /\ c.fst # Failed
      /\ Without(i) = RemoveAt(calls, 1)
  BY <1>1, OldestCall DEF Polled
<1>3. PICK v \in RunViews : /\ v = c.fst /\ v.run = c.run /\ Carried(c) = {v} /\ v.status # "active"
                            /\ v.run \in RunIds /\ c.agent = v.run[1] /\ c.agent \in Agents
  <2>1. c.fst \in RunViews /\ c.fst.run = c.run /\ c.run \in RunIds /\ c.agent = c.run[1] /\ c.agent \in Agents
    BY <1>1, <1>2 DEF CallTyped, FirstTyped, Arrived, Loops
  <2>2. c.fst.status # "active"
    BY <1>1, <1>2, <2>1, Marked DEF Active
  <2> QED
    BY <1>2, <2>1, <2>2 DEF Carried
<1>4. PICK d : d = Final(c)
  OBVIOUS
<1>5. Fresh(d) /\ d.op = "final" /\ d.agent = c.agent /\ d.run = v.run /\ d.fst = Sent /\ d.snd = Sent
  <2>1. "final" \in Ops /\ c.agent \in Agents \cup {None} /\ c.run \in RunIds \cup {None}
    BY <1>3 DEF Ops, Loops
  <2>2. d = Pair("final", c.agent, c.run)
    BY <1>4 DEF Final
  <2> QED
    BY <1>3, <2>1, <2>2, PairFresh
<1>6. PICK p : p = Append(RemoveAt(calls, 1), d)
  OBVIOUS
<1>7. /\ UNCHANGED <<server, agents, messages, ref, effectDue, polls>> /\ calls' = p
      /\ activeRun' = IF ref = c.agent THEN v ELSE activeRun
  BY <1>1, <1>2, <1>3, <1>4, <1>6 DEF Polled, select, Instead, ForSelected
<1>8. /\ Turns(p)
      /\ \A e : Has(p, e) => CalmCall(e) /\ (e = d \/ InTurn(c, e))
      /\ \A r : Posting(calls, r) => Posting(p, r) \/ Posts(c, r)
      /\ \A r : Ending(p, r) => Ending(calls, r) \/ d.run = r
      /\ \A a : Coming(d, a) => Comes(p, a)
  <2>1. calls # <<>> /\ Fresh(d) /\ d.op # "messages" /\ c = calls[1]
    BY <1>1, <1>2, <1>5
  <2>2. /\ Turns(p)
        /\ \A e : Has(p, e) => CalmCall(e) /\ (e = d \/ InTurn(c, e))
    BY <1>6, <2>1, SwapKeeps
  <2>3. \A r : Posting(calls, r) => Posting(p, r) \/ Posts(c, r)
    BY <1>6, <2>1, SwapKeeps
  <2>4. ASSUME NEW r, Ending(p, r)
        PROVE  Ending(calls, r) \/ d.run = r
    BY <1>6, <2>1, <2>4, SwapKeeps
  <2>5. \A a : Coming(d, a) => Comes(p, a)
    BY <1>6, <2>1, SwapKeeps
  <2> QED
    BY <2>2, <2>3, <2>4, <2>5
<1>9. (\A r : Looping(r)' <=> Looping(r)) /\ UNCHANGED service
  BY <1>7 DEF Looping, server
<1>10. \A r : Watched(r) /\ r # v.run => Watched(r)'
  BY <1>2, <1>5, <1>7, <1>8, <1>9 DEF Watched, Posts
<1>11. Live(c.agent) => runs[v.run[1]][v.run[2]] # "active"
  BY <1>1, <1>3 DEF Honest, ViewOK
<1>12. /\ Started' = Started /\ AgentList' = AgentList /\ UNCHANGED runs
       /\ \A a : Live(a)' = Live(a) /\ MessagesOf(a)' = MessagesOf(a)
       /\ \A w : ViewOK(w)' = ViewOK(w)
       /\ \A e : Honest(e)' = Honest(e)
  BY <1>7, ServerSame
<1>13. RunsWatched'
  <2>1. \A r \in Started : Live(r[1])
    BY StartedLive DEF IInv
  <2> QED
    BY <1>3, <1>10, <1>11, <1>12, <2>1 DEF AllCalm, RunsWatched
<1>14. ASSUME NEW w \in RunViews, ViewWatched(w), w.run = v.run => w.status # "active"
       PROVE  ViewWatched(w)'
  BY <1>10, <1>12, <1>14 DEF ViewWatched
<1>15. ASSUME NEW e, Has(p, e)
       PROVE  CalmCall(e)'
  <2>1. CalmCall(e) /\ (e = d \/ InTurn(c, e))
    BY <1>8, <1>15
  <2>2. \A w \in Carried(e) : w \in RunViews /\ ViewWatched(w) /\ (w.run = v.run => w.status # "active")
    <3>1. Carried(d) = {}
      BY <1>5, FreshFact
    <3> QED
      BY <1>3, <2>1, <3>1 DEF CalmCall, InTurn, Carried
  <2>3. PICK R : R = {v.run}
    OBVIOUS
  <2>4. e.op = "send" /\ e.fst \in RunViews => e.fst.run \notin R
    BY <1>3, <1>5, <2>1, <2>3 DEF InTurn, Carried
  <2>5. \A r : Looping(r)' => Looping(r) \/ r \in R
    BY <1>9
  <2>6. activeRun' = activeRun \/ activeRun'.run \in R
    BY <1>7, <2>3
  <2>7. NewRun(e)'
    BY <1>9, <2>1, <2>4, <2>5, <2>6, StillNew DEF CalmCall
  <2> QED
    BY <1>12, <1>14, <2>1, <2>2, <2>7 DEF CalmCall
<1>16. CallsCalm'
  <2>1. \A k \in 1..Len(p) : Has(p, p[k])
    BY DEF Has
  <2>2. ASSUME NEW k \in 1..Len(p)
        PROVE  CalmCall(p[k])'
    <3>1. PICK e : e = p[k]
      OBVIOUS
    <3>2. CalmCall(e)'
      BY <1>15, <2>1, <3>1
    <3> QED
      BY <3>1, <3>2
  <2> QED
    BY <1>7, <2>2 DEF CallsCalm
<1>17. ViewCalm'
  <2>1. CASE ref = c.agent
    <3>1. ViewOK(v)' /\ ViewWatched(v)'
      BY <1>1, <1>3, <1>12, <1>14 DEF CalmCall, Honest, ViewWatched
    <3> QED
      BY <1>7, <2>1, <3>1 DEF ViewCalm
  <2>2. CASE ref # c.agent
    <3> SUFFICES ASSUME activeRun # None
                 PROVE  ViewOK(activeRun)' /\ (~ effectDue => ViewWatched(activeRun)')
      BY <1>7, <2>2 DEF ViewCalm
    <3>1. PICK w \in RunViews : w = activeRun
      BY DEF IInv, TypedPage
    <3>2. ViewOK(w) /\ (~ effectDue => ViewWatched(w) /\ w.run # v.run)
      BY <1>3, <2>2, <3>1 DEF AllCalm, ViewCalm, IInv, Belongs
    <3>3. ViewOK(w)' /\ (~ effectDue => ViewWatched(w)')
      BY <1>12, <1>14, <3>2
    <3> QED
      BY <1>7, <2>2, <3>1, <3>3
  <2> QED
    BY <2>1, <2>2
<1>18. ListSettles'
  <2>1. Coming(d, None)
    BY <1>5 DEF Coming
  <2>2. Comes(calls', None)
    BY <1>7, <1>8, <2>1
  <2> QED
    BY <2>2 DEF ListSettles, Settles
<1>19. TalkSettles'
  <2> SUFFICES ASSUME ~ effectDue', ref # None, Live(ref)'
               PROVE  Settles(ref, messages, MessagesOf(ref))'
    BY <1>7 DEF TalkSettles
  <2>1. PICK a \in Agents : a = ref
    BY DEF IInv, TypedPage
  <2>2. a # None /\ Live(a) /\ Settles(a, messages, MessagesOf(a))
    BY <1>7, <1>12, <2>1, AgentSet DEF AllCalm, TalkSettles
  <2>3. CASE a = c.agent
    <3>1. Coming(d, a)
      BY <1>5, <2>2, <2>3 DEF Coming
    <3>2. Comes(calls', a)
      BY <1>7, <1>8, <3>1
    <3> QED
      BY <1>7, <2>1, <3>2 DEF Settles
  <2>4. CASE a # c.agent
    <3>1. Awake(a) => Awake(a)'
      BY <1>3, <1>10, <1>12, <2>2, <2>4 DEF Awake
    <3>2. Payload(c, a) = {} /\ ~ Coming(c, a)
      BY <1>2, <2>2 DEF Payload, Coming
    <3>3. \A s, t : Passes(calls, p, a, s, s, t)
      BY <1>1, <1>2, <1>5, <1>6, <3>2, SwapPasses
    <3>4. PICK m, t : m = messages /\ t = MessagesOf(a)
      OBVIOUS
    <3>5. Comes(p, a) \/ Awake(a)' \/ Brings(p, a, m, t)
      BY <2>2, <3>1, <3>3, <3>4 DEF Settles, Passes
    <3>6. Settles(a, messages, MessagesOf(a))'
      BY <1>7, <1>12, <3>4, <3>5 DEF Settles
    <3> QED
      BY <1>7, <2>1, <3>6
  <2> QED
    BY <2>3, <2>4
<1>20. Turns(calls)'
  BY <1>7, <1>8
<1>21. Served'
  BY <1>7, ServerSame DEF AllCalm, Served, Busy
<1> QED
  BY <1>13, <1>16, <1>17, <1>18, <1>19, <1>20, <1>21 DEF AllCalm

\* A loop that ends, of a run that no send is going to show.
LEMMA EndWatching ==
    ASSUME IInv, AllCalm, calls # <<>>, NEW c, c = calls[1], c.op = "final",
           \A r : Looping(r) /\ r # c.run => Looping(r)',
           \A r : Posting(calls, r) => Posting(calls', r),
           \A r : Ending(calls', r) => Ending(calls, r)
    PROVE  Watching
<1>1. 1 \in 1..Len(calls)
  BY DEF IInv, CallsOK
<1>2. Looping(c.run) /\ Ending(calls, c.run)
  BY <1>1 DEF IInv, CallsOK, CallOK, Loops, Ending
<1>3. ASSUME NEW k \in 1..Len(calls), Posts(calls[k], c.run), Live(c.run[1])
      PROVE  FALSE
  <2>1. CalmCall(calls[k]) /\ CallTyped(calls[k])
    BY DEF AllCalm, CallsCalm, IInv, CallsOK, CallOK
  <2>2. calls[k].agent = c.run[1]
    BY <1>3, <2>1, Marked DEF Posts, CallTyped, FirstTyped, ViewOf
  <2> QED
    BY <1>2, <1>3, <2>1, <2>2 DEF CalmCall, NewRun, Posts
<1>4. Live(c.run[1]) => ~ Posting(calls, c.run)
  BY <1>3 DEF Posting
<1>5. Live(c.run[1]) => ~ Watched(c.run)
  BY <1>2, <1>4 DEF Watched
<1>6. \A r : Watched(r) /\ r # c.run => Watched(r)'
  BY DEF Watched
<1> QED
  BY <1>5, <1>6 DEF Watching

LEMMA LoopEndsCalm ==
    ASSUME IInv, AllCalm, UNCHANGED <<server, activeRun, ref, effectDue>>,
           calls # <<>>, calls[1].op = "final", calls' = RemoveAt(calls, 1), polls' = Stop(calls[1].run),
           Passes(calls, calls', None, agents, agents', AgentList),
           \A a \in Agents : a = ref /\ Live(a) => Passes(calls, calls', a, messages, messages', MessagesOf(a))
    PROVE  AllCalm'
<1>1. PICK p : p = calls'
  OBVIOUS
<1>2. /\ Turns(p)
      /\ \A d : Has(p, d) => CalmCall(d)
      /\ \A r : Posting(calls, r) => Posting(p, r) \/ Posts(calls[1], r)
      /\ \A r : Ending(p, r) => Ending(calls, r)
  BY <1>1, GoneKeeps
<1>3. \A r : Posting(calls, r) => Posting(p, r)
  BY <1>2 DEF Posts
<1>4. \A r : /\ Looping(r)' => Looping(r)
             /\ Looping(r) /\ r # calls[1].run => Looping(r)'
  BY DEF Looping, Stop
<1>5. Watching
  BY <1>1, <1>2, <1>3, <1>4, EndWatching
<1>6. ASSUME NEW d, Has(p, d)
      PROVE  Honest(d) /\ NewRun(d)' /\ \A w \in Carried(d) : ViewWatched(w)
  <2>1. CalmCall(d)
    BY <1>2, <1>6
  <2>2. \A r : Looping(r)' => Looping(r)
    BY <1>4
  <2> QED
    BY <2>1, <2>2, StillCalm
<1>7. ViewCalm'
  BY <1>5, ViewStays DEF IInv
<1>8. ListSettles' /\ TalkSettles'
  BY <1>5, ListStays, TalkStays DEF IInv
<1> QED
  BY <1>1, <1>2, <1>5, <1>6, <1>7, <1>8, CalmKeeps DEF IInv

LEMMA FinalListCalm ==
    ASSUME IInv, Calm, AllCalm, NEW i \in 1..Len(calls), FinalList(i)
    PROVE  AllCalm'
<1>1. PICK c \in Calls : c = calls[1] /\ CallTyped(c) /\ Honest(c)
  BY OldestCall DEF FinalList
<1>2. /\ i = 1 /\ calls # <<>> /\ c.op = "final" /\ Arrived(c.snd) /\ c.fst = Done /\ c.snd # Failed
      /\ Without(i) = RemoveAt(calls, 1)
  BY <1>1, OldestCall DEF FinalList, Calm, Honest
<1>3. /\ UNCHANGED <<server, activeRun, ref, effectDue, messages>>
      /\ calls' = RemoveAt(calls, 1) /\ polls' = Stop(calls[1].run) /\ agents' = c.snd
  BY <1>1, <1>2 DEF FinalList, ApplyList, EndsWith
<1>4. c.snd \in Listings
  BY <1>1, <1>2 DEF CallTyped, SecondTyped, Arrived
<1>5. Passes(calls, calls', None, agents, agents', AgentList)
  <2>1. PICK a : a = None
    OBVIOUS
  <2>2. Payload(c, a) = {c.snd} /\ ~ Coming(c, a)
    BY <1>2, <1>4, <2>1 DEF Payload, Listing, Coming, Lists, Commands, Arrived
  <2> QED
    BY <1>1, <1>2, <1>3, <2>1, <2>2, GonePasses
<1>6. ASSUME NEW a \in Agents
      PROVE  Passes(calls, calls', a, messages, messages', MessagesOf(a))
  <2>1. Payload(c, a) = {} /\ ~ Coming(c, a)
    BY <1>2, AgentSet, Marked DEF Payload, Coming
  <2> QED
    BY <1>1, <1>2, <1>3, <2>1, GonePasses
<1> QED
  BY <1>1, <1>2, <1>3, <1>5, <1>6, LoopEndsCalm

LEMMA FinalReadCalm ==
    ASSUME IInv, Calm, AllCalm, NEW i \in 1..Len(calls), FinalMessages(i), calls[i].fst # Failed
    PROVE  AllCalm'
<1>1. PICK c \in Calls : c = calls[1] /\ CallTyped(c) /\ Honest(c)
  BY OldestCall DEF FinalMessages
<1>2. /\ i = 1 /\ calls # <<>> /\ c.op = "final" /\ Arrived(c.fst) /\ c.fst # Failed
      /\ Without(i) = RemoveAt(calls, 1)
  BY <1>1, OldestCall DEF FinalMessages
<1>3. c.fst \in Conversations
  BY <1>1, <1>2 DEF CallTyped, FirstTyped, TalkOf, Arrived
<1>4. /\ UNCHANGED <<server, agents, activeRun, ref, effectDue>>
      /\ messages' = IF ref = c.agent THEN c.fst ELSE messages
      /\ polls' = IF c.snd = Done THEN Stop(calls[1].run) ELSE polls
  BY <1>1, <1>2 DEF FinalMessages, select, EndsWith, ApplyMessages, ForSelected
<1>5. CASE c.snd = Done
  <2>1. calls' = RemoveAt(calls, 1)
    BY <1>1, <1>2, <1>5 DEF FinalMessages
  <2>2. Passes(calls, calls', None, agents, agents', AgentList)
    <3>1. PICK a : a = None
      OBVIOUS
    <3>2. Payload(c, a) = {} /\ ~ Coming(c, a)
      BY <1>2, <1>5, <3>1, Marked DEF Payload, Listing, Coming, Lists, Commands
    <3> QED
      BY <1>1, <1>2, <1>4, <2>1, <3>1, <3>2, GonePasses
  <2>3. ASSUME NEW a \in Agents, a = ref
        PROVE  Passes(calls, calls', a, messages, messages', MessagesOf(a))
    <3>1. a # None /\ ~ Coming(c, a)
      BY <1>2, AgentSet DEF Coming, Arrived
    <3>2. CASE c.agent = a
      <4>1. Payload(c, a) = {c.fst} /\ messages' = c.fst
        BY <1>2, <1>3, <1>4, <2>3, <3>1, <3>2 DEF Payload
      <4> QED
        BY <1>1, <1>2, <2>1, <3>1, <4>1, GonePasses
    <3>3. CASE c.agent # a
      <4>1. Payload(c, a) = {} /\ messages' = messages
        BY <1>2, <1>4, <2>3, <3>1, <3>3 DEF Payload
      <4> QED
        BY <1>1, <1>2, <2>1, <3>1, <4>1, GonePasses
    <3> QED
      BY <3>2, <3>3
  <2> QED
    BY <1>1, <1>2, <1>4, <1>5, <2>1, <2>2, <2>3, LoopEndsCalm
<1>6. CASE c.snd # Done
  <2>1. PICK d : d = [c EXCEPT !.fst = Done]
    OBVIOUS
  <2>2. calls' = [calls EXCEPT ![1] = d]
    BY <1>1, <1>2, <1>6, <2>1 DEF FinalMessages
  <2>3. polls' = polls /\ c.op \in {"load", "final"}
    BY <1>2, <1>4, <1>6
  <2> QED
    BY <1>1, <1>2, <1>3, <1>4, <2>1, <2>2, <2>3, PartReadCalm
<1> QED
  BY <1>5, <1>6

LEMMA FinalFailedCalm ==
    ASSUME IInv, Calm, AllCalm, NEW i \in 1..Len(calls), FinalMessages(i), calls[i].fst = Failed
    PROVE  AllCalm'
<1>1. PICK c \in Calls : c = calls[1] /\ CallTyped(c) /\ Honest(c) /\ CalmCall(c)
  BY OldestCall DEF FinalMessages
<1>2. /\ i = 1 /\ calls # <<>> /\ c.op = "final" /\ c.fst = Failed /\ c.snd # Failed
      /\ Without(i) = RemoveAt(calls, 1)
  BY <1>1, OldestCall DEF FinalMessages, Honest
<1>3. UNCHANGED <<server, agents, messages, ref, effectDue>>
  BY <1>1, <1>2 DEF FinalMessages, select
<1>4. PICK r \in RunIds : r = c.run /\ c.agent = r[1] /\ ~ Live(r[1])
  BY <1>1, <1>2 DEF CallTyped, Loops, Honest
<1>5. c.snd \in {Sent, Done} \cup Listings
  BY <1>1, <1>2 DEF CallTyped, SecondTyped
<1>6. CASE c.snd = Done
  <2>1. PICK q : q = RemoveAt(calls, 1)
    OBVIOUS
  <2>2. Throw(r, q)
    BY <1>1, <1>2, <1>4, <1>6, <2>1 DEF FinalMessages
  <2>3. /\ q \in Seq(Calls) /\ Turns(q) /\ \A d : Has(q, d) => CalmCall(d)
        /\ \A s : Posting(calls, s) => Posting(q, s) \/ Posts(c, s)
        /\ \A s : Ending(q, s) => Ending(calls, s)
    BY <1>1, <1>2, <2>1, GoneKeeps
  <2>4. \A s : Posting(calls, s) => Posting(q, s)
    BY <1>2, <2>3 DEF Posts
  <2>5. ASSUME NEW a \in Agents \cup {None}, a = None \/ Live(a)
        PROVE  \A s, t : Passes(calls, q, a, s, s, t)
    <3>1. Payload(c, a) = {} /\ ~ Coming(c, a)
      BY <1>2, <1>4, <1>6, <2>5, Marked DEF Payload, Listing, Coming, Lists, Commands
    <3> QED
      BY <1>1, <1>2, <2>1, <3>1, GonePasses
  <2> QED
    BY <1>3, <1>4, <2>2, <2>3, <2>4, <2>5, ThrownCalm
<1>7. CASE c.snd # Done
  <2>1. PICK o \in Seq(Calls) : o = calls
    BY DEF IInv, CallsOK
  <2>2. PICK d : d = Call("list", None, None, c.snd, Done)
    OBVIOUS
  <2>3. /\ d \in Calls /\ d.op = "list" /\ d.fst = c.snd /\ d.snd = Done
        /\ d.agent = None /\ d.run = None
    BY <1>5, <2>2 DEF Call, Calls, Ops, Lists, Answers
  <2>4. PICK q : q = [o EXCEPT ![1] = d]
    OBVIOUS
  <2>5. 1 \in 1..Len(o) /\ c = o[1] /\ Put(o, 1, d, q)
    BY <1>1, <1>2, <2>1, <2>3, <2>4 DEF Put
  <2>6. Throw(r, q)
    BY <1>1, <1>2, <1>4, <1>7, <2>1, <2>2, <2>4 DEF FinalMessages
  <2>7. Carried(d) = {} /\ (HasSent(d) => HasSent(c)) /\ CalmCall(d)
    BY <1>2, <2>3, Marked DEF Carried, HasSent, CalmCall, Honest, NewRun, Arrived, Lists
  <2>8. \A j \in 1..Len(o) : CalmCall(o[j]) /\ (j # 1 => InTurn(o[1], o[j]))
    BY <2>1, <2>5 DEF AllCalm, CallsCalm, Turns
  <2>9. Turns(q)
    <3>1. ASSUME NEW j \in 1..Len(o), j # 1
          PROVE  InTurn(d, o[j])
      BY <2>5, <2>7, <2>8, <3>1 DEF InTurn
    <3>2. Turns(o) /\ \A j \in 1..Len(o) : (j < 1 => InTurn(o[j], d)) /\ (1 < j => InTurn(d, o[j]))
      BY <2>1, <3>1 DEF AllCalm
    <3> QED
      BY <2>5, <3>2, PutKeeps
  <2>10. \A s : Posting(o, s) => Posting(q, s)
    <3>1. \A s : ~ Posts(o[1], s)
      BY <1>2, <2>5 DEF Posts
    <3> QED
      BY <2>5, <3>1, PutPosts
  <2>11. /\ q \in Seq(Calls) /\ Len(q) = Len(o) /\ q[1] = d
         /\ \A j \in 1..Len(o) : j # 1 => q[j] = o[j]
    BY <2>1, <2>3, <2>4, <2>5
  <2>12. \A s : Ending(q, s) => Ending(o, s)
    BY <2>3, <2>11 DEF Ending
  <2>13. \A e : Has(q, e) => CalmCall(e)
    BY <2>7, <2>8, <2>11 DEF Has
  <2>14. ASSUME NEW a \in Agents \cup {None}, a = None \/ Live(a)
         PROVE  \A s, t : Passes(o, q, a, s, s, t)
    <3>1. Payload(d, a) = Payload(o[1], a) /\ (Coming(o[1], a) => Coming(d, a))
      BY <1>2, <1>4, <2>3, <2>5, <2>14, Marked DEF Payload, Listing, Coming, Lists, Commands
    <3>2. Comes(o, a) => Comes(q, a)
      BY <2>5, <3>1, PutBrings
    <3>3. \A s, t : Brings(o, a, s, t) => Brings(q, a, s, t)
      BY <2>5, <3>1, PutBrings
    <3> QED
      BY <3>2, <3>3 DEF Passes
  <2> QED
    BY <1>3, <1>4, <2>1, <2>6, <2>9, <2>10, <2>11, <2>12, <2>13, <2>14, ThrownCalm
<1> QED
  BY <1>6, <1>7

-----------------------------------------------------------------------------
(* Rendering.                                                              *)

LEMMA RenderCalm ==
    ASSUME IInv, AllCalm, Render
    PROVE  AllCalm'
<1>1. effectDue' = TRUE /\ UNCHANGED <<server, agents, messages, activeRun, polls, calls>>
  BY DEF Render, view
<1>2. PICK q : q = calls
  OBVIOUS
<1>3. calls' = q /\ \A r : Looping(r)' <=> Looping(r)
  BY <1>1, <1>2 DEF Looping
<1>4. Watching
  BY <1>2, <1>3 DEF Watching, Watched
<1>5. ASSUME NEW c, Has(q, c)
      PROVE  Honest(c) /\ NewRun(c)' /\ \A w \in Carried(c) : ViewWatched(w)
  <2>1. CalmCall(c)
    BY <1>2, <1>5 DEF Has, AllCalm, CallsCalm
  <2>2. UNCHANGED <<server, activeRun>> /\ \A r : Looping(r)' => Looping(r)
    BY <1>1, <1>3
  <2> QED
    BY <2>1, <2>2, StillCalm
<1>6. Turns(q)
  BY <1>2 DEF AllCalm
<1>7. ViewCalm'
  <2> SUFFICES ASSUME activeRun # None
               PROVE  ViewOK(activeRun)'
    BY <1>1 DEF ViewCalm
  <2>1. PICK v \in RunViews : v = activeRun
    BY DEF IInv, TypedPage
  <2>2. ViewOK(v)' = ViewOK(v)
    BY <1>1, ServerSame
  <2> QED
    BY <1>1, <2>1, <2>2 DEF AllCalm, ViewCalm
<1>8. ListSettles'
  <2>1. \A s, t : Passes(q, q, None, s, s, t)
    BY DEF Passes
  <2>2. Passes(calls, calls', None, agents, agents', AgentList)
    BY <1>1, <1>2, <1>3, <2>1
  <2> QED
    BY <1>1, <1>4, <2>2, ListStays DEF IInv
<1>9. TalkSettles'
  BY <1>1 DEF TalkSettles
<1> QED
  BY <1>1, <1>3, <1>4, <1>5, <1>6, <1>7, <1>8, <1>9, CalmKeeps DEF IInv

LEMMA EffectCalm ==
    ASSUME IInv, AllCalm, Effect
    PROVE  AllCalm'
<1>1. /\ activeRun' = None /\ UNCHANGED <<server, agents, ref, polls>>
      /\ IF ref = None THEN UNCHANGED calls
         ELSE calls' = Append(calls, Pair("load", ref, None)) /\ UNCHANGED messages
  BY DEF Effect, EffectRun
<1>2. PICK q \in Seq(Calls) : q = calls
  BY DEF IInv, CallsOK
<1>3. PICK d : d = Pair("load", ref, None)
  OBVIOUS
<1>4. Fresh(d) /\ d.op = "load" /\ d.agent = ref /\ d.fst = Sent
  <2>1. "load" \in Ops /\ ref \in Agents \cup {None} /\ None \in RunIds \cup {None}
    BY DEF Ops, IInv, TypedPage
  <2> QED
    BY <1>3, <2>1, PairFresh
<1>5. PICK o : o = Append(q, d) /\ Add(q, d, o)
  BY <1>2, <1>4 DEF Add
<1>6. PICK p : p = calls'
  OBVIOUS
<1>7. p = IF ref = None THEN q ELSE o
  BY <1>1, <1>2, <1>3, <1>5, <1>6
<1>8. /\ Turns(q) => Turns(o)
      /\ \A s : Posting(q, s) => Posting(o, s)
      /\ \A s : Ending(o, s) => Ending(q, s)
      /\ \A a : Coming(d, a) => Comes(o, a)
  BY <1>4, <1>5, AddKeeps
<1>9. \A c : Has(o, c) => c = d \/ Has(q, c)
  BY <1>5, AddKeeps
<1>10. \A c : Has(p, c) => CalmCall(c)
  <2>1. CalmCall(d)
    BY <1>4, FreshCalm
  <2>2. \A c : Has(q, c) => CalmCall(c)
    BY <1>2 DEF Has, AllCalm, CallsCalm
  <2> QED
    BY <1>7, <1>9, <2>1, <2>2
<1>11. /\ Turns(p)
       /\ \A s : Posting(q, s) => Posting(p, s)
       /\ \A s : Ending(p, s) => Ending(q, s)
  BY <1>2, <1>7, <1>8 DEF AllCalm
<1>12. \A r : Looping(r)' <=> Looping(r)
  BY <1>1 DEF Looping
<1>13. Watching
  BY <1>2, <1>6, <1>11, <1>12 DEF Watching, Watched
<1>14. ASSUME NEW c, Has(p, c)
       PROVE  Honest(c) /\ NewRun(c)' /\ \A w \in Carried(c) : ViewWatched(w)
  <2>1. CalmCall(c)
    BY <1>10, <1>14
  <2>2. UNCHANGED server /\ (activeRun' = None \/ activeRun' = activeRun)
    BY <1>1
  <2>3. \A r : Looping(r)' => Looping(r)
    BY <1>12
  <2> QED
    BY <2>1, <2>2, <2>3, StillCalm
<1>15. ListSettles'
  <2>1. \A s, t : Passes(q, p, None, s, s, t)
    BY <1>5, <1>7, AddPasses DEF Passes
  <2>2. agents' = agents
    BY <1>1
  <2>3. Passes(calls, calls', None, agents, agents', AgentList)
    BY <1>2, <1>6, <2>1, <2>2
  <2> QED
    BY <1>1, <1>13, <2>3, ListStays DEF IInv
<1>16. TalkSettles'
  <2>1. ref # None => Coming(d, ref)
    BY <1>4 DEF Coming
  <2>2. ref # None => Comes(p, ref)
    BY <1>7, <1>8, <2>1
  <2>3. ref' = ref
    BY <1>1
  <2> QED
    BY <1>6, <2>2, <2>3 DEF TalkSettles, Settles
<1>17. ViewCalm'
  BY <1>1 DEF ViewCalm
<1> QED
  BY <1>1, <1>6, <1>11, <1>13, <1>14, <1>15, <1>16, <1>17, CalmKeeps DEF IInv

-----------------------------------------------------------------------------
(* Steps of the server.                                                    *)

\* What has been said of a run stays true.
Lasts ==
    /\ \A a \in Agents : Born(a) /\ Live(a)' => Live(a)
    /\ \A r \in Started : Live(r[1])' =>
          /\ r \in Started'
          /\ runs[r[1]][r[2]] # "active" => runs'[r[1]][r[2]] = runs[r[1]][r[2]]

LEMMA ViewLasts ==
    ASSUME Lasts, NEW v \in RunViews, RunKnown(v.run), ViewOK(v), ViewWatched(v), Watching
    PROVE  ViewOK(v)' /\ ViewWatched(v)'
<1>1. v.run \in RunIds /\ v.run[1] \in Agents
  BY RunIdParts DEF RunViews
<1>2. Live(v.run[1])' => Live(v.run[1])
  BY <1>1 DEF Lasts, RunKnown
<1>3. ViewOK(v)'
  BY <1>2 DEF Lasts, ViewOK
<1>4. ViewWatched(v)'
  BY <1>1, <1>2 DEF ViewWatched, Watching
<1> QED
  BY <1>3, <1>4

LEMMA ViewOKLasts ==
    ASSUME Lasts, NEW v \in RunViews, RunKnown(v.run), ViewOK(v)
    PROVE  ViewOK(v)'
<1>1. v.run \in RunIds /\ v.run[1] \in Agents
  BY RunIdParts DEF RunViews
<1>2. Live(v.run[1])' => Live(v.run[1])
  BY <1>1 DEF Lasts, RunKnown
<1> QED
  BY <1>2 DEF Lasts, ViewOK

LEMMA CallLasts ==
    ASSUME Lasts, Watching, UNCHANGED <<polls, activeRun>>, NEW c, CallOK(c), CalmCall(c)
    PROVE  CalmCall(c)'
<1>1. \A v \in Carried(c) : ViewOK(v)' /\ ViewWatched(v)'
  <2>1. \A v \in Carried(c) : v \in RunViews /\ RunKnown(v.run) /\ ViewOK(v) /\ ViewWatched(v)
    BY DEF CallOK, CalmCall, Honest, Carried
  <2> QED
    BY <2>1, ViewLasts
<1>2. c.op \in {"load", "final", "poll", "send"} => c.agent \in Agents /\ (Live(c.agent)' => Live(c.agent))
  BY DEF CallOK, CallTyped, Lasts
<1>3. Honest(c)'
  BY <1>1, <1>2 DEF CalmCall, Honest
<1>4. NewRun(c)'
  BY <1>2 DEF CalmCall, NewRun, Looping
<1> QED
  BY <1>1, <1>3, <1>4 DEF CalmCall

LEMMA ServerCalm ==
    ASSUME IInv, AllCalm, Lasts, UNCHANGED <<polls, activeRun, effectDue>>,
           Watching, Turns(calls'),
           \A c : Has(calls', c) => CalmCall(c)' \/ (CalmCall(c) /\ CallOK(c)),
           \A r \in Started' : runs'[r[1]][r[2]] = "active" =>
               Watched(r)' \/ (r \in Started /\ runs[r[1]][r[2]] = "active"),
           Served', ListSettles', TalkSettles'
    PROVE  AllCalm'
<1>1. CallsCalm'
  <2>1. PICK q : q = calls'
    OBVIOUS
  <2>2. ASSUME NEW k \in 1..Len(q)
        PROVE  CalmCall(q[k])'
    <3>1. PICK c : c = q[k]
      OBVIOUS
    <3>2. Has(calls', c)
      BY <2>1, <3>1 DEF Has
    <3>3. CalmCall(c)'
      BY <3>2, CallLasts
    <3> QED
      BY <3>1, <3>3
  <2> QED
    BY <2>1, <2>2 DEF CallsCalm
<1>2. RunsWatched'
  <2>1. ASSUME NEW r \in Started', runs'[r[1]][r[2]] = "active"
        PROVE  Watched(r)'
    <3>1. Watched(r)' \/ (r \in Started /\ runs[r[1]][r[2]] = "active")
      BY <2>1
    <3>2. r \in Started => r \in RunIds /\ Live(r[1])
      BY StartedLive DEF IInv
    <3> QED
      BY <3>1, <3>2 DEF AllCalm, RunsWatched, Watching
  <2> QED
    BY <2>1 DEF RunsWatched
<1>3. ViewCalm'
  <2> SUFFICES ASSUME activeRun # None
               PROVE  ViewOK(activeRun)' /\ (~ effectDue => ViewWatched(activeRun)')
    BY DEF ViewCalm
  <2>1. PICK v \in RunViews : v = activeRun
    BY DEF IInv, TypedPage
  <2>2. RunKnown(v.run) /\ ViewOK(v) /\ (~ effectDue => ViewWatched(v))
    BY <2>1 DEF AllCalm, ViewCalm, IInv, Known
  <2>3. ViewOK(v)' /\ (~ effectDue => ViewWatched(v)')
    BY <2>2, ViewLasts, ViewOKLasts
  <2> QED
    BY <2>1, <2>3
<1>4. Turns(calls)'
  OBVIOUS
<1> QED
  BY <1>1, <1>2, <1>3, <1>4 DEF AllCalm

LEMMA FinishCalm ==
    ASSUME IInv, AllCalm, NEW r \in Started, Finish(r) \/ Lapse(r), UNCHANGED faults
    PROVE  AllCalm'
<1>1. PICK status \in {"completed", "ended"} :
          /\ runs[r[1]][r[2]] = "active" /\ runs' = [runs EXCEPT ![r[1]][r[2]] = status]
          /\ UNCHANGED <<agents, ref, effectDue, messages, activeRun, polls, calls>>
  <2>1. ~ Lapse(r)
    BY DEF Lapse, AllCalm, Served
  <2>2. faults \in Nat
    BY DEF IInv, TypedPage
  <2>3. PICK status \in {"completed", "unrecorded", "ended"} :
          /\ runs' = [runs EXCEPT ![r[1]][r[2]] = status]
          /\ status = "unrecorded" => faults' = faults + 1
    BY <2>1 DEF Finish
  <2>4. status # "unrecorded"
    BY <2>2, <2>3
  <2> QED
    BY <2>1, <2>3, <2>4 DEF Finish, select, view
<1>2. r \in RunIds /\ r[1] \in Agents /\ Live(r[1]) /\ Watched(r)
  BY <1>1, StartedLive DEF IInv, AllCalm, RunsWatched
<1>3. \A a \in Agents : a # r[1] => runs'[a] = runs[a]
  BY <1>1 DEF IInv, TypedServer
<1>4. /\ Len(runs'[r[1]]) = Len(runs[r[1]])
      /\ \A k \in 1..Len(runs[r[1]]) : runs'[r[1]][k] = IF k = r[2] THEN status ELSE runs[r[1]][k]
  <2>1. PICK s \in Seq(RunStatuses) : s = runs[r[1]]
    BY <1>2 DEF IInv, TypedServer
  <2>2. runs'[r[1]] = [s EXCEPT ![r[2]] = status]
    BY <1>1, <1>2, <2>1 DEF IInv, TypedServer
  <2> QED
    BY <2>1, <2>2
<1>5. \A s \in Started : s \in RunIds /\ s[1] \in Agents /\ s[2] \in 1..Len(runs[s[1]])
  BY ShownTyped, RunIdParts DEF IInv
<1>6. Started' = Started
  BY <1>3, <1>4, RunIdParts DEF Started
<1>7. \A s \in Started : runs'[s[1]][s[2]] = IF s = r THEN status ELSE runs[s[1]][s[2]]
  <2>1. \A s \in Started : s[1] = r[1] /\ s[2] = r[2] => s = r
    BY <1>2, <1>5, RunIdParts
  <2> QED
    BY <1>3, <1>4, <1>5, <2>1
<1>8. \A a \in Agents : Live(a)' <=> Live(a)
  BY EndKeeps DEF Alike
<1>9. Lasts
  <2>1. \A s \in Started : runs[s[1]][s[2]] # "active" => runs'[s[1]][s[2]] = runs[s[1]][s[2]]
    BY <1>1, <1>7
  <2> QED
    BY <1>6, <1>8, <2>1 DEF Lasts
<1>10. PICK q : q = calls
  OBVIOUS
<1>11. calls' = q /\ \A s : Looping(s)' <=> Looping(s)
  BY <1>1, <1>10 DEF Looping
<1>12. \A s : Watched(s)' <=> Watched(s)
  BY <1>10, <1>11 DEF Watched
<1>13. Watching
  BY <1>12 DEF Watching
<1>14. Turns(q) /\ \A c : Has(q, c) => CalmCall(c) /\ CallOK(c)
  BY <1>10 DEF AllCalm, CallsCalm, Has, IInv, CallsOK
<1>15. \A s \in Started' : runs'[s[1]][s[2]] = "active" => s \in Started /\ runs[s[1]][s[2]] = "active"
  BY <1>6, <1>7
<1>16. Awake(None)' /\ Awake(r[1])'
  BY <1>2, <1>8, <1>12 DEF Awake
<1>17. ListSettles'
  BY <1>16 DEF ListSettles, Settles
<1>18. Served'
  <2>1. \A s \in Started' : runs'[s[1]][s[2]] \notin {"unrecorded", "lapsed"}
    BY <1>6, <1>7 DEF AllCalm, Served
  <2>2. ASSUME NEW a \in Agents, Busy(a)'
        PROVE  \E s \in Started' : s[1] = a /\ runs'[s[1]][s[2]] = "active"
    <3>1. service'[a] = service[a]
      BY <2>2, EndKeeps DEF Busy
    <3>2. a # r[1]
      BY <2>2 DEF Busy, Finish, Lapse, Free, IInv, TypedServer
    <3>3. PICK s \in Started : s[1] = a /\ runs[s[1]][s[2]] = "active"
      BY <2>2, <3>1 DEF AllCalm, Served, Busy
    <3> QED
      BY <1>6, <1>7, <3>2, <3>3
  <2> QED
    BY <2>1, <2>2 DEF Served
<1>19. TalkSettles'
  <2> SUFFICES ASSUME ~ effectDue', ref # None, Live(ref)'
               PROVE  Settles(ref, messages, MessagesOf(ref))'
    BY <1>1 DEF TalkSettles
  <2>1. PICK a \in Agents : a = ref
    BY DEF IInv, TypedPage
  <2>2. CASE a = r[1]
    BY <1>1, <1>16, <2>1, <2>2 DEF Settles
  <2>3. CASE a # r[1]
    <3>1. runs'[a] = runs[a]
      BY <1>3, <2>3
    <3>2. MessagesOf(a)' = MessagesOf(a)
      BY <3>1 DEF MessagesOf, Exchange
    <3>3. Awake(a) => Awake(a)'
      BY <1>8, <1>12, RunIdParts DEF Awake
    <3>4. Settles(a, messages, MessagesOf(a))
      BY <1>1, <1>8, <2>1 DEF AllCalm, TalkSettles
    <3>5. PICK m, t : m = messages /\ t = MessagesOf(a)
      OBVIOUS
    <3>6. Comes(q, a) \/ Awake(a)' \/ Brings(q, a, m, t)
      BY <1>10, <3>3, <3>4, <3>5 DEF Settles
    <3>7. Settles(a, messages, MessagesOf(a))'
      BY <1>1, <1>11, <3>2, <3>5, <3>6 DEF Settles
    <3> QED
      BY <1>1, <2>1, <3>7
  <2> QED
    BY <2>2, <2>3
<1> QED
  BY <1>1, <1>9, <1>11, <1>13, <1>14, <1>15, <1>17, <1>19, <1>18, ServerCalm

LEMMA RefusedCalm ==
    ASSUME IInv, Calm, AllCalm, UNCHANGED <<server, polls, activeRun, ref, effectDue, agents, messages>>,
           NEW i \in 1..Len(calls), MayAnswer(i), calls[i].op \in Commands \cup {"send"}, calls[i].fst = Sent,
           calls' = [calls EXCEPT ![i].fst = Failed]
    PROVE  AllCalm'
<1>1. PICK c \in Calls : c = calls[i] /\ CallTyped(c) /\ Honest(c)
  BY DEF IInv, CallsOK, CallOK, CallTyped, AllCalm, CallsCalm, CalmCall
<1>2. PICK d : d = [c EXCEPT !.fst = Failed]
  OBVIOUS
<1>3. calls' = [calls EXCEPT ![i] = d]
  BY <1>1, <1>2
<1>4. d \in Calls /\ d.op = c.op /\ d.agent = c.agent /\ d.run = c.run /\ d.fst = Failed /\ d.snd = c.snd
  BY <1>1, <1>2 DEF Calls, Answers
<1>5. c.op \in Commands \cup {"send"} /\ c.fst = Sent /\ HasSent(c)
  BY <1>1 DEF HasSent
<1>6. c.op \notin Lists \cup {"messages", "load", "final", "poll"}
  BY <1>5 DEF Commands, Lists
<1>7. \A j \in 1..(i - 1) : ~ HasSent(calls[j])
  BY DEF MayAnswer, Calm, HasSent
<1>8. Carried(d) = {}
  BY <1>4, <1>6, Marked DEF Carried
<1>9. Honest(d)
  <2>1. c.snd = Done
    BY <1>1, <1>6 DEF CallTyped, SecondTyped
  <2> QED
    BY <1>4, <1>6, <1>8, <2>1 DEF Honest, Arrived
<1>10. ASSUME NEW a
       PROVE  Tells(c, d, a)
  <2>1. c.fst # "ok"
    BY <1>1, <1>5, Marked
  <2>2. Payload(c, a) = {} /\ Payload(d, a) = {}
    BY <1>4, <1>6 DEF Payload, Listing
  <2>3. ~ Coming(c, a)
    BY <1>6, <2>1 DEF Coming
  <2> QED
    BY <2>2, <2>3 DEF Tells
<1> QED
  BY <1>1, <1>3, <1>4, <1>5, <1>7, <1>8, <1>9, <1>10, AnsweredCalm

\* The server handles a call in its turn.
LEMMA HandledKeeps ==
    ASSUME IInv, Calm, AllCalm, NEW i \in 1..Len(calls), MayAnswer(i), HasSent(calls[i]),
           NEW d \in Calls, d.op = calls[i].op, d.run = calls[i].run,
           \A c : CallOK(c) => \A v \in Carried(c), w \in Carried(d) : v.run # w.run,
           NEW p, p = [calls EXCEPT ![i] = d]
    PROVE  /\ Put(calls, i, d, p)
           /\ Turns(p)
           /\ \A r : Posting(calls, r) => Posting(p, r)
           /\ \A r : Ending(p, r) => Ending(calls, r)
           /\ \A c : Has(p, c) => c = d \/ (CalmCall(c) /\ CallOK(c))
<1>1. PICK q \in Seq(Calls) : q = calls
  BY DEF IInv, CallsOK
<1>2. i \in 1..Len(q) /\ Put(q, i, d, p)
  BY <1>1 DEF Put
<1>3. \A j \in 1..(i - 1) : ~ HasSent(calls[j])
  BY DEF MayAnswer, Calm, HasSent
<1>4. /\ \A j \in 1..Len(q) : CallOK(q[j]) /\ CallTyped(q[j]) /\ CalmCall(q[j])
      /\ \A j \in 1..Len(q) : j < i => ~ HasSent(q[j])
      /\ \A j \in 1..Len(q) : i < j => ~ Answered(q[j]) /\ Carried(q[j]) = {} /\ \A a : Payload(q[j], a) = {}
      /\ \A r : ~ Posts(q[i], r)
  BY <1>1, <1>2, <1>3, AroundAnswer
<1>5. ASSUME NEW j \in 1..Len(q), i < j
      PROVE  InTurn(d, q[j])
  BY <1>4, <1>5 DEF InTurn
<1>6. ASSUME NEW j \in 1..Len(q), j < i
      PROVE  InTurn(q[j], d)
  BY <1>4, <1>6 DEF InTurn
<1>7. Turns(p)
  <2>1. Turns(q) /\ \A j \in 1..Len(q) : (j < i => InTurn(q[j], d)) /\ (i < j => InTurn(d, q[j]))
    BY <1>1, <1>5, <1>6 DEF AllCalm
  <2> QED
    BY <1>2, <2>1, PutKeeps
<1>8. \A r : Posting(q, r) => Posting(p, r)
  BY <1>2, <1>4, PutPosts
<1>9. /\ Len(p) = Len(q) /\ p[i] = d
      /\ \A j \in 1..Len(q) : j # i => p[j] = q[j]
  BY <1>1, <1>2 DEF Put
<1>10. \A r : Ending(p, r) => Ending(q, r)
  <2>1. \A j \in 1..Len(q) : p[j].op = q[j].op /\ p[j].run = q[j].run
    BY <1>1, <1>9
  <2> QED
    BY <1>9, <2>1 DEF Ending
<1>11. \A c : Has(p, c) => c = d \/ (CalmCall(c) /\ CallOK(c))
  BY <1>4, <1>9 DEF Has
<1> QED
  BY <1>1, <1>2, <1>7, <1>8, <1>10, <1>11

\* sendMessage accepts the prompt: the Agent has one run more, which the page hears of.
LEMMA StartedCalm ==
    ASSUME IInv, Calm, AllCalm, NEW i \in 1..Len(calls), AnswerSend(i),
           service[calls[i].agent] = "ready"
    PROVE  AllCalm'
<1>1. PICK c \in Calls : c = calls[i] /\ CallTyped(c) /\ CallOK(c) /\ Honest(c)
  BY DEF IInv, CallsOK, CallOK, CallTyped, AllCalm, CallsCalm, CalmCall
<1>2. /\ c.op = "send" /\ c.fst = Sent /\ MayAnswer(i) /\ HasSent(c)
      /\ UNCHANGED <<agents, ref, effectDue, messages, activeRun, polls>>
  BY <1>1 DEF AnswerSend, HasSent, select, view
<1>3. PICK a \in Agents : a = c.agent /\ service[a] = "ready"
  BY <1>1, <1>2 DEF CallTyped
<1>4. PICK s \in Seq(RunStatuses) : s = runs[a]
  BY DEF IInv, TypedServer
<1>5. PICK n \in Nat : n = Len(s) /\ n < MaxRuns
  <2>1. Cardinality(Started) < MaxRuns
    BY <1>1, <1>3 DEF AnswerSend, Admit
  <2>2. Len(runs[a]) < MaxRuns
    BY <2>1, RoomForRun DEF IInv
  <2> QED
    BY <1>4, <2>2
<1>6. PICK r : r = <<a, n + 1>>
  OBVIOUS
<1>7. PICK v : v = [run |-> r, status |-> "active"]
  OBVIOUS
<1>8. r \in RunIds /\ r[1] = a /\ r[2] = n + 1 /\ v \in RunViews /\ v.run = r /\ v.status = "active"
  BY <1>5, <1>6, <1>7, RunIdParts DEF RunViews
<1>9. PICK d : d = [c EXCEPT !.fst = v]
  OBVIOUS
<1>10. runs' = [runs EXCEPT ![a] = Append(s, "active")] /\ calls' = [calls EXCEPT ![i] = d]
  BY <1>1, <1>3, <1>4, <1>5, <1>6, <1>7, <1>9 DEF AnswerSend, Admit
<1>11. d \in Calls /\ d.op = "send" /\ d.agent = a /\ d.run = c.run /\ d.fst = v /\ d.snd = Done
  <2>1. v \in Answers
    BY <1>8 DEF Answers
  <2>2. c.snd = Done
    BY <1>1, <1>2 DEF CallTyped, SecondTyped
  <2> QED
    BY <1>1, <1>2, <1>3, <1>9, <2>1, <2>2 DEF Calls
<1>12. /\ Len(runs'[a]) = n + 1 /\ runs'[a][n + 1] = "active"
       /\ \A k \in 1..n : runs'[a][k] = runs[a][k]
       /\ \A b \in Agents : b # a => runs'[b] = runs[b]
  BY <1>4, <1>5, <1>10 DEF IInv, TypedServer
<1>13. \A b \in Agents : /\ Live(b)' <=> Live(b)
                        /\ service'[b] = IF b = a THEN "busy" ELSE service[b]
  <2>1. Admit(a)
    BY <1>1, <1>3 DEF AnswerSend
  <2> QED
    BY <1>3, <2>1, Admitted DEF IInv, Alike
<1>14. Live(a)
  BY <1>3 DEF Live
<1>15. r \notin Started
  BY <1>4, <1>5, <1>8 DEF Started
<1>16. \A q \in Started : q \in RunIds /\ q[1] \in Agents /\ q[2] \in 1..Len(runs[q[1]])
  BY ShownTyped, RunIdParts DEF IInv
<1>17. \A q \in Started : q \in Started' /\ runs'[q[1]][q[2]] = runs[q[1]][q[2]]
  <2> SUFFICES ASSUME NEW q \in Started
               PROVE  q \in Started' /\ runs'[q[1]][q[2]] = runs[q[1]][q[2]]
    OBVIOUS
  <2>1. q \in RunIds /\ q[1] \in Agents /\ q[2] \in 1..Len(runs[q[1]])
    BY <1>16
  <2>2. CASE q[1] = a
    BY <1>4, <1>5, <1>12, <2>1, <2>2 DEF Started
  <2>3. CASE q[1] # a
    BY <1>12, <2>1, <2>3 DEF Started
  <2> QED
    BY <2>2, <2>3
<1>18. \A q \in Started' : q \in Started \/ q = r
  <2> SUFFICES ASSUME NEW q \in RunIds, q \in Started', q \notin Started
               PROVE  q = r
    BY DEF Started
  <2>1. q = <<q[1], q[2]>> /\ q[1] \in Agents /\ q[2] \in Nat
    BY RunIdParts
  <2>2. q[1] = a /\ q[2] = n + 1
    BY <1>4, <1>5, <1>12, <2>1 DEF Started
  <2> QED
    BY <1>6, <2>1, <2>2
<1>19. r \in Started' /\ runs'[r[1]][r[2]] = "active"
  BY <1>8, <1>12 DEF Started
<1>20. Lasts
  BY <1>13, <1>17 DEF Lasts
<1>21. Carried(d) = {v}
  BY <1>8, <1>11 DEF Carried
<1>22. ASSUME NEW q, RunKnown(q)
       PROVE  q # r
  BY <1>8, <1>14, <1>15, <1>22 DEF RunKnown
<1>23. \A e : CallOK(e) => \A x \in Carried(e), w \in Carried(d) : x.run # w.run
  <2>1. \A e : CallOK(e) => \A x \in Carried(e) : RunKnown(x.run)
    BY DEF CallOK
  <2> QED
    BY <1>8, <1>21, <1>22, <2>1
<1>24. PICK p : p = [calls EXCEPT ![i] = d]
  OBVIOUS
<1>25. /\ Put(calls, i, d, p) /\ Turns(p)
       /\ \A q : Posting(calls, q) => Posting(p, q)
       /\ \A q : Ending(p, q) => Ending(calls, q)
       /\ \A e : Has(p, e) => e = d \/ (CalmCall(e) /\ CallOK(e))
  BY <1>1, <1>2, <1>11, <1>23, <1>24, HandledKeeps
<1>26. calls' = p /\ \A q : Looping(q)' <=> Looping(q)
  BY <1>2, <1>10, <1>24 DEF Looping
<1>27. Watching
  BY <1>25, <1>26 DEF Watching, Watched
<1>28. Watched(r)'
  <2>1. Posts(d, r)
    BY <1>8, <1>11 DEF Posts
  <2>2. Posting(p, r)
    BY <1>25, <2>1, PutKeeps
  <2> QED
    BY <1>26, <2>2 DEF Watched
<1>29. CalmCall(d)'
  <2>1. \A x \in Carried(d) : ViewOK(x)' /\ ViewWatched(x)'
    BY <1>8, <1>19, <1>21, <1>28 DEF ViewOK, ViewWatched
  <2>2. Honest(d)'
    BY <1>11, <2>1 DEF Honest, Lists, Arrived
  <2>3. ~ Looping(r)
    BY <1>22 DEF Looping, IInv, Known
  <2>4. activeRun = None \/ activeRun.run # r
    BY <1>22 DEF IInv, Known
  <2>5. NewRun(d)'
    <3>1. ~ Looping(r)' /\ (activeRun' = None \/ activeRun'.run # r)
      BY <1>2, <1>26, <2>3, <2>4
    <3> QED
      BY <1>8, <1>11, <3>1 DEF NewRun
  <2> QED
    BY <2>1, <2>2, <2>5 DEF CalmCall
<1>30. \A e : Has(p, e) => CalmCall(e)' \/ (CalmCall(e) /\ CallOK(e))
  BY <1>25, <1>29
<1>31. \A q \in Started' : runs'[q[1]][q[2]] = "active" =>
          Watched(q)' \/ (q \in Started /\ runs[q[1]][q[2]] = "active")
  BY <1>17, <1>18, <1>28
<1>32. Awake(None)' /\ Awake(a)'
  BY <1>8, <1>13, <1>14, <1>28 DEF Awake
<1>33. Served'
  <2>1. \A q \in Started' : runs'[q[1]][q[2]] \notin {"unrecorded", "lapsed"}
    BY <1>17, <1>18, <1>19 DEF AllCalm, Served
  <2>2. ASSUME NEW b \in Agents, Busy(b)'
        PROVE  \E q \in Started' : q[1] = b /\ runs'[q[1]][q[2]] = "active"
    <3>1. CASE b = a
      BY <1>8, <1>19, <3>1
    <3>2. CASE b # a
      <4>1. PICK q \in Started : q[1] = b /\ runs[q[1]][q[2]] = "active"
        BY <1>13, <2>2, <3>2 DEF AllCalm, Served, Busy
      <4> QED
        BY <1>17, <4>1
    <3> QED
      BY <3>1, <3>2
  <2> QED
    BY <2>1, <2>2 DEF Served
<1>34. ListSettles'
  BY <1>32 DEF ListSettles, Settles
<1>35. TalkSettles'
  <2> SUFFICES ASSUME ~ effectDue', ref # None, Live(ref)'
               PROVE  Settles(ref, messages, MessagesOf(ref))'
    BY <1>2 DEF TalkSettles
  <2>1. PICK b \in Agents : b = ref
    BY DEF IInv, TypedPage
  <2>2. CASE b = a
    BY <1>2, <1>32, <2>1, <2>2 DEF Settles
  <2>3. CASE b # a
    <3>1. runs'[b] = runs[b]
      BY <1>12, <2>3
    <3>2. MessagesOf(b)' = MessagesOf(b)
      BY <3>1 DEF MessagesOf, Exchange
    <3>3. Awake(b) => Awake(b)'
      BY <1>13, <1>27, RunIdParts DEF Awake, Watching
    <3>4. Settles(b, messages, MessagesOf(b))
      BY <1>2, <1>13, <2>1 DEF AllCalm, TalkSettles
    <3>5. PICK m, t : m = messages /\ t = MessagesOf(b)
      OBVIOUS
    <3>6. PICK q : q = calls
      OBVIOUS
    <3>7. b # None /\ Put(q, i, d, p) /\ c = q[i]
      BY <1>1, <1>25, <3>6, AgentSet
    <3>8. Payload(d, b) = Payload(q[i], b) /\ (Coming(q[i], b) => Coming(d, b))
      BY <1>2, <1>11, <3>7 DEF Payload, Coming
    <3>9. Comes(q, b) => Comes(p, b)
      BY <3>7, <3>8, PutBrings
    <3>10. Brings(q, b, m, t) => Brings(p, b, m, t)
      BY <3>7, <3>8, PutBrings
    <3>11. Comes(p, b) \/ Awake(b)' \/ Brings(p, b, m, t)
      BY <3>3, <3>4, <3>5, <3>6, <3>9, <3>10 DEF Settles
    <3>12. Settles(b, messages, MessagesOf(b))'
      BY <1>2, <1>26, <3>2, <3>5, <3>11 DEF Settles
    <3> QED
      BY <1>2, <2>1, <3>12
  <2> QED
    BY <2>2, <2>3
<1> QED
  BY <1>2, <1>20, <1>25, <1>26, <1>27, <1>30, <1>31, <1>34, <1>35, <1>33, ServerCalm

LEMMA SentCalm ==
    ASSUME IInv, Calm, AllCalm, NEW i \in 1..Len(calls), AnswerSend(i)
    PROVE  AllCalm'
<1>1. /\ calls[i].op = "send" /\ calls[i].fst = Sent /\ MayAnswer(i)
      /\ UNCHANGED <<agents, ref, effectDue, messages, activeRun, polls>>
  BY DEF AnswerSend, select, view
<1>2. CASE service[calls[i].agent] = "ready"
  BY <1>2, StartedCalm
<1>3. CASE service[calls[i].agent] # "ready"
  <2>1. UNCHANGED server /\ calls' = [calls EXCEPT ![i].fst = Failed]
    BY <1>3 DEF AnswerSend
  <2> QED
    BY <1>1, <2>1, RefusedCalm
<1> QED
  BY <1>2, <1>3

\* An accepted command: what it leaves of the runs of its Agent.
LEMMA CommandHandledCalm ==
    ASSUME IInv, Calm, AllCalm, NEW i \in 1..Len(calls), AnswerCommand(i),
           ~ Refused(calls[i].op, calls[i].agent)
    PROVE  AllCalm'
<1>1. PICK c \in Calls : c = calls[i] /\ CallTyped(c) /\ CallOK(c)
  BY DEF IInv, CallsOK, CallOK, CallTyped
<1>2. /\ c.op \in Commands /\ c.fst = Sent /\ MayAnswer(i) /\ HasSent(c)
      /\ UNCHANGED <<agents, ref, effectDue, messages, activeRun, polls>>
  BY <1>1 DEF AnswerCommand, HasSent, select, view
<1>3. PICK a \in Agents : a = c.agent /\ ~ Refused(c.op, a)
  BY <1>1, <1>2 DEF CallTyped, Commands
<1>4. PICK s \in Seq(RunStatuses) : s = runs[a]
  BY DEF IInv, TypedServer
<1>5. PICK d : d = [c EXCEPT !.fst = "ok"]
  OBVIOUS
<1>6. /\ calls' = [calls EXCEPT ![i] = d]
      /\ service' = [service EXCEPT ![a] = Becomes(c.op, service[a])]
      /\ runs' = [runs EXCEPT ![a] = After(c.op, s)]
  BY <1>1, <1>3, <1>4, <1>5 DEF AnswerCommand
<1>7. d \in Calls /\ d.op = c.op /\ d.agent = a /\ d.run = c.run /\ d.fst = "ok" /\ d.snd = Done
  <2>1. c.snd = Done
    BY <1>1, <1>2 DEF CallTyped, SecondTyped, Commands
  <2> QED
    BY <1>1, <1>3, <1>5, <2>1 DEF Calls, Answers
<1>8. /\ service'[a] = Becomes(c.op, service[a]) /\ runs'[a] = After(c.op, s)
      /\ \A b \in Agents : b # a => service'[b] = service[b] /\ runs'[b] = runs[b]
  BY <1>6 DEF IInv, TypedServer
<1>9. c.op \notin Lists \cup {"messages", "load", "final", "poll", "send"}
  BY <1>2 DEF Commands, Lists
<1>10. IF c.op = "create" THEN service[a] = "unborn" ELSE Live(a)
  BY <1>1, <1>2, <1>3 DEF CallOK, Refused
<1>11. \A b \in Agents : Born(b) /\ Live(b)' => Live(b)
  BY <1>2, <1>8, <1>10 DEF Born, Live, Becomes, Commands
<1>12. c.op = "delete" => ~ Live(a)' /\ runs'[a] = <<>>
  BY <1>8 DEF Live, Becomes, After
<1>13. c.op # "delete" =>
          /\ Len(runs'[a]) = Len(s)
          /\ \A k \in 1..Len(s) :
                runs'[a][k] = s[k] \/ (s[k] = "active" /\ runs'[a][k] = "ended")
  <2>1. /\ c.op # "delete" => Len(runs'[a]) = Len(s)
        /\ c.op # "delete" => \A k \in 1..Len(s) :
              runs'[a][k] = IF c.op = "stop" /\ k = Len(s) THEN Settled(s[k]) ELSE s[k]
    BY <1>4, <1>8 DEF After
  <2>2. \A k \in 1..Len(s) : s[k] # "unrecorded"
    <3>1. \A k \in 1..Len(s) : <<a, k>> \in Started
      BY <1>4, StartedOf DEF IInv
    <3> QED
      BY <1>4, <3>1 DEF AllCalm, Served
  <2>3. \A k \in 1..Len(s) : Settled(s[k]) = IF s[k] = "active" THEN "ended" ELSE s[k]
    BY <2>2 DEF Settled
  <2> QED
    BY <2>1, <2>3
<1>14. \A r \in Started : r \in RunIds /\ r[1] \in Agents /\ r[2] \in 1..Len(runs[r[1]])
  BY ShownTyped, RunIdParts DEF IInv
<1>15. Lasts
  <2>1. ASSUME NEW r \in Started, Live(r[1])'
        PROVE  /\ r \in Started'
               /\ runs[r[1]][r[2]] # "active" => runs'[r[1]][r[2]] = runs[r[1]][r[2]]
    <3>1. r \in RunIds /\ r[1] \in Agents /\ r[2] \in 1..Len(runs[r[1]])
      BY <1>14
    <3>2. CASE r[1] = a
      BY <1>4, <1>12, <1>13, <2>1, <3>1, <3>2 DEF Started
    <3>3. CASE r[1] # a
      BY <1>8, <3>1, <3>3 DEF Started
    <3> QED
      BY <3>2, <3>3
  <2> QED
    BY <1>11, <2>1 DEF Lasts
<1>16. ASSUME NEW r \in Started', runs'[r[1]][r[2]] = "active"
       PROVE  r \in Started /\ runs[r[1]][r[2]] = "active"
  <2>1. r \in RunIds /\ r[1] \in Agents /\ r[2] \in 1..MaxRuns /\ r[2] <= Len(runs'[r[1]])
    BY RunIdParts DEF Started
  <2>2. CASE r[1] = a
    <3>1. c.op # "delete"
      BY <1>12, <2>1, <2>2, RunIdParts
    <3>2. r[2] \in 1..Len(s)
      BY <1>4, <1>13, <2>1, <2>2, <3>1, RunIdParts
    <3> QED
      BY <1>4, <1>13, <1>16, <2>1, <2>2, <3>1, <3>2 DEF Started
  <2>3. CASE r[1] # a
    BY <1>8, <1>16, <2>1, <2>3 DEF Started
  <2> QED
    BY <2>2, <2>3
<1>17. Carried(d) = {}
  BY <1>7, <1>9 DEF Carried
<1>18. PICK p : p = [calls EXCEPT ![i] = d]
  OBVIOUS
<1>19. /\ Put(calls, i, d, p) /\ Turns(p)
       /\ \A r : Posting(calls, r) => Posting(p, r)
       /\ \A r : Ending(p, r) => Ending(calls, r)
       /\ \A e : Has(p, e) => e = d \/ (CalmCall(e) /\ CallOK(e))
  BY <1>1, <1>2, <1>7, <1>17, <1>18, HandledKeeps
<1>20. calls' = p /\ \A r : Looping(r)' <=> Looping(r)
  BY <1>2, <1>6, <1>18 DEF Looping
<1>21. Watching
  BY <1>19, <1>20 DEF Watching, Watched
<1>22. CalmCall(d)'
  BY <1>7, <1>9, <1>17, Marked DEF CalmCall, Honest, NewRun, Arrived
<1>23. \A e : Has(p, e) => CalmCall(e)' \/ (CalmCall(e) /\ CallOK(e))
  BY <1>19, <1>22
<1>24. Served'
  <2>1. ASSUME NEW r \in Started'
        PROVE  runs'[r[1]][r[2]] \notin {"unrecorded", "lapsed"}
    <3>1. r \in RunIds /\ r[1] \in Agents /\ r[2] \in 1..MaxRuns /\ r[2] <= Len(runs'[r[1]])
      BY RunIdParts DEF Started
    <3>2. CASE r[1] = a
      <4>1. c.op # "delete"
        BY <1>12, <3>1, <3>2, RunIdParts
      <4>2. r[2] \in 1..Len(s)
        BY <1>4, <1>13, <3>1, <3>2, <4>1, RunIdParts
      <4>3. s[r[2]] \notin {"unrecorded", "lapsed"}
        BY <1>4, <3>1, <3>2, <4>2 DEF AllCalm, Served, Started
      <4> QED
        BY <1>13, <3>2, <4>1, <4>2, <4>3
    <3>3. CASE r[1] # a
      BY <1>8, <3>1, <3>3 DEF AllCalm, Served, Started
    <3> QED
      BY <3>2, <3>3
  <2>2. ASSUME NEW b \in Agents, Busy(b)'
        PROVE  \E r \in Started' : r[1] = b /\ runs'[r[1]][r[2]] = "active"
    <3>1. b # a
      BY <1>2, <1>3, <1>8, <2>2 DEF Busy, Becomes, Refused, Commands
    <3>2. PICK r \in Started : r[1] = b /\ runs[r[1]][r[2]] = "active"
      BY <1>8, <2>2, <3>1 DEF AllCalm, Served, Busy
    <3> QED
      BY <1>8, <1>14, <3>1, <3>2 DEF Started
  <2> QED
    BY <2>1, <2>2 DEF Served
<1>25. ListSettles'
  <2>1. Coming(d, None)
    BY <1>2, <1>7 DEF Coming
  <2>2. Comes(p, None)
    BY <1>19, <2>1, PutBrings
  <2> QED
    BY <1>20, <2>2 DEF ListSettles, Settles
<1>26. TalkSettles'
  <2> SUFFICES ASSUME ~ effectDue', ref # None, Live(ref)'
               PROVE  Settles(ref, messages, MessagesOf(ref))'
    BY <1>2 DEF TalkSettles
  <2>1. PICK b \in Agents : b = ref
    BY DEF IInv, TypedPage
  <2>2. Live(b) /\ Live(b)'
    BY <1>2, <1>11, <2>1 DEF IInv, Known
  <2>3. MessagesOf(b)' = MessagesOf(b)
    <3>1. CASE b = a
      <4>1. Len(runs'[a]) = Len(s) /\ \A k \in 1..Len(s) : (runs'[a][k] \in Replied) <=> (s[k] \in Replied)
        BY <1>12, <1>13, <2>2, <3>1 DEF Replied
      <4>2. \A k \in 1..Len(s) : Exchange(<<a, k>>)' = Exchange(<<a, k>>)
        BY <1>4, <4>1 DEF Exchange
      <4> QED
        BY <1>4, <3>1, <4>1, <4>2 DEF MessagesOf
    <3>2. CASE b # a
      BY <1>8, <3>2 DEF MessagesOf, Exchange
    <3> QED
      BY <3>1, <3>2
  <2>4. Awake(b) => Awake(b)'
    BY <1>21, <2>1, <2>2, AgentSet DEF Awake, Watching
  <2>5. Settles(b, messages, MessagesOf(b))
    BY <1>2, <2>1, <2>2 DEF AllCalm, TalkSettles
  <2>6. PICK m, t : m = messages /\ t = MessagesOf(b)
    OBVIOUS
  <2>7. PICK q : q = calls
    OBVIOUS
  <2>8. b # None /\ Put(q, i, d, p) /\ c = q[i]
    BY <1>1, <1>19, <2>7, AgentSet
  <2>9. Payload(d, b) = Payload(q[i], b) /\ ~ Coming(q[i], b)
    BY <1>7, <1>9, <2>8 DEF Payload, Coming
  <2>10. Comes(q, b) => Comes(p, b)
    BY <2>8, <2>9, PutBrings
  <2>11. Brings(q, b, m, t) => Brings(p, b, m, t)
    BY <2>8, <2>9, PutBrings
  <2>12. Comes(p, b) \/ Awake(b)' \/ Brings(p, b, m, t)
    BY <2>4, <2>5, <2>6, <2>7, <2>10, <2>11 DEF Settles
  <2>13. Settles(b, messages, MessagesOf(b))'
    BY <1>2, <1>20, <2>3, <2>6, <2>12 DEF Settles
  <2> QED
    BY <1>2, <2>1, <2>13
<1> QED
  BY <1>2, <1>15, <1>16, <1>19, <1>20, <1>21, <1>23, <1>25, <1>26, <1>24, ServerCalm

LEMMA CommandAnsweredCalm ==
    ASSUME IInv, Calm, AllCalm, NEW i \in 1..Len(calls), AnswerCommand(i)
    PROVE  AllCalm'
<1>1. /\ calls[i].op \in Commands /\ calls[i].fst = Sent /\ MayAnswer(i)
      /\ UNCHANGED <<agents, ref, effectDue, messages, activeRun, polls>>
  BY DEF AnswerCommand, select, view
<1>2. CASE Refused(calls[i].op, calls[i].agent)
  <2>1. UNCHANGED server /\ calls' = [calls EXCEPT ![i].fst = Failed]
    BY <1>2 DEF AnswerCommand
  <2> QED
    BY <1>1, <2>1, RefusedCalm
<1>3. CASE ~ Refused(calls[i].op, calls[i].agent)
  BY <1>3, CommandHandledCalm
<1> QED
  BY <1>2, <1>3

-----------------------------------------------------------------------------
(* Every step, and the first states.                                       *)

LEMMA CalmBefore ==
    ASSUME IInv, Next, Calm'
    PROVE  Calm /\ faults' = faults
<1>1. ASSUME NEW i \in 1..Len(calls),
             \/ AnswerFirst(i) \/ AnswerSecond(i) \/ AnswerSend(i) \/ AnswerCommand(i)
             \/ Lose(i) \/ Apply(i)
      PROVE  UNCHANGED <<inOrder, unsent>> /\ (faults' = faults \/ faults' = faults + 1)
  <2>1. CASE Lose(i)
    BY <2>1 DEF Lose
  <2>2. CASE AnswerFirst(i) \/ AnswerSecond(i) \/ AnswerSend(i) \/ AnswerCommand(i)
    BY <2>2 DEF AnswerFirst, AnswerSecond, AnswerSend, AnswerCommand, budget
  <2>3. CASE Apply(i)
    BY <2>3 DEF Apply, Listed, Refreshed, LoadedMessages, LoadedRuns, Posted, Commanded, Polled,
                FinalMessages, FinalList, budget
  <2> QED
    BY <1>1, <2>1, <2>2, <2>3
<1>2. ASSUME Render \/ Effect
      PROVE  UNCHANGED <<inOrder, unsent, faults>>
  BY <1>2 DEF Render, Effect, budget
<1>3. ASSUME NEW r \in Started, Finish(r) \/ Lapse(r)
      PROVE  UNCHANGED <<inOrder, unsent>> /\ (faults' = faults \/ faults' = faults + 1)
  BY <1>3 DEF Finish, Lapse, budget
<1>4. ASSUME NEW p \in polls, Tick(p)
      PROVE  UNCHANGED <<inOrder, unsent, faults>>
  BY <1>4 DEF Tick, budget
<1>5. ASSUME NEW a \in Agents, Select(a)
      PROVE  UNCHANGED <<inOrder, unsent, faults>>
  BY <1>5 DEF Select, Acts
<1>6. ASSUME Send
      PROVE  UNCHANGED <<inOrder, unsent, faults>>
  BY <1>6 DEF Send, Acts
<1>7. ASSUME NEW op \in Commands, NEW a \in Agents, Command(op, a)
      PROVE  UNCHANGED <<inOrder, unsent, faults>>
  BY <1>7 DEF Command, Acts
<1>8. UNCHANGED <<inOrder, unsent>> /\ (faults' = faults \/ faults' = faults + 1)
  BY <1>1, <1>2, <1>3, <1>4, <1>5, <1>6, <1>7 DEF Next, OtherThanEffect
<1> QED
  BY <1>8 DEF Calm, IInv, TypedPage

LEMMA AppliedCalm ==
    ASSUME IInv, Calm, AllCalm, NEW i \in 1..Len(calls), Apply(i)
    PROVE  AllCalm'
<1>1. ~ Refreshed(i)
  <2>1. calls[i].op # "messages"
    BY DEF AllCalm, CallsCalm, CalmCall, Honest
  <2> QED
    BY <2>1 DEF Refreshed
<1>2. CASE Listed(i) \/ LoadedMessages(i) \/ LoadedRuns(i) \/ Commanded(i) \/ FinalList(i)
  BY <1>2, ListedCalm, LoadedMessagesCalm, LoadedRunsCalm, CommandedCalm, FinalListCalm
<1>3. CASE Posted(i)
  BY <1>3, PostFailedCalm, PostedCalm
<1>4. CASE Polled(i)
  BY <1>4, PollFailedCalm, PolledActiveCalm, PolledEndCalm
<1>5. CASE FinalMessages(i)
  BY <1>5, FinalReadCalm, FinalFailedCalm
<1> QED
  BY <1>1, <1>2, <1>3, <1>4, <1>5 DEF Apply

LEMMA CalmStep ==
    ASSUME IInv, CalmInv, Next
    PROVE  CalmInv'
<1> SUFFICES ASSUME Calm'
             PROVE  AllCalm'
  BY DEF CalmInv
<1>1. Calm /\ AllCalm /\ faults' = faults
  BY CalmBefore DEF CalmInv
<1>2. ASSUME NEW i \in 1..Len(calls),
             \/ AnswerFirst(i) \/ AnswerSecond(i) \/ AnswerSend(i) \/ AnswerCommand(i)
             \/ Lose(i) \/ Apply(i)
      PROVE  AllCalm'
  <2>1. ~ Lose(i)
    BY <1>1 DEF Lose, IInv, TypedPage
  <2> QED
    BY <1>1, <1>2, <2>1, FirstCalm, SecondCalm, SentCalm, CommandAnsweredCalm, AppliedCalm, Zenon
<1>3. ASSUME NEW r \in Started, Finish(r) \/ Lapse(r)
      PROVE  AllCalm'
  BY <1>1, <1>3, FinishCalm
<1>4. CASE Render
  BY <1>1, <1>4, RenderCalm
<1>5. ASSUME NEW p \in polls, Tick(p)
      PROVE  AllCalm'
  BY <1>1, <1>5, TickCalm
<1>6. ASSUME NEW a \in Agents, Select(a)
      PROVE  AllCalm'
  <2>1. UNCHANGED <<server, polls, activeRun, ref, effectDue, agents, messages, calls>>
    BY <1>6 DEF Select, Acts, view
  <2> QED
    BY <1>1, <2>1, AsideCalm
<1>7. CASE Send
  BY <1>1, <1>7, SendCalm
<1>8. ASSUME NEW op \in Commands, NEW a \in Agents, Command(op, a)
      PROVE  AllCalm'
  BY <1>1, <1>8, CommandCalm
<1>9. CASE Effect
  BY <1>1, <1>9, EffectCalm
<1> QED
  BY <1>2, <1>3, <1>4, <1>5, <1>6, <1>7, <1>8, <1>9, Zenon DEF Next, OtherThanEffect

LEMMA CalmStutter ==
    ASSUME IInv, CalmInv, UNCHANGED vars
    PROVE  CalmInv'
<1> SUFFICES ASSUME Calm'
             PROVE  AllCalm'
  BY DEF CalmInv
<1>1. UNCHANGED <<server, polls, activeRun, ref, effectDue, agents, messages, calls>>
      /\ UNCHANGED <<inOrder, unsent, faults>>
  BY DEF vars, select, view, budget
<1>2. AllCalm
  BY <1>1 DEF CalmInv, Calm
<1> QED
  BY <1>1, <1>2, AsideCalm

LEMMA OpenedCalm ==
    ASSUME Init
    PROVE  CalmInv
<1> SUFFICES ASSUME Calm
             PROVE  AllCalm
  BY DEF CalmInv
<1>1. PICK c : c = One("list", None, None)
  OBVIOUS
<1>2. /\ calls = <<c>> /\ activeRun = None /\ ref = None /\ runs = [a \in Agents |-> <<>>]
      /\ \A a \in Agents : service[a] # "busy"
  BY <1>1 DEF Init, Bootstrap, Calm
<1>3. Fresh(c) /\ c.op = "list" /\ c.fst = Sent
  BY <1>1, ListFresh
<1>4. PICK q : q = calls /\ Len(q) = 1 /\ q[1] = c
  BY <1>2
<1>5. CallsCalm /\ Turns(calls)
  <2>1. CalmCall(c)
    BY <1>3, FreshCalm
  <2>2. \A k \in 1..Len(q) : k = 1
    BY <1>4
  <2> QED
    BY <1>4, <2>1, <2>2 DEF CallsCalm, Turns
<1>6. RunsWatched
  <2>1. \A r \in RunIds : runs[r[1]] = <<>> /\ r[2] \in 1..MaxRuns
    BY <1>2, RunIdParts
  <2>2. Started = {}
    BY <2>1, RunIdParts DEF Started
  <2> QED
    BY <2>2 DEF RunsWatched
<1>7. Served
  <2>1. Started = {}
    BY <1>2, RunIdParts DEF Started
  <2> QED
    BY <1>2, <2>1 DEF Served, Busy
<1>8. ListSettles
  <2>1. Coming(c, None)
    BY <1>3 DEF Coming, Lists
  <2> QED
    BY <1>4, <2>1 DEF ListSettles, Settles, Comes
<1> QED
  BY <1>2, <1>5, <1>6, <1>8, <1>7 DEF AllCalm, ViewCalm, TalkSettles

LEMMA AtRestCalm ==
    ASSUME AtRest
    PROVE  CalmInv
<1>1. PICK a \in Agents : /\ runs = [b \in Agents |-> IF b = a THEN <<"completed">> ELSE <<>>]
                          /\ selectedId = a /\ activeRun = Shown(<<a, 1>>)
  BY DEF AtRest
<1>2. agents = AgentList /\ ref = a /\ messages = MessagesOf(ref) /\ calls = <<>>
  BY <1>1 DEF AtRest
<1>3. TypedServer
  BY AtRestHolds DEF IInv
<1>4. runs[a] = <<"completed">> /\ Len(runs[a]) = 1 /\ runs[a][1] = "completed"
  BY <1>1
<1>5. <<a, 1>> \in Started
  BY <1>3, <1>4, StartedOf
<1>6. activeRun.run = <<a, 1>> /\ activeRun.status = "completed"
  BY <1>1, <1>4 DEF Shown, Seen
<1>7. ViewCalm
  BY <1>4, <1>5, <1>6 DEF ViewCalm, ViewOK, ViewWatched
<1>8. RunsWatched /\ Served
  <2>1. ASSUME NEW r \in Started
        PROVE  runs[r[1]][r[2]] = "completed"
    <3>1. r[1] \in Agents /\ r[2] \in 1..Len(runs[r[1]])
      BY <1>3, ShownTyped, RunIdParts
    <3>2. r[1] = a /\ r[2] = 1
      BY <1>1, <3>1
    <3> QED
      BY <1>4, <3>2
  <2>2. \A b \in Agents : service[b] = "ready"
    BY DEF AtRest
  <2> QED
    BY <2>1, <2>2 DEF RunsWatched, Served, Busy
<1>9. CallsCalm /\ Turns(calls)
  BY <1>2 DEF CallsCalm, Turns
<1>10. ListSettles /\ TalkSettles
  BY <1>2 DEF ListSettles, TalkSettles, Settles, Brings
<1> QED
  BY <1>7, <1>8, <1>9, <1>10 DEF AllCalm, CalmInv

LEMMA CalmInvariant == PageSpec => []CalmInv
<1>1. PageInit => CalmInv
  BY OpenedCalm, AtRestCalm DEF PageInit
<1>2. IInv /\ CalmInv /\ [PageNext]_all => CalmInv'
  <2>1. \A i, a : Replaced(i, a) => CalmInv'
    BY DEF Replaced, CalmInv, Calm
  <2> QED
    BY <2>1, PageStep, CalmStep, CalmStutter
<1> QED
  BY <1>1, <1>2, PageInvariant, PTL DEF PageSpec

\* QuietIsTrue holds: on a network that keeps the order and answers, a page on whose
\* server no run was under way that the page did not send, neither when it was opened nor
\* from a reconciliation, and no run.completed event failed, and that has come to rest
\* shows the server's list, the messages of the selected Agent and the status its run
\* ended with, and that Agent is not busy: whatever was clicked, sent or deleted on the
\* way, the refresh that would correct the page is never missed (App.tsx:211-228 and the
\* lists asked for after each command).
THEOREM QuietTrue == PageSpec => []QuietIsTrue
<1>1. IInv /\ CalmInv => QuietIsTrue
  <2> SUFFICES ASSUME IInv, CalmInv, Quiet, inOrder, faults = 0, ~ unsent
               PROVE  /\ agents = AgentList
                      /\ selectedId # None =>
                            /\ messages = MessagesOf(selectedId)
                            /\ ~ Busy(selectedId)
                            /\ activeRun # None => activeRun = Shown(activeRun.run)
    BY DEF QuietIsTrue
  <2>1. AllCalm /\ TypedServer /\ TypedPage /\ calls = <<>> /\ polls = {} /\ ref = selectedId /\ ~ effectDue
    BY DEF CalmInv, Calm, IInv, Quiet, Rendered
  <2>2. \A r : ~ Watched(r)
    BY <2>1 DEF Watched, Posting, Looping
  <2>3. \A a, s, t : Settles(a, s, t) => s = t
    BY <2>1, <2>2 DEF Settles, Comes, Awake, Brings
  <2>4. agents = AgentList
    BY <2>1, <2>3 DEF AllCalm, ListSettles
  <2> SUFFICES ASSUME selectedId # None
               PROVE  /\ messages = MessagesOf(selectedId)
                      /\ ~ Busy(selectedId)
                      /\ activeRun # None => activeRun = Shown(activeRun.run)
    BY <2>4
  <2>5. PICK a \in Agents : a = selectedId /\ Live(a)
    BY <2>1, <2>4, ListTyped DEF TypedPage, IInv, Known
  <2>6. messages = MessagesOf(a)
    BY <2>1, <2>3, <2>5 DEF AllCalm, TalkSettles
  <2>7. ~ Busy(a)
    <3>1. \A r \in Started : runs[r[1]][r[2]] # "active"
      BY <2>1, <2>2 DEF AllCalm, RunsWatched
    <3> QED
      BY <2>1, <3>1 DEF AllCalm, Served
  <2>8. ASSUME activeRun # None
        PROVE  activeRun = Shown(activeRun.run)
    <3>1. PICK v \in RunViews : v = activeRun
      BY <2>1, <2>8 DEF TypedPage
    <3>2. v.run[1] = a
      BY <2>1, <2>5, <2>8, <3>1 DEF IInv, Belongs
    <3>3. v.status = runs[v.run[1]][v.run[2]]
      BY <2>1, <2>2, <2>5, <2>8, <3>1, <3>2 DEF AllCalm, ViewCalm, ViewOK, ViewWatched
    <3>4. v = Shown(v.run)
      <4>1. v.run \in Started
        BY <2>1, <2>5, <2>8, <3>1, <3>2 DEF AllCalm, ViewCalm, ViewOK
      <4>2. Seen(runs[v.run[1]][v.run[2]]) = runs[v.run[1]][v.run[2]]
        BY <2>1, <4>1 DEF AllCalm, Served, Seen
      <4> QED
        BY <3>3, <4>2 DEF Shown, RunViews
    <3> QED
      BY <3>1, <3>4
  <2> QED
    BY <2>5, <2>6, <2>7, <2>8
<1> QED
  BY <1>1, PageInvariant, CalmInvariant, PTL

-----------------------------------------------------------------------------
(* The drawer: the elements of a set of numbers in order, and the tabs.    *)

IsOrder(f, S) ==
    /\ f \in [1..Cardinality(S) -> S]
    /\ \A i, j \in 1..Cardinality(S) : i < j => f[i] < f[j]

\* A set of numbers that has an element has a least one.
LEMMA Least ==
    ASSUME NEW T \in SUBSET Nat, T # {}
    PROVE  \E x \in T : \A y \in T : ~ (y < x)
<1>1. \E x \in T : \A y \in T : ~ (<<y, x>> \in OpToRel(<, Nat))
  BY NatLessThanWellFounded, WFMin, Zenon
<1> QED
  BY <1>1 DEF OpToRel

\* An order of a set leaves none of its elements out.
LEMMA OrderOnto ==
    ASSUME NEW S \in SUBSET Nat, IsFiniteSet(S), NEW f, IsOrder(f, S)
    PROVE  /\ Cardinality(S) \in Nat
           /\ \A x \in S : \E i \in 1..Cardinality(S) : f[i] = x
<1>1. PICK n \in Nat : n = Cardinality(S)
  BY FS_CardinalityType
<1>2. /\ f \in [1..n -> S] /\ \A i, j \in 1..n : i < j => f[i] < f[j]
  BY <1>1 DEF IsOrder
<1>3. \A i, j \in 1..n : f[i] = f[j] => i = j
  <2> SUFFICES ASSUME NEW i \in 1..n, NEW j \in 1..n, f[i] = f[j], i # j
               PROVE  FALSE
    OBVIOUS
  <2>1. f[i] \in Nat /\ f[j] \in Nat
    BY <1>2
  <2>2. f[i] < f[j] \/ f[j] < f[i]
    BY <1>2
  <2> QED
    BY <2>1, <2>2
<1>4. f \in Injection(1..n, S)
  BY <1>2, <1>3, Fun_IsInj
<1>5. IsFiniteSet(1..n) /\ Cardinality(1..n) = n
  BY FS_Interval
<1>6. f \in Surjection(1..n, S)
  BY <1>1, <1>4, <1>5, FS_Injection
<1> QED
  BY <1>1, <1>6, Fun_SurjectionProperties

\* The order of S and one more element, above those of S.
LEMMA OrderAdd ==
    ASSUME NEW S \in SUBSET Nat, IsFiniteSet(S), NEW f, IsOrder(f, S),
           NEW x \in Nat, \A y \in S : y < x
    PROVE  \E g : IsOrder(g, S \cup {x})
<1>1. PICK n \in Nat : n = Cardinality(S)
  BY FS_CardinalityType
<1>2. f \in [1..n -> S] /\ \A i, j \in 1..n : i < j => f[i] < f[j]
  BY <1>1 DEF IsOrder
<1>3. x \notin S
  OBVIOUS
<1>4. Cardinality(S \cup {x}) = n + 1
  BY <1>1, <1>3, FS_AddElement
<1>5. PICK g : g = [i \in 1..(n + 1) |-> IF i = n + 1 THEN x ELSE f[i]]
  OBVIOUS
<1>6. g[n + 1] = x /\ \A i \in 1..n : g[i] = f[i] /\ g[i] \in S
  BY <1>2, <1>5
<1>7. g \in [1..(n + 1) -> S \cup {x}]
  <2>1. \A i \in 1..(n + 1) : i = n + 1 \/ i \in 1..n
    OBVIOUS
  <2>2. \A i \in 1..(n + 1) : g[i] \in S \cup {x}
    BY <1>6, <2>1
  <2> QED
    BY <1>5, <2>2
<1>8. ASSUME NEW i \in 1..(n + 1), NEW j \in 1..(n + 1), i < j
      PROVE  g[i] < g[j]
  <2>1. i \in 1..n
    BY <1>8
  <2>2. CASE j = n + 1
    BY <1>6, <2>1, <2>2
  <2>3. CASE j # n + 1
    BY <1>2, <1>6, <1>8, <2>1, <2>3
  <2> QED
    BY <2>2, <2>3
<1> QED
  BY <1>4, <1>7, <1>8 DEF IsOrder

\* There is an order: for the numbers up to n, by induction on n.
LEMMA OrderExists ==
    ASSUME NEW n \in Nat, NEW S \in SUBSET (1..n)
    PROVE  IsFiniteSet(S) /\ \E f : IsOrder(f, S)
<1>1. PICK T : T = {k \in Nat : \E U \in SUBSET (1..k) : ~ \E f : IsOrder(f, U)}
  OBVIOUS
<1>2. ASSUME NEW k \in Nat, NEW U \in SUBSET (1..k)
      PROVE  IsFiniteSet(U)
  <2>1. IsFiniteSet(1..k)
    BY FS_Interval
  <2> QED
    BY <2>1, FS_Subset
<1>3. T = {}
  <2> SUFFICES ASSUME T # {}
               PROVE  FALSE
    OBVIOUS
  <2>1. T \in SUBSET Nat
    BY <1>1
  <2>2. PICK k \in T : \A m \in T : ~ (m < k)
    BY <2>1, Least
  <2>3. k \in Nat /\ \E U \in SUBSET (1..k) : ~ \E f : IsOrder(f, U)
    BY <1>1, <2>2
  <2>4. PICK U \in SUBSET (1..k) : ~ \E f : IsOrder(f, U)
    BY <2>3
  <2>5. CASE k = 0
    <3>1. U = {}
      BY <2>5
    <3>2. Cardinality(U) = 0
      BY <3>1, FS_EmptySet
    <3>3. IsOrder([i \in 1..0 |-> i], U)
      BY <3>1, <3>2 DEF IsOrder
    <3> QED
      BY <2>4, <3>3
  <2>6. CASE k # 0
    <3>1. k - 1 \in Nat /\ k - 1 \notin T
      BY <2>2, <2>3, <2>6
    <3>2. PICK V : V = U \ {k}
      OBVIOUS
    <3>3. V \in SUBSET (1..(k - 1)) /\ V \in SUBSET Nat
      BY <2>3, <3>2
    <3>4. PICK f : IsOrder(f, V)
      BY <1>1, <3>1, <3>3
    <3>5. CASE k \notin U
      BY <2>4, <3>2, <3>4, <3>5
    <3>6. CASE k \in U
      <4>1. U = V \cup {k} /\ \A y \in V : y < k
        BY <2>3, <3>2, <3>3, <3>6
      <4>2. \E g : IsOrder(g, V \cup {k})
        BY <1>2, <2>3, <3>1, <3>3, <3>4, <4>1, OrderAdd
      <4> QED
        BY <2>4, <4>1, <4>2
    <3> QED
      BY <3>5, <3>6
  <2> QED
    BY <2>5, <2>6
<1> QED
  BY <1>1, <1>2, <1>3

LEMMA SameSize == \A S : P!Cardinality(S) = Cardinality(S)
BY DEF P!Cardinality, Cardinality

\* What the operator of the drawer chooses is such an order, and leaves nothing out.
LEMMA AscendingOrders ==
    ASSUME NEW n \in Nat, NEW S \in SUBSET (1..n)
    PROVE  /\ Cardinality(S) \in Nat /\ IsOrder(P!Ascending(S), S)
           /\ \A x \in S : \E i \in 1..Cardinality(S) : P!Ascending(S)[i] = x
<1>1. IsFiniteSet(S) /\ Cardinality(S) \in Nat /\ S \in SUBSET Nat
  BY OrderExists, FS_CardinalityType
<1>2. \E f \in [1..Cardinality(S) -> S] : \A i, j \in DOMAIN f : i < j => f[i] < f[j]
  BY OrderExists DEF IsOrder
<1>3. IsOrder(P!Ascending(S), S)
  <2>1. /\ P!Ascending(S) \in [1..Cardinality(S) -> S]
        /\ \A i, j \in DOMAIN P!Ascending(S) : i < j => P!Ascending(S)[i] < P!Ascending(S)[j]
    BY <1>2, SameSize DEF P!Ascending
  <2> QED
    BY <2>1 DEF IsOrder
<1> QED
  BY <1>1, <1>3, OrderOnto

\* What a filter leaves of a queue.
LEMMA ChosenFollows ==
    ASSUME NEW X, NEW s \in Seq(X), NEW S \in SUBSET (1..Len(s))
    PROVE  /\ P!Chosen(s, S) \in Seq(X)
           /\ Follows(s, P!Chosen(s, S), (1..Len(s)) \ S, {})
<1>1. PICK n \in Nat : n = Len(s)
  OBVIOUS
<1>2. PICK m : m = Cardinality(S)
  OBVIOUS
<1>3. PICK f : f = P!Ascending(S)
  OBVIOUS
<1>4. m \in Nat /\ IsOrder(f, S) /\ \A x \in S : \E i \in 1..m : f[i] = x
  BY <1>1, <1>2, <1>3, AscendingOrders
<1>5. f \in [1..m -> S] /\ \A i, j \in 1..m : i < j => f[i] < f[j]
  BY <1>2, <1>4 DEF IsOrder
<1>6. PICK t : t = [i \in 1..m |-> s[f[i]]]
  OBVIOUS
<1>7. t = P!Chosen(s, S)
  BY <1>2, <1>3, <1>6, SameSize DEF P!Chosen
<1>8. \A i \in 1..m : f[i] \in S /\ f[i] \in 1..n /\ t[i] = s[f[i]] /\ t[i] \in X
  <2>1. \A i \in 1..m : f[i] \in S /\ f[i] \in 1..n
    BY <1>1, <1>5
  <2>2. \A j \in 1..n : s[j] \in X
    BY <1>1
  <2> QED
    BY <1>6, <2>1, <2>2
<1>9. t \in Seq(X) /\ Len(t) = m
  BY <1>4, <1>6, <1>8
<1>10. PICK R : R = (1..n) \ S
  OBVIOUS
<1>11. \A k \in 1..Len(t) : t[k] \in {} \/ \E j \in 1..Len(s) : j \notin R /\ t[k] = s[j]
  BY <1>1, <1>8, <1>9, <1>10
<1>12. \A k, l \in 1..Len(t) : k < l =>
         \E i \in 1..Len(s) :
              /\ i \notin R /\ t[k] = s[i]
              /\ t[l] \in {} \/ \E j \in 1..Len(s) : i < j /\ j \notin R /\ t[l] = s[j]
  BY <1>1, <1>5, <1>8, <1>9, <1>10
<1>13. \A j \in 1..Len(s) : j \notin R => \E k \in 1..Len(t) : t[k] = s[j]
  <2> SUFFICES ASSUME NEW j \in S
               PROVE  \E k \in 1..m : t[k] = s[j]
    BY <1>1, <1>9, <1>10
  <2> QED
    BY <1>4, <1>8
<1>14. \A c \in {} : \E k \in 1..Len(t) : t[k] = c
  OBVIOUS
<1>15. Follows(s, t, R, {})
  BY <1>11, <1>12, <1>13, <1>14, Zenon DEF Follows
<1> QED
  BY <1>1, <1>7, <1>9, <1>10, <1>15

\* The tabs that are asked for after a command are all of them.
LEMMA EveryTab ==
    /\ P!SetToSeq(Tabs) \in Seq(Tabs)
    /\ \A t \in Tabs : \E k \in 1..Len(P!SetToSeq(Tabs)) : P!SetToSeq(Tabs)[k] = t
<1>1. IsFiniteSet(Tabs)
  BY TabSet
<1>2. PICK n \in Nat : n = Cardinality(Tabs)
  BY <1>1, FS_CardinalityType
<1>3. \E f \in [1..n -> Tabs] : \A a, b \in DOMAIN f : f[a] = f[b] => a = b
  <2>1. ExistsBijection(1..n, Tabs)
    BY <1>1, <1>2, FS_CardinalityType
  <2>2. PICK f : f \in Bijection(1..n, Tabs)
    BY <2>1, Fun_ExistsBij
  <2>3. f \in [1..n -> Tabs] /\ \A a, b \in 1..n : f[a] = f[b] => a = b
    BY <2>2, Fun_BijectionProperties, Zenon
  <2> QED
    BY <2>3
<1>4. PICK f : f = P!SetToSeq(Tabs)
  OBVIOUS
<1>5. f \in [1..n -> Tabs] /\ \A a, b \in 1..n : f[a] = f[b] => a = b
  BY <1>2, <1>3, <1>4, SameSize DEF P!SetToSeq, P!IsInjective
<1>6. f \in Injection(1..n, Tabs)
  BY <1>5, Fun_IsInj
<1>7. IsFiniteSet(1..n) /\ Cardinality(1..n) = n
  BY FS_Interval
<1>8. f \in Surjection(1..n, Tabs)
  BY <1>1, <1>2, <1>6, <1>7, FS_Injection
<1>9. \A t \in Tabs : \E k \in 1..n : f[k] = t
  BY <1>8, Fun_SurjectionProperties
<1>10. f \in Seq(Tabs) /\ Len(f) = n
  BY <1>5
<1> QED
  BY <1>4, <1>9, <1>10

-----------------------------------------------------------------------------
(* The drawer: what its state may hold.                                    *)

Versions == [run : RunIds, version : Nat]
Reports  == [nth : Nat, answer : {Broken} \cup Versions]
Asks     == [op : Tabs \cup {"history", "command", "orphan"}, run : RunIds, nth : Nat,
             answer : {Unanswered, Broken} \cup Versions]

TypedDrawer ==
    /\ record \in [RunIds -> Nat]
    /\ runId \in RunIds \cup {Closed} /\ resetDue \in BOOLEAN /\ (resetDue => runId # Closed)
    /\ kept \in [Tabs -> {Blank, Fetching, Broken} \cup Versions]
    /\ panel \in {Closed} \cup [nth : Nat, shown : {Closed} \cup Reports]
    /\ told \in {Closed} \cup Versions
    /\ strays \in Nat

\* Versions only grow: what is answered in order is no older than what was told.
AskOK(a) ==
    /\ a \in Asks
    /\ a.answer \in Versions => a.answer.run = a.run /\ a.answer.version <= record[a.run]
    /\ a.op = "history" => panel # Closed
    /\ inOrder /\ told # Closed /\ a.answer \in Versions /\ a.run = runId
          => told.version <= a.answer.version
AskPair(a, b) ==
    b.answer # Unanswered =>
        /\ a.answer # Unanswered
        /\ a.answer \in Versions /\ b.answer \in Versions /\ a.run = b.run
              => a.answer.version <= b.answer.version
QueueOK(q) ==
    /\ q \in Seq(Asks)
    /\ \A i \in 1..Len(q) : AskOK(q[i])
    /\ inOrder => \A i, j \in 1..Len(q) : i < j => AskPair(q[i], q[j])

KeptOK ==
    /\ runId # Closed /\ ~ resetDue => \A t \in Tabs : kept[t] \notin Versions \/ kept[t].run = runId
    /\ told # Closed => told.run = runId /\ told.version <= record[runId]
    /\ inOrder /\ told # Closed =>
          \A t \in Tabs : kept[t] \notin Versions \/ told.version <= kept[t].version
PanelOK == panel # Closed => panel.shown = Closed \/ panel.shown.nth = panel.nth
Awaits(q, t, r) == \E k \in 1..Len(q) : q[k].op = t /\ q[k].run = r
Awaited ==
    strays = 0 => \A t \in Tabs : kept[t] = Fetching /\ ~ resetDue => Awaits(asks, t, runId)

DrawerInv == TypedDrawer /\ QueueOK(asks) /\ KeptOK /\ PanelOK /\ Awaited

LEMMA DrawerMarks ==
    /\ Closed \notin RunIds /\ Blank # Fetching /\ Broken # Blank /\ Broken # Fetching
    /\ Broken # Unanswered /\ Closed # Unanswered
    /\ \A m \in {Closed, Unanswered, Blank, Fetching, Broken} : m \notin Versions
    /\ Closed \notin [nth : Nat, shown : {Closed} \cup Reports]
    /\ "overview" \in Tabs /\ \A t \in Tabs : t # "history" /\ t # "command" /\ t # "orphan"
BY PanelMarks, TabSet DEF Versions, Reports

LEMMA QueueFollows ==
    ASSUME NEW s, QueueOK(s), NEW t \in Seq(Asks), NEW R, NEW N, Follows(s, t, R, N),
           \A a \in N : AskOK(a) /\ a.answer = Unanswered
    PROVE  QueueOK(t)
<1>1. \A k \in 1..Len(t) : AskOK(t[k])
  <2> SUFFICES ASSUME NEW k \in 1..Len(t)
               PROVE  AskOK(t[k])
    OBVIOUS
  <2>1. t[k] \in N \/ \E j \in 1..Len(s) : j \notin R /\ t[k] = s[j]
    BY Zenon DEF Follows
  <2> QED
    BY <2>1 DEF QueueOK
<1>2. ASSUME inOrder, NEW k \in 1..Len(t), NEW l \in 1..Len(t), k < l
      PROVE  AskPair(t[k], t[l])
  <2>1. PICK i \in 1..Len(s) :
           /\ i \notin R /\ t[k] = s[i]
           /\ t[l] \in N \/ \E j \in 1..Len(s) : i < j /\ j \notin R /\ t[l] = s[j]
    BY <1>2, Zenon DEF Follows
  <2>2. CASE t[l] \in N
    BY <2>2 DEF AskPair
  <2>3. CASE \E j \in 1..Len(s) : i < j /\ j \notin R /\ t[l] = s[j]
    BY <1>2, <2>1, <2>3 DEF QueueOK
  <2> QED
    BY <2>1, <2>2, <2>3
<1> QED
  BY <1>1, <1>2 DEF QueueOK

\* A queue while the records grow, and the drawer forgets or keeps what it was told.
LEMMA QueueStays ==
    ASSUME NEW q, QueueOK(q), UNCHANGED inOrder,
           record \in [RunIds -> Nat], record' \in [RunIds -> Nat],
           \A r \in RunIds : record[r] <= record'[r],
           told' = Closed \/ (told' = told /\ runId' = runId),
           panel = Closed \/ panel' # Closed \/ \A k \in 1..Len(q) : q[k].op # "history"
    PROVE  QueueOK(q)'
<1>1. ASSUME NEW k \in 1..Len(q)
      PROVE  AskOK(q[k])'
  <2>1. PICK a : a = q[k]
    OBVIOUS
  <2>2. AskOK(a)
    BY <2>1 DEF QueueOK
  <2>3. a \in Asks /\ a.run \in RunIds /\ record[a.run] \in Nat /\ record'[a.run] \in Nat
    BY <2>2 DEF AskOK, Asks
  <2>4. a.answer \in Versions => a.answer.run = a.run /\ a.answer.version <= record'[a.run]
    BY <2>2, <2>3 DEF AskOK, Versions
  <2>5. a.op = "history" => panel' # Closed
    BY <2>1, <2>2 DEF AskOK
  <2> QED
    BY <2>1, <2>2, <2>3, <2>4, <2>5 DEF AskOK
<1> QED
  BY <1>1 DEF QueueOK

LEMMA AskedOK ==
    ASSUME NEW op \in Tabs \cup {"history", "command"}, NEW r \in RunIds, NEW n \in Nat,
           op = "history" => panel # Closed
    PROVE  /\ AskOK(P!Ask(op, r, n)) /\ P!Ask(op, r, n).answer = Unanswered
           /\ P!Ask(op, r, n) \in Asks /\ P!Ask(op, r, n).op = op /\ P!Ask(op, r, n).run = r
BY DrawerMarks DEF AskOK, P!Ask, Asks

\* A queue with a question more.
LEMMA QueueAdds ==
    ASSUME NEW q, QueueOK(q), NEW a, AskOK(a), a.answer = Unanswered, a \in Asks
    PROVE  /\ QueueOK(Append(q, a)) /\ Awaits(Append(q, a), a.op, a.run)
           /\ \A t, r : Awaits(q, t, r) => Awaits(Append(q, a), t, r)
           /\ \A k \in 1..Len(Append(q, a)) : Append(q, a)[k] = a \/ \E j \in 1..Len(q) : Append(q, a)[k] = q[j]
<1>1. PICK n \in Nat : n = Len(q)
  BY DEF QueueOK
<1>2. PICK p : p = Append(q, a)
  OBVIOUS
<1>3. p \in Seq(Asks) /\ Len(p) = n + 1 /\ p[n + 1] = a /\ \A k \in 1..n : p[k] = q[k]
  BY <1>1, <1>2 DEF QueueOK
<1>4. (\A k \in 1..(n + 1) : k = n + 1 \/ k \in 1..n) /\ \A k \in 1..n : k \in 1..(n + 1)
  OBVIOUS
<1>5. n + 1 \in 1..(n + 1)
  OBVIOUS
<1>6. QueueOK(p)
  <2>1. \A k \in 1..(n + 1) : AskOK(p[k])
    BY <1>1, <1>3, <1>4 DEF QueueOK
  <2>2. ASSUME inOrder, NEW k \in 1..(n + 1), NEW l \in 1..(n + 1), k < l
        PROVE  AskPair(p[k], p[l])
    <3>1. CASE l = n + 1
      BY <1>3, <3>1 DEF AskPair
    <3>2. CASE l # n + 1
      BY <1>1, <1>3, <1>4, <2>2, <3>2 DEF QueueOK
    <3> QED
      BY <3>1, <3>2
  <2> QED
    BY <1>3, <2>1, <2>2 DEF QueueOK
<1> QED
  BY <1>1, <1>2, <1>3, <1>4, <1>5, <1>6 DEF Awaits

\* A queue without one of its answers.
LEMMA QueueDrops ==
    ASSUME NEW q, QueueOK(q), NEW i \in 1..Len(q)
    PROVE  /\ QueueOK(RemoveAt(q, i))
           /\ \A k \in 1..Len(RemoveAt(q, i)) :
                 \E j \in 1..Len(q) : j # i /\ RemoveAt(q, i)[k] = q[j]
           /\ inOrder /\ i = 1 => \A k \in 1..Len(RemoveAt(q, i)) : AskPair(q[i], RemoveAt(q, i)[k])
           /\ \A t, r : Awaits(q, t, r) => Awaits(RemoveAt(q, i), t, r) \/ (q[i].op = t /\ q[i].run = r)
<1>1. PICK n \in Nat : n = Len(q) /\ i \in 1..n
  BY DEF QueueOK
<1>2. PICK p : p = RemoveAt(q, i)
  OBVIOUS
<1>3. q \in Seq(Asks)
  BY DEF QueueOK
<1>4. p \in Seq(Asks) /\ Follows(q, p, {i}, {})
  BY <1>2, <1>3, RemoveFollows
<1>5. QueueOK(p)
  <2>1. PICK R, N : R = {i} /\ N = {}
    OBVIOUS
  <2>2. Follows(q, p, R, N) /\ \A a \in N : AskOK(a) /\ a.answer = Unanswered
    BY <1>4, <2>1
  <2> QED
    BY <1>4, <2>2, QueueFollows, Zenon
<1>6. \A k \in 1..Len(p) : \E j \in 1..n : j # i /\ p[k] = q[j]
  BY <1>1, <1>4 DEF Follows
<1>7. ASSUME inOrder, i = 1, NEW k \in 1..Len(p)
      PROVE  AskPair(q[i], p[k])
  <2>1. PICK j \in 1..n : j # i /\ p[k] = q[j]
    BY <1>6
  <2>2. i < j
    BY <1>7, <2>1
  <2> QED
    BY <1>1, <1>7, <2>1, <2>2 DEF QueueOK
<1>8. ASSUME NEW t, NEW r, Awaits(q, t, r), ~ (q[i].op = t /\ q[i].run = r)
      PROVE  Awaits(p, t, r)
  <2>1. PICK j \in 1..n : q[j].op = t /\ q[j].run = r /\ j # i
    BY <1>1, <1>8 DEF Awaits
  <2>2. \E k \in 1..Len(p) : p[k] = q[j]
    BY <1>1, <1>4, <2>1 DEF Follows
  <2> QED
    BY <2>1, <2>2 DEF Awaits
<1> QED
  BY <1>1, <1>2, <1>5, <1>6, <1>7, <1>8

\* The questions of a history panel that is gone go with it.
LEMMA NoPanelLeaves ==
    ASSUME NEW rest, QueueOK(rest), P!NoPanel(rest)
    PROVE  /\ panel' = Closed /\ QueueOK(asks') /\ \A k \in 1..Len(asks') : asks'[k].op # "history"
           /\ \A t, r : t # "history" /\ Awaits(rest, t, r) => Awaits(asks', t, r)
<1>1. panel' = Closed
  BY DEF P!NoPanel
<1>2. PICK q : q = asks'
  OBVIOUS
<1>3. CASE panel = Closed
  <2>1. q = rest
    BY <1>2, <1>3 DEF P!NoPanel
  <2> QED
    BY <1>1, <1>2, <1>3, <2>1 DEF QueueOK, AskOK
<1>4. CASE panel # Closed
  <2>1. PICK S : S = {i \in 1..Len(rest) : rest[i].op # "history"}
    OBVIOUS
  <2>2. q = P!Chosen(rest, S) /\ S \in SUBSET (1..Len(rest)) /\ rest \in Seq(Asks)
    BY <1>2, <1>4, <2>1 DEF P!NoPanel, QueueOK
  <2>3. PICK R, N : R = (1..Len(rest)) \ S /\ N = {}
    OBVIOUS
  <2>4. q \in Seq(Asks) /\ Follows(rest, q, R, N)
    BY <2>2, <2>3, ChosenFollows
  <2>5. \A a \in N : AskOK(a) /\ a.answer = Unanswered
    BY <2>3
  <2>6. QueueOK(q)
    BY <2>4, <2>5, QueueFollows, Zenon
  <2>7. \A k \in 1..Len(q) : \E j \in 1..Len(rest) : j \in S /\ q[k] = rest[j]
    BY <2>3, <2>4 DEF Follows
  <2>8. \A k \in 1..Len(q) : q[k].op # "history"
    BY <2>1, <2>7
  <2>9. ASSUME NEW t, NEW r, t # "history", Awaits(rest, t, r)
        PROVE  Awaits(q, t, r)
    <3>1. PICK j \in 1..Len(rest) : rest[j].op = t /\ rest[j].run = r /\ j \notin R
      BY <2>1, <2>3, <2>9 DEF Awaits
    <3>2. \E k \in 1..Len(q) : q[k] = rest[j]
      BY <2>4, <3>1 DEF Follows
    <3> QED
      BY <3>1, <3>2 DEF Awaits
  <2> QED
    BY <1>1, <1>2, <2>6, <2>8, <2>9
<1> QED
  BY <1>3, <1>4

-----------------------------------------------------------------------------
(* The drawer's steps.                                                     *)

\* The drawer goes on to another run, or is shut.
LEMMA ShowKeeps ==
    ASSUME DrawerInv, UNCHANGED inOrder, NEW r \in RunIds \cup {Closed}, P!Show(r)
    PROVE  DrawerInv'
<1>1. UNCHANGED record /\ UNCHANGED <<looks, strays, changes>> /\ UNCHANGED strays /\ told' = Closed
  BY DEF P!Show, P!Close, P!Turn, P!spent
<1>2. \A s \in RunIds : record[s] <= record'[s]
  BY <1>1 DEF DrawerInv, TypedDrawer
<1>3. CASE r = Closed
  <2>1. runId' = Closed /\ resetDue' = FALSE /\ kept' = [t \in Tabs |-> Blank] /\ panel' = Closed
    BY <1>3 DEF P!Show, P!Close, P!Empty
  <2>2. PICK S : S = {i \in 1..Len(asks) : asks[i].op \in P!Commands}
    OBVIOUS
  <2>3. PICK q : q = P!Chosen(asks, S)
    OBVIOUS
  <2>4. asks' = [i \in 1..Len(q) |-> [q[i] EXCEPT !.op = "orphan"]]
    BY <1>3, <2>2, <2>3 DEF P!Show, P!Close, P!Ordered
  <2>5. asks \in Seq(Asks) /\ S \in SUBSET (1..Len(asks))
    BY <2>2 DEF DrawerInv, QueueOK
  <2>6. PICK R, N : R = (1..Len(asks)) \ S /\ N = {}
    OBVIOUS
  <2>7. q \in Seq(Asks) /\ Follows(asks, q, R, N)
    BY <2>3, <2>5, <2>6, ChosenFollows
  <2>8. \A a \in N : AskOK(a) /\ a.answer = Unanswered
    BY <2>6
  <2>9. QueueOK(q)
    BY <2>7, <2>8, QueueFollows, Zenon DEF DrawerInv
  <2>10. \A k \in 1..Len(q) : q[k].op \in P!Commands
    <3>1. \A k \in 1..Len(q) : \E j \in 1..Len(asks) : j \in S /\ q[k] = asks[j]
      BY <2>6, <2>7 DEF Follows
    <3> QED
      BY <2>2, <3>1
  <2>11. \A k \in 1..Len(q) : q[k].op # "history"
    BY <2>10 DEF P!Commands
  <2>12. QueueOK(q)'
    BY <1>1, <1>2, <2>9, <2>11, QueueStays DEF DrawerInv, TypedDrawer
  <2>13. PICK p : p = asks'
    OBVIOUS
  <2>14. PICK n \in Nat : n = Len(q)
    BY <2>7
  <2>15. \A k \in 1..n : /\ p[k] \in Asks /\ p[k].op = "orphan" /\ p[k].run = q[k].run
                         /\ p[k].nth = q[k].nth /\ p[k].answer = q[k].answer
    <3> SUFFICES ASSUME NEW k \in 1..n
                 PROVE  /\ p[k] \in Asks /\ p[k].op = "orphan" /\ p[k].run = q[k].run
                        /\ p[k].nth = q[k].nth /\ p[k].answer = q[k].answer
      OBVIOUS
    <3>1. PICK a : a = q[k]
      OBVIOUS
    <3>2. a \in Asks
      BY <2>7, <2>14, <3>1
    <3>3. p[k] = [a EXCEPT !.op = "orphan"]
      BY <2>4, <2>13, <2>14, <3>1
    <3> QED
      BY <3>1, <3>2, <3>3 DEF Asks
  <2>16. p \in Seq(Asks) /\ Len(p) = n
    BY <2>4, <2>13, <2>14, <2>15
  <2>17. \A k \in 1..n : AskOK(p[k])'
    BY <2>12, <2>14, <2>15 DEF QueueOK, AskOK
  <2>18. inOrder' => \A k, l \in 1..n : k < l => AskPair(p[k], p[l])
    BY <2>12, <2>14, <2>15 DEF QueueOK, AskPair
  <2>19. QueueOK(asks)'
    BY <2>13, <2>16, <2>17, <2>18 DEF QueueOK
  <2>20. \A t \in Tabs : kept'[t] = Blank
    BY <2>1
  <2>21. TypedDrawer'
    BY <1>1, <2>1, <2>20 DEF DrawerInv, TypedDrawer
  <2>22. KeptOK' /\ PanelOK' /\ Awaited'
    BY <1>1, <2>1, <2>20, DrawerMarks DEF KeptOK, PanelOK, Awaited
  <2> QED
    BY <2>19, <2>21, <2>22 DEF DrawerInv
<1>4. CASE r # Closed
  <2>1. runId' = r /\ resetDue' = TRUE /\ UNCHANGED tab /\ UNCHANGED kept /\ UNCHANGED panel /\ UNCHANGED asks
    BY <1>4 DEF P!Show, P!Turn
  <2>2. PICK q : q = asks
    OBVIOUS
  <2>3. QueueOK(q)'
    BY <1>1, <1>2, <2>1, <2>2, QueueStays DEF DrawerInv, TypedDrawer
  <2>4. QueueOK(asks)'
    BY <2>1, <2>2, <2>3 DEF QueueOK
  <2>5. TypedDrawer'
    BY <1>1, <1>4, <2>1 DEF DrawerInv, TypedDrawer
  <2>6. KeptOK' /\ PanelOK' /\ Awaited'
    BY <1>1, <2>1 DEF DrawerInv, KeptOK, PanelOK, Awaited
  <2> QED
    BY <2>4, <2>5, <2>6 DEF DrawerInv
<1> QED
  BY <1>3, <1>4

\* The route answers one question, after those before it if the network is in order.
LEMMA AnswersKeep ==
    ASSUME DrawerInv, UNCHANGED inOrder, UNCHANGED <<runId, resetDue, kept, panel, told, strays>>,
           NEW i \in 1..Len(asks), asks[i].answer = Unanswered, MayReply(i),
           record' \in [RunIds -> Nat], \A r \in RunIds : record[r] <= record'[r],
           NEW x, x = Broken \/ x = [run |-> asks[i].run, version |-> record'[asks[i].run]],
           asks' = [asks EXCEPT ![i].answer = x]
    PROVE  DrawerInv'
<1>1. PICK q : q = asks
  OBVIOUS
<1>2. PICK n \in Nat : n = Len(q) /\ i \in 1..n
  BY <1>1 DEF DrawerInv, QueueOK
<1>3. q \in Seq(Asks) /\ QueueOK(q)
  BY <1>1 DEF DrawerInv, QueueOK
<1>4. PICK a : a = q[i]
  OBVIOUS
<1>5. a \in Asks /\ AskOK(a) /\ a.run \in RunIds /\ record[a.run] \in Nat /\ record'[a.run] \in Nat
  BY <1>2, <1>3, <1>4 DEF QueueOK, AskOK, Asks, DrawerInv, TypedDrawer
<1>6. PICK d : d = [a EXCEPT !.answer = x]
  OBVIOUS
<1>7. x \in {Broken} \cup Versions /\ (x \in Versions => x.run = a.run /\ x.version = record'[a.run])
  BY <1>1, <1>4, <1>5, DrawerMarks DEF Versions
<1>8. d \in Asks /\ d.op = a.op /\ d.run = a.run /\ d.answer = x
  BY <1>5, <1>6, <1>7 DEF Asks
<1>9. PICK p : p = asks'
  OBVIOUS
<1>10. p \in Seq(Asks) /\ Len(p) = n /\ p[i] = d /\ \A k \in 1..n : k # i => p[k] = q[k]
  BY <1>1, <1>2, <1>3, <1>4, <1>6, <1>8, <1>9
<1>11. QueueOK(q)'
  BY <1>3, QueueStays DEF DrawerInv, TypedDrawer
<1>12. AskOK(d)'
  <2>1. told # Closed /\ a.run = runId => told.version <= record'[a.run]
    <3>1. told # Closed => told.version \in Nat /\ told.version <= record[runId]
      BY DEF DrawerInv, KeptOK, TypedDrawer, Versions
    <3> QED
      BY <1>5, <3>1
  <2> QED
    BY <1>5, <1>7, <1>8, <2>1 DEF AskOK
<1>13. \A k \in 1..n : AskOK(p[k])'
  BY <1>2, <1>10, <1>11, <1>12 DEF QueueOK
<1>14. ASSUME inOrder, NEW k \in 1..n, NEW l \in 1..n, k < l
       PROVE  AskPair(p[k], p[l])
  <2>1. AskPair(q[k], q[l])
    BY <1>2, <1>3, <1>14 DEF QueueOK
  <2>2. CASE k # i /\ l # i
    BY <1>10, <2>1, <2>2
  <2>3. CASE k = i
    <3>1. q[l].answer = Unanswered /\ p[l] = q[l]
      BY <1>1, <1>10, <1>14, <2>1, <2>3 DEF AskPair
    <3> QED
      BY <3>1 DEF AskPair
  <2>4. CASE l = i
    <3>1. q[k].answer # Unanswered /\ p[k] = q[k]
      BY <1>1, <1>10, <1>14, <2>4 DEF MayReply
    <3>2. AskOK(q[k])'
      BY <1>2, <1>11 DEF QueueOK
    <3> QED
      BY <1>7, <1>8, <1>10, <2>4, <3>1, <3>2 DEF AskPair, AskOK
  <2> QED
    BY <2>2, <2>3, <2>4
<1>15. QueueOK(asks)'
  BY <1>9, <1>10, <1>13, <1>14 DEF QueueOK
<1>16. TypedDrawer' /\ PanelOK'
  BY DEF DrawerInv, TypedDrawer, PanelOK
<1>17. KeptOK'
  <2>1. told # Closed => told.version \in Nat /\ told.version <= record[runId] /\ runId \in RunIds
    BY DEF DrawerInv, KeptOK, TypedDrawer, Versions
  <2>2. told # Closed => told.version <= record'[runId]
    <3>1. \A r \in RunIds : record[r] \in Nat /\ record'[r] \in Nat
      BY DEF DrawerInv, TypedDrawer
    <3> QED
      BY <2>1, <3>1
  <2> QED
    BY <2>2 DEF DrawerInv, KeptOK
<1>18. Awaited'
  <2>1. \A t, r : Awaits(q, t, r) => Awaits(p, t, r)
    <3> SUFFICES ASSUME NEW t, NEW r, Awaits(q, t, r)
                 PROVE  Awaits(p, t, r)
      OBVIOUS
    <3>1. PICK k \in 1..n : q[k].op = t /\ q[k].run = r
      BY <1>2 DEF Awaits
    <3>2. p[k].op = t /\ p[k].run = r
      BY <1>4, <1>8, <1>10, <3>1
    <3> QED
      BY <1>10, <3>2 DEF Awaits
  <2> QED
    BY <1>1, <1>9, <2>1 DEF DrawerInv, Awaited
<1> QED
  BY <1>15, <1>16, <1>17, <1>18 DEF DrawerInv

LEMMA ReplyKeeps ==
    ASSUME DrawerInv, UNCHANGED inOrder, NEW i \in 1..Len(asks), MayReply(i), P!Reply(i)
    PROVE  DrawerInv'
<1>1. PICK a : a = asks[i]
  OBVIOUS
<1>2. a \in Asks /\ a.run \in RunIds
  BY <1>1 DEF DrawerInv, QueueOK, AskOK, Asks
<1>3. /\ a.answer = Unanswered
      /\ record' = record \/ record' = [record EXCEPT ![a.run] = @ + 1]
      /\ asks' = [asks EXCEPT ![i].answer = [run |-> a.run, version |-> record'[a.run]]]
      /\ UNCHANGED <<runId, resetDue, kept, panel, told, strays>>
  BY <1>1 DEF P!Reply, P!Changed, P!drawer, P!spent
<1>4. record \in [RunIds -> Nat]
  BY DEF DrawerInv, TypedDrawer
<1>5. record' \in [RunIds -> Nat] /\ \A r \in RunIds : record[r] <= record'[r]
  <2>1. CASE record' = record
    BY <1>4, <2>1
  <2>2. CASE record' = [record EXCEPT ![a.run] = @ + 1]
    BY <1>2, <1>4, <2>2
  <2> QED
    BY <1>3, <2>1, <2>2
<1> QED
  BY <1>1, <1>3, <1>5, AnswersKeep

LEMMA RefuseKeeps ==
    ASSUME DrawerInv, UNCHANGED inOrder, NEW i \in 1..Len(asks), MayReply(i), P!Refuse(i)
    PROVE  DrawerInv'
<1>1. /\ asks[i].answer = Unanswered /\ asks' = [asks EXCEPT ![i].answer = Broken]
      /\ UNCHANGED <<runId, resetDue, kept, panel, told, strays>> /\ record' = record
  BY DEF P!Refuse, P!drawer
<1>2. record' \in [RunIds -> Nat] /\ \A r \in RunIds : record[r] <= record'[r]
  BY <1>1 DEF DrawerInv, TypedDrawer
<1> QED
  BY <1>1, <1>2, AnswersKeep

LEMMA TouchKeeps ==
    ASSUME DrawerInv, UNCHANGED inOrder, NEW r \in RunIds, P!Touch(r)
    PROVE  DrawerInv'
<1>1. /\ record' = [record EXCEPT ![r] = @ + 1] /\ UNCHANGED asks
      /\ UNCHANGED <<runId, resetDue, kept, panel, told, strays>>
  BY DEF P!Touch, P!drawer
<1>2. /\ record \in [RunIds -> Nat] /\ record' \in [RunIds -> Nat]
      /\ \A s \in RunIds : record[s] <= record'[s] /\ record[s] \in Nat /\ record'[s] \in Nat
  BY <1>1 DEF DrawerInv, TypedDrawer
<1>3. PICK q : q = asks
  OBVIOUS
<1>4. QueueOK(q)'
  BY <1>1, <1>2, <1>3, QueueStays DEF DrawerInv
<1>5. QueueOK(asks)'
  BY <1>1, <1>3, <1>4 DEF QueueOK
<1>6. TypedDrawer' /\ PanelOK' /\ Awaited'
  BY <1>1, <1>2 DEF DrawerInv, TypedDrawer, PanelOK, Awaited
<1>7. KeptOK'
  <2>1. told # Closed => told.version \in Nat /\ told.version <= record[runId] /\ runId \in RunIds
    BY DEF DrawerInv, KeptOK, TypedDrawer, Versions
  <2>2. told # Closed => told.version <= record'[runId]
    BY <1>2, <2>1
  <2> QED
    BY <1>1, <2>2 DEF DrawerInv, KeptOK
<1> QED
  BY <1>5, <1>6, <1>7 DEF DrawerInv

\* A step of the drawer that leaves the records alone.
LEMMA QuietQueue ==
    ASSUME DrawerInv, UNCHANGED inOrder, UNCHANGED <<record, runId, told>>, QueueOK(asks'),
           panel = Closed \/ panel' # Closed \/ \A k \in 1..Len(asks') : asks'[k].op # "history"
    PROVE  QueueOK(asks)'
<1>1. PICK q : q = asks'
  OBVIOUS
<1>2. \A r \in RunIds : record[r] <= record'[r]
  BY DEF DrawerInv, TypedDrawer
<1>3. QueueOK(q)'
  BY <1>1, <1>2, QueueStays DEF DrawerInv, TypedDrawer
<1> QED
  BY <1>1, <1>3 DEF QueueOK

LEMMA ResetKeeps ==
    ASSUME DrawerInv, UNCHANGED inOrder, P!Reset
    PROVE  DrawerInv'
<1>1. /\ resetDue /\ resetDue' = FALSE
      /\ UNCHANGED <<record, runId, told, looks, strays, changes>> /\ UNCHANGED <<record, runId, told>>
  BY DEF P!Reset, P!spent
<1>2. PICK q : q = asks
  OBVIOUS
<1>3. QueueOK(q)
  BY <1>2 DEF DrawerInv
<1>4. \E rest, s : /\ QueueOK(rest) /\ P!NoPanel(rest)
                   /\ kept' = s /\ s \in [Tabs -> {Blank, Fetching}]
                   /\ \A t \in Tabs : s[t] = Fetching => Awaits(rest, t, runId)
  <2>1. CASE tab \in Tabs /\ kept[tab] = Blank
    <3>1. runId \in RunIds
      BY <1>1 DEF DrawerInv, TypedDrawer
    <3>2. PICK a : a = P!Ask(tab, runId, 0)
      OBVIOUS
    <3>3. AskOK(a) /\ a.answer = Unanswered /\ a \in Asks /\ a.op = tab /\ a.run = runId
      BY <2>1, <3>1, <3>2, AskedOK, DrawerMarks
    <3>4. PICK rest : rest = Append(q, a)
      OBVIOUS
    <3>5. QueueOK(rest) /\ Awaits(rest, tab, runId)
      BY <1>3, <3>3, <3>4, QueueAdds
    <3>6. P!NoPanel(rest) /\ kept' = [[t \in Tabs |-> Blank] EXCEPT ![tab] = Fetching]
      BY <1>2, <2>1, <3>2, <3>4 DEF P!Reset, P!Load, P!Forgotten, P!Empty
    <3>7. /\ kept' \in [Tabs -> {Blank, Fetching}]
          /\ \A t \in Tabs : kept'[t] = Fetching => t = tab
      BY <2>1, <3>6, DrawerMarks
    <3> QED
      BY <3>5, <3>6, <3>7
  <2>2. CASE ~ (tab \in Tabs /\ kept[tab] = Blank)
    <3>1. P!NoPanel(q) /\ kept' = [t \in Tabs |-> Blank]
      BY <1>2, <2>2 DEF P!Reset, P!Forgotten, P!Empty
    <3>2. kept' \in [Tabs -> {Blank, Fetching}] /\ \A t \in Tabs : kept'[t] # Fetching
      BY <3>1, DrawerMarks
    <3> QED
      BY <1>3, <3>1, <3>2
  <2> QED
    BY <2>1, <2>2
<1>5. PICK rest, s : /\ QueueOK(rest) /\ P!NoPanel(rest)
                     /\ kept' = s /\ s \in [Tabs -> {Blank, Fetching}]
                     /\ \A t \in Tabs : s[t] = Fetching => Awaits(rest, t, runId)
  BY <1>4
<1>6. /\ panel' = Closed /\ QueueOK(asks') /\ \A k \in 1..Len(asks') : asks'[k].op # "history"
      /\ \A t, r : t # "history" /\ Awaits(rest, t, r) => Awaits(asks', t, r)
  BY <1>5, NoPanelLeaves
<1>7. QueueOK(asks)'
  BY <1>1, <1>6, QuietQueue
<1>8. TypedDrawer'
  BY <1>1, <1>5, <1>6 DEF DrawerInv, TypedDrawer
<1>9. KeptOK' /\ PanelOK'
  BY <1>1, <1>5, <1>6, DrawerMarks DEF DrawerInv, KeptOK, PanelOK
<1>10. Awaited'
  BY <1>1, <1>5, <1>6, DrawerMarks DEF Awaited, Awaits
<1> QED
  BY <1>7, <1>8, <1>9, <1>10 DEF DrawerInv

\* A tab is asked for: when it is in front and empty, or the user tries again.
LEMMA LoadKeeps ==
    ASSUME DrawerInv, UNCHANGED inOrder, NEW t \in Tabs, runId # Closed, ~ resetDue,
           kept' = [kept EXCEPT ![t] = Fetching], asks' = P!Load(t, runId, asks),
           UNCHANGED <<record, runId, resetDue, panel, told, strays>>
    PROVE  DrawerInv'
<1>1. PICK q : q = asks
  OBVIOUS
<1>2. QueueOK(q) /\ runId \in RunIds
  BY <1>1 DEF DrawerInv, TypedDrawer
<1>3. PICK a : a = P!Ask(t, runId, 0)
  OBVIOUS
<1>4. AskOK(a) /\ a.answer = Unanswered /\ a \in Asks /\ a.op = t /\ a.run = runId
  BY <1>2, <1>3, AskedOK, DrawerMarks
<1>5. asks' = Append(q, a)
  BY <1>1, <1>3 DEF P!Load
<1>6. QueueOK(asks') /\ Awaits(asks', t, runId) /\ \A u, r : Awaits(q, u, r) => Awaits(asks', u, r)
  BY <1>2, <1>4, <1>5, QueueAdds
<1>7. QueueOK(asks)'
  BY <1>6, QuietQueue
<1>8. kept' \in [Tabs -> {Blank, Fetching, Broken} \cup Versions] /\ kept'[t] = Fetching
      /\ \A u \in Tabs : u # t => kept'[u] = kept[u]
  BY DEF DrawerInv, TypedDrawer
<1>9. TypedDrawer' /\ PanelOK'
  BY <1>8 DEF DrawerInv, TypedDrawer, PanelOK
<1>10. KeptOK'
  BY <1>8, DrawerMarks DEF DrawerInv, KeptOK
<1>11. Awaited'
  <2>1. ASSUME strays = 0, NEW u \in Tabs, kept'[u] = Fetching
        PROVE  Awaits(asks', u, runId)
    <3>1. u # t => Awaits(q, u, runId)
      BY <1>1, <1>8, <2>1 DEF DrawerInv, Awaited
    <3> QED
      BY <1>6, <3>1
  <2> QED
    BY <2>1 DEF Awaited, Awaits
<1> QED
  BY <1>7, <1>9, <1>10, <1>11 DEF DrawerInv

LEMMA LoadTabKeeps ==
    ASSUME DrawerInv, UNCHANGED inOrder, P!LoadTab
    PROVE  DrawerInv'
<1>1. /\ runId # Closed /\ ~ resetDue /\ tab \in Tabs
      /\ kept' = [kept EXCEPT ![tab] = Fetching] /\ asks' = P!Load(tab, runId, asks)
      /\ UNCHANGED <<record, runId, resetDue, panel, told, strays>>
  BY DEF P!LoadTab, P!Open, P!spent
<1> QED
  BY <1>1, LoadKeeps

LEMMA RetryKeeps ==
    ASSUME DrawerInv, UNCHANGED inOrder, P!Retry
    PROVE  DrawerInv'
<1>1. /\ runId # Closed /\ ~ resetDue /\ tab \in Tabs
      /\ kept' = [kept EXCEPT ![tab] = Fetching] /\ asks' = P!Load(tab, runId, asks)
      /\ UNCHANGED <<record, runId, resetDue, panel, told, strays>>
  BY DEF P!Retry, P!Look, P!Open
<1> QED
  BY <1>1, LoadKeeps

\* A question is asked, of the history panel that appears or is there, or a command is given.
LEMMA AsksMore ==
    ASSUME DrawerInv, UNCHANGED inOrder, UNCHANGED <<record, runId, resetDue, kept, told, strays>>,
           NEW op \in {"history", "command"}, NEW n \in Nat, runId # Closed,
           asks' = Append(asks, P!Ask(op, runId, n)),
           \/ op = "command" /\ panel' = panel
           \/ panel' = [nth |-> n, shown |-> Closed]
    PROVE  DrawerInv'
<1>1. PICK q : q = asks
  OBVIOUS
<1>2. QueueOK(q) /\ runId \in RunIds
  BY <1>1 DEF DrawerInv, TypedDrawer
<1>3. PICK a : a = P!Ask(op, runId, n)
  OBVIOUS
<1>4. asks' = Append(q, a)
  BY <1>1, <1>3
<1>5. /\ a.answer = Unanswered /\ a \in Asks /\ a.op = op /\ a.run = runId
  BY <1>2, <1>3, DrawerMarks DEF P!Ask, Asks
<1>6. /\ panel' \in {Closed} \cup [nth : Nat, shown : {Closed} \cup Reports]
      /\ panel # Closed => panel' # Closed
      /\ op = "history" => panel' # Closed
  <2>1. [nth |-> n, shown |-> Closed] \in [nth : Nat, shown : {Closed} \cup Reports]
    OBVIOUS
  <2> QED
    BY <2>1, DrawerMarks DEF DrawerInv, TypedDrawer
<1>7. \A r \in RunIds : record[r] <= record'[r]
  BY DEF DrawerInv, TypedDrawer
<1>8. QueueOK(q)'
  BY <1>2, <1>6, <1>7, QueueStays DEF DrawerInv, TypedDrawer
<1>9. AskOK(a)'
  BY <1>2, <1>5, <1>6, DrawerMarks DEF AskOK
<1>10. PICK p : p = Append(q, a)
  OBVIOUS
<1>11. PICK m \in Nat : m = Len(q)
  BY <1>2 DEF QueueOK
<1>12. p \in Seq(Asks) /\ Len(p) = m + 1 /\ p[m + 1] = a /\ \A k \in 1..m : p[k] = q[k]
  BY <1>2, <1>5, <1>10, <1>11 DEF QueueOK
<1>13. (\A k \in 1..(m + 1) : k = m + 1 \/ k \in 1..m) /\ \A k \in 1..m : k \in 1..(m + 1)
  OBVIOUS
<1>14. \A k \in 1..(m + 1) : AskOK(p[k])'
  BY <1>8, <1>9, <1>11, <1>12, <1>13 DEF QueueOK
<1>15. ASSUME inOrder, NEW k \in 1..(m + 1), NEW l \in 1..(m + 1), k < l
       PROVE  AskPair(p[k], p[l])
  <2>1. CASE l = m + 1
    BY <1>5, <1>12, <2>1 DEF AskPair
  <2>2. CASE l # m + 1
    BY <1>2, <1>11, <1>12, <1>13, <1>15, <2>2 DEF QueueOK
  <2> QED
    BY <2>1, <2>2
<1>16. QueueOK(asks)'
  BY <1>4, <1>10, <1>12, <1>14, <1>15 DEF QueueOK
<1>17. TypedDrawer'
  BY <1>6 DEF DrawerInv, TypedDrawer
<1>18. PanelOK' /\ KeptOK'
  BY DEF DrawerInv, PanelOK, KeptOK
<1>19. Awaited'
  <2>1. \A t, r : Awaits(q, t, r) => Awaits(p, t, r)
    BY <1>11, <1>12, <1>13 DEF Awaits
  <2> QED
    BY <1>1, <1>4, <1>10, <2>1 DEF DrawerInv, Awaited, Awaits
<1> QED
  BY <1>16, <1>17, <1>18, <1>19 DEF DrawerInv

LEMMA OpenTabKeeps ==
    ASSUME DrawerInv, UNCHANGED inOrder, NEW t \in Tabs \cup {"history"}, P!OpenTab(t)
    PROVE  DrawerInv'
<1>1. /\ runId # Closed /\ ~ resetDue /\ UNCHANGED <<record, runId, resetDue, kept, told, strays>>
  BY DEF P!OpenTab, P!Look, P!Open
<1>2. CASE t = "history"
  <2>1. /\ panel' = [nth |-> 1, shown |-> Closed] /\ asks' = Append(asks, P!Ask("history", runId, 1))
    BY <1>2 DEF P!OpenTab
  <2> QED
    BY <1>1, <2>1, AsksMore
<1>3. CASE t # "history"
  <2>1. PICK q : q = asks
    OBVIOUS
  <2>2. QueueOK(q) /\ P!NoPanel(q)
    BY <1>3, <2>1 DEF DrawerInv, P!OpenTab
  <2>3. /\ panel' = Closed /\ QueueOK(asks') /\ \A k \in 1..Len(asks') : asks'[k].op # "history"
        /\ \A u, r : u # "history" /\ Awaits(q, u, r) => Awaits(asks', u, r)
    BY <2>2, NoPanelLeaves
  <2>4. QueueOK(asks)'
    BY <1>1, <2>3, QuietQueue
  <2>5. TypedDrawer' /\ PanelOK' /\ KeptOK'
    BY <1>1, <2>3 DEF DrawerInv, TypedDrawer, PanelOK, KeptOK
  <2>6. Awaited'
    BY <1>1, <2>1, <2>3, DrawerMarks DEF DrawerInv, Awaited, Awaits
  <2> QED
    BY <2>4, <2>5, <2>6 DEF DrawerInv
<1> QED
  BY <1>2, <1>3

LEMMA QuestionKeeps ==
    ASSUME DrawerInv, UNCHANGED inOrder, P!Question
    PROVE  DrawerInv'
<1>1. /\ runId # Closed /\ UNCHANGED <<record, runId, resetDue, kept, told, strays>>
      /\ panel # Closed /\ panel' = [nth |-> panel.nth + 1, shown |-> Closed]
      /\ asks' = Append(asks, P!Ask("history", runId, panel.nth + 1))
  BY DEF P!Question, P!Look, P!Open
<1>2. PICK n : n = panel.nth + 1
  OBVIOUS
<1>3. n \in Nat
  BY <1>1, <1>2 DEF DrawerInv, TypedDrawer
<1> QED
  BY <1>1, <1>2, <1>3, AsksMore

LEMMA OrderKeeps ==
    ASSUME DrawerInv, UNCHANGED inOrder, P!Order
    PROVE  DrawerInv'
<1>1. /\ runId # Closed /\ UNCHANGED <<record, runId, resetDue, kept, told, strays>>
      /\ panel' = panel /\ asks' = Append(asks, P!Ask("command", runId, 0))
  BY DEF P!Order, P!Look, P!Open
<1> QED
  BY <1>1, AsksMore

LEMMA SameRemoval == \A s, i : P!RemoveAt(s, i) = RemoveAt(s, i)
BY DEF P!RemoveAt, RemoveAt

LEMMA TabAnsweredKeeps ==
    ASSUME DrawerInv, UNCHANGED inOrder, NEW i \in 1..Len(asks), MayTake(i), P!TabAnswered(i)
    PROVE  DrawerInv'
<1>1. PICK q : q = asks
  OBVIOUS
<1>2. QueueOK(q) /\ i \in 1..Len(q)
  BY <1>1 DEF DrawerInv
<1>3. PICK a : a = q[i]
  OBVIOUS
<1>4. a \in Asks /\ AskOK(a)
  BY <1>2, <1>3 DEF QueueOK, AskOK
<1>5. /\ a.op \in Tabs /\ a.answer # Unanswered /\ asks' = RemoveAt(q, i)
      /\ kept' = IF a.run = runId THEN [kept EXCEPT ![a.op] = a.answer] ELSE kept
      /\ UNCHANGED <<record, runId, resetDue, panel, told, strays>> /\ UNCHANGED <<record, runId, told>>
  BY <1>1, <1>3, SameRemoval DEF P!TabAnswered, P!Gone, P!ForRun, P!spent
<1>6. /\ QueueOK(asks')
      /\ \A t, r : Awaits(q, t, r) => Awaits(asks', t, r) \/ (a.op = t /\ a.run = r)
  BY <1>2, <1>3, <1>5, QueueDrops
<1>7. QueueOK(asks)'
  BY <1>5, <1>6, QuietQueue
<1>8. a.answer \in {Broken} \cup Versions
  BY <1>4, <1>5 DEF Asks
<1>9. /\ kept' \in [Tabs -> {Blank, Fetching, Broken} \cup Versions]
      /\ \A t \in Tabs : kept'[t] = kept[t] \/ (t = a.op /\ a.run = runId /\ kept'[t] = a.answer)
      /\ a.run = runId => kept'[a.op] = a.answer
  BY <1>5, <1>8 DEF DrawerInv, TypedDrawer
<1>10. TypedDrawer' /\ PanelOK'
  BY <1>5, <1>9 DEF DrawerInv, TypedDrawer, PanelOK
<1>11. KeptOK'
  <2>1. a.answer \in Versions /\ a.run = runId =>
           a.answer.run = runId /\ (inOrder /\ told # Closed => told.version <= a.answer.version)
    BY <1>4 DEF AskOK
  <2> QED
    BY <1>5, <1>9, <2>1 DEF DrawerInv, KeptOK
<1>12. Awaited'
  <2>1. ASSUME strays = 0, NEW t \in Tabs, kept'[t] = Fetching, ~ resetDue
        PROVE  Awaits(asks', t, runId)
    <3>1. ~ (t = a.op /\ a.run = runId)
      BY <1>8, <1>9, <2>1, DrawerMarks
    <3>2. kept[t] = Fetching
      BY <1>9, <2>1, <3>1
    <3>3. Awaits(q, t, runId)
      BY <1>1, <2>1, <3>2 DEF DrawerInv, Awaited
    <3> QED
      BY <1>6, <3>1, <3>3
  <2> QED
    BY <1>5, <2>1 DEF Awaited, Awaits
<1> QED
  BY <1>7, <1>10, <1>11, <1>12 DEF DrawerInv

LEMMA PanelAnsweredKeeps ==
    ASSUME DrawerInv, UNCHANGED inOrder, NEW i \in 1..Len(asks), MayTake(i), P!PanelAnswered(i)
    PROVE  DrawerInv'
<1>1. PICK q : q = asks
  OBVIOUS
<1>2. QueueOK(q) /\ i \in 1..Len(q)
  BY <1>1 DEF DrawerInv
<1>3. PICK a : a = q[i]
  OBVIOUS
<1>4. a \in Asks /\ AskOK(a)
  BY <1>2, <1>3 DEF QueueOK, AskOK
<1>5. /\ a.op = "history" /\ a.answer # Unanswered /\ asks' = RemoveAt(q, i)
      /\ panel' = IF a.nth = panel.nth
                  THEN [panel EXCEPT !.shown = [nth |-> a.nth, answer |-> a.answer]] ELSE panel
      /\ UNCHANGED <<record, runId, resetDue, kept, told, strays>> /\ UNCHANGED <<record, runId, told>>
  BY <1>1, <1>3, SameRemoval DEF P!PanelAnswered, P!Gone, P!ForQuestion, P!spent, P!drawer
<1>6. /\ QueueOK(asks')
      /\ \A t, r : Awaits(q, t, r) => Awaits(asks', t, r) \/ (a.op = t /\ a.run = r)
  BY <1>2, <1>3, <1>5, QueueDrops
<1>7. a.answer \in {Broken} \cup Versions /\ a.nth \in Nat
  BY <1>4, <1>5 DEF Asks
<1>8. panel # Closed /\ panel \in [nth : Nat, shown : {Closed} \cup Reports]
  BY <1>4, <1>5 DEF AskOK, DrawerInv, TypedDrawer
<1>9. /\ panel' \in [nth : Nat, shown : {Closed} \cup Reports]
      /\ panel'.nth = panel.nth /\ (panel'.shown = panel.shown \/ panel'.shown.nth = panel.nth)
  <2>1. [nth |-> a.nth, answer |-> a.answer] \in Reports
    BY <1>7 DEF Reports
  <2> QED
    BY <1>5, <1>8, <2>1
<1>10. panel' # Closed
  BY <1>9, DrawerMarks
<1>11. QueueOK(asks)'
  BY <1>5, <1>6, <1>10, QuietQueue
<1>12. TypedDrawer'
  BY <1>5, <1>9 DEF DrawerInv, TypedDrawer
<1>13. PanelOK' /\ KeptOK'
  BY <1>5, <1>8, <1>9 DEF DrawerInv, PanelOK, KeptOK
<1>14. Awaited'
  BY <1>1, <1>5, <1>6, DrawerMarks DEF DrawerInv, Awaited, Awaits
<1> QED
  BY <1>11, <1>12, <1>13, <1>14 DEF DrawerInv

\* Questions that are all new join a queue.
LEMMA QueueJoins ==
    ASSUME NEW q, QueueOK(q), NEW b \in Seq(Asks),
           \A k \in 1..Len(b) : AskOK(b[k]) /\ b[k].answer = Unanswered
    PROVE  /\ QueueOK(q \o b)
           /\ \A t, r : Awaits(b, t, r) => Awaits(q \o b, t, r)
           /\ \A k \in 1..Len(q \o b) : (q \o b)[k].answer = Unanswered \/ \E j \in 1..Len(q) : (q \o b)[k] = q[j]
<1>1. PICK n \in Nat, m \in Nat : n = Len(q) /\ m = Len(b)
  BY DEF QueueOK
<1>2. PICK p : p = q \o b
  OBVIOUS
<1>3. q \in Seq(Asks)
  BY DEF QueueOK
<1>4. p \in Seq(Asks) /\ Len(p) = n + m
  BY <1>1, <1>2, <1>3
<1>5. \A k \in 1..(n + m) : IF k <= n THEN k \in 1..n /\ p[k] = q[k]
                                      ELSE k - n \in 1..m /\ p[k] = b[k - n]
  BY <1>1, <1>2, <1>3
<1>6. \A k \in 1..(n + m) : AskOK(p[k])
  BY <1>1, <1>5 DEF QueueOK
<1>7. ASSUME inOrder, NEW k \in 1..(n + m), NEW l \in 1..(n + m), k < l
      PROVE  AskPair(p[k], p[l])
  <2>1. CASE l <= n
    BY <1>1, <1>5, <1>7, <2>1 DEF QueueOK
  <2>2. CASE ~ (l <= n)
    BY <1>1, <1>5, <2>2 DEF AskPair
  <2> QED
    BY <2>1, <2>2
<1>8. QueueOK(p)
  BY <1>4, <1>6, <1>7 DEF QueueOK
<1>9. ASSUME NEW t, NEW r, Awaits(b, t, r)
      PROVE  Awaits(p, t, r)
  <2>1. PICK k \in 1..m : b[k].op = t /\ b[k].run = r
    BY <1>1, <1>9 DEF Awaits
  <2>2. n + k \in 1..(n + m) /\ (n + k) - n = k /\ ~ (n + k <= n)
    OBVIOUS
  <2>3. p[n + k] = b[k]
    BY <1>5, <2>2
  <2> QED
    BY <1>4, <2>1, <2>2, <2>3 DEF Awaits
<1>10. \A k \in 1..(n + m) : p[k].answer = Unanswered \/ \E j \in 1..n : p[k] = q[j]
  BY <1>1, <1>5
<1> QED
  BY <1>1, <1>2, <1>4, <1>8, <1>9, <1>10

LEMMA CommandAnsweredKeeps ==
    ASSUME DrawerInv, UNCHANGED inOrder, NEW i \in 1..Len(asks), MayTake(i), P!CommandAnswered(i)
    PROVE  DrawerInv'
<1>1. PICK q : q = asks
  OBVIOUS
<1>2. QueueOK(q) /\ i \in 1..Len(q)
  BY <1>1 DEF DrawerInv
<1>3. PICK a : a = q[i]
  OBVIOUS
<1>4. a \in Asks /\ AskOK(a) /\ a.run \in RunIds
  BY <1>2, <1>3 DEF QueueOK, AskOK, Asks
<1>5. PICK p : p = RemoveAt(q, i)
  OBVIOUS
<1>6. /\ QueueOK(p)
      /\ \A k \in 1..Len(p) : \E j \in 1..Len(q) : j # i /\ p[k] = q[j]
      /\ inOrder => \A k \in 1..Len(p) : AskPair(a, p[k])
      /\ \A t, r : Awaits(q, t, r) => Awaits(p, t, r) \/ (a.op = t /\ a.run = r)
  BY <1>2, <1>3, <1>5, QueueDrops DEF MayTake
<1>7. /\ a.op \in {"command", "orphan"} /\ a.answer # Unanswered
      /\ UNCHANGED <<record, runId, resetDue, panel>>
  BY <1>1, <1>3 DEF P!CommandAnswered, P!Commands
<1>8. CASE a.answer = Broken \/ a.op = "orphan"
  <2>1. UNCHANGED <<kept, told, strays>> /\ UNCHANGED <<record, runId, told>> /\ asks' = p
    BY <1>1, <1>3, <1>5, <1>7, <1>8, SameRemoval DEF P!CommandAnswered, P!Gone
  <2>2. QueueOK(asks)'
    BY <1>6, <1>7, <2>1, QuietQueue
  <2>3. TypedDrawer' /\ PanelOK' /\ KeptOK'
    BY <1>7, <2>1 DEF DrawerInv, TypedDrawer, PanelOK, KeptOK
  <2>4. Awaited'
    BY <1>1, <1>6, <1>7, <2>1, DrawerMarks DEF DrawerInv, Awaited, Awaits
  <2> QED
    BY <2>2, <2>3, <2>4 DEF DrawerInv
<1>9. CASE ~ (a.answer = Broken \/ a.op = "orphan")
  <2>1. PICK s : s = P!SetToSeq(Tabs)
    OBVIOUS
  <2>2. s \in Seq(Tabs) /\ \A t \in Tabs : \E k \in 1..Len(s) : s[k] = t
    BY <2>1, EveryTab
  <2>3. PICK m \in Nat : m = Len(s)
    BY <2>2
  <2>4. PICK b : b = [k \in 1..m |-> P!Ask(s[k], a.run, 0)]
    OBVIOUS
  <2>5. /\ told' = IF a.run = runId THEN a.answer ELSE told
        /\ strays' = IF a.run = runId THEN strays ELSE strays + 1
        /\ kept' = [t \in Tabs |-> Fetching] /\ asks' = p \o b
    BY <1>1, <1>3, <1>5, <1>9, <2>1, <2>3, <2>4, SameRemoval DEF P!CommandAnswered, P!Gone, P!Refreshed
  <2>6. \A k \in 1..m : /\ s[k] \in Tabs /\ b[k] \in Asks /\ AskOK(b[k]) /\ b[k].answer = Unanswered
                        /\ b[k].op = s[k] /\ b[k].run = a.run
    <3> SUFFICES ASSUME NEW k \in 1..m
                 PROVE  /\ s[k] \in Tabs /\ b[k] \in Asks /\ AskOK(b[k]) /\ b[k].answer = Unanswered
                        /\ b[k].op = s[k] /\ b[k].run = a.run
      OBVIOUS
    <3>1. s[k] \in Tabs /\ s[k] # "history"
      BY <2>2, <2>3, DrawerMarks
    <3>2. b[k] = P!Ask(s[k], a.run, 0)
      BY <2>4
    <3> QED
      BY <1>4, <3>1, <3>2, AskedOK
  <2>7. b \in Seq(Asks) /\ Len(b) = m
    BY <2>4, <2>6
  <2>8. /\ QueueOK(p \o b) /\ \A t, r : Awaits(b, t, r) => Awaits(p \o b, t, r)
        /\ \A k \in 1..Len(p \o b) : (p \o b)[k].answer = Unanswered \/ \E j \in 1..Len(p) : (p \o b)[k] = p[j]
    BY <1>6, <2>6, <2>7, QueueJoins
  <2>9. PICK w : w = p \o b
    OBVIOUS
  <2>10. a.answer \in Versions /\ a.answer.run = a.run /\ a.answer.version <= record[a.run]
    BY <1>4, <1>7, <1>9 DEF Asks, AskOK
  <2>11. \A k \in 1..Len(w) : AskOK(w[k])'
    <3> SUFFICES ASSUME NEW k \in 1..Len(w)
                 PROVE  AskOK(w[k])'
      OBVIOUS
    <3>1. PICK c : c = w[k]
      OBVIOUS
    <3>2. AskOK(c) /\ (c.answer = Unanswered \/ \E j \in 1..Len(p) : c = p[j])
      BY <2>8, <2>9, <3>1 DEF QueueOK
    <3>3. inOrder /\ c.answer \in Versions /\ c.run = a.run => a.answer.version <= c.answer.version
      BY <1>6, <2>10, <3>2, DrawerMarks DEF AskPair
    <3> QED
      BY <1>7, <2>5, <3>1, <3>2, <3>3 DEF AskOK
  <2>12. QueueOK(asks)'
    BY <2>5, <2>8, <2>9, <2>11 DEF QueueOK
  <2>13. TypedDrawer'
    BY <1>7, <2>5, <2>10 DEF DrawerInv, TypedDrawer
  <2>14. \A t \in Tabs : kept'[t] = Fetching
    BY <2>5
  <2>15. KeptOK' /\ PanelOK'
    BY <1>7, <2>5, <2>10, <2>14, DrawerMarks DEF DrawerInv, KeptOK, PanelOK
  <2>16. Awaited'
    <3>1. ASSUME strays' = 0, NEW t \in Tabs
          PROVE  Awaits(asks', t, runId)
      <4>1. a.run = runId
        BY <2>5, <3>1 DEF DrawerInv, TypedDrawer
      <4>2. Awaits(b, t, runId)
        BY <2>2, <2>3, <2>6, <2>7, <4>1 DEF Awaits
      <4> QED
        BY <2>5, <2>8, <4>2
    <3> QED
      BY <1>7, <3>1 DEF Awaited, Awaits
  <2> QED
    BY <2>12, <2>13, <2>15, <2>16 DEF DrawerInv
<1> QED
  BY <1>8, <1>9

-----------------------------------------------------------------------------
(* The drawer on its page.                                                 *)

LEMMA OrderStays ==
    ASSUME Next \/ UNCHANGED vars
    PROVE  UNCHANGED inOrder
<1>1. ASSUME NEW i \in 1..Len(calls),
             AnswerFirst(i) \/ AnswerSecond(i) \/ AnswerSend(i) \/ AnswerCommand(i) \/ Lose(i)
      PROVE  UNCHANGED inOrder
  BY <1>1 DEF AnswerFirst, AnswerSecond, AnswerSend, AnswerCommand, Lose, budget
<1>2. ASSUME NEW i \in 1..Len(calls), Listed(i) \/ Refreshed(i) \/ LoadedMessages(i) \/ LoadedRuns(i)
      PROVE  UNCHANGED inOrder
  BY <1>2 DEF Listed, Refreshed, LoadedMessages, LoadedRuns, budget
<1>3. ASSUME NEW i \in 1..Len(calls),
             Posted(i) \/ Commanded(i) \/ Polled(i) \/ FinalMessages(i) \/ FinalList(i)
      PROVE  UNCHANGED inOrder
  BY <1>3 DEF Posted, Commanded, Polled, FinalMessages, FinalList, budget
<1>4. ASSUME \/ \E r \in Started : Finish(r) \/ Lapse(r)
             \/ Render \/ Effect \/ \E p \in polls : Tick(p)
      PROVE  UNCHANGED inOrder
  BY <1>4 DEF Finish, Lapse, Render, Effect, Tick, budget
<1>5. ASSUME \/ \E a \in Agents : Select(a)
             \/ Send \/ \E op \in Commands, a \in Agents : Command(op, a)
      PROVE  UNCHANGED inOrder
  BY <1>5 DEF Select, Send, Command, Acts
<1>6. ASSUME UNCHANGED vars
      PROVE  UNCHANGED inOrder
  BY <1>6 DEF vars, budget
<1> QED
  BY <1>1, <1>2, <1>3, <1>4, <1>5, <1>6, Zenon DEF Next, OtherThanEffect, Apply

LEMMA DrawerStays ==
    ASSUME DrawerInv, UNCHANGED inOrder, UNCHANGED panels
    PROVE  DrawerInv'
<1>1. UNCHANGED <<record, runId, resetDue, kept, panel, asks, told, strays>>
  BY DEF panels
<1>2. PICK q : q = asks
  OBVIOUS
<1>3. \A r \in RunIds : record[r] <= record'[r]
  BY <1>1 DEF DrawerInv, TypedDrawer
<1>4. QueueOK(q)'
  BY <1>1, <1>2, <1>3, QueueStays DEF DrawerInv, TypedDrawer
<1>5. QueueOK(asks)'
  BY <1>1, <1>2, <1>4 DEF QueueOK
<1> QED
  BY <1>1, <1>5 DEF DrawerInv, TypedDrawer, KeptOK, PanelOK, Awaited, Awaits

LEMMA FollowKeeps ==
    ASSUME DrawerInv, UNCHANGED inOrder, activeRun' \in {None} \cup RunViews, Follow
    PROVE  DrawerInv'
<1>1. Followed \in RunIds \cup {Closed}
  BY DEF Followed, RunViews
<1>2. PICK r : r = Followed
  OBVIOUS
<1>3. UNCHANGED panels \/ P!Show(r)
  BY <1>2 DEF Follow
<1> QED
  BY <1>1, <1>2, <1>3, DrawerStays, ShowKeeps

LEMMA PanelStepKeeps ==
    ASSUME TypedServer, DrawerInv, PanelStep
    PROVE  DrawerInv'
<1>1. UNCHANGED inOrder
  BY DEF PanelStep, vars, budget
<1>2. ASSUME NEW i \in 1..Len(asks), MayReply(i), P!Reply(i) \/ P!Refuse(i)
      PROVE  DrawerInv'
  BY <1>1, <1>2, ReplyKeeps, RefuseKeeps
<1>3. ASSUME NEW i \in 1..Len(asks), MayTake(i), P!Answered(i)
      PROVE  DrawerInv'
  BY <1>1, <1>3, TabAnsweredKeeps, PanelAnsweredKeeps, CommandAnsweredKeeps, Zenon DEF P!Answered
<1>4. ASSUME NEW r \in Started, P!Touch(r)
      PROVE  DrawerInv'
  BY <1>1, <1>4, TouchKeeps DEF Started
<1>5. CASE P!Reset
  BY <1>1, <1>5, ResetKeeps
<1>6. CASE P!LoadTab
  BY <1>1, <1>6, LoadTabKeeps
<1>7. ASSUME NEW t \in Tabs \cup {"history"}, P!OpenTab(t)
      PROVE  DrawerInv'
  BY <1>1, <1>7, OpenTabKeeps
<1>8. CASE P!Question
  BY <1>1, <1>8, QuestionKeeps
<1>9. CASE P!Retry
  BY <1>1, <1>9, RetryKeeps
<1>10. CASE P!Order
  BY <1>1, <1>10, OrderKeeps
<1> QED
  BY <1>2, <1>3, <1>4, <1>5, <1>6, <1>7, <1>8, <1>9, <1>10, Zenon DEF PanelStep

\* A reconciliation that has started its run is the same question.
LEMMA ReplacedStays ==
    ASSUME DrawerInv, NEW i \in 1..Len(asks), NEW a \in Agents, Replaced(i, a)
    PROVE  DrawerInv'
<1>1. /\ UNCHANGED <<record, runId, resetDue, kept, panel, told, strays, inOrder>>
      /\ asks' = [asks EXCEPT ![i].nth = 1] /\ asks[i].op # "history"
  BY DEF Replaced, P!Commands
<1>2. PICK q \in Seq(Asks) : q = asks /\ QueueOK(q)
  BY DEF DrawerInv, QueueOK
<1>3. PICK p : p = asks'
  OBVIOUS
<1>4. PICK d : d = [q[i] EXCEPT !.nth = 1]
  OBVIOUS
<1>5. q[i] \in Asks /\ d \in Asks /\ d.op = q[i].op /\ d.run = q[i].run /\ d.answer = q[i].answer
  <2>1. i \in 1..Len(q)
    BY <1>2
  <2>2. q[i] \in Asks
    BY <2>1
  <2> QED
    BY <1>4, <2>2 DEF Asks
<1>6. p \in Seq(Asks) /\ Len(p) = Len(q) /\ p[i] = d /\ \A k \in 1..Len(q) : k # i => p[k] = q[k]
  BY <1>1, <1>2, <1>3, <1>4, <1>5
<1>7. \A k \in 1..Len(q) : p[k] \in Asks /\ p[k].op = q[k].op /\ p[k].run = q[k].run /\ p[k].answer = q[k].answer
  BY <1>2, <1>5, <1>6
<1>8. \A k \in 1..Len(q) : AskOK(p[k])
  BY <1>2, <1>7 DEF QueueOK, AskOK
<1>9. inOrder => \A k, l \in 1..Len(q) : k < l => AskPair(p[k], p[l])
  BY <1>2, <1>7 DEF QueueOK, AskPair
<1>10. QueueOK(p)
  BY <1>6, <1>8, <1>9 DEF QueueOK
<1>11. QueueOK(asks)'
  BY <1>1, <1>3, <1>10 DEF QueueOK, AskOK, AskPair
<1>12. Awaited'
  <2>1. \A t, r : Awaits(q, t, r) => Awaits(p, t, r)
    BY <1>6, <1>7 DEF Awaits
  <2> QED
    BY <1>1, <1>2, <1>3, <2>1 DEF DrawerInv, Awaited
<1> QED
  BY <1>1, <1>11, <1>12 DEF DrawerInv, TypedDrawer, KeptOK, PanelOK

LEMMA DrawerStep ==
    ASSUME IInv, IInv', DrawerInv, [PageNext]_all
    PROVE  DrawerInv'
<1>1. UNCHANGED inOrder /\ activeRun' \in {None} \cup RunViews /\ TypedServer
  <2>1. \A i, a : Replaced(i, a) => UNCHANGED inOrder
    BY DEF Replaced
  <2> QED
    BY <2>1, PageStep, OrderStays DEF IInv, TypedPage
<1>2. CASE Follow
  BY <1>1, <1>2, FollowKeeps
<1>3. CASE PanelStep
  BY <1>1, <1>3, PanelStepKeeps
<1>4. CASE UNCHANGED all
  BY <1>1, <1>4, DrawerStays DEF all
<1>5. ASSUME NEW i \in 1..Len(asks), NEW a \in Agents, Replaced(i, a)
      PROVE  DrawerInv'
  BY <1>5, ReplacedStays
<1> QED
  BY <1>2, <1>3, <1>4, <1>5 DEF PageNext, ConsoleStep, Selected, Toggle

LEMMA ShutHolds ==
    ASSUME P!PanelsInit
    PROVE  DrawerInv
<1>1. /\ record = [r \in RunIds |-> 0] /\ runId = Closed /\ resetDue = FALSE
      /\ kept = [t \in Tabs |-> Blank] /\ panel = Closed /\ asks = <<>> /\ told = Closed /\ strays = 0
  BY DEF P!PanelsInit, P!Empty
<1>2. QueueOK(asks)
  BY <1>1 DEF QueueOK
<1>3. \A t \in Tabs : kept[t] = Blank
  BY <1>1
<1>4. TypedDrawer
  BY <1>1, <1>3 DEF TypedDrawer
<1> QED
  BY <1>1, <1>2, <1>3, <1>4, DrawerMarks DEF DrawerInv, KeptOK, PanelOK, Awaited

LEMMA DrawerInvariant == PageSpec => []DrawerInv
<1>1. PageInit => DrawerInv
  BY ShutHolds DEF PageInit
<1>2. IInv /\ IInv' /\ DrawerInv /\ [PageNext]_all => DrawerInv'
  BY DrawerStep
<1> QED
  BY <1>1, <1>2, PageInvariant, PTL DEF PageSpec

\* PanelsShowAsked holds: what the drawer shows is its own run's, and what the history
\* panel shows answers its last question, whatever is late (WalnutDrawer.tsx, HistoryPanel.tsx).
THEOREM AskedShown == PageSpec => []PanelsShowAsked
<1>1. DrawerInv => PanelsShowAsked
  BY DEF DrawerInv, TypedDrawer, KeptOK, PanelOK, PanelsShowAsked, P!ShownIsAsked, P!Open, P!States
<1> QED
  BY <1>1, DrawerInvariant, PTL

\* PanelsLoad holds: a tab that is loading has its run's answer on the way, unless a
\* command was answered after the drawer went on to another run (WalnutDrawer.tsx:163-195).
THEOREM LoadingAwaited == PageSpec => []PanelsLoad
<1>1. DrawerInv => PanelsLoad
  BY DEF DrawerInv, Awaited, Awaits, PanelsLoad, P!FetchingIsAwaited
<1> QED
  BY <1>1, DrawerInvariant, PTL

\* PanelsSeeCommand holds: on a network that keeps the order, no tab goes back to what was
\* known before a command the drawer heard back from (WalnutDrawer.tsx:163-168).
THEOREM CommandSeen == PageSpec => []PanelsSeeCommand
<1>1. DrawerInv => PanelsSeeCommand
  <2> SUFFICES ASSUME DrawerInv, inOrder, told # Closed, NEW t \in Tabs, kept[t] \notin P!States
               PROVE  kept[t].version >= told.version
    BY DEF PanelsSeeCommand, P!CommandIsSeen
  <2>1. kept[t] \in Versions /\ told \in Versions
    BY DEF DrawerInv, TypedDrawer, P!States
  <2>2. kept[t].version \in Nat /\ told.version \in Nat /\ told.version <= kept[t].version
    BY <2>1 DEF DrawerInv, KeptOK, Versions
  <2> QED
    BY <2>2
<1> QED
  BY <1>1, DrawerInvariant, PTL
=====
