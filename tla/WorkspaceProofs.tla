---------------------------- MODULE WorkspaceProofs ----------------------------
(***************************************************************************)
(* Of Outbox: EntriesAccounted and IngestedOnceUnharmed for any number of  *)
(* runs, proposals, faults and restarts.  Of Workspace: RunsAsPinned for   *)
(* any number of runs, updates and configurations; and what is shown of    *)
(* the outbox, for an Agent that is updated and whose updates share the    *)
(* server's faults and restarts.                                           *)
(***************************************************************************)
EXTENDS Workspace, TLAPS

Labels == {"none"} \cup Busy \cup Leaving \cup Ended
Events == {<<"outbox_failed">>} \cup {<<"proposal_rejected", i>> : i \in Nat}
          \cup {<<"outbox_processed", a, b>> : a, b \in Nat}

Typed ==
    /\ run \in [Runs -> Labels]
    /\ outbox \in Files
    /\ file \in [Runs -> Files]
    /\ todo \in [Runs -> Seq(Proposals)]
    /\ processed \in [Runs -> Files]
    /\ accepted \in [Runs -> Seq(Proposals)]
    /\ rejected \in [Runs -> Seq(Nat)]
    /\ chain \in [Runs -> Seq(Events)]

\* What a run has to show for each entry of the file it read.
AnsweredFor(r, i) ==
    \/ InFile(accepted[r], file[r][i]) /\ <<file[r][i], r>> \in evidence
    \/ InFile(rejected[r], i)

Untouched(r) ==
    accepted[r] = <<>> /\ rejected[r] = <<>> /\ chain[r] = <<>> /\ processed[r] = Absent

\* While it ingests, todo is the rest of the file, and the entries before it are answered
\* for; the file is still there, was renamed by another run, or a child wrote it.
Reading(r) ==
    /\ processed[r] = Absent /\ chain[r] = <<>>
    /\ file[r] \in Lists /\ file[r] # Absent /\ Len(todo[r]) <= Len(file[r])
    /\ \A i \in 1..Len(todo[r]) : todo[r][i] = file[r][Len(file[r]) - Len(todo[r]) + i]
    /\ \A i \in 1..(Len(file[r]) - Len(todo[r])) : AnsweredFor(r, i)
    /\ outbox \in {file[r], Absent} \/ r \in rewritten

Covered(r) ==
    /\ file[r] = Absent => accepted[r] = <<>> /\ processed[r] = Absent
    /\ file[r] \notin {Absent, Malformed} =>
          /\ processed[r] = file[r] \/ r \in rewritten
          /\ \A i \in 1..Len(file[r]) : AnsweredFor(r, i)

\* While it reports, the chain is the rejections so far.
Telling(r) ==
    /\ Len(chain[r]) <= Len(rejected[r])
    /\ \A i \in 1..Len(chain[r]) : chain[r][i] = <<"proposal_rejected", rejected[r][i]>>
    /\ Covered(r)

Accounted(r) ==
    \/ InFile(chain[r], <<"outbox_failed">>)
    \/ chain[r] = Rejections(r) \o Summary(r) /\ Covered(r)

Kept(r) ==
    /\ run[r] \in {"none", "queued", "child", "outbox"} => Untouched(r)
    /\ run[r] = "ingest" => Reading(r)
    /\ run[r] = "report" => Telling(r)
    /\ run[r] \in {"complete", "completedEvent", "completed"} => Accounted(r)

Inv == Typed /\ \A r \in Runs : Kept(r)

-----------------------------------------------------------------------------
LEMMA ListsAreSequences == \A f \in Lists : f \in Seq(Proposals)
<1> SUFFICES ASSUME NEW n \in 0..2, NEW f \in [1..n -> Proposals]  PROVE f \in Seq(Proposals)
  BY DEF Lists
<1> QED
  OBVIOUS

\* What others do to the file and to the Evidence disturbs no run: of the file they may
\* take it away, or they are children and the run is noted.
LEMMA OthersKept ==
    ASSUME NEW s, Kept(s),
           \/ run'[s] \in {run[s], "cancelled"}
           \/ run[s] = "completedEvent" /\ run'[s] = "completed",
           accepted'[s] = accepted[s], rejected'[s] = rejected[s], chain'[s] = chain[s],
           processed'[s] = processed[s], file'[s] = file[s], todo'[s] = todo[s],
           evidence \subseteq evidence', rewritten \subseteq rewritten',
           run[s] = "ingest" => outbox' \in {outbox, Absent} \/ s \in rewritten'
    PROVE  Kept(s)'
<1>1. Untouched(s) => Untouched(s)'
  BY DEF Untouched
<1>2. \A i : AnsweredFor(s, i) => AnsweredFor(s, i)'
  BY DEF AnsweredFor, InFile
<1>3. Covered(s) => Covered(s)'
  BY <1>2 DEF Covered
<1>4. Rejections(s)' = Rejections(s) /\ Summary(s)' = Summary(s)
  BY DEF Rejections, Summary, Total
<1>5. Accounted(s) => Accounted(s)'
  BY <1>3, <1>4 DEF Accounted, InFile
<1>6. Telling(s) => Telling(s)'
  BY <1>3 DEF Telling
<1>7. run[s] = "ingest" /\ Reading(s) => Reading(s)'
  BY <1>2 DEF Reading
<1> QED
  BY <1>1, <1>5, <1>6, <1>7 DEF Kept

\* One step of one run: what is left to show is the run itself.
LEMMA StepKeeps ==
    ASSUME Inv, NEW r \in Runs, Typed', Kept(r)', NEW l, run' = [run EXCEPT ![r] = l],
           \A s \in Runs \ {r} : /\ accepted'[s] = accepted[s] /\ rejected'[s] = rejected[s]
                                 /\ chain'[s] = chain[s] /\ processed'[s] = processed[s]
                                 /\ file'[s] = file[s] /\ todo'[s] = todo[s],
           evidence \subseteq evidence', rewritten' = rewritten, outbox' \in {outbox, Absent}
    PROVE  Inv'
<1>1. ASSUME NEW s \in Runs, s # r  PROVE Kept(s)'
  <2>1. run'[s] = run[s] /\ Kept(s)
    BY <1>1 DEF Inv, Typed
  <2> QED
    BY <1>1, <2>1, OthersKept
<1> QED
  BY <1>1 DEF Inv

-----------------------------------------------------------------------------
LEMMA AppendFact ==
    ASSUME NEW S, NEW s \in Seq(S), NEW x \in S
    PROVE  /\ Append(s, x) \in Seq(S) /\ Len(Append(s, x)) = Len(s) + 1
           /\ \A i \in 1..Len(s) : Append(s, x)[i] = s[i]
           /\ Append(s, x)[Len(s) + 1] = x
           /\ InFile(Append(s, x), x)
           /\ \A y : InFile(s, y) => InFile(Append(s, x), y)
<1>1. /\ Append(s, x) \in Seq(S) /\ Len(Append(s, x)) = Len(s) + 1
      /\ \A i \in 1..Len(s) : Append(s, x)[i] = s[i]
      /\ Append(s, x)[Len(s) + 1] = x
  OBVIOUS
<1>2. Len(s) \in Nat /\ Len(s) + 1 \in 1..Len(Append(s, x))
  BY <1>1
<1>3. InFile(Append(s, x), x)
  BY <1>1, <1>2 DEF InFile
<1>4. ASSUME NEW y, InFile(s, y)  PROVE InFile(Append(s, x), y)
  <2>1. PICK k \in 1..Len(s) : s[k] = y
    BY <1>4 DEF InFile
  <2>2. k \in 1..Len(Append(s, x)) /\ Append(s, x)[k] = y
    BY <1>1, <1>2, <2>1
  <2> QED
    BY <2>2 DEF InFile
<1> QED
  BY <1>1, <1>3, <1>4

LEMMA TailFact ==
    ASSUME NEW S, NEW s \in Seq(S), s # <<>>
    PROVE  /\ Head(s) \in S /\ Head(s) = s[1] /\ Tail(s) \in Seq(S)
           /\ Len(s) \in Nat /\ Len(s) >= 1 /\ Len(Tail(s)) = Len(s) - 1
           /\ \A i \in 1..Len(Tail(s)) : Tail(s)[i] = s[i + 1]
  OBVIOUS

\* Nothing accepted and nothing rejected leaves nothing to tell.
LEMMA NothingToTell ==
    ASSUME NEW r, Untouched(r)
    PROVE  Rejections(r) = <<>> /\ Summary(r) = <<>>
BY DEF Untouched, Rejections, Summary, Total

\* Steps that move a run among the places where it has nothing yet, or is done, to show.
LEMMA GotoKeeps ==
    ASSUME Inv, NEW r \in Runs, NEW l \in Labels \ {"none", "ingest", "report", "complete"},
           run' = [run EXCEPT ![r] = l],
           UNCHANGED <<files, reading, results, chain>>,
           l \in {"queued", "child", "outbox"} => run[r] \in {"none", "queued", "child"},
           l \in {"completedEvent", "completed"} => run[r] \in {"complete", "completedEvent"}
    PROVE  Inv'
<1>1. Typed'
  BY DEF Inv, Typed, files, reading, results
<1>2. run'[r] = l
  BY DEF Inv, Typed
<1>3. Untouched(r)' = Untouched(r)
  BY DEF Untouched, files, results
<1>4. Accounted(r)' = Accounted(r)
  BY DEF Accounted, Covered, AnsweredFor, Rejections, Summary, Total, files, reading, results
<1>5. Kept(r)'
  BY <1>2, <1>3, <1>4 DEF Kept, Inv
<1> QED
  BY <1>1, <1>5, StepKeeps DEF files, reading, results

LEMMA QuietKeeps ==
    ASSUME Inv, NEW r \in Runs,
           \/ SendMessage(r) \/ Spawn(r) \/ ChildSucceeds(r) \/ RunFails(r)
           \/ CompleteRun(r) \/ EmitCompleted(r) \/ CatchRun(r)
    PROVE  Inv'
<1> DEFINE Fit(l) ==
      /\ l \in Labels \ {"none", "ingest", "report", "complete"}
      /\ l \in {"queued", "child", "outbox"} => run[r] \in {"none", "queued", "child"}
      /\ l \in {"completedEvent", "completed"} => run[r] \in {"complete", "completedEvent"}
<1>1. UNCHANGED <<files, reading, results, chain>>
  BY DEF SendMessage, Spawn, ChildSucceeds, RunFails, CompleteRun, EmitCompleted, CatchRun
<1>2. \E l : Fit(l) /\ run' = [run EXCEPT ![r] = l]
  <2>1. CASE SendMessage(r)
    <3>1. Fit("queued") /\ run' = [run EXCEPT ![r] = "queued"]
      BY <2>1 DEF SendMessage, Goto, Labels, Busy
    <3> QED
      BY <3>1
  <2>2. CASE Spawn(r)
    <3>1. Fit("catch") /\ Fit("child")
      BY <2>2 DEF Spawn, Labels, Busy, Leaving
    <3>2. run' = [run EXCEPT ![r] = "catch"] \/ run' = [run EXCEPT ![r] = "child"]
      BY <2>2 DEF Spawn, Goto
    <3> QED
      BY <3>1, <3>2
  <2>3. CASE ChildSucceeds(r)
    <3>1. Fit("outbox") /\ run' = [run EXCEPT ![r] = "outbox"]
      BY <2>3 DEF ChildSucceeds, Goto, Labels, Busy
    <3> QED
      BY <3>1
  <2>4. CASE RunFails(r)
    <3>1. Fit("cancel") /\ Fit("catch")
      BY DEF Labels, Leaving
    <3> QED
      BY <2>4, <3>1 DEF RunFails, Goto
  <2>5. CASE CompleteRun(r)
    <3>1. Fit("completedEvent") /\ run' = [run EXCEPT ![r] = "completedEvent"]
      BY <2>5 DEF CompleteRun, Goto, Labels, Leaving
    <3> QED
      BY <3>1
  <2>6. CASE EmitCompleted(r)
    <3>1. Fit("completed") /\ run' = [run EXCEPT ![r] = "completed"]
      BY <2>6 DEF EmitCompleted, Leave, Goto, Labels, Ended
    <3> QED
      BY <3>1
  <2>7. CASE CatchRun(r)
    <3>1. Fit("failed") /\ run' = [run EXCEPT ![r] = "failed"]
      BY <2>7 DEF CatchRun, Leave, Goto, Labels, Ended
    <3> QED
      BY <3>1
  <2> QED
    BY <2>1, <2>2, <2>3, <2>4, <2>5, <2>6, <2>7
<1>3. PICK l : Fit(l) /\ run' = [run EXCEPT ![r] = l]
  BY <1>2
<1> QED
  BY <1>1, <1>3, GotoKeeps

LEMMA WriteKeeps ==
    ASSUME Inv, NEW r \in Runs, ChildWrites(r)
    PROVE  Inv'
<1>1. /\ outbox' \in Files /\ rewritten' = rewritten \cup InWindow
      /\ UNCHANGED <<run, processed, file, todo, results, chain>>
  BY DEF ChildWrites, Files
<1>2. Typed'
  BY <1>1 DEF Inv, Typed, results
<1>3. ASSUME NEW s \in Runs  PROVE Kept(s)'
  <2>1. run[s] = "ingest" => s \in rewritten'
    BY <1>1 DEF InWindow
  <2> QED
    BY <1>1, <2>1, OthersKept DEF Inv, results
<1> QED
  BY <1>2, <1>3 DEF Inv

LEMMA ReadKeeps ==
    ASSUME Inv, NEW r \in Runs, ReadOutbox(r)
    PROVE  Inv'
<1>1. /\ run[r] = "outbox" /\ Untouched(r)
      /\ file' = [file EXCEPT ![r] = outbox] /\ file'[r] = outbox
      /\ UNCHANGED <<outbox, processed, accepted, evidence, chain, rewritten>>
  BY DEF ReadOutbox, Inv, Typed, Kept, files
<1>2. Untouched(r)' \/ rejected' # rejected
  BY <1>1 DEF Untouched
<1>3. CASE outbox = Absent
  <2>1. run' = [run EXCEPT ![r] = "complete"] /\ UNCHANGED <<todo, rejected>>
    BY <1>3 DEF ReadOutbox, Goto, Absent, Malformed
  <2>2. Typed'
    BY <1>1, <2>1 DEF Inv, Typed, Labels, Busy
  <2>3. Rejections(r)' = <<>> /\ Summary(r)' = <<>> /\ chain'[r] = <<>>
    <3>1. Rejections(r)' = Rejections(r) /\ Summary(r)' = Summary(r)
      BY <1>1, <2>1 DEF Rejections, Summary, Total
    <3> QED
      BY <1>1, <3>1, NothingToTell DEF Untouched
  <2>4. Covered(r)'
    BY <1>1, <1>3, <2>1 DEF Covered, Untouched
  <2>5. Accounted(r)'
    <3>1. chain'[r] = Rejections(r)' \o Summary(r)'
      BY <2>3
    <3> QED
      BY <2>4, <3>1 DEF Accounted
  <2>6. Kept(r)'
    BY <2>1, <2>5 DEF Kept, Inv, Typed
  <2> QED
    BY <1>1, <2>1, <2>2, <2>6, StepKeeps DEF Inv, Typed
<1>4. CASE outbox = Malformed /\ outbox # Absent
  <2>1. /\ run' = [run EXCEPT ![r] = "report"] /\ UNCHANGED todo
        /\ rejected' = [rejected EXCEPT ![r] = <<0>>]
    BY <1>4 DEF ReadOutbox, Goto
  <2>2. Typed'
    BY <1>1, <2>1 DEF Inv, Typed, Labels, Busy
  <2>3. Telling(r)'
    BY <1>1, <1>4, <2>1 DEF Telling, Covered, Untouched, Inv, Typed
  <2>4. Kept(r)'
    BY <2>1, <2>3 DEF Kept, Inv, Typed
  <2>5. \A s \in Runs \ {r} : rejected'[s] = rejected[s] /\ file'[s] = file[s]
    BY <1>1, <2>1 DEF Inv, Typed
  <2> QED
    BY <1>1, <2>1, <2>2, <2>4, <2>5, StepKeeps
<1>5. CASE outbox \notin {Absent, Malformed}
  <2>1. /\ run' = [run EXCEPT ![r] = "ingest"] /\ UNCHANGED rejected
        /\ todo' = [todo EXCEPT ![r] = outbox]
    BY <1>5 DEF ReadOutbox, Goto
  <2>2. outbox \in Lists /\ outbox \in Seq(Proposals)
    BY <1>5, ListsAreSequences DEF Inv, Typed, Files
  <2>3. Typed'
    BY <1>1, <2>1, <2>2 DEF Inv, Typed, Labels, Busy
  <2>4. todo'[r] = outbox
    BY <2>1 DEF Inv, Typed
  <2>5. Reading(r)'
    BY <1>1, <1>5, <2>2, <2>4 DEF Reading, Untouched
  <2>6. Kept(r)'
    BY <2>1, <2>5 DEF Kept, Inv, Typed
  <2>7. \A s \in Runs \ {r} : todo'[s] = todo[s] /\ file'[s] = file[s]
    BY <1>1, <2>1 DEF Inv, Typed
  <2> QED
    BY <1>1, <2>1, <2>3, <2>6, <2>7, StepKeeps
<1> QED
  BY <1>3, <1>4, <1>5

\* The front of the rest of a file is the entry after those that are answered for.
LEMMA FrontFact ==
    ASSUME NEW f \in Seq(Proposals), NEW t \in Seq(Proposals), t # <<>>, Len(t) <= Len(f),
           \A i \in 1..Len(t) : t[i] = f[Len(f) - Len(t) + i]
    PROVE  /\ Head(t) \in Proposals /\ Tail(t) \in Seq(Proposals) /\ Len(Tail(t)) <= Len(f)
           /\ \A i \in 1..Len(Tail(t)) : Tail(t)[i] = f[Len(f) - Len(Tail(t)) + i]
           /\ \E k \in Nat : /\ k = Len(f) - Len(t) + 1 /\ k \in 1..Len(f) /\ Head(t) = f[k]
                            /\ \A i \in 1..(Len(f) - Len(Tail(t))) :
                                  i = k \/ i \in 1..(Len(f) - Len(t))
<1>1. /\ Head(t) \in Proposals /\ Head(t) = t[1] /\ Tail(t) \in Seq(Proposals)
      /\ Len(t) \in Nat /\ Len(t) >= 1 /\ Len(Tail(t)) = Len(t) - 1
      /\ \A i \in 1..Len(Tail(t)) : Tail(t)[i] = t[i + 1]
  BY TailFact
<1>2. ASSUME NEW i \in 1..Len(Tail(t))  PROVE Tail(t)[i] = f[Len(f) - Len(Tail(t)) + i]
  <2>1. i + 1 \in 1..Len(t) /\ Tail(t)[i] = t[i + 1]
    BY <1>1
  <2>2. t[i + 1] = f[Len(f) - Len(t) + (i + 1)]
    BY <2>1
  <2>3. Len(f) - Len(t) + (i + 1) = Len(f) - Len(Tail(t)) + i
    BY <1>1
  <2> QED
    BY <2>1, <2>2, <2>3
<1>3. PICK k \in Nat : k = Len(f) - Len(t) + 1 /\ k \in 1..Len(f) /\ Head(t) = f[k]
  BY <1>1
<1>4. \A i \in 1..(Len(f) - Len(Tail(t))) : i = k \/ i \in 1..(Len(f) - Len(t))
  BY <1>1, <1>3
<1>5. \E j \in Nat : /\ j = Len(f) - Len(t) + 1 /\ j \in 1..Len(f) /\ Head(t) = f[j]
                     /\ \A i \in 1..(Len(f) - Len(Tail(t))) :
                           i = j \/ i \in 1..(Len(f) - Len(t))
  <2> WITNESS k \in Nat
  <2> QED
    BY <1>3, <1>4
<1>6. \A i \in 1..Len(Tail(t)) : Tail(t)[i] = f[Len(f) - Len(Tail(t)) + i]
  BY <1>2
<1>7. Len(Tail(t)) <= Len(f)
  <2> Len(f) \in Nat
    OBVIOUS
  <2> QED
    BY <1>1
<1> QED
  BY <1>1, <1>5, <1>6, <1>7

\* The entry at the front of todo is answered for, whichever way it goes.
LEMMA IngestKeeps ==
    ASSUME Inv, NEW r \in Runs, IngestEntry(r)
    PROVE  Inv'
<1>1. /\ run[r] = "ingest" /\ Reading(r) /\ todo[r] # <<>>
      /\ todo' = [todo EXCEPT ![r] = Tail(@)] /\ todo'[r] = Tail(todo[r])
      /\ Accept(r) \/ Reject(r)
      /\ UNCHANGED <<run, outbox, file, processed, chain, rewritten>>
  BY DEF IngestEntry, Inv, Typed, Kept, files
<1>2. /\ file[r] \in Seq(Proposals) /\ todo[r] \in Seq(Proposals) /\ Len(todo[r]) <= Len(file[r])
      /\ \A i \in 1..Len(todo[r]) : todo[r][i] = file[r][Len(file[r]) - Len(todo[r]) + i]
  BY <1>1, ListsAreSequences DEF Reading, Inv, Typed
<1>3. /\ Head(todo[r]) \in Proposals /\ Tail(todo[r]) \in Seq(Proposals)
      /\ Len(Tail(todo[r])) <= Len(file[r])
      /\ \A i \in 1..Len(Tail(todo[r])) :
            Tail(todo[r])[i] = file[r][Len(file[r]) - Len(Tail(todo[r])) + i]
      /\ \E k \in Nat : /\ k = Len(file[r]) - Len(todo[r]) + 1 /\ k \in 1..Len(file[r])
                       /\ Head(todo[r]) = file[r][k]
                       /\ \A i \in 1..(Len(file[r]) - Len(Tail(todo[r]))) :
                             i = k \/ i \in 1..(Len(file[r]) - Len(todo[r]))
  BY <1>1, <1>2, FrontFact
<1>4. PICK k \in Nat : /\ k = Position(r) /\ Head(todo[r]) = file[r][k]
                       /\ \A i \in 1..(Len(file[r]) - Len(Tail(todo[r]))) :
                             i = k \/ i \in 1..(Len(file[r]) - Len(todo[r]))
  BY <1>3 DEF Position
<1>5. /\ accepted' \in [Runs -> Seq(Proposals)] /\ rejected' \in [Runs -> Seq(Nat)]
      /\ evidence \subseteq evidence'
      /\ \A s \in Runs \ {r} : accepted'[s] = accepted[s] /\ rejected'[s] = rejected[s]
      /\ \A p : InFile(accepted[r], p) => InFile(accepted'[r], p)
      /\ \A i : InFile(rejected[r], i) => InFile(rejected'[r], i)
      /\ AnsweredFor(r, k)'
  <2>1. CASE Accept(r)
    <3>1. /\ evidence' = evidence \cup {<<Head(todo[r]), r>>}
          /\ accepted' = [accepted EXCEPT ![r] = Append(@, Head(todo[r]))]
          /\ rejected' = rejected
      BY <2>1 DEF Accept
    <3>2. accepted[r] \in Seq(Proposals) /\ accepted'[r] = Append(accepted[r], Head(todo[r]))
      BY <3>1 DEF Inv, Typed
    <3>3. /\ accepted'[r] \in Seq(Proposals) /\ InFile(accepted'[r], Head(todo[r]))
          /\ \A p : InFile(accepted[r], p) => InFile(accepted'[r], p)
      BY <1>3, <3>2, AppendFact
    <3>4. AnsweredFor(r, k)'
      BY <1>1, <1>4, <3>1, <3>3 DEF AnsweredFor
    <3> QED
      BY <3>1, <3>3, <3>4 DEF Inv, Typed
  <2>2. CASE Reject(r)
    <3>1. /\ rejected' = [rejected EXCEPT ![r] = Append(@, k)]
          /\ evidence' = evidence /\ accepted' = accepted
      BY <1>4, <2>2 DEF Reject
    <3>2. rejected[r] \in Seq(Nat) /\ rejected'[r] = Append(rejected[r], k)
      BY <3>1 DEF Inv, Typed
    <3>3. /\ rejected'[r] \in Seq(Nat) /\ InFile(rejected'[r], k)
          /\ \A i : InFile(rejected[r], i) => InFile(rejected'[r], i)
      BY <3>2, AppendFact
    <3>4. AnsweredFor(r, k)'
      BY <3>3 DEF AnsweredFor
    <3> QED
      BY <3>1, <3>3, <3>4 DEF Inv, Typed
  <2> QED
    BY <1>1, <2>1, <2>2
<1>6. Typed'
  BY <1>1, <1>3, <1>5 DEF Inv, Typed
<1>7. ASSUME NEW i \in 1..(Len(file[r]) - Len(todo'[r]))  PROVE AnsweredFor(r, i)'
  <2>1. i = k \/ i \in 1..(Len(file[r]) - Len(todo[r]))
    BY <1>1, <1>4
  <2>2. AnsweredFor(r, i) => AnsweredFor(r, i)'
    BY <1>1, <1>5 DEF AnsweredFor
  <2> QED
    BY <1>1, <1>5, <2>1, <2>2 DEF Reading
<1>8. Reading(r)'
  BY <1>1, <1>3, <1>7 DEF Reading
<1>9. Kept(r)'
  BY <1>1, <1>8 DEF Kept
<1>10. \A s \in Runs \ {r} : todo'[s] = todo[s]
  BY <1>1 DEF Inv, Typed
<1>11. run' = [run EXCEPT ![r] = "ingest"]
  BY <1>1 DEF Inv, Typed
<1>12. \A s \in Runs \ {r} : /\ accepted'[s] = accepted[s] /\ rejected'[s] = rejected[s]
                             /\ chain'[s] = chain[s] /\ processed'[s] = processed[s]
                             /\ file'[s] = file[s] /\ todo'[s] = todo[s]
  BY <1>1, <1>5, <1>10
<1>13. evidence \subseteq evidence' /\ rewritten' = rewritten /\ outbox' \in {outbox, Absent}
  BY <1>1, <1>5
<1> QED
  BY <1>6, <1>9, <1>11, <1>12, <1>13, StepKeeps

LEMMA RenameKeeps ==
    ASSUME Inv, NEW r \in Runs, RenameOutbox(r)
    PROVE  Inv'
<1>1. /\ run[r] = "ingest" /\ Reading(r) /\ todo[r] = <<>>
      /\ UNCHANGED <<file, todo, results, chain, rewritten>>
  BY DEF RenameOutbox, Inv, Kept, reading
<1>2. CASE outbox = Absent
  <2>1. run' = [run EXCEPT ![r] = "failure"] /\ UNCHANGED <<outbox, processed>>
    BY <1>2 DEF RenameOutbox, MustRename, Goto, files
  <2>2. Typed'
    BY <1>1, <2>1 DEF Inv, Typed, Labels, Busy, results
  <2>3. Kept(r)'
    BY <2>1 DEF Kept, Inv, Typed
  <2> QED
    BY <1>1, <2>1, <2>2, <2>3, StepKeeps DEF results
<1>3. CASE outbox # Absent
  <2>1. /\ run' = [run EXCEPT ![r] = "report"] /\ outbox' = Absent
        /\ processed' = [processed EXCEPT ![r] = outbox]
    BY <1>3 DEF RenameOutbox, MustRename, Goto
  <2>2. Typed'
    BY <1>1, <2>1 DEF Inv, Typed, Labels, Busy, Files, results
  <2>3. processed'[r] = file[r] \/ r \in rewritten
    BY <1>1, <1>3, <2>1 DEF Inv, Typed, Reading
  <2>4. \A i \in 1..Len(file[r]) : AnsweredFor(r, i)
    <3>1. file[r] \in Seq(Proposals)
      BY <1>1, ListsAreSequences DEF Reading
    <3>2. Len(file[r]) - Len(todo[r]) = Len(file[r])
      BY <1>1, <3>1
    <3> QED
      BY <1>1, <3>2 DEF Reading
  <2>5. Covered(r)'
    BY <1>1, <2>3, <2>4 DEF Covered, AnsweredFor, Reading, results
  <2>6. Telling(r)'
    BY <1>1, <2>5 DEF Telling, Reading, Inv, Typed, results
  <2>7. Kept(r)'
    BY <2>1, <2>6 DEF Kept, Inv, Typed
  <2>8. \A s \in Runs \ {r} : processed'[s] = processed[s]
    BY <2>1 DEF Inv, Typed
  <2> QED
    BY <1>1, <2>1, <2>2, <2>7, <2>8, StepKeeps DEF results
<1> QED
  BY <1>2, <1>3

-----------------------------------------------------------------------------
\* Another event in the chain of a run.
LEMMA EmitFact ==
    ASSUME Typed, NEW r \in Runs, NEW e \in Events, Emit(r, e)
    PROVE  /\ chain' \in [Runs -> Seq(Events)]
           /\ chain'[r] = Append(chain[r], e)
           /\ \A s \in Runs \ {r} : chain'[s] = chain[s]
           /\ Len(chain'[r]) = Len(chain[r]) + 1
           /\ \A i \in 1..Len(chain[r]) : chain'[r][i] = chain[r][i]
           /\ chain'[r][Len(chain[r]) + 1] = e
           /\ InFile(chain'[r], e)
<1>1. /\ chain'[r] = Append(chain[r], e) /\ chain[r] \in Seq(Events)
      /\ \A s \in Runs \ {r} : chain'[s] = chain[s]
  BY DEF Emit, Typed
<1>2. /\ chain'[r] \in Seq(Events) /\ Len(chain'[r]) = Len(chain[r]) + 1
      /\ \A i \in 1..Len(chain[r]) : chain'[r][i] = chain[r][i]
      /\ chain'[r][Len(chain[r]) + 1] = e /\ InFile(chain'[r], e)
  BY <1>1, AppendFact
<1>3. chain' \in [Runs -> Seq(Events)]
  BY <1>2 DEF Emit, Typed
<1> QED
  BY <1>1, <1>2, <1>3

LEMMA EmitRejectionKeeps ==
    ASSUME Inv, NEW r \in Runs, EmitRejection(r)
    PROVE  Inv'
<1>1. /\ run[r] = "report" /\ Telling(r)
      /\ Len(chain[r]) < Len(rejected[r])
      /\ UNCHANGED <<run, files, reading, results>>
  BY DEF EmitRejection, Told, Inv, Kept, Busy
<1>2. PICK k \in Nat : k = Len(chain[r]) + 1 /\ k \in 1..Len(rejected[r])
  <2>1. Len(chain[r]) \in Nat /\ Len(rejected[r]) \in Nat
    BY DEF Inv, Typed
  <2> QED
    BY <1>1, <2>1
<1>3. rejected[r][k] \in Nat
  BY <1>2 DEF Inv, Typed
<1>4. PICK e \in Events : e = <<"proposal_rejected", rejected[r][k]>> /\ Emit(r, e)
  BY <1>2, <1>3 DEF EmitRejection, Told, Events
<1>5. /\ chain' \in [Runs -> Seq(Events)]
      /\ \A s \in Runs \ {r} : chain'[s] = chain[s]
      /\ Len(chain'[r]) = k
      /\ \A i \in 1..Len(chain[r]) : chain'[r][i] = chain[r][i]
      /\ chain'[r][k] = e
  BY <1>2, <1>4, EmitFact DEF Inv
<1>6. Typed'
  BY <1>1, <1>5 DEF Inv, Typed, files, reading, results
<1>7. ASSUME NEW i \in 1..k  PROVE chain'[r][i] = <<"proposal_rejected", rejected[r][i]>>
  <2>1. CASE i = k
    BY <1>4, <1>5, <2>1
  <2>2. CASE i # k
    <3>1. i \in 1..Len(chain[r])
      BY <1>2, <1>7, <2>2 DEF Inv, Typed
    <3> QED
      BY <1>1, <1>5, <3>1 DEF Telling
  <2> QED
    BY <2>1, <2>2
<1>8. Covered(r)'
  BY <1>1 DEF Telling, Covered, AnsweredFor, files, reading, results
<1>9. Telling(r)'
  BY <1>1, <1>2, <1>5, <1>7, <1>8 DEF Telling, results, Inv, Typed
<1>10. Kept(r)' /\ run' = [run EXCEPT ![r] = "report"]
  BY <1>1, <1>9 DEF Kept, Inv, Typed
<1> QED
  BY <1>1, <1>5, <1>6, <1>10, StepKeeps DEF files, reading, results

\* A chain that is all rejections is Rejections.
LEMMA AllToldFact ==
    ASSUME Typed, NEW r \in Runs, Telling(r), Len(chain[r]) = Len(rejected[r])
    PROVE  chain[r] = Rejections(r)
<1>1. chain[r] \in Seq(Events) /\ Rejections(r) \in Seq(Events)
  BY DEF Typed, Rejections, Events
<1>2. Len(Rejections(r)) = Len(rejected[r])
  BY DEF Typed, Rejections
<1>3. \A i \in 1..Len(chain[r]) : chain[r][i] = Rejections(r)[i]
  BY DEF Telling, Rejections
<1> QED
  BY <1>1, <1>2, <1>3

LEMMA EmitProcessedKeeps ==
    ASSUME Inv, NEW r \in Runs, EmitProcessed(r)
    PROVE  Inv'
<1>1. /\ run[r] = "report" /\ Telling(r)
      /\ run' = [run EXCEPT ![r] = "complete"]
      /\ UNCHANGED <<files, reading, results>>
  BY DEF EmitProcessed, Goto, Inv, Kept, Busy
<1>2. chain[r] = Rejections(r) /\ chain[r] \in Seq(Events)
  BY <1>1, AllToldFact DEF EmitProcessed, Told, Inv, Typed
<1>3. /\ chain' \in [Runs -> Seq(Events)]
      /\ \A s \in Runs \ {r} : chain'[s] = chain[s]
      /\ chain'[r] = Rejections(r) \o Summary(r)
  <2>1. CASE Total(r) > 0
    <3>1. Len(accepted[r]) \in Nat /\ Len(rejected[r]) \in Nat
      BY DEF Inv, Typed
    <3>2. PICK e \in Events : e = <<"outbox_processed", Len(accepted[r]), Len(rejected[r])>> /\ Emit(r, e)
      BY <2>1, <3>1 DEF EmitProcessed, Events
    <3>3. Summary(r) = <<e>>
      <4>1. Total(r) # 0
        BY <2>1
      <4> QED
        BY <3>2, <4>1 DEF Summary
    <3>4. Append(chain[r], e) = chain[r] \o <<e>>
      BY <1>2
    <3> QED
      BY <1>2, <3>2, <3>3, <3>4, EmitFact DEF Inv
  <2>2. CASE ~ (Total(r) > 0)
    <3>1. chain' = chain /\ Total(r) = 0
      BY <2>2 DEF EmitProcessed, Total, Inv, Typed
    <3>2. Summary(r) = <<>> /\ chain[r] \o <<>> = chain[r]
      BY <1>2, <3>1 DEF Summary
    <3> QED
      BY <1>2, <3>1, <3>2 DEF Inv, Typed
  <2> QED
    BY <2>1, <2>2
<1>4. Typed'
  BY <1>1, <1>3 DEF Inv, Typed, files, reading, results, Labels, Busy
<1>5. Covered(r)' /\ Rejections(r)' = Rejections(r) /\ Summary(r)' = Summary(r)
  BY <1>1 DEF Telling, Covered, AnsweredFor, files, reading, results, Rejections, Summary, Total
<1>6. Kept(r)'
  BY <1>1, <1>3, <1>5 DEF Kept, Accounted, Inv, Typed
<1> QED
  BY <1>1, <1>3, <1>4, <1>6, StepKeeps DEF files, reading, results

LEMMA EmitFailedKeeps ==
    ASSUME Inv, NEW r \in Runs, EmitFailed(r)
    PROVE  Inv'
<1>1. /\ run[r] = "failure"
      /\ run' = [run EXCEPT ![r] = "complete"]
      /\ Emit(r, <<"outbox_failed">>) /\ <<"outbox_failed">> \in Events
      /\ UNCHANGED <<files, reading, results>>
  BY DEF EmitFailed, Goto, Busy, Events
<1>2. /\ chain' \in [Runs -> Seq(Events)]
      /\ \A s \in Runs \ {r} : chain'[s] = chain[s]
      /\ InFile(chain'[r], <<"outbox_failed">>)
  BY <1>1, EmitFact DEF Inv
<1>3. Typed'
  BY <1>1, <1>2 DEF Inv, Typed, files, reading, results, Labels, Busy
<1>4. Kept(r)'
  BY <1>1, <1>2 DEF Kept, Accounted, Inv, Typed
<1> QED
  BY <1>1, <1>2, <1>3, <1>4, StepKeeps DEF files, reading, results

\* A throw takes the run to where nothing is shown of it.
LEMMA ThrowKeeps ==
    ASSUME Inv, NEW r \in Runs, OutboxThrows(r) \/ EndThrows(r)
    PROVE  Inv'
<1>1. PICK l \in {"failure", "catch", "rejected"} : run' = [run EXCEPT ![r] = l]
  BY DEF OutboxThrows, EndThrows, Goto, Leave
<1>2. /\ evidence \subseteq evidence'
      /\ UNCHANGED <<outbox, processed, file, todo, accepted, rejected, chain, rewritten>>
  BY DEF OutboxThrows, EndThrows, StoredBeforeThrow, files, reading, results
<1>3. Typed'
  BY <1>1, <1>2 DEF Inv, Typed, Labels, Busy, Leaving, Ended
<1>4. Kept(r)'
  BY <1>1 DEF Kept, Inv, Typed
<1> QED
  BY <1>1, <1>2, <1>3, <1>4, StepKeeps

LEMMA RestartKeeps ==
    ASSUME Inv, Restart
    PROVE  Inv'
<1>1. UNCHANGED <<outbox, processed, file, todo, results, chain, rewritten>>
  BY DEF Restart, files
<1>2. \A r \in Runs : /\ run'[r] \in Labels
                      /\ \/ run'[r] \in {run[r], "cancelled"}
                         \/ run[r] = "completedEvent" /\ run'[r] = "completed"
  BY DEF Restart, Inv, Typed, Labels, Ended
<1>3. run' \in [Runs -> Labels]
  BY <1>2 DEF Restart
<1>4. Typed'
  BY <1>1, <1>3 DEF Inv, Typed, results
<1>5. ASSUME NEW r \in Runs  PROVE Kept(r)'
  BY <1>1, <1>2, OthersKept DEF results, Inv
<1> QED
  BY <1>4, <1>5 DEF Inv

-----------------------------------------------------------------------------
LEMMA Initially == Init => Inv
<1> SUFFICES ASSUME Init PROVE Inv
  OBVIOUS
<1>1. Typed
  BY DEF Init, Typed, Labels, Files
<1>2. \A r \in Runs : Kept(r)
  BY DEF Init, Kept, Untouched
<1> QED
  BY <1>1, <1>2 DEF Inv

LEMMA Unchanged == Inv /\ UNCHANGED <<run, files, reading, results, chain>> => Inv'
<1> SUFFICES ASSUME Inv, UNCHANGED <<run, files, reading, results, chain>> PROVE Inv'
  OBVIOUS
<1>1. Typed'
  BY DEF Inv, Typed, files, reading, results
<1>2. ASSUME NEW r \in Runs  PROVE Kept(r)'
  BY OthersKept DEF Inv, files, reading, results
<1> QED
  BY <1>1, <1>2 DEF Inv

LEMMA Steps == Inv /\ [Next]_vars => Inv'
<1> SUFFICES ASSUME Inv, [Next]_vars PROVE Inv'
  OBVIOUS
<1>1. ASSUME NEW r \in Runs, SendMessage(r) \/ Step(r)  PROVE Inv'
  BY <1>1, QuietKeeps, WriteKeeps, ReadKeeps, IngestKeeps, RenameKeeps, EmitRejectionKeeps,
     EmitProcessedKeeps, EmitFailedKeeps, ThrowKeeps DEF Step
<1>2. ASSUME NEW r \in Runs, OrphanExits(r)  PROVE Inv'
  BY <1>2, Unchanged DEF OrphanExits
<1>3. ASSUME NEW s \in Stops, StopStep(s)  PROVE Inv'
  BY <1>3, Unchanged DEF StopStep, StopAgent, ChildClosed, MarkStopped
<1>4. CASE StartAgent
  BY <1>4, Unchanged DEF StartAgent
<1>5. CASE UNCHANGED vars
  BY <1>5, Unchanged DEF vars
<1> QED
  BY <1>1, <1>2, <1>3, <1>4, <1>5, RestartKeeps DEF Next

\* INV-4 (outbox.ts:80-173, agent-service.ts:418-482): whatever the children leave, however
\* runs overlap and whatever throws or restarts, a completed run without outbox_failed
\* accounts for every entry of the file it read, as Evidence of its own or as a told
\* rejection; and that file is the one it renamed, unless a child wrote it in between.
THEOREM Accounts == Spec => []EntriesAccounted
<1>1. Inv => EntriesAccounted
  BY DEF Inv, Kept, Accounted, Covered, AnsweredFor, EntriesAccounted
<1> QED
  BY Initially, Steps, <1>1, PTL DEF Spec

-----------------------------------------------------------------------------
(* What two runs may ingest of one file.                                   *)

\* A run that was not cut short leaves nothing in the file that it ingested from it.
Leftover ==
    \A p \in Proposals, r \in Runs :
        <<p, r>> \in evidence /\ r \notin cut /\ run[r] # "ingest" => ~ InFile(outbox, p)

\* Of two runs in the file one is noted.
OneReader ==
    \A r, s \in Runs : run[r] = "ingest" /\ run[s] = "ingest" => r = s \/ r \in cut \/ s \in cut

\* What others ingested of the entries that are left to a run, they ingested cut short.
Unused ==
    \A p \in Proposals, r, s \in Runs :
        run[s] = "ingest" /\ InFile(todo[s], p) /\ <<p, r>> \in evidence =>
            r = s \/ r \in cut \/ s \in cut

OnceInv == IngestedOnceUnharmed /\ Leftover /\ OneReader /\ Unused

LEMMA NothingInAbsent == \A p \in Proposals : ~ InFile(Absent, p)
BY NoEntry DEF InFile, Absent

\* Steps that ingest nothing: the file may go, and whoever leaves it does so with the
\* file gone, or noted.
LEMMA OnceOthers ==
    ASSUME OnceInv, UNCHANGED <<todo, evidence>>, cut \subseteq cut',
           outbox' \in {outbox, Absent},
           \A r \in Runs : run'[r] = "ingest" => run[r] = "ingest",
           \A r \in Runs : run[r] = "ingest" =>
               run'[r] = "ingest" \/ outbox' = Absent \/ r \in cut'
    PROVE  OnceInv'
<1>1. IngestedOnceUnharmed'
  BY DEF OnceInv, IngestedOnceUnharmed
<1>2. Leftover'
  BY NothingInAbsent DEF OnceInv, Leftover
<1>3. OneReader' /\ Unused'
  BY DEF OnceInv, OneReader, Unused
<1> QED
  BY <1>1, <1>2, <1>3 DEF OnceInv

\* A label that is not "ingest", before and after.
LEMMA OnceGoto ==
    ASSUME Inv, OnceInv, NEW r \in Runs, run[r] # "ingest", NEW l, l # "ingest",
           run' = [run EXCEPT ![r] = l],
           UNCHANGED <<outbox, todo, evidence, cut>>
    PROVE  OnceInv'
<1>1. \A s \in Runs : run'[s] = "ingest" <=> run[s] = "ingest"
  BY DEF Inv, Typed
<1> QED
  BY <1>1, OnceOthers

LEMMA OnceQuiet ==
    ASSUME Inv, OnceInv, NEW r \in Runs,
           \/ SendMessage(r) \/ Spawn(r) \/ ChildSucceeds(r) \/ RunFails(r)
           \/ EmitProcessed(r) \/ EmitFailed(r)
           \/ CompleteRun(r) \/ EmitCompleted(r) \/ CatchRun(r) \/ EndThrows(r)
    PROVE  OnceInv'
<1>1. UNCHANGED <<outbox, todo, evidence, cut>>
  BY DEF SendMessage, Spawn, ChildSucceeds, RunFails, EmitProcessed, EmitFailed, CompleteRun,
         EmitCompleted, CatchRun, EndThrows, files, reading, results
<1>2. run[r] # "ingest"
  BY DEF SendMessage, Spawn, ChildSucceeds, RunFails, EmitProcessed, EmitFailed, CompleteRun,
         EmitCompleted, CatchRun, EndThrows, AgentAfter
<1>3. \E l : l # "ingest" /\ run' = [run EXCEPT ![r] = l]
  BY DEF SendMessage, Spawn, ChildSucceeds, RunFails, EmitProcessed, EmitFailed, CompleteRun,
         EmitCompleted, CatchRun, EndThrows, Goto, Leave
<1> QED
  BY <1>1, <1>2, <1>3, OnceGoto

\* A child writes what nobody ingested, or what it finds.
LEMMA OnceWrite ==
    ASSUME OnceInv, NEW r \in Runs, ChildWrites(r)
    PROVE  OnceInv'
<1>1. /\ \A p \in Proposals : InFile(outbox', p) => InFile(outbox, p) \/ ~ Seen(p)
      /\ UNCHANGED <<run, todo, evidence, cut>>
  BY DEF ChildWrites, results
<1>2. Leftover'
  BY <1>1 DEF OnceInv, Leftover, Seen
<1>3. IngestedOnceUnharmed' /\ OneReader' /\ Unused'
  BY <1>1 DEF OnceInv, IngestedOnceUnharmed, OneReader, Unused
<1> QED
  BY <1>2, <1>3 DEF OnceInv

\* Who reads the file notes those who are in it.
LEMMA OnceRead ==
    ASSUME Inv, OnceInv, NEW r \in Runs, ReadOutbox(r)
    PROVE  OnceInv'
<1>1. run[r] = "outbox" /\ UNCHANGED <<outbox, evidence>>
  BY DEF ReadOutbox, files
<1>2. CASE Goto(r, "ingest") /\ todo' = [todo EXCEPT ![r] = outbox] /\ cut' = cut \cup InWindow
  <2>1. /\ \A s \in Runs : run'[s] = IF s = r THEN "ingest" ELSE run[s]
        /\ \A s \in Runs : todo'[s] = IF s = r THEN outbox ELSE todo[s]
    BY <1>2 DEF Goto, Inv, Typed
  <2>2. \A s \in Runs : run[s] = "ingest" => s \in cut'
    BY <1>2 DEF InWindow
  <2>3. cut \subseteq cut'
    BY <1>2
  <2>4. IngestedOnceUnharmed'
    BY <1>1, <2>3 DEF OnceInv, IngestedOnceUnharmed
  <2>5. Leftover'
    BY <1>1, <2>1, <2>2, <2>3 DEF OnceInv, Leftover
  <2>6. OneReader'
    BY <2>1, <2>2 DEF OneReader
  <2>7. ASSUME NEW p \in Proposals, NEW q \in Runs, NEW s \in Runs,
               run'[s] = "ingest", InFile(todo'[s], p), <<p, q>> \in evidence
        PROVE  q = s \/ q \in cut' \/ s \in cut'
    <3>1. CASE s = r
      BY <2>1, <2>2, <2>3, <2>7, <3>1 DEF OnceInv, Leftover
    <3>2. CASE s # r
      BY <2>1, <2>2, <2>7, <3>2
    <3> QED
      BY <3>1, <3>2
  <2>8. Unused'
    BY <1>1, <2>7 DEF Unused
  <2> QED
    BY <2>4, <2>5, <2>6, <2>8 DEF OnceInv
<1>3. CASE UNCHANGED <<todo, cut>> /\ (Goto(r, "complete") \/ Goto(r, "report"))
  BY <1>1, <1>3, OnceGoto DEF Goto
<1> QED
  BY <1>2, <1>3 DEF ReadOutbox

\* The entry a run takes from the front was left to it.
LEMMA OnceIngest ==
    ASSUME Inv, OnceInv, NEW r \in Runs, run[r] = "ingest", todo[r] # <<>>, run' = run,
           \/ evidence' = evidence
           \/ evidence' = evidence \cup {<<Head(todo[r]), r>>},
           todo' = [todo EXCEPT ![r] = Tail(@)], UNCHANGED <<outbox, cut>>
    PROVE  OnceInv'
<1>1. /\ todo[r] \in Seq(Proposals) /\ todo'[r] = Tail(todo[r])
      /\ \A s \in Runs : s # r => todo'[s] = todo[s]
  BY DEF Inv, Typed
<1>2. InFile(todo[r], Head(todo[r])) /\ \A p : InFile(todo'[r], p) => InFile(todo[r], p)
  <2>1. /\ Head(todo[r]) = todo[r][1] /\ Len(todo[r]) \in Nat /\ Len(todo[r]) >= 1
        /\ Len(Tail(todo[r])) = Len(todo[r]) - 1
        /\ \A i \in 1..Len(Tail(todo[r])) : Tail(todo[r])[i] = todo[r][i + 1]
    BY <1>1, TailFact
  <2>2. InFile(todo[r], Head(todo[r]))
    BY <2>1 DEF InFile
  <2>3. ASSUME NEW p, InFile(todo'[r], p)  PROVE InFile(todo[r], p)
    <3>1. PICK i \in 1..Len(Tail(todo[r])) : Tail(todo[r])[i] = p
      BY <1>1, <2>3 DEF InFile
    <3>2. i + 1 \in 1..Len(todo[r]) /\ todo[r][i + 1] = p
      BY <2>1, <3>1
    <3> QED
      BY <3>2 DEF InFile
  <2> QED
    BY <2>2, <2>3
<1>3. \A s \in Runs : <<Head(todo[r]), s>> \in evidence /\ Head(todo[r]) \in Proposals =>
                         s = r \/ s \in cut \/ r \in cut
  BY <1>2 DEF OnceInv, Unused
<1>4. \A p, s : <<p, s>> \in evidence' => <<p, s>> \in evidence \/ (p = Head(todo[r]) /\ s = r)
  OBVIOUS
<1>5. IngestedOnceUnharmed'
  BY <1>3, <1>4 DEF OnceInv, IngestedOnceUnharmed
<1>6. Leftover' /\ OneReader'
  BY <1>4 DEF OnceInv, Leftover, OneReader
<1>7. Unused'
  BY <1>1, <1>2, <1>4 DEF OnceInv, Unused, OneReader
<1> QED
  BY <1>5, <1>6, <1>7 DEF OnceInv

\* A run whose processing throws is noted, with what it stored before.
LEMMA OnceThrow ==
    ASSUME Inv, OnceInv, NEW r \in Runs, OutboxThrows(r)
    PROVE  OnceInv'
<1>1. /\ \A s \in Runs : run'[s] = "ingest" => run[s] = "ingest"
      /\ \A s \in Runs : s # r => run'[s] = run[s]
      /\ UNCHANGED <<outbox, todo>>
      /\ cut' = cut \cup ({r} \cap InWindow)
      /\ evidence' = evidence \/ (run[r] = "ingest" /\ evidence' = evidence \cup {<<Head(todo[r]), r>>})
  BY DEF OutboxThrows, StoredBeforeThrow, Goto, files, Inv, Typed
<1>2. cut \subseteq cut' /\ (run[r] = "ingest" => r \in cut')
  BY <1>1 DEF InWindow
<1>3. \A p, s : <<p, s>> \in evidence' => <<p, s>> \in evidence \/ (s = r /\ r \in cut')
  BY <1>1, <1>2
<1>4. IngestedOnceUnharmed'
  BY <1>2, <1>3 DEF OnceInv, IngestedOnceUnharmed
<1>5. Leftover'
  BY <1>1, <1>2, <1>3 DEF OnceInv, Leftover
<1>6. OneReader' /\ Unused'
  BY <1>1, <1>2, <1>3 DEF OnceInv, OneReader, Unused
<1> QED
  BY <1>4, <1>5, <1>6 DEF OnceInv

LEMMA OnceRename ==
    ASSUME Inv, OnceInv, NEW r \in Runs, RenameOutbox(r)
    PROVE  OnceInv'
<1>1. outbox' = Absent /\ UNCHANGED <<todo, evidence, cut>>
  BY DEF RenameOutbox, MustRename, files, reading, results
<1>2. \A s \in Runs : run'[s] = "ingest" => run[s] = "ingest"
  BY DEF RenameOutbox, Goto, Inv, Typed
<1> QED
  BY <1>1, <1>2, OnceOthers

LEMMA OnceUnchanged == OnceInv /\ UNCHANGED <<run, outbox, todo, evidence, cut>> => OnceInv'
BY OnceOthers

LEMMA OnceRestart ==
    ASSUME OnceInv, Restart
    PROVE  OnceInv'
<1>1. /\ UNCHANGED <<outbox, todo, evidence>> /\ cut' = cut \cup InWindow
      /\ \A r \in Runs : run'[r] # "ingest"
  BY DEF Restart, files, results, Busy
<1>2. \A r \in Runs : run[r] = "ingest" => r \in cut'
  BY <1>1 DEF InWindow
<1> QED
  BY <1>1, <1>2, OnceOthers

LEMMA OnceSteps == Inv /\ OnceInv /\ [Next]_vars => OnceInv'
<1> SUFFICES ASSUME Inv, OnceInv, [Next]_vars PROVE OnceInv'
  OBVIOUS
<1>1. ASSUME NEW r \in Runs, SendMessage(r) \/ Step(r)  PROVE OnceInv'
  <2>1. CASE IngestEntry(r)
    BY <2>1, OnceIngest DEF IngestEntry, Accept, Reject, files, results
  <2>2. CASE EmitRejection(r)
    BY <2>2, OnceUnchanged DEF EmitRejection, files, reading, results
  <2> QED
    BY <1>1, <2>1, <2>2, OnceQuiet, OnceWrite, OnceRead, OnceThrow, OnceRename DEF Step
<1>2. ASSUME NEW r \in Runs, OrphanExits(r)  PROVE OnceInv'
  BY <1>2, OnceUnchanged DEF OrphanExits, files, reading, results
<1>3. ASSUME NEW s \in Stops, StopStep(s)  PROVE OnceInv'
  BY <1>3, OnceUnchanged DEF StopStep, StopAgent, ChildClosed, MarkStopped, files, reading, results
<1>4. CASE StartAgent
  BY <1>4, OnceUnchanged DEF StartAgent, files, reading, results
<1>5. CASE UNCHANGED vars
  BY <1>5, OnceUnchanged DEF vars, files, reading, results
<1> QED
  BY <1>1, <1>2, <1>3, <1>4, <1>5, OnceRestart DEF Next

LEMMA OnceInitially == Init => OnceInv
BY DEF Init, OnceInv, IngestedOnceUnharmed, Leftover, OneReader, Unused

\* outbox.ts:167-173: no entry becomes Evidence of two runs, however many runs find the
\* file, overlap, throw or are cut off by a restart, unless one of the two had read it and
\* was thrown out of it, was down, or had not renamed it when another run read it.
THEOREM Once == Spec => []IngestedOnceUnharmed
<1>1. OnceInv => IngestedOnceUnharmed
  BY DEF OnceInv
<1> QED
  BY Initially, Steps, OnceInitially, OnceSteps, <1>1, PTL DEF Spec

-----------------------------------------------------------------------------
(* The Agent with its updates.                                             *)

Places == {"none", "edit", "open", "write", "done", "refused", "failed"}

\* The part of CopiesTypeOK that the argument needs.
CopiesTyped ==
    /\ run \in [Runs -> Labels]
    /\ config \in Configs
    /\ snapshot \in [Runs -> Configs \cup {Blank}]
    /\ versions \in Seq(Configs)
    /\ pinned \in [Runs -> Nat]
    /\ update \in [Updates -> [at : Places, config : Configs]]
    /\ lost \in BOOLEAN

\* A busy run, unless the Agent was freed under it, was admitted with the configuration of
\* now: the Agent was "busy" ever since, and no edit came.
Admitted == \A r \in Runs \ freed : run[r] \in Busy => agent = "busy" /\ snapshot[r] = config

\* A run pins a version once it is admitted.
Fresh == \A r \in Runs : run[r] = "none" => pinned[r] = 0

\* A run that was admitted has a snapshot.
Held == \A r \in Runs : run[r] # "none" => snapshot[r] \in Configs

PinCurrent ==
    \A r \in Runs \ freed : run[r] \in Busy /\ pinned[r] # 0 =>
        pinned[r] \in 1..Len(versions) /\ versions[pinned[r]] = config

\* Unless a write was lost, one update writes at most, and it writes what is stored,
\* into a file it emptied.
OneWriter ==
    lost \/ /\ \A u, v \in Updates : Writes(u) /\ Writes(v) => u = v
            /\ \A u \in Updates :
                  /\ Writes(u) => update[u].config = config
                  /\ update[u].at = "write" => instructions = Blank

Followed == instructions = config \/ lost \/ \E u \in Updates : Writes(u)

PinInv == CopiesTyped /\ Admitted /\ Held /\ Fresh /\ PinCurrent /\ OneWriter /\ Followed

\* A step of executeRun ends busy runs: it admits none, and it does not make the Agent busy.
LEMMA StepEnds ==
    ASSUME NEW r \in Runs, CopiesTyped, Step(r)
    PROVE  /\ run' \in [Runs -> Labels]
           /\ \A s \in Runs : run'[s] \in Busy => run[s] \in Busy
           /\ \A s \in Runs : run'[s] = "none" <=> run[s] = "none"
           /\ agent' = "busy" => agent = "busy"
<1> DEFINE Fewer == /\ run' \in [Runs -> Labels]
                    /\ \A s \in Runs : run'[s] \in Busy => run[s] \in Busy
                    /\ \A s \in Runs : run'[s] = "none" <=> run[s] = "none"
<1>1. run' = run => Fewer
  BY DEF CopiesTyped
<1>2. ASSUME run[r] \in Busy, NEW l \in Busy \cup Leaving, run' = [run EXCEPT ![r] = l]
      PROVE  Fewer
  BY <1>2 DEF CopiesTyped, Labels, Busy, Leaving
<1>3. ASSUME run[r] # "none", NEW l \in Leaving \cup Ended, run' = [run EXCEPT ![r] = l]
      PROVE  Fewer
  BY <1>3 DEF CopiesTyped, Labels, Busy, Leaving, Ended
<1>4. \/ run' = run
      \/ run[r] \in Busy /\ \E l \in Busy \cup Leaving : run' = [run EXCEPT ![r] = l]
      \/ run[r] # "none" /\ \E l \in Leaving \cup Ended : run' = [run EXCEPT ![r] = l]
  <2>1. CASE ChildWrites(r) \/ IngestEntry(r) \/ EmitRejection(r)
    BY <2>1 DEF ChildWrites, IngestEntry, EmitRejection
  <2>2. CASE Spawn(r) \/ ChildSucceeds(r) \/ RunFails(r)
    BY <2>2 DEF Spawn, ChildSucceeds, RunFails, Goto, Busy, Leaving
  <2>3. CASE ReadOutbox(r)
    BY <2>3 DEF ReadOutbox, Goto, Busy
  <2>4. CASE RenameOutbox(r) \/ EmitProcessed(r) \/ EmitFailed(r)
    BY <2>4 DEF RenameOutbox, EmitProcessed, EmitFailed, Goto, Busy
  <2>5. CASE CompleteRun(r) \/ EmitCompleted(r) \/ CatchRun(r)
    BY <2>5 DEF CompleteRun, EmitCompleted, CatchRun, AgentAfter, Leave, Goto, Busy, Leaving,
                Ended
  <2>6. CASE OutboxThrows(r) \/ EndThrows(r)
    BY <2>6 DEF OutboxThrows, EndThrows, AgentAfter, Leave, Goto, Busy, Leaving, Ended
  <2> QED
    BY <2>1, <2>2, <2>3, <2>4, <2>5, <2>6 DEF Step
<1>5. agent' = "busy" => agent = "busy"
  <2>1. CASE UNCHANGED agent
    BY <2>1
  <2>2. CASE CompleteRun(r) \/ CatchRun(r)
    BY <2>2 DEF CompleteRun, CatchRun, AgentAfter
  <2> QED
    BY <2>1, <2>2 DEF Step, Spawn, ChildWrites, ChildSucceeds, RunFails, ReadOutbox, IngestEntry,
       RenameOutbox, EmitRejection, EmitProcessed, EmitFailed, EmitCompleted, OutboxThrows,
       EndThrows, lifecycle
<1> QED
  BY <1>1, <1>2, <1>3, <1>4, <1>5

\* Steps that leave the configuration's copies alone and admit no run keep PinInv.
LEMMA RunsOnly ==
    ASSUME PinInv, UNCHANGED copies, run' \in [Runs -> Labels],
           \A s \in Runs : run'[s] \in Busy => run[s] \in Busy,
           \A s \in Runs : run'[s] = "none" <=> run[s] = "none",
           freed \subseteq freed',
           \A s \in Runs : run'[s] \in Busy /\ agent' # "busy" => s \in freed'
    PROVE  PinInv'
<1>1. CopiesTyped'
  BY DEF PinInv, CopiesTyped, copies
<1>2. Admitted' /\ Held' /\ Fresh'
  BY DEF PinInv, Admitted, Held, Fresh, copies
<1>3. PinCurrent'
  BY DEF PinInv, PinCurrent, copies
<1>4. OneWriter' /\ Followed'
  BY DEF PinInv, OneWriter, Followed, Writes, copies
<1> QED
  BY <1>1, <1>2, <1>3, <1>4 DEF PinInv

\* StatusSeen notes the runs that are busy without the Agent.
LEMMA SeenFact ==
    ASSUME StatusSeen
    PROVE  /\ freed \subseteq freed'
           /\ \A s \in Runs : run'[s] \in Busy /\ agent' # "busy" => s \in freed'
BY DEF StatusSeen

\* Whom sendMessage admits while the Agent is not "busy" finds no run that counts on it.
LEMMA AdmitKeeps ==
    ASSUME PinInv, NEW r \in Runs, Admit(r)
    PROVE  PinInv'
<1>1. /\ run[r] = "none" /\ run' = [run EXCEPT ![r] = "queued"]
      /\ agent # "busy" /\ agent' = "busy" /\ freed' = freed
      /\ snapshot' = [snapshot EXCEPT ![r] = config]
      /\ UNCHANGED <<config, versions, pinned, instructions, update, lost>>
  BY DEF Admit, SendMessage, Goto, StatusSeen
<1>2. \A s \in Runs \ freed : s # r => run'[s] \notin Busy
  BY <1>1 DEF PinInv, CopiesTyped, Admitted
<1>3. CopiesTyped'
  BY <1>1 DEF PinInv, CopiesTyped, Labels, Busy
<1>4. Admitted'
  BY <1>1, <1>2 DEF PinInv, CopiesTyped, Admitted
<1>5. Held' /\ Fresh'
  BY <1>1 DEF PinInv, CopiesTyped, Held, Fresh
<1>6. PinCurrent'
  <2>1. pinned[r] = 0
    BY <1>1 DEF PinInv, Fresh
  <2> QED
    BY <1>1, <1>2, <2>1 DEF PinCurrent
<1>7. OneWriter' /\ Followed'
  BY <1>1 DEF PinInv, OneWriter, Followed, Writes
<1> QED
  BY <1>3, <1>4, <1>5, <1>6, <1>7 DEF PinInv

\* A version that is minted, also for a run the Agent was freed under, changes no other.
LEMMA ResolveKeeps ==
    ASSUME PinInv, NEW r \in Runs, Resolve(r)
    PROVE  PinInv'
<1>1. /\ run[r] = "queued" /\ pinned[r] = 0
      /\ versions' = Resolved(snapshot[r])
      /\ pinned' = [pinned EXCEPT ![r] = Len(versions')]
      /\ UNCHANGED <<agent, run, config, snapshot, instructions, update, lost, freed>>
  BY DEF Resolve, vars, lifecycle
<1>2. snapshot[r] \in Configs
  BY <1>1 DEF Resolve, PinInv, Held
<1>3. /\ versions' \in Seq(Configs) /\ Len(versions') \in 1..Len(versions')
      /\ versions'[Len(versions')] = snapshot[r]
      /\ \A i \in 1..Len(versions) : i \in 1..Len(versions') /\ versions'[i] = versions[i]
  BY <1>1, <1>2 DEF PinInv, CopiesTyped, Resolved
<1>4. CopiesTyped'
  BY <1>1, <1>3 DEF PinInv, CopiesTyped
<1>5. Admitted' /\ Held' /\ Fresh'
  BY <1>1, <1>4 DEF PinInv, CopiesTyped, Admitted, Held, Fresh
<1>6. PinCurrent'
  <2> SUFFICES ASSUME NEW s \in Runs \ freed, run[s] \in Busy, pinned'[s] # 0
               PROVE  pinned'[s] \in 1..Len(versions') /\ versions'[pinned'[s]] = config
    BY <1>1 DEF PinCurrent
  <2>1. CASE s = r
    <3>1. pinned'[s] = Len(versions') /\ snapshot[s] = config
      BY <1>1, <2>1 DEF PinInv, CopiesTyped, Admitted
    <3> QED
      BY <1>3, <2>1, <3>1
  <2>2. CASE s # r
    <3>1. pinned'[s] = pinned[s]
      BY <1>1, <2>2 DEF PinInv, CopiesTyped
    <3>2. pinned[s] \in 1..Len(versions) /\ versions[pinned[s]] = config
      BY <3>1 DEF PinInv, PinCurrent
    <3> QED
      BY <1>3, <3>1, <3>2
  <2> QED
    BY <2>1, <2>2
<1>7. OneWriter' /\ Followed'
  BY <1>1 DEF PinInv, OneWriter, Followed, Writes
<1> QED
  BY <1>4, <1>5, <1>6, <1>7 DEF PinInv

-----------------------------------------------------------------------------
\* Updates: what they do while no record changes.
LEMMA CopiesOnly ==
    ASSUME PinInv, UNCHANGED <<agent, run, config, snapshot, versions, pinned, freed>>,
           update' \in [Updates -> [at : Places, config : Configs]], lost' \in BOOLEAN,
           OneWriter', Followed'
    PROVE  PinInv'
<1>1. CopiesTyped'
  BY DEF PinInv, CopiesTyped
<1>2. Admitted' /\ Held' /\ Fresh' /\ PinCurrent'
  BY DEF PinInv, Admitted, Held, Fresh, PinCurrent
<1> QED
  BY <1>1, <1>2 DEF PinInv

LEMMA AskKeeps ==
    ASSUME PinInv, NEW u \in Updates, UpdateAgent(u) \/ RefuseEdit(u)
    PROVE  PinInv'
<1>1. /\ UNCHANGED <<agent, run, config, snapshot, versions, pinned, instructions, lost, freed>>
      /\ ~ Writes(u)
  BY DEF UpdateAgent, RefuseEdit, Writes, vars, lifecycle
<1>2. PICK c \in Configs, l \in Places \ {"open", "write"} :
          update' = [update EXCEPT ![u] = [at |-> l, config |-> c]]
  <2>1. CASE UpdateAgent(u)
    BY <2>1 DEF UpdateAgent, Places
  <2>2. CASE RefuseEdit(u)
    <3>1. update' = [update EXCEPT ![u].at = "refused"]
      BY <2>2 DEF RefuseEdit, Goes
    <3>2. update' = [update EXCEPT ![u] = [at |-> "refused", config |-> update[u].config]]
      <4>1. update[u] \in [at : Places, config : Configs]
        BY DEF PinInv, CopiesTyped
      <4>2. [update[u] EXCEPT !.at = "refused"] = [at |-> "refused", config |-> update[u].config]
        BY <4>1
      <4> QED
        BY <3>1, <4>2
    <3>3. update[u].config \in Configs /\ "refused" \in Places \ {"open", "write"}
      BY DEF PinInv, CopiesTyped, Places
    <3> QED
      BY <3>2, <3>3
  <2> QED
    BY <2>1, <2>2
<1>3. update' \in [Updates -> [at : Places, config : Configs]]
  BY <1>2 DEF PinInv, CopiesTyped
<1>4. \A v \in Updates : /\ (Writes(v)' <=> Writes(v))
                         /\ Writes(v) => update'[v] = update[v]
                         /\ update'[v].at = "write" => update[v].at = "write"
  BY <1>1, <1>2 DEF PinInv, CopiesTyped, Writes
<1>5. OneWriter' /\ Followed'
  BY <1>1, <1>4 DEF PinInv, OneWriter, Followed
<1>6. lost' \in BOOLEAN
  BY <1>1 DEF PinInv, CopiesTyped
<1> QED
  BY <1>1, <1>3, <1>5, <1>6, CopiesOnly

LEMMA EditKeeps ==
    ASSUME PinInv, NEW u \in Updates, Edit(u)
    PROVE  PinInv'
<1>1. /\ update[u].at = "edit" /\ agent # "busy"
      /\ config' = update[u].config
      /\ lost' = \E v \in Updates : Writes(v)
      /\ update' = [update EXCEPT ![u].at = "open"]
      /\ UNCHANGED <<agent, run, snapshot, versions, pinned, instructions, freed>>
  BY DEF Edit, MayEdit, IsBusy, Goes, vars, lifecycle
<1>2. CopiesTyped'
  BY <1>1 DEF PinInv, CopiesTyped, Places
<1>3. Admitted' /\ Held' /\ Fresh' /\ PinCurrent'
  BY <1>1 DEF PinInv, Admitted, Held, Fresh, PinCurrent
<1>4. Writes(u)' /\ update'[u].config = config' /\ update'[u].at # "write"
  BY <1>1 DEF PinInv, CopiesTyped, Writes
<1>5. ASSUME ~ lost', NEW v \in Updates, Writes(v)'  PROVE v = u
  BY <1>1, <1>5 DEF PinInv, CopiesTyped, Writes
<1>6. OneWriter'
  BY <1>4, <1>5 DEF OneWriter, Writes
<1>7. Followed'
  BY <1>4 DEF Followed
<1> QED
  BY <1>2, <1>3, <1>6, <1>7 DEF PinInv

LEMMA OpenKeeps ==
    ASSUME PinInv, NEW u \in Updates, OpenInstructions(u)
    PROVE  PinInv'
<1>1. /\ update[u].at = "open" /\ instructions' = Blank
      /\ update' = [update EXCEPT ![u].at = "write"]
      /\ UNCHANGED <<agent, run, config, snapshot, versions, pinned, lost, freed>>
  BY DEF OpenInstructions, Goes, vars, lifecycle
<1>2. update' \in [Updates -> [at : Places, config : Configs]]
  BY <1>1 DEF PinInv, CopiesTyped, Places
<1>3. \A v \in Updates : (Writes(v)' <=> Writes(v)) /\ update'[v].config = update[v].config
  BY <1>1 DEF PinInv, CopiesTyped, Writes
<1>4. OneWriter' /\ Followed'
  BY <1>1, <1>3 DEF PinInv, OneWriter, Followed, Writes
<1>5. lost' \in BOOLEAN
  BY <1>1 DEF PinInv, CopiesTyped
<1> QED
  BY <1>1, <1>2, <1>4, <1>5, CopiesOnly

LEMMA WriteInstructionsKeeps ==
    ASSUME PinInv, NEW u \in Updates, WriteInstructions(u)
    PROVE  PinInv'
<1>1. /\ update[u].at = "write"
      /\ instructions = Blank => instructions' = update[u].config
      /\ update' = [update EXCEPT ![u].at = "done"]
      /\ UNCHANGED <<agent, run, config, snapshot, versions, pinned, lost, freed>>
  BY DEF WriteInstructions, Goes, vars, lifecycle
<1>2. update' \in [Updates -> [at : Places, config : Configs]]
  BY <1>1 DEF PinInv, CopiesTyped, Places
<1>3. \A v \in Updates : (Writes(v)' <=> Writes(v) /\ v # u) /\ update'[v].config = update[v].config
  BY <1>1 DEF PinInv, CopiesTyped, Writes
<1>4. ASSUME ~ lost  PROVE instructions' = config /\ \A v \in Updates : ~ Writes(v)'
  BY <1>1, <1>3, <1>4 DEF PinInv, OneWriter, Writes
<1>5. OneWriter' /\ Followed'
  BY <1>1, <1>4 DEF OneWriter, Followed, Writes
<1>6. lost' \in BOOLEAN
  BY <1>1 DEF PinInv, CopiesTyped
<1> QED
  BY <1>1, <1>2, <1>5, <1>6, CopiesOnly

\* A throw or a restart ends updates; the ones that wrote lose their write.
LEMMA EndedKeeps ==
    ASSUME CopiesTyped, OneWriter, Followed, NEW ended \in SUBSET Updates,
           UNCHANGED <<config, instructions>>,
           update' = [u \in Updates |->
                         IF u \in ended THEN [update[u] EXCEPT !.at = "failed"] ELSE update[u]],
           lost' = (lost \/ \E u \in ended : Writes(u))
    PROVE  /\ update' \in [Updates -> [at : Places, config : Configs]]
           /\ lost' \in BOOLEAN /\ OneWriter' /\ Followed'
<1>1. update' \in [Updates -> [at : Places, config : Configs]] /\ lost' \in BOOLEAN
  BY DEF CopiesTyped, Places
<1>2. ASSUME ~ lost', NEW u \in Updates
      PROVE  /\ (Writes(u)' <=> Writes(u))
             /\ Writes(u) => update'[u] = update[u]
             /\ update'[u].at = "write" => update[u].at = "write"
  BY <1>2 DEF CopiesTyped, Writes
<1>3. OneWriter' /\ Followed'
  BY <1>2 DEF OneWriter, Followed
<1> QED
  BY <1>1, <1>3

LEMMA UpdateThrowKeeps ==
    ASSUME PinInv, NEW u \in Updates, UpdateThrows(u)
    PROVE  PinInv'
<1>1. /\ lost' = (lost \/ Writes(u))
      /\ update' = [update EXCEPT ![u].at = "failed"]
      /\ UNCHANGED <<agent, run, config, snapshot, versions, pinned, instructions, freed>>
  BY DEF UpdateThrows, Goes, lifecycle
<1>2. update' = [v \in Updates |->
                    IF v \in {u} THEN [update[v] EXCEPT !.at = "failed"] ELSE update[v]]
  BY <1>1 DEF PinInv, CopiesTyped
<1>3. lost' = (lost \/ \E v \in {u} : Writes(v))
  BY <1>1
<1>4. /\ update' \in [Updates -> [at : Places, config : Configs]]
      /\ lost' \in BOOLEAN /\ OneWriter' /\ Followed'
  BY <1>1, <1>2, <1>3, EndedKeeps DEF PinInv
<1> QED
  BY <1>1, <1>4, CopiesOnly

LEMMA RestartAllKeeps ==
    ASSUME PinInv, RestartAll
    PROVE  PinInv'
<1> DEFINE ended == {u \in Updates : update[u].at = "edit" \/ Writes(u)}
<1>1. /\ lost' = (lost \/ \E u \in ended : Writes(u))
      /\ update' = [u \in Updates |->
                        IF u \in ended THEN [update[u] EXCEPT !.at = "failed"] ELSE update[u]]
      /\ UNCHANGED <<config, snapshot, versions, pinned, instructions>>
  BY DEF RestartAll
<1>2. /\ run' \in [Runs -> Labels]
      /\ \A r \in Runs : run'[r] \notin Busy
      /\ \A r \in Runs : run'[r] = "none" <=> run[r] = "none"
  BY DEF RestartAll, Restart, PinInv, CopiesTyped, Labels, Leaving, Ended, Busy, AgentAfter
<1>3. /\ update' \in [Updates -> [at : Places, config : Configs]]
      /\ lost' \in BOOLEAN /\ OneWriter' /\ Followed'
  BY <1>1, EndedKeeps DEF PinInv
<1>4. CopiesTyped'
  BY <1>1, <1>2, <1>3 DEF PinInv, CopiesTyped
<1>5. Admitted' /\ Held' /\ Fresh' /\ PinCurrent'
  BY <1>1, <1>2 DEF PinInv, Admitted, Held, Fresh, PinCurrent
<1> QED
  BY <1>3, <1>4, <1>5 DEF PinInv

-----------------------------------------------------------------------------
LEMMA PinInitially == WorkspaceInit => PinInv
<1> SUFFICES ASSUME WorkspaceInit PROVE PinInv
  OBVIOUS
<1>1. CopiesTyped
  <2>1. update \in [Updates -> [at : Places, config : Configs]]
    BY DEF WorkspaceInit, Places
  <2>2. versions \in Seq(Configs) /\ snapshot \in [Runs -> Configs \cup {Blank}]
    BY DEF WorkspaceInit
  <2> QED
    BY <2>1, <2>2 DEF WorkspaceInit, Init, CopiesTyped, Labels
<1>2. Admitted /\ Held /\ Fresh /\ PinCurrent
  BY DEF WorkspaceInit, Init, Admitted, Held, Fresh, PinCurrent, Busy
<1>3. OneWriter /\ Followed
  BY DEF WorkspaceInit, OneWriter, Followed, Writes
<1> QED
  BY <1>1, <1>2, <1>3 DEF PinInv

LEMMA PinSteps == PinInv /\ [WorkspaceNext]_allVars => PinInv'
<1> SUFFICES ASSUME PinInv, [WorkspaceNext]_allVars PROVE PinInv'
  OBVIOUS
<1>1. ASSUME NEW r \in Runs, RunStep(r)  PROVE PinInv'
  <2>1. UNCHANGED copies /\ StatusSeen
    BY <1>1 DEF RunStep
  <2>2. CASE Step(r)
    BY <2>1, <2>2, StepEnds, SeenFact, RunsOnly DEF PinInv
  <2>3. CASE OrphanExits(r)
    BY <2>1, <2>3, SeenFact, RunsOnly DEF OrphanExits, PinInv, CopiesTyped
  <2> QED
    BY <1>1, <2>2, <2>3 DEF RunStep
<1>2. CASE StatusStep
  <2>1. UNCHANGED copies /\ StatusSeen /\ run' = run
    BY <1>2 DEF StatusStep, StartAgent, StopStep, StopAgent, ChildClosed, MarkStopped
  <2> QED
    BY <2>1, SeenFact, RunsOnly DEF PinInv, CopiesTyped
<1>3. CASE UNCHANGED allVars
  <2>1. UNCHANGED copies /\ UNCHANGED <<agent, run, freed>>
    BY <1>3 DEF allVars, vars, lifecycle
  <2>2. \A s \in Runs : run'[s] \in Busy /\ agent' # "busy" => s \in freed'
    BY <2>1 DEF PinInv, Admitted
  <2> QED
    BY <2>1, <2>2, RunsOnly DEF PinInv, CopiesTyped
<1> QED
  BY <1>1, <1>2, <1>3, AdmitKeeps, ResolveKeeps, AskKeeps, EditKeeps, OpenKeeps,
     WriteInstructionsKeeps, UpdateThrowKeeps, RestartAllKeeps DEF WorkspaceNext

\* Whatever updates, sends, stops, faults and restarts overlap, the version of a busy run is
\* the stored configuration as long as the Agent is "busy" for it (agent-service.ts:119-141,
\* 225-243), and AGENTS.md says the same but for updates that are writing, were overtaken or
\* were cut short.
THEOREM Pins == WorkspaceSpec => []RunsAsPinned
<1>1. PinInv => RunsAsPinned
  BY DEF PinInv, PinCurrent, Followed, RunsAsPinned
<1> QED
  BY PinInitially, PinSteps, <1>1, PTL DEF WorkspaceSpec

\* What is shown of the outbox is not disturbed by updates: in all they do the runs and the
\* files stay.
LEMMA AmongSteps ==
    ASSUME [WorkspaceNext]_allVars
    PROVE  [Next]_vars \/ UNCHANGED <<run, files, reading, results, chain>>
<1>1. ASSUME NEW r \in Runs, Admit(r) \/ RunStep(r)  PROVE [Next]_vars
  BY <1>1 DEF Admit, RunStep, Next
<1>2. CASE StatusStep
  BY <1>2 DEF StatusStep, Next
<1>3. CASE RestartAll
  BY <1>3 DEF RestartAll, Next
<1>4. ASSUME NEW r \in Runs, Resolve(r)  PROVE UNCHANGED vars
  BY <1>4 DEF Resolve
<1>5. ASSUME NEW u \in Updates,
             UpdateAgent(u) \/ Edit(u) \/ RefuseEdit(u) \/ OpenInstructions(u)
             \/ WriteInstructions(u) \/ UpdateThrows(u)
      PROVE  UNCHANGED <<run, files, reading, results, chain>>
  BY <1>5 DEF UpdateAgent, Edit, RefuseEdit, OpenInstructions, WriteInstructions, UpdateThrows,
     vars
<1> QED
  BY <1>1, <1>2, <1>3, <1>4, <1>5 DEF WorkspaceNext, allVars

LEMMA AccountSteps == Inv /\ [WorkspaceNext]_allVars => Inv'
BY AmongSteps, Steps, Unchanged

\* Accounts for the server that also updates Agents: a completed run accounts for every
\* entry of the outbox it read (outbox.ts:133-173).
THEOREM AccountsAmongUpdates == WorkspaceSpec => []EntriesAccounted
<1>1. WorkspaceInit => Inv
  BY Initially DEF WorkspaceInit
<1>2. Inv => EntriesAccounted
  BY DEF Inv, Kept, Accounted, Covered, AnsweredFor, EntriesAccounted
<1> QED
  BY <1>1, AccountSteps, <1>2, PTL DEF WorkspaceSpec

LEMMA OnceAmongSteps == Inv /\ OnceInv /\ [WorkspaceNext]_allVars => OnceInv'
BY AmongSteps, OnceSteps, OnceUnchanged DEF files, reading, results

\* Once for the server that also updates Agents: what two runs both ingest, one of them
\* ingested cut short (outbox.ts:167-173).
THEOREM OnceAmongUpdates == WorkspaceSpec => []IngestedOnceUnharmed
<1>1. WorkspaceInit => Inv /\ OnceInv
  BY Initially, OnceInitially DEF WorkspaceInit
<1>2. OnceInv => IngestedOnceUnharmed
  BY DEF OnceInv
<1> QED
  BY <1>1, AccountSteps, OnceAmongSteps, <1>2, PTL DEF WorkspaceSpec
=============================================================================
