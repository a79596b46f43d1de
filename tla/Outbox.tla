-------------------------------- MODULE Outbox --------------------------------
(***************************************************************************)
(* The outbox of one Agent's workspace: walnut/evidence/outbox.ts and the  *)
(* part of executeRun that calls it (agent-service.ts).  A child may leave *)
(* .walnut/outbox.json behind, and a run that ends well turns its entries  *)
(* into Evidence and renames it.  Runs are admitted on the Agent's status, *)
(* which a stop, a start, an overlapped run or a late failure may free     *)
(* while a run is still busy, so several runs may be at the one file; so   *)
(* may the child a dead server left running.  AgentService has the rest of *)
(* the requests and of executeRun, Evidence what createEvidence does.      *)
(***************************************************************************)
EXTENDS Naturals, Sequences

CONSTANTS
    Runs,          \* run identities sendMessage may mint
    Proposals,     \* outbox entries, each written by one child
    Stops,         \* stop requests in flight at once
    None,          \* no run
    MaxFaults,     \* bound: createEvidence, file, store and ledger calls that throw
    MaxCrashes     \* bound: restarts of the server

ASSUME Bounds == {MaxFaults, MaxCrashes} \subseteq Nat
ASSUME NoEntry == {"absent", "malformed"} \cap Proposals = {}

VARIABLES
    agent,         \* agent.status
    execution,     \* AgentService.activeExecutions, for this Agent
    stop,          \* stop requests: where they are, the run they wait for
    run,           \* where each run is
    orphans,       \* runs whose child outlived the server that spawned it
    outbox,        \* the entries of outbox.json, Absent or Malformed
    processed,     \* outbox.processed-<run>.json
    file,          \* what each run's processOutbox read
    todo,          \* the entries it has not come to
    accepted,      \* those it accepted
    rejected,      \* and the indices it rejected
    evidence,      \* <<proposal, run>>: stored with the run as its producer
    chain,         \* what the run's chain tells of the outbox
    cut,           \* auxiliary: runs interrupted between read and rename, or whose
                   \* file another run read in between
    rewritten,     \* auxiliary: runs whose file a child wrote in between
    faults, crashes

lifecycle == <<agent, execution, stop>>
files     == <<outbox, processed>>
reading   == <<file, todo, cut, rewritten>>
results   == <<accepted, rejected, evidence>>
outside   == <<orphans, faults, crashes>>
vars == <<lifecycle, run, files, reading, results, chain, outside>>

Absent    == <<"absent">>
Malformed == <<"malformed">>
\* Bound: an outbox holds up to two entries.
Lists     == UNION {[1..n -> Proposals] : n \in 0..2}

Busy    == {"queued", "child", "outbox", "ingest", "report", "failure", "complete"}
Leaving == {"completedEvent", "cancel", "catch"}
Ended   == {"completed", "failed", "cancelled", "rejected"}

NoStop == [at |-> "idle", for |-> None]

Init ==
    /\ agent = "ready" /\ execution = None /\ stop = [s \in Stops |-> NoStop]
    /\ run = [r \in Runs |-> "none"] /\ orphans = {}
    /\ outbox = Absent
    /\ processed = [r \in Runs |-> Absent] /\ file = [r \in Runs |-> Absent]
    /\ todo = [r \in Runs |-> <<>>]
    /\ accepted = [r \in Runs |-> <<>>] /\ rejected = [r \in Runs |-> <<>>]
    /\ evidence = {}
    /\ chain = [r \in Runs |-> <<>>]
    /\ cut = {} /\ rewritten = {} /\ faults = 0 /\ crashes = 0

Goto(r, label) == run' = [run EXCEPT ![r] = label]

\* The promise settles.
Leave(r, label) ==
    /\ Goto(r, label)
    /\ execution' = IF execution = r THEN None ELSE execution

-----------------------------------------------------------------------------
(* What decides who runs.                                                  *)

SendMessage(r) ==
    /\ run[r] = "none" /\ agent \notin {"stopped", "busy"}
    /\ agent' = "busy" /\ execution' = r
    /\ Goto(r, "queued")
    /\ UNCHANGED <<stop, files, reading, results, chain, outside>>

StartAgent ==
    /\ agent # "busy"
    /\ agent' = "ready"
    /\ UNCHANGED <<execution, stop, run, files, reading, results, chain, outside>>

\* cancelExecution waits for the child of this moment, then for the execution that is
\* registered once it closed; the Agent is "stopped" whoever runs by then.
Join(s) == stop' = [stop EXCEPT ![s] = [at |-> "join", for |-> execution]]

StopAgent(s) ==
    /\ stop[s].at = "idle"
    /\ \/ \E r \in Runs : /\ run[r] = "child"
                          /\ stop' = [stop EXCEPT ![s] = [at |-> "close", for |-> r]]
       \/ (\A r \in Runs : run[r] # "child") /\ Join(s)
    /\ UNCHANGED <<agent, execution, run, files, reading, results, chain, outside>>

ChildClosed(s) ==
    /\ stop[s].at = "close" /\ run[stop[s].for] # "child"
    /\ Join(s)
    /\ UNCHANGED <<agent, execution, run, files, reading, results, chain, outside>>

MarkStopped(s) ==
    /\ stop[s].at = "join"
    /\ stop[s].for # None => run[stop[s].for] \in Ended
    /\ agent' = IF stop[s].for # None /\ run[stop[s].for] = "rejected"
                THEN agent ELSE "stopped"
    /\ stop' = [stop EXCEPT ![s] = NoStop]
    /\ UNCHANGED <<execution, run, files, reading, results, chain, outside>>

-----------------------------------------------------------------------------
(* The run and its child.                                                  *)

\* The runner has one child per Agent: a second run's is refused.
Spawn(r) ==
    /\ run[r] = "queued"
    /\ Goto(r, IF \E s \in Runs : run[s] = "child" THEN "catch" ELSE "child")
    /\ UNCHANGED <<lifecycle, files, reading, results, chain, outside>>

InFile(f, p) == \E i \in 1..Len(f) : f[i] = p
Seen(p) == \/ InFile(outbox, p)
           \/ \E r \in Runs : InFile(file[r], p) \/ InFile(processed[r], p)
                              \/ <<p, r>> \in evidence

InWindow == {r \in Runs : run[r] = "ingest"}

\* The child writes new entries, among those it finds there or instead of them.
ChildWrites(r) ==
    /\ run[r] = "child" \/ r \in orphans
    /\ outbox' \in Lists \cup {Malformed, Absent}
    /\ \A p \in Proposals : InFile(outbox', p) => InFile(outbox, p) \/ ~ Seen(p)
    /\ \A i, j \in 1..Len(outbox') : outbox'[i] = outbox'[j] => i = j
    /\ rewritten' = rewritten \cup InWindow
    /\ UNCHANGED <<lifecycle, run, processed, file, todo, cut, results, chain, outside>>

ChildSucceeds(r) ==
    /\ run[r] = "child"
    /\ Goto(r, "outbox")
    /\ UNCHANGED <<lifecycle, files, reading, results, chain, outside>>

\* A run that is refused, cancelled or fails before its outbox leaves it unread.
RunFails(r) ==
    /\ run[r] \in {"queued", "child"}
    /\ \E label \in {"cancel", "catch"} : Goto(r, label)
    /\ UNCHANGED <<lifecycle, files, reading, results, chain, outside>>

-----------------------------------------------------------------------------
(* processOutbox.                                                          *)

ReadOutbox(r) ==
    /\ run[r] = "outbox"
    /\ file' = [file EXCEPT ![r] = outbox]
    /\ \/ outbox = Absent /\ Goto(r, "complete") /\ UNCHANGED <<todo, rejected, cut>>
       \/ /\ outbox = Malformed                    \* the file stays in place
          /\ rejected' = [rejected EXCEPT ![r] = <<0>>]
          /\ Goto(r, "report") /\ UNCHANGED <<todo, cut>>
       \/ /\ outbox \notin {Absent, Malformed}
          /\ todo' = [todo EXCEPT ![r] = outbox]
          /\ cut' = cut \cup InWindow
          /\ Goto(r, "ingest") /\ UNCHANGED rejected
    /\ UNCHANGED <<lifecycle, files, rewritten, accepted, evidence, chain, outside>>

Position(r) == Len(file[r]) - Len(todo[r]) + 1

Accept(r) ==
    /\ evidence' = evidence \cup {<<Head(todo[r]), r>>}
    /\ accepted' = [accepted EXCEPT ![r] = Append(@, Head(todo[r]))]
    /\ UNCHANGED rejected

Reject_Uncounted(r) == UNCHANGED results
Reject(r) ==
    /\ rejected' = [rejected EXCEPT ![r] = Append(@, Position(r))]
    /\ UNCHANGED <<evidence, accepted>>

\* Invalid entries and those createEvidence refuses are rejected by position.
IngestEntry(r) ==
    /\ run[r] = "ingest" /\ todo[r] # <<>>
    /\ Accept(r) \/ Reject(r)
    /\ todo' = [todo EXCEPT ![r] = Tail(@)]
    /\ UNCHANGED <<lifecycle, run, files, file, cut, rewritten, chain, outside>>

MustRename_AllAccepted(r) == rejected[r] = <<>>
MustRename(r) == TRUE

\* rename moves the file that is there now; it throws if there is none.
RenameOutbox(r) ==
    /\ run[r] = "ingest" /\ todo[r] = <<>>
    /\ IF MustRename(r) /\ outbox # Absent
       THEN outbox' = Absent /\ processed' = [processed EXCEPT ![r] = outbox]
       ELSE UNCHANGED files
    /\ Goto(r, IF MustRename(r) /\ outbox = Absent THEN "failure" ELSE "report")
    /\ UNCHANGED <<lifecycle, reading, results, chain, outside>>

-----------------------------------------------------------------------------
(* Its events.                                                             *)

Emit(r, kind) == chain' = [chain EXCEPT ![r] = Append(@, kind)]
Told(r)  == Len(chain[r])
Total(r) == Len(accepted[r]) + Len(rejected[r])

\* evidence.proposal_rejected for each of them.
EmitRejection(r) ==
    /\ run[r] = "report" /\ Told(r) < Len(rejected[r])
    /\ Emit(r, <<"proposal_rejected", rejected[r][Told(r) + 1]>>)
    /\ UNCHANGED <<lifecycle, run, files, reading, results, outside>>

\* Then evidence.outbox_processed, unless there was nothing to process.
EmitProcessed(r) ==
    /\ run[r] = "report" /\ Told(r) = Len(rejected[r])
    /\ IF Total(r) > 0
       THEN Emit(r, <<"outbox_processed", Len(accepted[r]), Len(rejected[r])>>)
       ELSE UNCHANGED chain
    /\ Goto(r, "complete")
    /\ UNCHANGED <<lifecycle, files, reading, results, outside>>

EmitFailed(r) ==
    /\ run[r] = "failure"
    /\ Emit(r, <<"outbox_failed">>)
    /\ Goto(r, "complete")
    /\ UNCHANGED <<lifecycle, files, reading, results, outside>>

-----------------------------------------------------------------------------
(* How a run ends.                                                         *)

\* The completing mutation makes the Agent ready whatever it was.
CompleteRun(r) ==
    /\ run[r] = "complete"
    /\ agent' = "ready"
    /\ Goto(r, "completedEvent")
    /\ UNCHANGED <<execution, stop, files, reading, results, chain, outside>>

EmitCompleted(r) ==
    /\ run[r] = "completedEvent"
    /\ Leave(r, "completed")
    /\ UNCHANGED <<agent, stop, files, reading, results, chain, outside>>

\* The catch block, also after run.completed could not be appended; its own event is
\* left out.  A refusal frees the Agent as a cancellation does.
AgentAfter == [cancel |-> "ready", catch |-> "error"]

CatchRun(r) ==
    /\ run[r] \in DOMAIN AgentAfter
    /\ agent' = IF agent = "stopped" THEN agent ELSE AgentAfter[run[r]]
    /\ Leave(r, "failed")
    /\ UNCHANGED <<stop, files, reading, results, chain, outside>>

\* createEvidence may throw before or after the Evidence is stored.
StoredBeforeThrow(r) ==
    \/ UNCHANGED evidence
    \/ /\ run[r] = "ingest" /\ todo[r] # <<>>
       /\ evidence' = evidence \cup {<<Head(todo[r]), r>>}

Throw == faults < MaxFaults /\ faults' = faults + 1

\* Any await of the inner try, or the append of its catch block.
OutboxThrows(r) ==
    /\ run[r] \in {"outbox", "ingest", "report", "failure"}
    /\ Throw
    /\ Goto(r, IF run[r] = "failure" THEN "catch" ELSE "failure")
    /\ cut' = cut \cup ({r} \cap InWindow)
    /\ StoredBeforeThrow(r)
    /\ UNCHANGED <<lifecycle, files, file, todo, rewritten, accepted, rejected, chain,
                   orphans, crashes>>

\* The completing mutation or run.completed; or the mutation of the catch block itself,
\* which leaves the Agent as it is.
EndThrows(r) ==
    /\ Throw
    /\ \/ run[r] \in {"complete", "completedEvent"} /\ Goto(r, "catch") /\ UNCHANGED execution
       \/ run[r] \in DOMAIN AgentAfter /\ Leave(r, "rejected")
    /\ UNCHANGED <<agent, stop, files, reading, results, chain, orphans, crashes>>

\* initialize cancels the runs; the file is where it was, and so may a child be.
Restart ==
    /\ crashes < MaxCrashes /\ crashes' = crashes + 1
    /\ agent' = IF agent = "busy" THEN "ready" ELSE agent
    /\ execution' = None /\ stop' = [s \in Stops |-> NoStop]
    /\ run' = [r \in Runs |-> CASE run[r] \in Busy \cup DOMAIN AgentAfter -> "cancelled"
                                [] run[r] = "completedEvent" -> "completed"
                                [] OTHER -> run[r]]
    /\ \E left \in SUBSET {r \in Runs : run[r] = "child"} : orphans' = orphans \cup left
    /\ cut' = cut \cup InWindow
    /\ UNCHANGED <<files, file, todo, rewritten, results, chain, faults>>

OrphanExits(r) ==
    /\ r \in orphans /\ orphans' = orphans \ {r}
    /\ UNCHANGED <<lifecycle, run, files, reading, results, chain, faults, crashes>>

StopStep(s) == StopAgent(s) \/ ChildClosed(s) \/ MarkStopped(s)

Step(r) ==
    \/ Spawn(r) \/ ChildWrites(r) \/ ChildSucceeds(r) \/ RunFails(r)
    \/ ReadOutbox(r) \/ IngestEntry(r) \/ RenameOutbox(r)
    \/ EmitRejection(r) \/ EmitProcessed(r) \/ EmitFailed(r)
    \/ CompleteRun(r) \/ EmitCompleted(r) \/ CatchRun(r)
    \/ OutboxThrows(r) \/ EndThrows(r)

Next ==
    \/ \E r \in Runs : SendMessage(r) \/ Step(r) \/ OrphanExits(r)
    \/ \E s \in Stops : StopStep(s)
    \/ StartAgent \/ Restart

Spec == Init /\ [][Next]_vars

-----------------------------------------------------------------------------
Files == Lists \cup {Absent, Malformed}

\* The types of the statuses, of the files and of the records.
TypeOK ==
    /\ agent \in {"ready", "busy", "stopped", "error"} /\ execution \in Runs \cup {None}
    /\ stop \in [Stops -> [at : {"idle", "close", "join"}, for : Runs \cup {None}]]
    /\ run \in [Runs -> {"none"} \cup Busy \cup Leaving \cup Ended]
    /\ outbox \in Files /\ todo \in [Runs -> Lists]
    /\ processed \in [Runs -> Files] /\ file \in [Runs -> Files]
    /\ \A r \in Runs : accepted[r] \in Lists /\ rejected[r] \in Seq(0..2)
    /\ evidence \subseteq Proposals \X Runs
    /\ {orphans, cut, rewritten} \subseteq SUBSET Runs
    /\ faults \in 0..MaxFaults /\ crashes \in 0..MaxCrashes

-----------------------------------------------------------------------------
(* Properties.                                                             *)

Rejections(r) == [i \in 1..Len(rejected[r]) |-> <<"proposal_rejected", rejected[r][i]>>]
Summary(r) == IF Total(r) = 0 THEN <<>>
              ELSE <<<<"outbox_processed", Len(accepted[r]), Len(rejected[r])>>>>

\* INV-4, and the answer an auditor gets: a completed run without outbox_failed
\* accounts for every entry of the file it read, as Evidence of its own or as a
\* rejection in its chain, and the chain tells nothing else.  Whatever other run, orphan
\* or request went on meanwhile, the file it renamed is the file it read unless a child
\* wrote it in between: what such a child wrote is renamed away with it, unread.
EntriesAccounted ==
    \A r \in Runs :
        run[r] \in {"completedEvent", "completed"} /\ ~ InFile(chain[r], <<"outbox_failed">>) =>
        /\ chain[r] = Rejections(r) \o Summary(r)
        /\ file[r] = Absent => accepted[r] = <<>> /\ processed[r] = Absent
        /\ file[r] \notin {Absent, Malformed} =>
              /\ processed[r] = file[r] \/ r \in rewritten
              /\ \A i \in 1..Len(file[r]) :
                    \/ InFile(accepted[r], file[r][i]) /\ <<file[r][i], r>> \in evidence
                    \/ InFile(rejected[r], i)

\* outbox.ts:167 and outbox.test.ts:73: the file is renamed so that a restart never
\* ingests an entry a second time.  It does keep entries from being ingested by two
\* runs, unless one of the two was cut short by a throw or a restart after it had read
\* the file, or had not renamed it when another run read it.
IngestedOnceUnharmed ==
    \A p \in Proposals, r, s \in Runs :
        <<p, r>> \in evidence /\ <<p, s>> \in evidence => r = s \/ r \in cut \/ s \in cut
=============================================================================
