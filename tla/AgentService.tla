---------------------------- MODULE AgentService ----------------------------
(***************************************************************************)
(* The control plane of one process: apps/server/src/agent-service.ts with *)
(* the Codex runner it drives (codex-runner.ts, container-codex-runner.ts).*)
(*                                                                         *)
(* JavaScript runs one callback at a time, so an action here is what the   *)
(* code does between two awaits that leave the microtask queue: a store    *)
(* mutation together with the continuation it resumes, a ledger append, a  *)
(* child-process event.  Every run has one execution (executeRun), every   *)
(* stop or delete request is a client with a program counter of its own.   *)
(***************************************************************************)
EXTENDS Naturals, Sequences, FiniteSets

CONSTANTS
    Agents,          \* identities createAgent may mint
    Runs,            \* identities sendMessage may mint
    Clients,         \* concurrent stop / delete requests
    None,            \* "no entry" in a Map
    MaxFaults,       \* bound: ledger, broker, workspace calls that throw
    MaxStoreFaults,  \* bound: JsonStore mutations that fail to persist
    MaxCrashes       \* bound: restarts of the server

ASSUME BoundsAreNaturals ==
    /\ MaxFaults \in Nat
    /\ MaxStoreFaults \in Nat
    /\ MaxCrashes \in Nat

ASSUME NoneIsFresh == None \notin Runs \cup Agents

VARIABLES
    agent,       \* JsonStore: status of each Agent
    status,      \* JsonStore: status of each AgentRun
    owner,       \* the Agent a run was sent to
    workspace,   \* the Agent's directory under workspaces/
    ingested,    \* runs whose outbox was turned into Evidence
    chain,       \* ledger: kinds appended under each runId
    pc,          \* where each executeRun is
    thrown,      \* what its catch block caught
    flags,       \* ActiveProcess flags of the run's child
    active,      \* runner.active: Agent -> run of its child process
    execution,   \* AgentService.activeExecutions
    cancelling,  \* AgentService.cancellationRequests
    call,        \* stop and delete requests in flight
    orphans,     \* runs whose child outlived the server that spawned it
    faults, storeFaults, crashes

stored   == <<agent, status, owner, workspace, ingested, chain>>
volatile == <<pc, thrown, flags, active, execution, cancelling, call>>
outside  == <<orphans, faults, storeFaults, crashes>>
vars     == <<stored, volatile, outside>>

AgentStatus == {"absent", "ready", "busy", "stopped", "error", "deleted"}
Settled     == {"completed", "failed", "cancelled"}
RunStatus   == {"none", "queued", "running", "removed"} \cup Settled
Kinds       == {"run.requested", "capsule.finalized", "artifact.diff",
                "evidence.outbox", "run.completed", "run.failed", "run.cancelled"}

InProcess == {"running", "draining"}          \* runner.run holds runner.active
TryPoints == {"request", "build", "deny", "denyStore", "finalize", "capture",
              "diff", "outbox", "complete", "completedEvent"}
Finished  == {"idle", "over", "rejected", "interrupted"}     \* no promise pending
PC        == {"start", "clarify", "spawn", "failedDiff", "catch", "catchEvent"}
                \cup TryPoints \cup InProcess \cup Finished

Known(a) == agent[a] \notin {"absent", "deleted"}      \* getAgent finds it
InStore(r) == status[r] \notin {"none", "removed"}

NoCall == [op |-> "none", at |-> "idle", agent |-> None, waits |-> None]

Init ==
    /\ agent = [a \in Agents |-> "absent"]
    /\ status = [r \in Runs |-> "none"]
    /\ owner = [r \in Runs |-> None]
    /\ workspace = [a \in Agents |-> "none"]
    /\ ingested = {}
    /\ chain = [r \in Runs |-> <<>>]
    /\ pc = [r \in Runs |-> "idle"]
    /\ thrown = [r \in Runs |-> "nothing"]
    /\ flags = [r \in Runs |-> {}]
    /\ active = [a \in Agents |-> None]
    /\ execution = [a \in Agents |-> None]
    /\ cancelling = {}
    /\ call = [c \in Clients |-> NoCall]
    /\ orphans = {}
    /\ faults = 0 /\ storeFaults = 0 /\ crashes = 0

-----------------------------------------------------------------------------
(* Requests that take effect in one store mutation.                        *)

CreateAgent(a) ==
    /\ agent[a] = "absent"
    /\ agent' = [agent EXCEPT ![a] = "ready"]
    /\ workspace' = [workspace EXCEPT ![a] = "present"]
    /\ UNCHANGED <<status, owner, ingested, chain, volatile, outside>>

\* setStatus(id, "ready"): a busy Agent is refused.
MayStart_EvenBusy(a) == Known(a)
MayStart(a) == Known(a) /\ agent[a] # "busy"

StartAgent(a) ==
    /\ MayStart(a)
    /\ agent' = [agent EXCEPT ![a] = "ready"]
    /\ UNCHANGED <<status, owner, workspace, ingested, chain, volatile, outside>>

\* The mutation that admits a run, then the synchronous start of executeRun.
SendMessage(a, r) ==
    /\ status[r] = "none"
    /\ Known(a) /\ agent[a] \notin {"stopped", "busy"}
    /\ agent' = [agent EXCEPT ![a] = "busy"]
    /\ status' = [status EXCEPT ![r] = "queued"]
    /\ owner' = [owner EXCEPT ![r] = a]
    /\ pc' = [pc EXCEPT ![r] = "start"]
    /\ execution' = [execution EXCEPT ![a] = r]
    /\ UNCHANGED <<workspace, ingested, chain, thrown, flags, active, cancelling,
                   call, outside>>

-----------------------------------------------------------------------------
(* executeRun, from its first mutation to the spawn of the child process.  *)

Goto(r, label) == pc' = [pc EXCEPT ![r] = label]
Raise(r, what) == /\ Goto(r, "catch")
                  /\ thrown' = [thrown EXCEPT ![r] = what]
Emit(r, kind)  == chain' = [chain EXCEPT ![r] = Append(@, kind)]
SetRun(r, s)   == status' = IF InStore(r) THEN [status EXCEPT ![r] = s] ELSE status

\* A promise settles: the .finally() of sendMessage drops its own entry only.
Finish(r, label) ==
    /\ Goto(r, label)
    /\ execution' = IF execution[owner[r]] = r
                    THEN [execution EXCEPT ![owner[r]] = None] ELSE execution

\* How a run's ending leaves its Agent: a stopped one stays stopped.
FreeAgent_Forgotten(a, s) == UNCHANGED agent
FreeAgent(a, s) ==
    agent' = IF Known(a) /\ agent[a] # "stopped" THEN [agent EXCEPT ![a] = s] ELSE agent

StartRun(r) ==
    /\ pc[r] = "start"
    /\ SetRun(r, "running")
    /\ IF owner[r] \in cancelling
       THEN Raise(r, "cancelled")
       ELSE Goto(r, "request") /\ UNCHANGED thrown
    /\ UNCHANGED <<agent, owner, workspace, ingested, chain, flags, active,
                   execution, cancelling, call, outside>>

RequestRun(r) ==
    /\ pc[r] = "request"
    /\ Emit(r, "run.requested")
    /\ Goto(r, "build")
    /\ UNCHANGED <<agent, status, owner, workspace, ingested, thrown, flags, active,
                   execution, cancelling, call, outside>>

\* broker.build answers denied, clarification_required or ok.
BuildCapsule(r) ==
    /\ pc[r] = "build"
    /\ \E answer \in {"deny", "clarify", "finalize"} : Goto(r, answer)
    /\ UNCHANGED <<stored, thrown, flags, active, execution, cancelling, call, outside>>

Deny(r) ==
    /\ pc[r] = "deny"
    /\ Emit(r, "run.failed")
    /\ Goto(r, "denyStore")
    /\ UNCHANGED <<agent, status, owner, workspace, ingested, thrown, flags, active,
                   execution, cancelling, call, outside>>

EndRefusal_FallsThrough(r) == Goto(r, "finalize") /\ UNCHANGED execution
EndRefusal(r) == Finish(r, "over")

\* A refusal is the run's failure, not the Agent's.
Refuse(r) ==
    /\ pc[r] \in {"denyStore", "clarify"}
    /\ SetRun(r, "failed")
    /\ FreeAgent(owner[r], "ready")
    /\ EndRefusal(r)
    /\ UNCHANGED <<owner, workspace, ingested, chain, thrown, flags, active,
                   cancelling, call, outside>>

FinalizeCapsule(r) ==
    /\ pc[r] = "finalize"
    /\ Emit(r, "capsule.finalized")
    /\ Goto(r, "capture")
    /\ UNCHANGED <<agent, status, owner, workspace, ingested, thrown, flags, active,
                   execution, cancelling, call, outside>>

\* captureBefore reads the workspace; it throws once the directory is archived.
CaptureBefore(r) ==
    /\ pc[r] = "capture"
    /\ IF workspace[owner[r]] = "present"
       THEN Goto(r, "spawn") /\ UNCHANGED thrown
       ELSE Raise(r, "failed")
    /\ UNCHANGED <<stored, flags, active, execution, cancelling, call, outside>>

-----------------------------------------------------------------------------
(* The runner: one child process per Agent.                                *)

MaySpawn_Unchecked(r) == TRUE
MaySpawn(r) == active[owner[r]] = None

\* runner.run refuses a second child; spawn itself fails later, as an event,
\* when the binary or the working directory is missing.
Spawn(r) ==
    /\ pc[r] = "spawn"
    /\ IF MaySpawn(r)
       THEN /\ active' = [active EXCEPT ![owner[r]] = r]
            /\ Goto(r, "running")
            /\ \/ flags' = [flags EXCEPT ![r] = {"unspawned"}]
               \/ workspace[owner[r]] = "present" /\ UNCHANGED flags
            /\ UNCHANGED thrown
       ELSE /\ Goto(r, "failedDiff")
            /\ thrown' = [thrown EXCEPT ![r] = "failed"]
            /\ UNCHANGED <<active, flags>>
    /\ UNCHANGED <<stored, execution, cancelling, call, outside>>

\* The child's "error" event: run rejects with it whatever the flags say.
ChildError(r) ==
    /\ pc[r] = "running" /\ "unspawned" \in flags[r]
    /\ active' = [active EXCEPT ![owner[r]] = None]
    /\ Goto(r, "failedDiff")
    /\ thrown' = [thrown EXCEPT ![r] = "failed"]
    /\ UNCHANGED <<stored, flags, execution, cancelling, call, outside>>

\* terminate(): a child that has exited is not signalled.
Signal_Marked(r) == {}
Signal(r) == IF pc[r] = "running" THEN {"signalled"} ELSE {}

\* The timer (or the output bound) marks the child and signals it if alive.
HitLimit(r) ==
    /\ pc[r] \in InProcess
    /\ "limit" \notin flags[r]
    /\ flags' = [flags EXCEPT ![r] = @ \cup {"limit"} \cup Signal(r)]
    /\ UNCHANGED <<stored, pc, thrown, active, execution, cancelling, call, outside>>

\* The child closes: by itself, or because terminate() signalled it.
Close(r) ==
    /\ pc[r] = "running" /\ "unspawned" \notin flags[r]
    /\ Goto(r, "draining")
    /\ UNCHANGED <<stored, thrown, flags, active, execution, cancelling, call, outside>>

\* consumer.done() settled: the ladder cancelled > limit > exit code > no message.
Drain(r) ==
    /\ pc[r] = "draining"
    /\ active' = [active EXCEPT ![owner[r]] = None]
    /\ \E exit \in {"good", "bad"} :
         LET error == IF "cancelled" \in flags[r] THEN "cancelled"
                      ELSE IF "limit" \in flags[r] \/ exit = "bad" THEN "failed"
                      ELSE "nothing"
         IN  /\ Goto(r, IF error = "nothing" THEN "diff" ELSE "failedDiff")
             /\ thrown' = [thrown EXCEPT ![r] = error]
    /\ UNCHANGED <<stored, flags, execution, cancelling, call, outside>>

-----------------------------------------------------------------------------
(* executeRun, after the runner.                                           *)

AfterDiff_IngestLater == "complete"
AfterDiff == "outbox"

\* captureArtifactDiff: an event only if files changed, a throw if the
\* directory is gone.  After a runner error its own failure is swallowed and
\* the runner's error is rethrown.
CaptureDiff(r) ==
    /\ pc[r] \in {"diff", "failedDiff"}
    /\ \/ UNCHANGED chain
       \/ workspace[owner[r]] = "present" /\ Emit(r, "artifact.diff")
    /\ IF pc[r] = "diff" /\ workspace[owner[r]] = "present"
       THEN Goto(r, AfterDiff) /\ UNCHANGED thrown
       ELSE Raise(r, IF pc[r] = "diff" THEN "failed" ELSE thrown[r])
    /\ UNCHANGED <<agent, status, owner, workspace, ingested, flags, active,
                   execution, cancelling, call, outside>>

\* processRunOutbox and its events; a throw becomes evidence.outbox_failed.
IngestOutbox(r) ==
    /\ pc[r] = "outbox"
    /\ ingested' = ingested \cup {r}
    /\ UNCHANGED chain \/ Emit(r, "evidence.outbox")
    /\ Goto(r, "complete")
    /\ UNCHANGED <<agent, status, owner, workspace, thrown, flags, active, execution,
                   cancelling, call, outside>>

\* Unlike every other ending, this one does not look at "stopped".
CompleteRun(r) ==
    /\ pc[r] = "complete"
    /\ IF InStore(r) /\ Known(owner[r])
       THEN /\ status' = [status EXCEPT ![r] = "completed"]
            /\ agent' = [agent EXCEPT ![owner[r]] = "ready"]
       ELSE UNCHANGED <<status, agent>>
    /\ Goto(r, "completedEvent")
    /\ UNCHANGED <<owner, workspace, ingested, chain, thrown, flags, active, execution,
                   cancelling, call, outside>>

EmitCompleted(r) ==
    /\ pc[r] = "completedEvent"
    /\ Emit(r, "run.completed")
    /\ Finish(r, "over")
    /\ UNCHANGED <<agent, status, owner, workspace, ingested, thrown, flags, active,
                   cancelling, call, outside>>

CaughtKind_Failed(r) == "run.failed"
CaughtKind(r) == IF thrown[r] = "cancelled" THEN "run.cancelled" ELSE "run.failed"

\* The catch block: the store first, then the run's chain.
CatchRun(r) ==
    /\ pc[r] = "catch"
    /\ SetRun(r, thrown[r])
    /\ FreeAgent(owner[r], IF thrown[r] = "cancelled" THEN "ready" ELSE "error")
    /\ Goto(r, "catchEvent")
    /\ UNCHANGED <<owner, workspace, ingested, chain, thrown, flags, active, execution,
                   cancelling, call, outside>>

EmitCaught(r) ==
    /\ pc[r] = "catchEvent"
    /\ Emit(r, CaughtKind(r))
    /\ Finish(r, "over")
    /\ UNCHANGED <<agent, status, owner, workspace, ingested, thrown, flags, active,
                   cancelling, call, outside>>

-----------------------------------------------------------------------------
(* Failing awaits.                                                         *)

StorePoints == {"denyStore", "complete"}

\* An await inside the try block rejects: control moves to the catch block.
AwaitThrows(r) ==
    /\ pc[r] \in TryPoints \cup {"clarify", "draining"}
    /\ IF pc[r] \in StorePoints \cup {"clarify"}
       THEN /\ storeFaults < MaxStoreFaults
            /\ storeFaults' = storeFaults + 1 /\ UNCHANGED faults
       ELSE /\ faults < MaxFaults
            /\ faults' = faults + 1 /\ UNCHANGED storeFaults
    /\ IF pc[r] = "draining"      \* runner.run's finally, then its caller's catch
       THEN /\ active' = [active EXCEPT ![owner[r]] = None]
            /\ Goto(r, "failedDiff")
            /\ thrown' = [thrown EXCEPT ![r] = "failed"]
       ELSE Raise(r, "failed") /\ UNCHANGED active
    /\ UNCHANGED <<stored, flags, execution, cancelling, call, orphans, crashes>>

\* An await outside the try block rejects: so does the execution.
ExecutionRejects(r) ==
    /\ \/ /\ pc[r] \in {"start", "catch"}
          /\ storeFaults < MaxStoreFaults
          /\ storeFaults' = storeFaults + 1 /\ UNCHANGED faults
       \/ /\ pc[r] = "catchEvent"
          /\ faults < MaxFaults
          /\ faults' = faults + 1 /\ UNCHANGED storeFaults
    /\ Finish(r, "rejected")
    /\ UNCHANGED <<stored, thrown, flags, active, cancelling, call, orphans, crashes>>

-----------------------------------------------------------------------------
(* stopAgent and deleteAgent.                                              *)

At(c, op, label, a, r) ==
    call' = [call EXCEPT ![c] = [op |-> op, at |-> label, agent |-> a, waits |-> r]]

\* Where cancelExecution goes once runner.cancel has answered: it waits for the
\* execution registered for the Agent, or leaves at once through its finally.
JoinExecution(c, op, a) ==
    IF execution[a] # None
    THEN At(c, op, "awaitRun", a, execution[a]) /\ cancelling' = cancelling \cup {a}
    ELSE At(c, op, "act", a, None) /\ cancelling' = cancelling \ {a}

CancelExecution(c, op, a) ==
    /\ call[c] = NoCall
    /\ Known(a)
    /\ IF active[a] = None
       THEN JoinExecution(c, op, a) /\ UNCHANGED flags
       ELSE /\ cancelling' = cancelling \cup {a}
            /\ flags' = [flags EXCEPT ![active[a]] = @ \cup {"cancelled"} \cup Signal(active[a])]
            /\ At(c, op, "awaitClose", a, active[a])
    /\ UNCHANGED <<stored, pc, thrown, active, execution, outside>>

\* active.settled is a promise: it stays resolved after the close event.
HasClosed_Missed(r) == pc[r] = "draining"
HasClosed(r) == pc[r] # "running"

ChildClosed(c) ==
    /\ call[c].at = "awaitClose"
    /\ HasClosed(call[c].waits)
    /\ IF execution[call[c].agent] # None
       THEN /\ At(c, call[c].op, "awaitRun", call[c].agent, execution[call[c].agent])
            /\ UNCHANGED cancelling
       ELSE /\ At(c, call[c].op, "act", call[c].agent, None)
            /\ cancelling' = cancelling \ {call[c].agent}
    /\ UNCHANGED <<stored, pc, thrown, flags, active, execution, outside>>

\* The awaited execution settled; if it rejected, so does the request.
RunOver(c) ==
    /\ call[c].at = "awaitRun"
    /\ pc[call[c].waits] \in {"over", "rejected"}
    /\ cancelling' = cancelling \ {call[c].agent}
    /\ IF pc[call[c].waits] = "over"
       THEN At(c, call[c].op, "act", call[c].agent, None)
       ELSE call' = [call EXCEPT ![c] = NoCall]
    /\ UNCHANGED <<stored, pc, thrown, flags, active, execution, outside>>

\* setStatus(id, "stopped"): unconditional for an Agent that still exists.
MarkStopped(c) ==
    /\ call[c].op = "stop" /\ call[c].at = "act"
    /\ agent' = IF Known(call[c].agent)
                THEN [agent EXCEPT ![call[c].agent] = "stopped"] ELSE agent
    /\ call' = [call EXCEPT ![c] = NoCall]
    /\ UNCHANGED <<status, owner, workspace, ingested, chain, pc, thrown, flags, active,
                   execution, cancelling, outside>>

\* workspaces.archive: the rename fails if another delete moved it first.
Archive(c) ==
    /\ call[c].op = "delete" /\ call[c].at = "act"
    /\ LET a == call[c].agent IN
         IF workspace[a] = "present"
         THEN /\ workspace' = [workspace EXCEPT ![a] = "archived"]
              /\ At(c, "delete", "remove", a, None)
         ELSE /\ call' = [call EXCEPT ![c] = NoCall]
              /\ UNCHANGED workspace
    /\ UNCHANGED <<agent, status, owner, ingested, chain, pc, thrown, flags, active,
                   execution, cancelling, outside>>

RemoveAgent(c) ==
    /\ call[c].at = "remove"
    /\ agent' = [agent EXCEPT ![call[c].agent] = "deleted"]
    /\ status' = [r \in Runs |-> IF owner[r] = call[c].agent THEN "removed" ELSE status[r]]
    /\ call' = [call EXCEPT ![c] = NoCall]
    /\ UNCHANGED <<owner, workspace, ingested, chain, pc, thrown, flags, active,
                   execution, cancelling, outside>>

-----------------------------------------------------------------------------
(* The process dies; main() runs AgentService.initialize on the same store. *)
(* Neither shutdown (index.ts:201) nor a crash kills the children: one that *)
(* was up may go on in its Agent's workspace, where no map of the new server *)
(* knows of it.                                                             *)

Interrupted == {"queued", "running"}

Up(r) == pc[r] = "running" /\ "unspawned" \notin flags[r]
LeftRunning == {r \in Runs : Up(r)}

Restart ==
    /\ crashes < MaxCrashes
    /\ crashes' = crashes + 1
    /\ \E left \in SUBSET LeftRunning : orphans' = orphans \cup left
    /\ status' = [r \in Runs |-> IF status[r] \in Interrupted
                                 THEN "cancelled" ELSE status[r]]
    /\ agent' = [a \in Agents |-> IF agent[a] = "busy" THEN "ready" ELSE agent[a]]
    /\ pc' = [r \in Runs |-> IF pc[r] \in Finished THEN pc[r] ELSE "interrupted"]
    /\ flags' = [r \in Runs |-> {}]
    /\ thrown' = [r \in Runs |-> "nothing"]
    /\ active' = [a \in Agents |-> None]
    /\ execution' = [a \in Agents |-> None]
    /\ cancelling' = {}
    /\ call' = [c \in Clients |-> NoCall]
    /\ UNCHANGED <<owner, workspace, ingested, chain, faults, storeFaults>>

OrphanExits(r) ==
    /\ r \in orphans
    /\ orphans' = orphans \ {r}
    /\ UNCHANGED <<stored, volatile, faults, storeFaults, crashes>>

Execute(r) ==
    \/ StartRun(r) \/ RequestRun(r) \/ BuildCapsule(r) \/ Deny(r) \/ Refuse(r)
    \/ FinalizeCapsule(r) \/ CaptureBefore(r) \/ Spawn(r) \/ ChildError(r) \/ Drain(r)
    \/ CaptureDiff(r) \/ IngestOutbox(r) \/ CompleteRun(r) \/ EmitCompleted(r)
    \/ CatchRun(r) \/ EmitCaught(r)

Child(r) == HitLimit(r) \/ Close(r)
Fail(r)  == AwaitThrows(r) \/ ExecutionRejects(r)

Serve(c) ==
    \/ ChildClosed(c) \/ RunOver(c) \/ MarkStopped(c) \/ Archive(c) \/ RemoveAgent(c)

Request ==
    \E a \in Agents :
        \/ CreateAgent(a) \/ StartAgent(a)
        \/ \E r \in Runs : SendMessage(a, r)
        \/ \E c \in Clients, op \in {"stop", "delete"} : CancelExecution(c, op, a)

Next ==
    \/ Request
    \/ \E r \in Runs : Execute(r) \/ Child(r) \/ Fail(r) \/ OrphanExits(r)
    \/ \E c \in Clients : Serve(c)
    \/ Restart

Spec == Init /\ [][Next]_vars

\* The event loop resumes what is ready, the codex timer fires, and a child
\* that was signalled dies (SIGKILL follows SIGTERM).  Clients, faults,
\* crashes and a child's own exit are never promised.
Fairness ==
    /\ \A r \in Runs : /\ WF_vars(Execute(r))
                       /\ WF_vars(HitLimit(r))
                       /\ WF_vars("signalled" \in flags[r] /\ Close(r))
    /\ \A c \in Clients : WF_vars(Serve(c))

FairSpec == Spec /\ Fairness

-----------------------------------------------------------------------------
Calls == {NoCall} \cup
    [op : {"stop", "delete"}, at : {"awaitClose", "awaitRun", "act", "remove"},
     agent : Agents, waits : Runs \cup {None}]

\* The types of the stored and of the in-memory state.
TypeOK ==
    /\ agent \in [Agents -> AgentStatus]
    /\ status \in [Runs -> RunStatus]
    /\ owner \in [Runs -> Agents \cup {None}]
    /\ workspace \in [Agents -> {"none", "present", "archived"}]
    /\ ingested \subseteq Runs
    /\ chain \in [Runs -> Seq(Kinds)]
    /\ pc \in [Runs -> PC]
    /\ thrown \in [Runs -> {"nothing", "cancelled", "failed"}]
    /\ flags \in [Runs -> SUBSET {"cancelled", "limit", "signalled", "unspawned"}]
    /\ active \in [Agents -> Runs \cup {None}]
    /\ execution \in [Agents -> Runs \cup {None}]
    /\ cancelling \subseteq Agents
    /\ call \in [Clients -> Calls]
    /\ orphans \subseteq Runs
    /\ faults \in 0..MaxFaults
    /\ storeFaults \in 0..MaxStoreFaults
    /\ crashes \in 0..MaxCrashes

-----------------------------------------------------------------------------
(* Properties.                                                             *)

Live(r) == pc[r] \notin Finished

\* Two executions of one Agent may overlap (see OneActiveRun), yet runner.active
\* names exactly the run whose child this server has up, so two Codex processes
\* share an Agent's workspace only if one of them is the orphan of an earlier
\* server: its run is settled, and neither a stop nor the timer reaches it.
OneProcessPerAgent ==
    /\ \A r \in Runs :
          /\ pc[r] \in InProcess => active[owner[r]] = r
          /\ \A a \in Agents : active[a] = r => pc[r] \in InProcess /\ owner[r] = a
          /\ r \in orphans => pc[r] = "interrupted" /\ status[r] \in {"cancelled", "removed"}
    /\ \A r, s \in Runs :
          (Up(r) \/ r \in orphans) /\ (Up(s) \/ s \in orphans) /\ owner[r] = owner[s]
          => r = s \/ r \in orphans \/ s \in orphans

\* docs/ARCHITECTURE.md:32: one Agent can have only one active Run.  It is not so once a
\* stop, a send and a start overlap.
OneActiveRun ==
    \A r, s \in Runs :
        /\ status[r] \in {"queued", "running"}
        /\ status[s] \in {"queued", "running"}
        /\ owner[r] = owner[s]
        => r = s

\* No stop or delete request is in flight, and no run has reached its catch block
\* after the store called it completed (the append of run.completed threw): the
\* two ways an Agent is freed although another of its runs is active.
Undisturbed ==
    /\ \A c \in Clients : call[c] = NoCall
    /\ \A r \in Runs : ~(status[r] = "completed" /\ pc[r] = "catch")

\* The admission mutation keeps the claim in every interleaving of sends, starts,
\* executions, restarts and mutations that do not persist, as long as neither of
\* those happens.
OneActiveRunUnstopped == []Undisturbed => []OneActiveRun

\* As long as mutations persist, no run is left queued or running, and no Agent
\* busy, without an execution that will move it on: not after a fault, a
\* cancel, a delete or a restart.
NothingStranded ==
    storeFaults = 0 =>
        /\ \A r \in Runs : status[r] \in {"queued", "running"} => Live(r)
        /\ \A a \in Agents : agent[a] = "busy" => \E r \in Runs : owner[r] = a /\ Live(r)

\* A client that polls a run to "completed" finds the Evidence of its outbox
\* (the ordering comment at agent-service.ts:418).
CompletedIsIngested ==
    \A r \in Runs : status[r] = "completed" => r \in ingested

\* What the run's own chain tells an auditor agrees with the store, faults
\* included.  It opens with run.requested unless the run ended before that append
\* (a cancel seen at the start, or the append itself threw); the capsule comes
\* before any work product and before run.completed; and once the execution is
\* over the last event names the stored outcome, but for a clarification, which
\* fails the run without an event of its own.  An execution that rejects, or that
\* the server's end interrupts, closes nothing.
Opens(r) ==
    chain[r] # <<>> => \/ chain[r][1] = "run.requested"
                       \/ chain[r] \in {<<"run.cancelled">>, <<"run.failed">>}

CapsuleFirst(r) ==
    \A i \in 1..Len(chain[r]) :
        chain[r][i] \in {"artifact.diff", "evidence.outbox", "run.completed"}
        => \E j \in 1..(i - 1) : chain[r][j] = "capsule.finalized"

Closing(outcome) ==
    CASE outcome = "completed" -> "run.completed"
      [] outcome = "failed"    -> "run.failed"
      [] outcome = "cancelled" -> "run.cancelled"

Closes(r) ==
    \/ status[r] = "removed"
    \/ status[r] = "failed" /\ chain[r] = <<"run.requested">>
    \/ /\ status[r] \in Settled /\ chain[r] # <<>>
       /\ chain[r][Len(chain[r])] = Closing(status[r])

ChainTellsOutcome ==
    \A r \in Runs : Opens(r) /\ CapsuleFirst(r) /\ (pc[r] = "over" => Closes(r))

\* A settled run is never revived or re-decided, whatever order stops, deletes,
\* timeouts and restarts come in: only deletion removes it, and only the throw
\* of its own run.completed append turns "completed" into "failed".
SettledIsFinal ==
    [][\A r \in Runs : status[r] \in Settled /\ status'[r] # status[r] =>
          \/ status'[r] = "removed"
          \/ status[r] = "completed" /\ status'[r] = "failed" /\ pc[r] = "catch"]_vars

\* Every admitted run settles or is removed: a silent child is ended by the
\* timer, a cancelled one by the signal.  (NothingStranded has the restarts.)
RunsSettle ==
    \A r \in Runs : status[r] = "queued" ~> status[r] \in Settled \cup {"removed"}

\* A stop or delete request always answers: nothing it waits for waits for it.
CallsReturn == \A c \in Clients : call[c] # NoCall ~> call[c] = NoCall
=============================================================================
