------------------------- MODULE AgentServiceProofs -------------------------
(***************************************************************************)
(* Safety of AgentService for every number of Agents, runs, requests,      *)
(* faults and restarts.                                                    *)
(***************************************************************************)
EXTENDS AgentService, TLAPS

-----------------------------------------------------------------------------
(* Type correctness.                                                       *)

\* Runs in their catch block, or on their way to it, know what was thrown.
Caught ==
    \A r \in Runs : pc[r] \in {"failedDiff", "catch", "catchEvent"} => thrown[r] # "nothing"

TypeInv == TypeOK /\ Caught

\* The labels of executeRun, written out once.
LEMMA Labels ==
    PC = {"start", "request", "build", "deny", "denyStore", "clarify", "finalize",
          "capture", "spawn", "running", "draining", "failedDiff", "diff", "outbox",
          "complete", "completedEvent", "catch", "catchEvent", "idle", "over", "rejected",
          "interrupted"}
  BY DEF PC, TryPoints, InProcess, Finished

\* Moving one run's counter to a label keeps pc typed.
LEMMA GotoType ==
  ASSUME TypeOK, NEW r \in Runs, NEW label \in PC, Goto(r, label)
  PROVE  pc' \in [Runs -> PC]
  BY DEF TypeOK, Goto

\* Throwing one of the two errors keeps pc and thrown typed.
LEMMA RaiseType ==
  ASSUME TypeOK, NEW r \in Runs, NEW what \in {"cancelled", "failed"}, Raise(r, what)
  PROVE  pc' \in [Runs -> PC] /\ thrown' \in [Runs -> {"nothing", "cancelled", "failed"}]
<1>1. "catch" \in PC
  BY Labels
<1>2. QED
  BY <1>1, GotoType DEF Raise, TypeOK

\* Appending one event keeps the chains typed.
LEMMA EmitType ==
  ASSUME TypeOK, NEW r \in Runs, NEW kind \in Kinds, Emit(r, kind)
  PROVE  chain' \in [Runs -> Seq(Kinds)]
<1>1. Append(chain[r], kind) \in Seq(Kinds)
  BY DEF TypeOK
<1>2. QED
  BY <1>1 DEF TypeOK, Emit

\* Ending an execution keeps pc and activeExecutions typed.
LEMMA FinishType ==
  ASSUME TypeOK, NEW r \in Runs, NEW label \in PC, Finish(r, label)
  PROVE  pc' \in [Runs -> PC] /\ execution' \in [Agents -> Runs \cup {None}]
  BY GotoType DEF TypeOK, Finish

\* Writing a run's or an Agent's status keeps the store typed.
LEMMA StoreType ==
  ASSUME TypeOK, NEW r \in Runs
  PROVE  /\ \A s \in {"running"} \cup Settled : SetRun(r, s) => status' \in [Runs -> RunStatus]
         /\ \A s \in {"ready", "error"} : FreeAgent(owner[r], s) => agent' \in [Agents -> AgentStatus]
  BY DEF TypeOK, SetRun, FreeAgent, RunStatus, AgentStatus

LEMMA TypeInit == Init => TypeInv
  BY NoneIsFresh, BoundsAreNaturals, Labels
  DEF Init, TypeInv, TypeOK, Caught, NoCall, Calls, AgentStatus, RunStatus

\* The steps of one execution.
Exec(r) == Execute(r) \/ Child(r) \/ Fail(r)

LEMMA ExecType ==
  ASSUME TypeInv, NEW r \in Runs, Exec(r)
  PROVE  TypeOK'
<1> USE DEF TypeInv, TypeOK, stored, outside
<1>1. CASE StartRun(r)
  <2>1. "request" \in PC /\ "running" \in {"running"} \cup Settled
    BY Labels
  <2>2. QED
    BY <1>1, <2>1, GotoType, RaiseType, StoreType DEF StartRun
<1>2. CASE RequestRun(r)
  <2>1. "build" \in PC /\ "run.requested" \in Kinds
    BY Labels DEF Kinds
  <2>2. QED
    BY <1>2, <2>1, GotoType, EmitType DEF RequestRun
<1>3. CASE BuildCapsule(r)
  <2>1. {"deny", "clarify", "finalize"} \subseteq PC
    BY Labels
  <2>2. QED
    BY <1>3, <2>1, GotoType DEF BuildCapsule
<1>4. CASE Deny(r)
  <2>1. "denyStore" \in PC /\ "run.failed" \in Kinds
    BY Labels DEF Kinds
  <2>2. QED
    BY <1>4, <2>1, GotoType, EmitType DEF Deny
<1>5. CASE Refuse(r)
  <2>1. "over" \in PC /\ "failed" \in {"running"} \cup Settled
    BY Labels DEF Settled
  <2>2. QED
    BY <1>5, <2>1, FinishType, StoreType DEF Refuse, EndRefusal
<1>6. CASE FinalizeCapsule(r)
  <2>1. "capture" \in PC /\ "capsule.finalized" \in Kinds
    BY Labels DEF Kinds
  <2>2. QED
    BY <1>6, <2>1, GotoType, EmitType DEF FinalizeCapsule
<1>7. CASE CaptureBefore(r)
  <2>1. "spawn" \in PC
    BY Labels
  <2>2. QED
    BY <1>7, <2>1, GotoType, RaiseType DEF CaptureBefore
<1>8. CASE Spawn(r)
  <2>1. "running" \in PC /\ "failedDiff" \in PC
    BY Labels
  <2>2. pc' \in [Runs -> PC]
    BY <1>8, <2>1, GotoType DEF Spawn
  <2>3. flags' \in [Runs -> SUBSET {"cancelled", "limit", "signalled", "unspawned"}]
    BY <1>8 DEF Spawn
  <2>4. active' \in [Agents -> Runs \cup {None}]
    BY <1>8 DEF Spawn
  <2>5. thrown' \in [Runs -> {"nothing", "cancelled", "failed"}]
    BY <1>8 DEF Spawn
  <2>6. UNCHANGED <<stored, execution, cancelling, call, outside>>
    BY <1>8 DEF Spawn
  <2>7. QED
    BY <2>2, <2>3, <2>4, <2>5, <2>6
<1>9. CASE ChildError(r)
  <2>1. "failedDiff" \in PC
    BY Labels
  <2>2. QED
    BY <1>9, <2>1, GotoType DEF ChildError
<1>10. CASE Drain(r)
  <2>1. "failedDiff" \in PC /\ "diff" \in PC
    BY Labels
  <2>2. pc' \in [Runs -> PC]
    BY <1>10, <2>1, GotoType DEF Drain
  <2>3. /\ active' \in [Agents -> Runs \cup {None}]
        /\ thrown' \in [Runs -> {"nothing", "cancelled", "failed"}]
    BY <1>10 DEF Drain
  <2>4. UNCHANGED <<stored, flags, execution, cancelling, call, outside>>
    BY <1>10 DEF Drain
  <2>5. QED
    BY <2>2, <2>3, <2>4
<1>11. CASE CaptureDiff(r)
  <2>1. "outbox" \in PC /\ "artifact.diff" \in Kinds
    BY Labels DEF Kinds
  <2>2. pc[r] = "failedDiff" => thrown[r] \in {"cancelled", "failed"}
    BY DEF Caught
  <2>3. /\ pc' \in [Runs -> PC]
        /\ thrown' \in [Runs -> {"nothing", "cancelled", "failed"}]
    <3>1. CASE Goto(r, "outbox") /\ UNCHANGED thrown
      BY <3>1, <2>1, GotoType
    <3>2. CASE Raise(r, IF pc[r] = "diff" THEN "failed" ELSE thrown[r])
      BY <1>11, <2>2, <3>2, RaiseType DEF CaptureDiff
    <3>3. QED
      BY <1>11, <3>1, <3>2 DEF CaptureDiff, AfterDiff
  <2>4. chain' \in [Runs -> Seq(Kinds)]
    BY <1>11, <2>1, EmitType DEF CaptureDiff
  <2>5. QED
    BY <1>11, <2>3, <2>4 DEF CaptureDiff
<1>12. CASE IngestOutbox(r)
  <2>1. "complete" \in PC /\ "evidence.outbox" \in Kinds
    BY Labels DEF Kinds
  <2>2. QED
    BY <1>12, <2>1, GotoType, EmitType DEF IngestOutbox
<1>13. CASE CompleteRun(r)
  <2>1. "completedEvent" \in PC /\ "completed" \in RunStatus /\ "ready" \in AgentStatus
    BY Labels DEF RunStatus, Settled, AgentStatus
  <2>2. status' \in [Runs -> RunStatus]
    BY <1>13, <2>1 DEF CompleteRun
  <2>3. agent' \in [Agents -> AgentStatus]
    BY <1>13, <2>1 DEF CompleteRun
  <2>4. pc' \in [Runs -> PC]
    BY <1>13, <2>1, GotoType DEF CompleteRun
  <2>5. QED
    BY <1>13, <2>2, <2>3, <2>4 DEF CompleteRun
<1>14. CASE EmitCompleted(r)
  <2>1. "over" \in PC /\ "run.completed" \in Kinds
    BY Labels DEF Kinds
  <2>2. QED
    BY <1>14, <2>1, FinishType, EmitType DEF EmitCompleted
<1>15. CASE CatchRun(r)
  <2>1. "catchEvent" \in PC
    BY Labels
  <2>2. thrown[r] \in {"running"} \cup Settled
    BY <1>15 DEF Caught, CatchRun, Settled
  <2>3. status' \in [Runs -> RunStatus] /\ agent' \in [Agents -> AgentStatus]
    BY <1>15, <2>2, StoreType DEF CatchRun
  <2>4. pc' \in [Runs -> PC]
    BY <1>15, <2>1, GotoType DEF CatchRun
  <2>5. QED
    BY <1>15, <2>3, <2>4 DEF CatchRun
<1>16. CASE EmitCaught(r)
  <2>1. CaughtKind(r) \in Kinds /\ "over" \in PC
    BY Labels DEF CaughtKind, Kinds
  <2>2. QED
    BY <1>16, <2>1, EmitType, FinishType DEF EmitCaught
<1>17. CASE HitLimit(r)
  BY <1>17 DEF HitLimit, Signal
<1>18. CASE Close(r)
  <2>1. "draining" \in PC
    BY Labels
  <2>2. QED
    BY <1>18, <2>1, GotoType DEF Close
<1>19. CASE AwaitThrows(r)
  <2>1. "failedDiff" \in PC
    BY Labels
  <2>2. /\ pc' \in [Runs -> PC]
        /\ thrown' \in [Runs -> {"nothing", "cancelled", "failed"}]
        /\ active' \in [Agents -> Runs \cup {None}]
    BY <1>19, <2>1, GotoType, RaiseType DEF AwaitThrows
  <2>3. faults' \in 0..MaxFaults /\ storeFaults' \in 0..MaxStoreFaults
    BY <1>19, BoundsAreNaturals DEF AwaitThrows
  <2>4. QED
    BY <1>19, <2>2, <2>3 DEF AwaitThrows
<1>20. CASE ExecutionRejects(r)
  <2>1. "rejected" \in PC
    BY Labels
  <2>2. faults' \in 0..MaxFaults /\ storeFaults' \in 0..MaxStoreFaults
    BY <1>20, BoundsAreNaturals DEF ExecutionRejects
  <2>3. pc' \in [Runs -> PC] /\ execution' \in [Agents -> Runs \cup {None}]
    BY <1>20, <2>1, FinishType DEF ExecutionRejects
  <2>4. QED
    BY <1>20, <2>2, <2>3 DEF ExecutionRejects
<1>21. QED
  BY <1>1, <1>2, <1>3, <1>4, <1>5, <1>6, <1>7, <1>8, <1>9, <1>10, <1>11, <1>12, <1>13,
     <1>14, <1>15, <1>16, <1>17, <1>18, <1>19, <1>20
  DEF Exec, Execute, Child, Fail

\* Requests and restarts keep every variable typed.
LEMMA RequestType ==
  ASSUME TypeInv,
         \/ Request
         \/ \E c \in Clients : Serve(c)
         \/ Restart
         \/ \E r \in Runs : OrphanExits(r)
  PROVE  TypeOK'
<1> USE NoneIsFresh DEF TypeInv, TypeOK, stored, volatile, outside
<1>1. ASSUME NEW a \in Agents, CreateAgent(a) PROVE TypeOK'
  BY <1>1 DEF CreateAgent, AgentStatus
<1>2. ASSUME NEW a \in Agents, StartAgent(a) PROVE TypeOK'
  BY <1>2 DEF StartAgent, AgentStatus
<1>3. ASSUME NEW a \in Agents, NEW r \in Runs, SendMessage(a, r) PROVE TypeOK'
  <2>1. "start" \in PC /\ "queued" \in RunStatus /\ "busy" \in AgentStatus
    BY Labels DEF RunStatus, AgentStatus
  <2>2. QED
    BY <1>3, <2>1 DEF SendMessage
<1>4. ASSUME NEW c \in Clients, NEW op \in {"stop", "delete"}, NEW a \in Agents,
             CancelExecution(c, op, a)
      PROVE TypeOK'
  <2>1. /\ [op |-> op, at |-> "awaitClose", agent |-> a, waits |-> active[a]] \in Calls
        /\ [op |-> op, at |-> "awaitRun", agent |-> a, waits |-> execution[a]] \in Calls
        /\ [op |-> op, at |-> "act", agent |-> a, waits |-> None] \in Calls
    BY DEF Calls
  <2>2. call' \in [Clients -> Calls]
    BY <1>4, <2>1 DEF CancelExecution, JoinExecution, At
  <2>3. flags' \in [Runs -> SUBSET {"cancelled", "limit", "signalled", "unspawned"}]
    <3>1. CASE active[a] = None
      BY <1>4, <3>1 DEF CancelExecution
    <3>2. CASE active[a] # None
      <4>1. flags[active[a]] \cup {"cancelled"} \cup Signal(active[a])
               \in SUBSET {"cancelled", "limit", "signalled", "unspawned"}
        BY <3>2 DEF Signal
      <4>2. flags' = [flags EXCEPT ![active[a]] =
                         flags[active[a]] \cup {"cancelled"} \cup Signal(active[a])]
        BY <1>4, <3>2 DEF CancelExecution
      <4>3. active[a] \in Runs
        BY <3>2
      <4>4. QED
        BY ONLY flags \in [Runs -> SUBSET {"cancelled", "limit", "signalled", "unspawned"}],
                <4>1, <4>2, <4>3
    <3>3. QED
      BY <3>1, <3>2
  <2>4. cancelling' \subseteq Agents
    BY <1>4 DEF CancelExecution, JoinExecution
  <2>5. QED
    BY <1>4, <2>2, <2>3, <2>4 DEF CancelExecution
<1>5. ASSUME NEW c \in Clients, call[c].at # "idle",
             NEW label \in {"awaitRun", "act", "remove"}, NEW r \in Runs \cup {None},
             \/ At(c, call[c].op, label, call[c].agent, r)
             \/ call' = [call EXCEPT ![c] = NoCall]
      PROVE  call' \in [Clients -> Calls]
  <2>1. call[c] \in Calls /\ call[c] # NoCall
    BY <1>5 DEF NoCall
  <2>2. call[c].op \in {"stop", "delete"} /\ call[c].agent \in Agents
    BY <2>1 DEF Calls
  <2>3. NoCall \in Calls
    BY DEF Calls
  <2>4. [op |-> call[c].op, at |-> label, agent |-> call[c].agent, waits |-> r] \in Calls
    BY <2>2 DEF Calls
  <2>5. QED
    BY <1>5, <2>3, <2>4 DEF At
<1>6. ASSUME NEW c \in Clients, ChildClosed(c) PROVE TypeOK'
  <2>1. call[c].at # "idle"
    BY <1>6 DEF ChildClosed
  <2>2. CASE execution[call[c].agent] # None
    <3>1. execution[call[c].agent] \in Runs \cup {None}
      BY <2>1 DEF Calls, NoCall
    <3>2. call' \in [Clients -> Calls]
      BY <1>6, <1>5, <2>1, <2>2, <3>1 DEF ChildClosed
    <3>3. QED
      BY <1>6, <2>2, <3>2 DEF ChildClosed
  <2>3. CASE execution[call[c].agent] = None
    <3>1. call' \in [Clients -> Calls]
      BY <1>6, <1>5, <2>1, <2>3 DEF ChildClosed
    <3>2. QED
      BY <1>6, <2>3, <3>1 DEF ChildClosed
  <2>4. QED
    BY <2>2, <2>3
<1>7. ASSUME NEW c \in Clients, RunOver(c) PROVE TypeOK'
  <2>1. call' \in [Clients -> Calls]
    BY <1>7, <1>5 DEF RunOver
  <2>2. QED
    BY <1>7, <2>1 DEF RunOver
<1>8. ASSUME NEW c \in Clients, MarkStopped(c) PROVE TypeOK'
  <2>1. call' \in [Clients -> Calls] /\ agent' \in [Agents -> AgentStatus]
    BY <1>8, <1>5 DEF MarkStopped, AgentStatus
  <2>2. QED
    BY <1>8, <2>1 DEF MarkStopped
<1>9. ASSUME NEW c \in Clients, Archive(c) PROVE TypeOK'
  <2>1. call' \in [Clients -> Calls]
    <3>1. /\ call[c].at # "idle" /\ call[c].op = "delete"
          /\ \/ At(c, call[c].op, "remove", call[c].agent, None)
             \/ call' = [call EXCEPT ![c] = NoCall]
      BY <1>9 DEF Archive
    <3>2. CASE At(c, call[c].op, "remove", call[c].agent, None)
      BY <1>5, <3>1, <3>2
    <3>3. CASE call' = [call EXCEPT ![c] = NoCall]
      BY <1>5, <3>1, <3>3
    <3>4. QED
      BY <3>1, <3>2, <3>3
  <2>2. workspace' \in [Agents -> {"none", "present", "archived"}]
    <3>1. \/ UNCHANGED workspace
          \/ workspace' = [workspace EXCEPT ![call[c].agent] = "archived"]
      BY ONLY <1>9 DEF Archive
    <3>2. QED
      BY <3>1
  <2>3. QED
    BY <1>9, <2>1, <2>2 DEF Archive
<1>10. ASSUME NEW c \in Clients, RemoveAgent(c) PROVE TypeOK'
  <2>1. call' \in [Clients -> Calls]
    BY <1>10, <1>5 DEF RemoveAgent
  <2>2. status' \in [Runs -> RunStatus] /\ agent' \in [Agents -> AgentStatus]
    BY <1>10 DEF RemoveAgent, RunStatus, AgentStatus
  <2>3. QED
    BY <1>10, <2>1, <2>2 DEF RemoveAgent
<1>11. ASSUME Restart PROVE TypeOK'
  <2>1. "interrupted" \in PC /\ "cancelled" \in RunStatus /\ "ready" \in AgentStatus
        /\ NoCall \in Calls
    BY Labels DEF RunStatus, Settled, AgentStatus, Calls
  <2>2. crashes' \in 0..MaxCrashes
    BY <1>11, BoundsAreNaturals DEF Restart
  <2>3. orphans' \subseteq Runs
    BY <1>11 DEF Restart, LeftRunning
  <2>4. QED
    BY <1>11, <2>1, <2>2, <2>3 DEF Restart
<1>12. ASSUME NEW r \in Runs, OrphanExits(r) PROVE TypeOK'
  BY <1>12 DEF OrphanExits
<1>13. QED
  BY <1>1, <1>2, <1>3, <1>4, <1>6, <1>7, <1>8, <1>9, <1>10, <1>11, <1>12 DEF Request, Serve

\* No step reaches the catch block without recording an error.
LEMMA CaughtStep ==
  ASSUME TypeInv, [Next]_vars
  PROVE  Caught'
<1> USE DEF TypeInv, TypeOK, Caught, volatile, Goto, Raise, Finish
<1>1. ASSUME NEW r \in Runs, Execute(r) PROVE Caught'
  <2>1. CASE StartRun(r) \/ RequestRun(r) \/ BuildCapsule(r) \/ Deny(r) \/ FinalizeCapsule(r)
    BY <2>1 DEF StartRun, RequestRun, BuildCapsule, Deny, FinalizeCapsule
  <2>2. CASE Refuse(r) \/ CaptureBefore(r) \/ Spawn(r) \/ ChildError(r)
    BY <2>2 DEF Refuse, EndRefusal, CaptureBefore, Spawn, ChildError
  <2>3. CASE Drain(r) \/ CaptureDiff(r) \/ IngestOutbox(r)
    BY <2>3 DEF Drain, CaptureDiff, AfterDiff, IngestOutbox
  <2>4. CASE CompleteRun(r) \/ EmitCompleted(r) \/ CatchRun(r) \/ EmitCaught(r)
    BY <2>4 DEF CompleteRun, EmitCompleted, CatchRun, EmitCaught
  <2>5. QED
    BY <1>1, <2>1, <2>2, <2>3, <2>4 DEF Execute
<1>2. ASSUME NEW r \in Runs, Child(r) \/ Fail(r) PROVE Caught'
  BY <1>2 DEF Child, Fail, HitLimit, Close, AwaitThrows, ExecutionRejects
<1>3. ASSUME NEW a \in Agents, NEW r \in Runs, SendMessage(a, r) PROVE Caught'
  BY <1>3 DEF SendMessage
<1>4. ASSUME NEW c \in Clients,
             \/ Serve(c)
             \/ \E a \in Agents, op \in {"stop", "delete"} : CancelExecution(c, op, a)
      PROVE Caught'
  BY <1>4 DEF Serve, ChildClosed, RunOver, MarkStopped, Archive, RemoveAgent, CancelExecution
<1>5. ASSUME NEW a \in Agents, CreateAgent(a) \/ StartAgent(a) PROVE Caught'
  BY <1>5 DEF CreateAgent, StartAgent
<1>6. ASSUME Restart \/ \E r \in Runs : OrphanExits(r) PROVE Caught'
  BY <1>6 DEF Restart, OrphanExits, Finished
<1>7. CASE UNCHANGED vars
  BY <1>7 DEF vars
<1>8. QED
  BY <1>1, <1>2, <1>3, <1>4, <1>5, <1>6, <1>7 DEF Next, Request

LEMMA TypeStep == TypeInv /\ [Next]_vars => TypeInv'
<1>1. TypeInv /\ Next => TypeOK'
  BY ExecType, RequestType DEF Next, Exec
<1>2. TypeInv /\ UNCHANGED vars => TypeOK'
  BY DEF TypeInv, TypeOK, vars, stored, volatile, outside
<1>3. QED
  BY <1>1, <1>2, CaughtStep DEF TypeInv

\* Whatever the number of requests, faults and restarts, the stored and the
\* in-memory state keep their types.
THEOREM TypeCorrect == Spec => []TypeOK
<1>1. TypeInv => TypeOK
  BY DEF TypeInv
<1>2. QED
  BY TypeInit, TypeStep, <1>1, PTL DEF Spec

-----------------------------------------------------------------------------
(* What one step of an execution may do to the store.                      *)

\* A run that was minted belongs to an Agent, and to one that still exists as
\* long as the store holds the run.
Placed ==
    \A r \in Runs :
        /\ status[r] = "none" <=> pc[r] = "idle"
        /\ IF status[r] = "none" THEN owner[r] = None ELSE owner[r] \in Agents
        /\ InStore(r) => Known(owner[r])
        /\ status[r] = "removed" => agent[owner[r]] = "deleted"

Moves(r)  == \E label \in PC \ {"idle"} : pc' = [pc EXCEPT ![r] = label]
Writes(r) == \/ UNCHANGED status
             \/ /\ InStore(r)
                /\ \E s \in {"running"} \cup Settled : status' = [status EXCEPT ![r] = s]
Frees(r)  == \/ UNCHANGED agent
             \/ /\ Known(owner[r])
                /\ \E s \in {"ready", "error"} : agent' = [agent EXCEPT ![owner[r]] = s]

\* An execution touches its own run, and its own Agent only to free it.
LEMMA ExecShape ==
  ASSUME TypeInv, NEW r \in Runs, Exec(r)
  PROVE  /\ pc[r] \notin Finished /\ Moves(r) /\ Writes(r) /\ Frees(r)
         /\ UNCHANGED owner /\ UNCHANGED orphans
<1> USE Labels DEF Finished, Moves, Writes, Frees, stored, outside, Goto, Raise, Finish
<1>1. CASE StartRun(r) \/ RequestRun(r) \/ BuildCapsule(r) \/ Deny(r)
  BY <1>1 DEF StartRun, RequestRun, BuildCapsule, Deny, SetRun
<1>2. CASE Refuse(r)
  BY <1>2 DEF Refuse, EndRefusal, SetRun, FreeAgent, Settled
<1>3. CASE FinalizeCapsule(r) \/ CaptureBefore(r)
  BY <1>3 DEF FinalizeCapsule, CaptureBefore
<1>4. CASE Spawn(r) \/ ChildError(r)
  BY <1>4 DEF Spawn, ChildError
<1>5. CASE Drain(r)
  BY <1>5 DEF Drain
<1>6. CASE CaptureDiff(r) \/ IngestOutbox(r)
  BY <1>6 DEF CaptureDiff, IngestOutbox, AfterDiff
<1>7. CASE CompleteRun(r)
  BY <1>7 DEF CompleteRun, Settled
<1>8. CASE EmitCompleted(r) \/ EmitCaught(r)
  BY <1>8 DEF EmitCompleted, EmitCaught
<1>9. CASE CatchRun(r)
  <2>1. thrown[r] \in Settled
    BY <1>9 DEF CatchRun, TypeInv, TypeOK, Caught, Settled
  <2>2. QED
    BY <1>9, <2>1 DEF CatchRun, SetRun, FreeAgent
<1>10. CASE HitLimit(r) \/ Close(r)
  <2>1. CASE HitLimit(r)
    <3>1. pc[r] \in {"running", "draining"} /\ UNCHANGED <<pc, agent, status, owner, orphans>>
      BY <2>1 DEF HitLimit, InProcess
    <3>2. pc' = [pc EXCEPT ![r] = pc[r]]
      BY <3>1 DEF TypeInv, TypeOK
    <3>3. QED
      BY <3>1, <3>2
  <2>2. CASE Close(r)
    BY <2>2 DEF Close
  <2>3. QED
    BY <1>10, <2>1, <2>2
<1>11. CASE Fail(r)
  BY <1>11 DEF Fail, AwaitThrows, ExecutionRejects, TryPoints
<1>12. QED
  BY <1>1, <1>2, <1>3, <1>4, <1>5, <1>6, <1>7, <1>8, <1>9, <1>10, <1>11
  DEF Exec, Execute, Child

\* A step of the clients: everything in Serve, and the start of a stop or delete.
ClientStep == \E c \in Clients :
    \/ Serve(c)
    \/ \E a \in Agents, op \in {"stop", "delete"} : CancelExecution(c, op, a)

\* What a client may do to the store: mark an Agent stopped, or remove it with
\* its runs.
LEMMA ClientShape ==
  ASSUME TypeInv, ClientStep
  PROVE  /\ UNCHANGED <<owner, pc, active, thrown, outside>>
         /\ \/ UNCHANGED <<agent, status>>
            \/ \E a \in Agents :
                  Known(a) /\ agent' = [agent EXCEPT ![a] = "stopped"] /\ UNCHANGED status
            \/ \E a \in Agents :
                  /\ agent' = [agent EXCEPT ![a] = "deleted"]
                  /\ status' = [r \in Runs |-> IF owner[r] = a THEN "removed" ELSE status[r]]
<1> USE DEF stored
<1>1. ASSUME NEW c \in Clients, ChildClosed(c) \/ RunOver(c) \/ Archive(c)
      PROVE  UNCHANGED <<owner, pc, active, thrown, outside, agent, status>>
  BY <1>1 DEF ChildClosed, RunOver, Archive
<1>2. ASSUME NEW c \in Clients, NEW a \in Agents, NEW op \in {"stop", "delete"},
             CancelExecution(c, op, a)
      PROVE  UNCHANGED <<owner, pc, active, thrown, outside, agent, status>>
  BY <1>2 DEF CancelExecution
<1>3. ASSUME NEW c \in Clients, call[c].at # "idle"
      PROVE  call[c].agent \in Agents
  BY <1>3 DEF TypeInv, TypeOK, Calls, NoCall
<1>4. ASSUME NEW c \in Clients, MarkStopped(c)
      PROVE  /\ UNCHANGED <<owner, pc, active, thrown, outside, status>>
             /\ \/ UNCHANGED agent
                \/ \E a \in Agents : Known(a) /\ agent' = [agent EXCEPT ![a] = "stopped"]
  BY <1>3, <1>4 DEF MarkStopped
<1>5. ASSUME NEW c \in Clients, RemoveAgent(c)
      PROVE  /\ UNCHANGED <<owner, pc, active, thrown, outside>>
             /\ \E a \in Agents :
                  /\ agent' = [agent EXCEPT ![a] = "deleted"]
                  /\ status' = [r \in Runs |-> IF owner[r] = a THEN "removed" ELSE status[r]]
  BY <1>3, <1>5 DEF RemoveAgent
<1>6. QED
  BY <1>1, <1>2, <1>4, <1>5 DEF ClientStep, Serve

\* A step that moves nothing but, at most, the exit of an orphan.
Quiet == UNCHANGED <<stored, volatile, faults, storeFaults, crashes>> /\ orphans' \subseteq orphans

LEMMA NextCases ==
  ASSUME [Next]_vars
  PROVE  \/ \E a \in Agents : CreateAgent(a)
         \/ \E a \in Agents : StartAgent(a)
         \/ \E a \in Agents, r \in Runs : SendMessage(a, r)
         \/ \E r \in Runs : Exec(r)
         \/ ClientStep
         \/ Restart
         \/ Quiet
  BY DEF Next, Request, Exec, ClientStep, OrphanExits, Quiet, vars, outside

LEMMA PlacedStep ==
  ASSUME TypeInv, Placed, [Next]_vars
  PROVE  Placed'
<1> USE NoneIsFresh DEF TypeInv, TypeOK, Placed, InStore, Known
<1>1. ASSUME NEW a \in Agents, CreateAgent(a) PROVE Placed'
  BY <1>1 DEF CreateAgent, volatile
<1>2. ASSUME NEW a \in Agents, StartAgent(a) PROVE Placed'
  BY <1>2 DEF StartAgent, MayStart, volatile
<1>3. ASSUME NEW a \in Agents, NEW r \in Runs, SendMessage(a, r) PROVE Placed'
  BY <1>3 DEF SendMessage
<1>4. ASSUME NEW r \in Runs, Exec(r) PROVE Placed'
  <2>1. pc[r] # "idle" /\ Moves(r) /\ Writes(r) /\ Frees(r) /\ UNCHANGED owner
    BY <1>4, ExecShape DEF Finished
  <2>2. \A q \in Runs : status'[q] = "none" <=> pc'[q] = "idle"
    BY <2>1 DEF Moves, Writes, Settled
  <2>3. \A q \in Runs : /\ status'[q] = "none" <=> status[q] = "none"
                        /\ status'[q] = "removed" <=> status[q] = "removed"
    BY <2>1 DEF Writes, Settled
  <2>4. \A a \in Agents : /\ agent[a] \in {"absent", "deleted"} => agent'[a] = agent[a]
                          /\ Known(a) => agent'[a] \notin {"absent", "deleted"}
    BY <2>1 DEF Frees
  <2>5. QED
    BY <2>1, <2>2, <2>3, <2>4
<1>5. CASE ClientStep
  <2>1. CASE UNCHANGED <<agent, status>>
    BY <1>5, <2>1, ClientShape
  <2>2. ASSUME NEW a \in Agents, Known(a), agent' = [agent EXCEPT ![a] = "stopped"],
               UNCHANGED status
        PROVE  Placed'
    BY <1>5, <2>2, ClientShape
  <2>3. ASSUME NEW a \in Agents, agent' = [agent EXCEPT ![a] = "deleted"],
               status' = [r \in Runs |-> IF owner[r] = a THEN "removed" ELSE status[r]]
        PROVE  Placed'
    BY <1>5, <2>3, ClientShape
  <2>4. QED
    BY <1>5, <2>1, <2>2, <2>3, ClientShape
<1>6. CASE Restart
  BY <1>6 DEF Restart, Interrupted, Finished
<1>7. CASE Quiet
  BY <1>7 DEF Quiet, stored, volatile
<1>8. QED
  BY <1>1, <1>2, <1>3, <1>4, <1>5, <1>6, <1>7, NextCases

LEMMA PlacedInit == Init => Placed
  BY NoneIsFresh DEF Init, Placed, InStore

-----------------------------------------------------------------------------
(* Nothing is left behind.                                                 *)

\* The execution has yet to write its run's outcome and free its Agent.
Undecided(r) ==
    pc[r] \notin {"idle", "over", "rejected", "interrupted", "completedEvent", "catchEvent"}

\* NothingStranded, with the witness an inductive step can follow: an execution
\* that only has its last event to append frees no Agent any more.
StrandedInv ==
    storeFaults = 0 =>
        /\ \A r \in Runs : status[r] \in {"queued", "running"} => Undecided(r)
        /\ \A a \in Agents : agent[a] = "busy" =>
              \E r \in Runs : owner[r] = a /\ Undecided(r)

LEMMA ExecDecides ==
  ASSUME TypeInv, Placed, NEW r \in Runs, Exec(r), storeFaults' = 0
  PROVE  /\ storeFaults = 0
         /\ Undecided(r) /\ ~Undecided(r)' =>
               status'[r] \notin {"queued", "running"} /\ agent'[owner[r]] # "busy"
         /\ ~Undecided(r) => UNCHANGED <<status, agent>>
<1> USE DEF TypeInv, TypeOK, Undecided, Goto, Raise, Finish, stored, outside
<1>1. CASE StartRun(r) \/ RequestRun(r) \/ BuildCapsule(r) \/ Deny(r)
  BY <1>1 DEF StartRun, RequestRun, BuildCapsule, Deny
<1>2. CASE Refuse(r)
  <2>1. owner[r] \in Agents /\ Undecided(r) /\ storeFaults = 0
    BY <1>2 DEF Refuse, Placed
  <2>2. status'[r] \notin {"queued", "running"}
    BY <1>2 DEF Refuse, SetRun, InStore
  <2>3. agent'[owner[r]] # "busy"
    BY <1>2, <2>1 DEF Refuse, FreeAgent, Known
  <2>4. QED
    BY <2>1, <2>2, <2>3
<1>3. CASE FinalizeCapsule(r) \/ CaptureBefore(r) \/ Spawn(r) \/ ChildError(r)
  BY <1>3 DEF FinalizeCapsule, CaptureBefore, Spawn, ChildError
<1>4. CASE Drain(r) \/ CaptureDiff(r) \/ IngestOutbox(r) \/ HitLimit(r) \/ Close(r)
  BY <1>4 DEF Drain, CaptureDiff, AfterDiff, IngestOutbox, HitLimit, Close
<1>5. CASE CompleteRun(r)
  BY <1>5, NoneIsFresh DEF CompleteRun, InStore, Known, Placed
<1>6. CASE EmitCompleted(r) \/ EmitCaught(r)
  BY <1>6 DEF EmitCompleted, EmitCaught
<1>7. CASE CatchRun(r)
  <2>1. thrown[r] \in {"cancelled", "failed"}
    BY <1>7 DEF CatchRun, Caught
  <2>2. owner[r] \in Agents /\ Undecided(r) /\ storeFaults = 0
    BY <1>7 DEF CatchRun, Placed
  <2>3. status'[r] \notin {"queued", "running"}
    BY <1>7, <2>1 DEF CatchRun, SetRun, InStore
  <2>4. agent'[owner[r]] # "busy"
    BY <1>7, <2>2 DEF CatchRun, FreeAgent, Known
  <2>5. QED
    BY <2>2, <2>3, <2>4
<1>8. CASE AwaitThrows(r)
  BY <1>8 DEF AwaitThrows, TryPoints
<1>9. CASE ExecutionRejects(r)
  BY <1>9 DEF ExecutionRejects
<1>10. QED
  BY <1>1, <1>2, <1>3, <1>4, <1>5, <1>6, <1>7, <1>8, <1>9 DEF Exec, Execute, Child, Fail

LEMMA StrandedStep ==
  ASSUME TypeInv, Placed, StrandedInv, [Next]_vars
  PROVE  StrandedInv'
<1> SUFFICES ASSUME storeFaults' = 0
    PROVE  /\ \A r \in Runs : status'[r] \in {"queued", "running"} => Undecided(r)'
           /\ \A a \in Agents : agent'[a] = "busy" =>
                 \E r \in Runs : owner'[r] = a /\ Undecided(r)'
  BY DEF StrandedInv
<1> USE DEF TypeInv, TypeOK, StrandedInv
<1>1. ASSUME NEW a \in Agents, CreateAgent(a) \/ StartAgent(a) PROVE StrandedInv'
  BY <1>1 DEF CreateAgent, StartAgent, volatile, outside, Undecided
<1>2. ASSUME NEW a \in Agents, NEW r \in Runs, SendMessage(a, r) PROVE StrandedInv'
  <2>1. storeFaults = 0 /\ ~Undecided(r) /\ owner[r] = None /\ Undecided(r)' /\ owner'[r] = a
    BY <1>2 DEF SendMessage, outside, Undecided, Placed
  <2>2. \A q \in Runs : q # r => /\ Undecided(q)' <=> Undecided(q)
                                 /\ status'[q] = status[q] /\ owner'[q] = owner[q]
    BY <1>2 DEF SendMessage, Undecided
  <2>3. \A b \in Agents : b # a => agent'[b] = agent[b]
    BY <1>2 DEF SendMessage
  <2>4. QED
    BY <2>1, <2>2, <2>3
<1>3. ASSUME NEW r \in Runs, Exec(r) PROVE StrandedInv'
  <2>1. /\ Moves(r) /\ Writes(r) /\ Frees(r) /\ UNCHANGED owner
        /\ pc[r] # "idle" /\ owner[r] \in Agents
    BY <1>3, ExecShape DEF Placed, Finished
  <2>2. /\ storeFaults = 0
        /\ Undecided(r) /\ ~Undecided(r)' =>
              status'[r] \notin {"queued", "running"} /\ agent'[owner[r]] # "busy"
        /\ ~Undecided(r) => UNCHANGED <<status, agent>>
    BY <1>3, ExecDecides
  <2>3. \A q \in Runs : q # r => (Undecided(q)' <=> Undecided(q)) /\ status'[q] = status[q]
    BY <2>1 DEF Moves, Writes, Undecided
  <2>4. \A a \in Agents : agent'[a] = "busy" => agent[a] = "busy"
    BY <2>1 DEF Frees
  <2>5. \A q \in Runs : status'[q] \in {"queued", "running"} => Undecided(q)'
    BY <2>1, <2>2, <2>3
  <2>6. ASSUME NEW a \in Agents, agent'[a] = "busy"
        PROVE  \E q \in Runs : owner[q] = a /\ Undecided(q)'
    <3>1. PICK q \in Runs : owner[q] = a /\ Undecided(q)
      BY <2>2, <2>4, <2>6
    <3>2. CASE q # r
      BY <2>3, <3>1, <3>2
    <3>3. CASE q = r
      BY <2>2, <2>6, <3>1, <3>3
    <3>4. QED
      BY <3>2, <3>3
  <2>7. QED
    BY <2>1, <2>5, <2>6
<1>4. CASE ClientStep
  <2>1. UNCHANGED <<owner, pc, storeFaults>>
    BY <1>4, ClientShape DEF outside
  <2>2. \A a \in Agents : agent'[a] = "busy" => agent[a] = "busy"
    BY <1>4, ClientShape
  <2>3. \A r \in Runs : status'[r] \in {"queued", "running"} => status'[r] = status[r]
    BY <1>4, ClientShape
  <2>4. QED
    BY <2>1, <2>2, <2>3 DEF Undecided
<1>5. CASE Restart
  BY <1>5 DEF Restart, Interrupted
<1>6. CASE Quiet
  BY <1>6 DEF Quiet, stored, volatile, Undecided
<1>7. QED
  BY <1>1, <1>2, <1>3, <1>4, <1>5, <1>6, NextCases

\* As long as the store's mutations persist, every run that is queued or running
\* and every busy Agent has an execution that is going to settle it.
THEOREM Unstranded == Spec => []NothingStranded
<1>1. Init => TypeInv /\ Placed /\ StrandedInv
  BY TypeInit, PlacedInit DEF Init, StrandedInv
<1>2. TypeInv /\ Placed /\ StrandedInv /\ [Next]_vars => (TypeInv /\ Placed /\ StrandedInv)'
  BY TypeStep, PlacedStep, StrandedStep
<1>3. StrandedInv => NothingStranded
  BY DEF StrandedInv, NothingStranded, Undecided, Live, Finished
<1>4. QED
  BY <1>1, <1>2, <1>3, PTL DEF Spec

-----------------------------------------------------------------------------
(* A settled run keeps its outcome.                                        *)

\* Where the execution of a settled run can still be, and what it may throw.
SettledAt ==
    \A r \in Runs : status[r] \in Settled =>
        /\ pc[r] \in {"completedEvent", "catch", "catchEvent", "over", "rejected",
                 "interrupted"}
        /\ pc[r] \in {"completedEvent", "catch"} => status[r] = "completed"
        /\ pc[r] = "catch" => thrown[r] = "failed"

LEMMA ExecSettles ==
  ASSUME TypeInv, Placed, SettledAt, NEW r \in Runs, Exec(r)
  PROVE  /\ status'[r] \in Settled =>
               /\ pc'[r] \in {"completedEvent", "catch", "catchEvent", "over", "rejected",
                 "interrupted"}
               /\ pc'[r] \in {"completedEvent", "catch"} => status'[r] = "completed"
               /\ pc'[r] = "catch" => thrown'[r] = "failed"
         /\ \A q \in Runs \ {r} : thrown'[q] = thrown[q]
         /\ status[r] \in Settled /\ status'[r] # status[r] =>
               status[r] = "completed" /\ status'[r] = "failed" /\ pc[r] = "catch"
<1> USE DEF TypeInv, TypeOK, SettledAt, Settled, Goto, Raise, Finish, stored, outside
<1>1. CASE StartRun(r) \/ RequestRun(r) \/ BuildCapsule(r) \/ Deny(r)
  BY <1>1 DEF StartRun, RequestRun, BuildCapsule, Deny, SetRun
<1>2. CASE Refuse(r)
  BY <1>2 DEF Refuse, EndRefusal, SetRun
<1>3. CASE FinalizeCapsule(r) \/ CaptureBefore(r) \/ Spawn(r) \/ ChildError(r)
  BY <1>3 DEF FinalizeCapsule, CaptureBefore, Spawn, ChildError
<1>4. CASE Drain(r)
  BY <1>4 DEF Drain
<1>5. CASE CaptureDiff(r) \/ IngestOutbox(r)
  BY <1>5 DEF CaptureDiff, AfterDiff, IngestOutbox
<1>6. CASE HitLimit(r) \/ Close(r)
  BY <1>6 DEF HitLimit, Close, InProcess
<1>7. CASE CompleteRun(r)
  BY <1>7 DEF CompleteRun
<1>8. CASE EmitCompleted(r) \/ EmitCaught(r)
  BY <1>8 DEF EmitCompleted, EmitCaught
<1>9. CASE CatchRun(r)
  BY <1>9 DEF CatchRun, SetRun, Caught
<1>10. CASE AwaitThrows(r)
  BY <1>10 DEF AwaitThrows, TryPoints
<1>11. CASE ExecutionRejects(r)
  BY <1>11 DEF ExecutionRejects
<1>12. QED
  BY <1>1, <1>2, <1>3, <1>4, <1>5, <1>6, <1>7, <1>8, <1>9, <1>10, <1>11
  DEF Exec, Execute, Child, Fail

FinalStep == \A r \in Runs : status[r] \in Settled /\ status'[r] # status[r] =>
                \/ status'[r] = "removed"
                \/ status[r] = "completed" /\ status'[r] = "failed" /\ pc[r] = "catch"

LEMMA SettledStep ==
  ASSUME TypeInv, Placed, SettledAt, [Next]_vars
  PROVE  SettledAt' /\ FinalStep
<1> USE DEF TypeInv, TypeOK, SettledAt, FinalStep
<1>1. ASSUME NEW a \in Agents, CreateAgent(a) \/ StartAgent(a) PROVE SettledAt' /\ FinalStep
  BY <1>1 DEF CreateAgent, StartAgent, volatile
<1>2. ASSUME NEW a \in Agents, NEW r \in Runs, SendMessage(a, r) PROVE SettledAt' /\ FinalStep
  BY <1>2 DEF SendMessage, Settled
<1>3. ASSUME NEW r \in Runs, Exec(r) PROVE SettledAt' /\ FinalStep
  <2>1. \A q \in Runs \ {r} : status'[q] = status[q] /\ pc'[q] = pc[q]
    <3>1. Moves(r) /\ Writes(r)
      BY <1>3, ExecShape
    <3>2. QED
      BY <3>1 DEF Moves, Writes
  <2>2. FinalStep
    BY <1>3, <2>1, ExecSettles DEF FinalStep
  <2>3. ASSUME NEW q \in Runs, status'[q] \in Settled
        PROVE  /\ pc'[q] \in {"completedEvent", "catch", "catchEvent", "over", "rejected",
                 "interrupted"}
               /\ pc'[q] \in {"completedEvent", "catch"} => status'[q] = "completed"
               /\ pc'[q] = "catch" => thrown'[q] = "failed"
    <3>1. CASE q = r
      BY <1>3, <2>3, <3>1, ExecSettles
    <3>2. CASE q # r
      <4>1. thrown'[q] = thrown[q]
        BY <1>3, <3>2, ExecSettles
      <4>2. QED
        BY <2>1, <2>3, <3>2, <4>1 DEF SettledAt
    <3>3. QED
      BY <3>1, <3>2
  <2>4. SettledAt'
    BY ONLY <2>3 DEF SettledAt
  <2>5. QED
    BY ONLY <2>2, <2>4
<1>4. CASE ClientStep
  <2>1. UNCHANGED <<pc, thrown>>
    BY <1>4, ClientShape
  <2>2. \A r \in Runs : status'[r] = status[r] \/ status'[r] = "removed"
    BY <1>4, ClientShape
  <2>3. QED
    BY <2>1, <2>2 DEF Settled
<1>5. CASE Restart
  <2>1. \A r \in Runs : /\ pc'[r] = IF pc[r] \in Finished THEN pc[r] ELSE "interrupted"
                        /\ status'[r] = IF status[r] \in Interrupted THEN "cancelled" ELSE status[r]
    BY ONLY <1>5 DEF Restart
  <2>2. \A r \in Runs : status[r] \in Interrupted => pc[r] # "idle"
    BY DEF Placed, Interrupted
  <2>3. FinalStep
    BY ONLY <2>1 DEF FinalStep, Interrupted, Settled
  <2>4. SettledAt'
    <3>1. SettledAt
      OBVIOUS
    <3>2. \A r \in Runs : status'[r] \in Settled => status[r] \in Settled \/ pc[r] # "idle"
      BY ONLY <2>1, <2>2 DEF Interrupted, Settled
    <3>3. ASSUME NEW r \in Runs, status'[r] \in Settled
          PROVE  /\ pc'[r] \in {"completedEvent", "catch", "catchEvent", "over", "rejected",
                                 "interrupted"}
                 /\ pc'[r] \notin {"completedEvent", "catch"}
      BY ONLY <2>1, <3>1, <3>2, <3>3 DEF SettledAt, Finished
    <3>4. QED
      BY ONLY <3>3 DEF SettledAt
  <2>5. QED
    BY <2>3, <2>4
<1>6. CASE Quiet
  BY <1>6 DEF Quiet, stored, volatile
<1>7. QED
  BY <1>1, <1>2, <1>3, <1>4, <1>5, <1>6, NextCases

\* No order of stops, deletes, timeouts, faults and restarts revives a settled
\* run or changes its outcome, but for the throw of its own last append.
THEOREM SettledStays == Spec => SettledIsFinal
<1>1. Init => TypeInv /\ Placed /\ SettledAt
  BY TypeInit, PlacedInit DEF Init, SettledAt, Settled
<1>2. TypeInv /\ Placed /\ SettledAt /\ [Next]_vars => (TypeInv /\ Placed /\ SettledAt)'
  BY TypeStep, PlacedStep, SettledStep
<1>3. TypeInv /\ Placed /\ SettledAt /\ [Next]_vars => [FinalStep]_vars
  BY SettledStep
<1>4. QED
  BY <1>1, <1>2, <1>3, PTL DEF Spec, SettledIsFinal, FinalStep

-----------------------------------------------------------------------------
(* One Codex process per Agent.                                            *)

\* How an execution's step relates to runner.active.
Occupies(r) ==
    \/ UNCHANGED active /\ (pc[r] \in InProcess <=> pc'[r] \in InProcess)
    \/ /\ active[owner[r]] = None /\ pc'[r] \in InProcess
       /\ active' = [active EXCEPT ![owner[r]] = r]
    \/ /\ pc[r] \in InProcess /\ pc'[r] \notin InProcess
       /\ active' = [active EXCEPT ![owner[r]] = None]

LEMMA ExecOccupies ==
  ASSUME TypeInv, NEW r \in Runs, Exec(r)
  PROVE  Occupies(r)
<1> USE DEF TypeInv, TypeOK, Occupies, InProcess, Goto, Raise, Finish
<1>1. CASE StartRun(r) \/ RequestRun(r) \/ BuildCapsule(r) \/ Deny(r) \/ Refuse(r)
  BY <1>1 DEF StartRun, RequestRun, BuildCapsule, Deny, Refuse, EndRefusal
<1>2. CASE FinalizeCapsule(r) \/ CaptureBefore(r) \/ CaptureDiff(r) \/ IngestOutbox(r)
  BY <1>2 DEF FinalizeCapsule, CaptureBefore, CaptureDiff, AfterDiff, IngestOutbox
<1>3. CASE Spawn(r)
  BY <1>3 DEF Spawn, MaySpawn
<1>4. CASE ChildError(r)
  BY <1>4 DEF ChildError
<1>5. CASE Drain(r)
  BY <1>5 DEF Drain
<1>6. CASE CompleteRun(r) \/ EmitCompleted(r) \/ CatchRun(r) \/ EmitCaught(r)
  BY <1>6 DEF CompleteRun, EmitCompleted, CatchRun, EmitCaught
<1>7. CASE HitLimit(r) \/ Close(r)
  BY <1>7 DEF HitLimit, Close
<1>8. CASE Fail(r)
  BY <1>8 DEF Fail, AwaitThrows, ExecutionRejects, TryPoints
<1>9. QED
  BY <1>1, <1>2, <1>3, <1>4, <1>5, <1>6, <1>7, <1>8 DEF Exec, Execute, Child

\* runner.active and the executions that hold a child agree; an orphan's run is
\* over for this server.
Held ==
    \A r \in Runs :
        /\ pc[r] \in InProcess => active[owner[r]] = r
        /\ \A a \in Agents : active[a] = r => pc[r] \in InProcess /\ owner[r] = a
        /\ r \in orphans => pc[r] = "interrupted" /\ status[r] \in {"cancelled", "removed"}

HeldInv == TypeInv /\ Placed /\ SettledAt /\ Held

LEMMA HeldStep ==
  ASSUME HeldInv, [Next]_vars
  PROVE  Held'
<1> USE NoneIsFresh DEF HeldInv, TypeInv, TypeOK, Held
<1>1. ASSUME NEW a \in Agents, CreateAgent(a) \/ StartAgent(a) PROVE Held'
  BY <1>1 DEF CreateAgent, StartAgent, volatile, outside
<1>2. ASSUME NEW a \in Agents, NEW r \in Runs, SendMessage(a, r) PROVE Held'
  BY <1>2 DEF SendMessage, Placed, InProcess, outside
<1>3. ASSUME NEW r \in Runs, Exec(r) PROVE Held'
  <2>1. /\ Moves(r) /\ Writes(r) /\ UNCHANGED owner /\ owner[r] \in Agents /\ Occupies(r)
        /\ UNCHANGED orphans /\ r \notin orphans
    BY <1>3, ExecShape, ExecOccupies DEF Placed, Finished
  <2>2. \A q \in orphans : pc'[q] = pc[q] /\ status'[q] = status[q]
    BY <2>1 DEF Moves, Writes
  <2>3. CASE UNCHANGED active /\ (pc[r] \in InProcess <=> pc'[r] \in InProcess)
    BY <2>1, <2>2, <2>3 DEF Moves
  <2>4. CASE /\ active[owner[r]] = None /\ pc'[r] \in InProcess
             /\ active' = [active EXCEPT ![owner[r]] = r]
    BY <2>1, <2>2, <2>4 DEF Moves
  <2>5. CASE /\ pc[r] \in InProcess /\ pc'[r] \notin InProcess
             /\ active' = [active EXCEPT ![owner[r]] = None]
    BY <2>1, <2>2, <2>5 DEF Moves
  <2>6. QED
    BY <2>1, <2>3, <2>4, <2>5 DEF Occupies
<1>4. CASE ClientStep
  <2>1. UNCHANGED <<owner, pc, active, orphans>>
    BY <1>4, ClientShape DEF outside
  <2>2. \A r \in Runs : status'[r] = status[r] \/ status'[r] = "removed"
    BY <1>4, ClientShape
  <2>3. QED
    BY <2>1, <2>2
<1>5. CASE Restart
  <2>1. /\ \A r \in Runs : pc'[r] = IF pc[r] \in Finished THEN pc[r] ELSE "interrupted"
        /\ \A r \in Runs : status'[r] = IF status[r] \in Interrupted THEN "cancelled" ELSE status[r]
        /\ \A a \in Agents : active'[a] = None
        /\ UNCHANGED owner
    BY <1>5 DEF Restart
  <2>2. \A r \in orphans' : r \in orphans \/ pc[r] = "running"
    BY <1>5 DEF Restart, LeftRunning, Up
  <2>3. ASSUME NEW r \in Runs, pc[r] = "running"
        PROVE  pc'[r] = "interrupted" /\ status'[r] \in {"cancelled", "removed"}
    <3>1. status[r] \notin Settled /\ status[r] # "none"
      BY <2>3 DEF SettledAt, Placed
    <3>2. QED
      BY <2>1, <2>3, <3>1 DEF RunStatus, Settled, Interrupted, Finished
  <2>4. \A r \in orphans : pc'[r] = "interrupted" /\ status'[r] \in {"cancelled", "removed"}
    BY <2>1 DEF Finished, Interrupted
  <2>5. \A r \in Runs : pc'[r] \notin InProcess
    BY <2>1 DEF Finished, InProcess
  <2>6. QED
    BY <2>1, <2>2, <2>3, <2>4, <2>5
<1>6. CASE Quiet
  BY <1>6 DEF Quiet, stored, volatile
<1>7. QED
  BY <1>1, <1>2, <1>3, <1>4, <1>5, <1>6, NextCases

\* Whatever the number of Agents, runs, faults and restarts: this server has at
\* most one Codex process per Agent and knows whose it is, though the Agent's runs
\* may overlap; a second one is the orphan of an earlier server.
THEOREM OneProcess == Spec => []OneProcessPerAgent
<1>1. Init => HeldInv
  <2>1. Init => Held
    BY NoneIsFresh DEF Init, Held, InProcess
  <2>2. QED
    BY <2>1, TypeInit, PlacedInit DEF HeldInv, Init, SettledAt, Settled
<1>2. HeldInv /\ [Next]_vars => HeldInv'
  BY TypeStep, PlacedStep, SettledStep, HeldStep DEF HeldInv
<1>3. HeldInv => OneProcessPerAgent
  <2> SUFFICES ASSUME HeldInv PROVE OneProcessPerAgent
    OBVIOUS
  <2>1. ASSUME NEW r \in Runs, NEW s \in Runs, Up(r), Up(s), owner[r] = owner[s]
        PROVE  r = s
    BY <2>1 DEF HeldInv, Held, Up, InProcess
  <2>2. QED
    BY <2>1 DEF HeldInv, Held, OneProcessPerAgent
<1>4. QED
  BY <1>1, <1>2, <1>3, PTL DEF Spec

-----------------------------------------------------------------------------
(* What the store and the chain tell of a run.                             *)

\* The run's outbox is read before the store calls the run completed.
IngestedAt(r) == pc[r] = "complete" \/ status[r] = "completed" => r \in ingested

LEMMA ExecIngests ==
  ASSUME TypeInv, NEW r \in Runs, IngestedAt(r), Exec(r)
  PROVE  IngestedAt(r)' /\ ingested \subseteq ingested'
<1> USE DEF TypeInv, TypeOK, IngestedAt, Goto, Raise, Finish, stored
<1>1. CASE StartRun(r) \/ RequestRun(r) \/ BuildCapsule(r) \/ Deny(r)
  BY <1>1 DEF StartRun, RequestRun, BuildCapsule, Deny, SetRun
<1>2. CASE Refuse(r)
  BY <1>2 DEF Refuse, EndRefusal, SetRun
<1>3. CASE FinalizeCapsule(r) \/ CaptureBefore(r) \/ Spawn(r) \/ ChildError(r) \/ Drain(r)
  BY <1>3 DEF FinalizeCapsule, CaptureBefore, Spawn, ChildError, Drain
<1>4. CASE CaptureDiff(r) \/ IngestOutbox(r)
  BY <1>4 DEF CaptureDiff, AfterDiff, IngestOutbox
<1>5. CASE CompleteRun(r) \/ EmitCompleted(r) \/ EmitCaught(r)
  BY <1>5 DEF CompleteRun, EmitCompleted, EmitCaught
<1>6. CASE CatchRun(r)
  BY <1>6 DEF CatchRun, SetRun, Caught
<1>7. CASE Child(r) \/ Fail(r)
  BY <1>7 DEF Child, Fail, HitLimit, Close, AwaitThrows, ExecutionRejects, InProcess
<1>8. QED
  BY <1>1, <1>2, <1>3, <1>4, <1>5, <1>6, <1>7 DEF Exec, Execute

LEMMA ExecThrows ==
  ASSUME TypeInv, NEW r \in Runs, Exec(r)
  PROVE  \A q \in Runs \ {r} : thrown'[q] = thrown[q]
<1> USE DEF TypeInv, TypeOK, Raise
<1>1. CASE \/ StartRun(r) \/ RequestRun(r) \/ BuildCapsule(r) \/ Deny(r) \/ Refuse(r)
           \/ FinalizeCapsule(r) \/ CaptureBefore(r) \/ Spawn(r) \/ ChildError(r)
  BY <1>1 DEF StartRun, RequestRun, BuildCapsule, Deny, Refuse, FinalizeCapsule,
             CaptureBefore, Spawn, ChildError
<1>2. CASE \/ Drain(r) \/ CaptureDiff(r) \/ IngestOutbox(r) \/ CompleteRun(r)
           \/ EmitCompleted(r) \/ CatchRun(r) \/ EmitCaught(r)
  BY <1>2 DEF Drain, CaptureDiff, IngestOutbox, CompleteRun, EmitCompleted, CatchRun, EmitCaught
<1>3. CASE Child(r) \/ Fail(r)
  BY <1>3 DEF Child, Fail, HitLimit, Close, AwaitThrows, ExecutionRejects
<1>4. QED
  BY <1>1, <1>2, <1>3 DEF Exec, Execute

InChain(r, k) == \E i \in 1..Len(chain[r]) : chain[r][i] = k

\* Where an execution is once its capsule is on the chain.
AfterCapsule == {"capture", "spawn", "running", "draining", "failedDiff", "diff",
                 "outbox", "complete", "completedEvent"}

\* What an execution's step does to its run's chain, and where it does so.
Silent(r) ==
    /\ UNCHANGED chain
    /\ \/ pc[r] = "start" /\ pc'[r] \in {"request", "catch", "rejected"}
       \/ pc[r] \in {"request", "deny", "finalize"} /\ pc'[r] = "catch"
       \/ pc[r] = "build" /\ pc'[r] \in {"deny", "clarify", "finalize", "catch"}
       \/ pc[r] \in {"denyStore", "clarify"} /\ pc'[r] \in {"over", "catch"}
       \/ pc[r] \in AfterCapsule /\ pc'[r] \in AfterCapsule \cup {"catch"}
       \/ pc[r] = "catch" /\ pc'[r] \in {"catchEvent", "rejected"}
       \/ pc[r] = "catchEvent" /\ pc'[r] = "rejected"

Tells(r, kind) ==
    /\ Emit(r, kind)
    /\ \/ kind = "run.requested" /\ pc[r] = "request" /\ pc'[r] = "build"
       \/ kind = "run.failed" /\ pc[r] = "deny" /\ pc'[r] = "denyStore"
       \/ kind = "capsule.finalized" /\ pc[r] = "finalize" /\ pc'[r] = "capture"
       \/ /\ kind \in {"artifact.diff", "evidence.outbox"}
          /\ pc[r] \in AfterCapsule /\ pc'[r] \in AfterCapsule \cup {"catch"}
       \/ kind = "run.completed" /\ pc[r] = "completedEvent" /\ pc'[r] = "over"
       \/ kind = CaughtKind(r) /\ pc[r] = "catchEvent" /\ pc'[r] = "over"

LEMMA ExecTrace ==
  ASSUME TypeInv, NEW r \in Runs, Exec(r)
  PROVE  Silent(r) \/ \E kind \in Kinds : Tells(r, kind)
<1> USE DEF TypeInv, TypeOK, Goto, Raise, Finish, AfterCapsule, stored
<1>1. CASE StartRun(r) \/ BuildCapsule(r) \/ Refuse(r) \/ CatchRun(r)
  BY <1>1 DEF Silent, StartRun, BuildCapsule, Refuse, EndRefusal, CatchRun
<1>2. CASE CaptureBefore(r) \/ Spawn(r) \/ ChildError(r) \/ Drain(r) \/ CompleteRun(r)
  BY <1>2 DEF Silent, CaptureBefore, Spawn, ChildError, Drain, CompleteRun
<1>3. CASE HitLimit(r) \/ Close(r)
  BY <1>3 DEF Silent, HitLimit, Close, InProcess
<1>4. CASE AwaitThrows(r)
  BY <1>4 DEF Silent, AwaitThrows, TryPoints
<1>5. CASE ExecutionRejects(r)
  BY <1>5 DEF Silent, ExecutionRejects
<1>6. CASE RequestRun(r) \/ Deny(r) \/ FinalizeCapsule(r)
  BY <1>6 DEF Tells, RequestRun, Deny, FinalizeCapsule, Kinds
<1>7. CASE CaptureDiff(r)
  <2>1. /\ pc[r] \in AfterCapsule /\ pc'[r] \in AfterCapsule \cup {"catch"}
        /\ UNCHANGED chain \/ Emit(r, "artifact.diff")
    BY <1>7 DEF CaptureDiff, AfterDiff
  <2>2. QED
    BY <2>1 DEF Silent, Tells, Kinds
<1>8. CASE IngestOutbox(r)
  <2>1. /\ pc[r] \in AfterCapsule /\ pc'[r] \in AfterCapsule
        /\ UNCHANGED chain \/ Emit(r, "evidence.outbox")
    BY <1>8 DEF IngestOutbox
  <2>2. QED
    BY <2>1 DEF Silent, Tells, Kinds
<1>9. CASE EmitCompleted(r)
  BY <1>9 DEF Tells, EmitCompleted, Kinds
<1>10. CASE EmitCaught(r)
  BY <1>10 DEF Tells, EmitCaught, CaughtKind, Kinds
<1>11. QED
  BY <1>1, <1>2, <1>3, <1>4, <1>5, <1>6, <1>7, <1>8, <1>9, <1>10
  DEF Exec, Execute, Child, Fail

\* One append lengthens exactly one chain, and changes nothing before its end.
LEMMA EmitGrows ==
  ASSUME TypeOK, NEW r \in Runs, NEW kind \in Kinds, Emit(r, kind)
  PROVE  /\ Len(chain[r]) \in Nat
         /\ Len(chain'[r]) = Len(chain[r]) + 1
         /\ chain'[r][Len(chain[r]) + 1] = kind
         /\ \A i \in 1..Len(chain[r]) : chain'[r][i] = chain[r][i]
         /\ \A q \in Runs \ {r} : chain'[q] = chain[q]
<1>1. chain[r] \in Seq(Kinds)
  BY DEF TypeOK
<1>2. chain'[r] = Append(chain[r], kind) /\ \A q \in Runs \ {r} : chain'[q] = chain[q]
  BY DEF TypeOK, Emit
<1>3. QED
  BY <1>1, <1>2

\* The chains that are compared with a literal, by length and entry.
LEMMA Lengths ==
  ASSUME NEW s \in Seq(Kinds)
  PROVE  /\ Len(s) \in Nat
         /\ s = <<>> <=> Len(s) = 0
         /\ \A k \in Kinds : s = <<k>> <=> Len(s) = 1 /\ s[1] = k
  OBVIOUS

\* How a chain begins, while its execution runs and afterwards.
OpensAt(r) ==
    /\ pc[r] \in {"idle", "start", "request"} => Len(chain[r]) = 0
    /\ pc[r] \in {"build", "deny", "clarify"} =>
          Len(chain[r]) = 1 /\ chain[r][1] = "run.requested"
    /\ pc[r] \in AfterCapsule \cup {"finalize", "denyStore"} => Len(chain[r]) > 0
    /\ Len(chain[r]) > 0 =>
          \/ chain[r][1] = "run.requested"
          \/ /\ Len(chain[r]) = 1 /\ chain[r][1] \in {"run.cancelled", "run.failed"}
             /\ pc[r] = "over"

LEMMA ExecOpens ==
  ASSUME TypeInv, NEW r \in Runs, OpensAt(r), Exec(r)
  PROVE  OpensAt(r)'
<1>1. Len(chain[r]) \in Nat
  BY DEF TypeInv, TypeOK
<1>2. CASE Silent(r)
  BY <1>1, <1>2 DEF Silent, OpensAt, AfterCapsule
<1>3. ASSUME NEW kind \in Kinds, Tells(r, kind) PROVE OpensAt(r)'
  <2>1. /\ Len(chain'[r]) = Len(chain[r]) + 1
        /\ chain'[r][Len(chain[r]) + 1] = kind
        /\ \A i \in 1..Len(chain[r]) : chain'[r][i] = chain[r][i]
    BY <1>3, EmitGrows DEF Tells, TypeInv
  <2>2. Len(chain'[r]) > 0
    BY <1>1, <2>1
  <2>3. CASE Len(chain[r]) > 0
    <3>1. chain'[r][1] = chain[r][1] /\ pc[r] # "over" /\ pc[r] # "request"
      BY <1>1, <1>3, <2>1, <2>3 DEF Tells, OpensAt, AfterCapsule
    <3>2. chain'[r][1] = "run.requested"
      BY <2>3, <3>1 DEF OpensAt
    <3>3. pc'[r] \notin {"idle", "start", "request", "build", "deny", "clarify"}
      BY <1>3, <3>1 DEF Tells, AfterCapsule
    <3>4. QED
      BY <2>2, <3>2, <3>3 DEF OpensAt
  <2>4. CASE Len(chain[r]) = 0
    <3>1. Len(chain'[r]) = 1 /\ chain'[r][1] = kind
      BY <2>1, <2>4
    <3>2. \/ kind = "run.requested" /\ pc'[r] = "build"
          \/ kind = CaughtKind(r) /\ pc'[r] = "over"
      BY <1>3, <2>4 DEF Tells, OpensAt, AfterCapsule
    <3>3. CaughtKind(r) \in {"run.cancelled", "run.failed"}
      BY DEF CaughtKind
    <3>4. QED
      BY <2>2, <3>1, <3>2, <3>3 DEF OpensAt, AfterCapsule
  <2>5. QED
    BY <1>1, <2>3, <2>4
<1>4. QED
  BY <1>2, <1>3, ExecTrace

\* The capsule is on the chain before anything the runner produced.
CapsuleAt(r) ==
    /\ pc[r] \in AfterCapsule => InChain(r, "capsule.finalized")
    /\ CapsuleFirst(r)

LEMMA ExecCapsule ==
  ASSUME TypeInv, NEW r \in Runs, CapsuleAt(r), Exec(r)
  PROVE  CapsuleAt(r)'
<1>1. CASE Silent(r)
  BY <1>1 DEF Silent, CapsuleAt, CapsuleFirst, InChain, AfterCapsule
<1>2. ASSUME NEW kind \in Kinds, Tells(r, kind) PROVE CapsuleAt(r)'
  <2>1. PICK n \in Nat : n = Len(chain[r])
    BY DEF TypeInv, TypeOK
  <2>2. /\ Len(chain'[r]) = n + 1
        /\ chain'[r][n + 1] = kind
        /\ \A i \in 1..n : chain'[r][i] = chain[r][i]
    BY <1>2, <2>1, EmitGrows DEF Tells, TypeInv
  <2>3. pc[r] \in AfterCapsule => \E j \in 1..n : chain[r][j] = "capsule.finalized"
    BY <2>1 DEF CapsuleAt, InChain
  <2>4. kind \in {"artifact.diff", "evidence.outbox", "run.completed"} => pc[r] \in AfterCapsule
    BY <1>2 DEF Tells, AfterCapsule, CaughtKind
  <2>5. CapsuleFirst(r)'
    <3> SUFFICES ASSUME NEW i \in 1..(n + 1),
                        chain'[r][i] \in {"artifact.diff", "evidence.outbox", "run.completed"}
        PROVE  \E j \in 1..(i - 1) : chain'[r][j] = "capsule.finalized"
      BY <2>2 DEF CapsuleFirst
    <3>1. CASE i = n + 1
      <4>1. PICK j \in 1..n : chain[r][j] = "capsule.finalized"
        BY <2>2, <2>3, <2>4, <3>1
      <4>2. j \in 1..(i - 1) /\ chain'[r][j] = "capsule.finalized"
        BY <2>2, <3>1, <4>1
      <4>3. QED
        BY <4>2
    <3>2. CASE i # n + 1
      <4>1. i \in 1..n /\ chain[r][i] = chain'[r][i]
        BY <2>2, <3>2
      <4>2. PICK j \in 1..(i - 1) : chain[r][j] = "capsule.finalized"
        BY <2>1, <4>1 DEF CapsuleAt, CapsuleFirst
      <4>3. chain'[r][j] = "capsule.finalized"
        BY <2>2, <4>1, <4>2
      <4>4. QED
        BY <4>2, <4>3
    <3>3. QED
      BY <3>1, <3>2
  <2>6. InChain(r, "capsule.finalized") => InChain(r, "capsule.finalized")'
    BY <2>1, <2>2 DEF InChain
  <2>7. kind = "capsule.finalized" => InChain(r, "capsule.finalized")'
    BY <2>2 DEF InChain
  <2>8. pc'[r] \in AfterCapsule => pc[r] \in AfterCapsule \/ kind = "capsule.finalized"
    BY <1>2 DEF Tells, AfterCapsule
  <2>9. QED
    BY <2>5, <2>6, <2>7, <2>8 DEF CapsuleAt
<1>3. QED
  BY <1>1, <1>2, ExecTrace

\* What the last event says, from the store's write of the outcome on.
LastIs(r, k) == Len(chain[r]) > 0 /\ chain[r][Len(chain[r])] = k

ClosesAt(r) ==
    /\ pc[r] = "denyStore" => LastIs(r, "run.failed")
    /\ pc[r] = "completedEvent" => status[r] \in {"completed", "removed"}
    /\ pc[r] = "catchEvent" => status[r] \in {thrown[r], "removed"}
    /\ pc[r] = "over" =>
          \/ status[r] = "removed"
          \/ /\ status[r] = "failed"
             /\ Len(chain[r]) = 1 /\ chain[r][1] = "run.requested"
          \/ status[r] \in Settled /\ LastIs(r, Closing(status[r]))

LEMMA EmitLast ==
  ASSUME TypeOK, NEW r \in Runs, NEW kind \in Kinds, Emit(r, kind)
  PROVE  LastIs(r, kind)'
  BY EmitGrows DEF LastIs

LEMMA ExecCloses ==
  ASSUME TypeInv, Placed, NEW r \in Runs, OpensAt(r), ClosesAt(r), Exec(r)
  PROVE  ClosesAt(r)'
<1> USE DEF TypeInv, TypeOK
<1>1. ASSUME pc'[r] \notin {"denyStore", "completedEvent", "catchEvent", "over"}
      PROVE  ClosesAt(r)'
  BY <1>1 DEF ClosesAt
<1>2. CASE \/ StartRun(r) \/ BuildCapsule(r) \/ RequestRun(r) \/ FinalizeCapsule(r)
           \/ CaptureBefore(r) \/ Spawn(r) \/ ChildError(r) \/ Drain(r) \/ CaptureDiff(r)
           \/ IngestOutbox(r)
  <2>1. pc'[r] \notin {"denyStore", "completedEvent", "catchEvent", "over"}
    BY <1>2 DEF StartRun, BuildCapsule, RequestRun, FinalizeCapsule, CaptureBefore, Spawn,
               ChildError, Drain, CaptureDiff, AfterDiff, IngestOutbox, Goto, Raise
  <2>2. QED
    BY <1>1, <2>1
<1>3. CASE HitLimit(r) \/ Close(r) \/ Fail(r)
  <2>1. pc'[r] \notin {"denyStore", "completedEvent", "catchEvent", "over"}
    BY <1>3 DEF HitLimit, Close, Fail, AwaitThrows, ExecutionRejects, Goto, Raise, Finish,
               InProcess
  <2>2. QED
    BY <1>1, <2>1
<1>4. CASE Deny(r)
  <2>1. Emit(r, "run.failed") /\ pc'[r] = "denyStore" /\ "run.failed" \in Kinds
    BY <1>4 DEF Deny, Goto, Kinds
  <2>2. LastIs(r, "run.failed")'
    BY <2>1, EmitLast
  <2>3. QED
    BY <2>1, <2>2 DEF ClosesAt
<1>5. CASE Refuse(r)
  <2>1. UNCHANGED chain /\ pc[r] \in {"denyStore", "clarify"} /\ pc'[r] = "over"
    BY <1>5 DEF Refuse, EndRefusal, Finish, Goto
  <2>2. status'[r] \in {"failed", "removed"}
    BY <1>5, <2>1 DEF Refuse, SetRun, InStore, Placed
  <2>3. pc[r] = "denyStore" => LastIs(r, "run.failed")'
    BY <2>1 DEF ClosesAt, LastIs
  <2>4. pc[r] = "clarify" => Len(chain'[r]) = 1 /\ chain'[r][1] = "run.requested"
    BY <2>1 DEF OpensAt
  <2>5. Closing("failed") = "run.failed"
    BY DEF Closing
  <2>6. QED
    BY <2>1, <2>2, <2>3, <2>4, <2>5 DEF ClosesAt, Settled
<1>6. CASE CompleteRun(r)
  <2>1. UNCHANGED chain /\ pc[r] = "complete" /\ pc'[r] = "completedEvent"
    BY <1>6 DEF CompleteRun, Goto
  <2>2. status'[r] \in {"completed", "removed"}
    BY <1>6, <2>1 DEF CompleteRun, InStore, Placed
  <2>3. QED
    BY <2>1, <2>2 DEF ClosesAt
<1>7. CASE EmitCompleted(r)
  <2>1. /\ Emit(r, "run.completed") /\ pc[r] = "completedEvent" /\ pc'[r] = "over"
        /\ UNCHANGED status /\ "run.completed" \in Kinds
    BY <1>7 DEF EmitCompleted, Finish, Goto, Kinds
  <2>2. LastIs(r, "run.completed")' /\ Closing("completed") = "run.completed"
    BY <2>1, EmitLast DEF Closing
  <2>3. status'[r] \in {"completed", "removed"}
    BY <2>1 DEF ClosesAt
  <2>4. QED
    BY <2>1, <2>2, <2>3 DEF ClosesAt, Settled
<1>8. CASE CatchRun(r)
  <2>1. UNCHANGED <<chain, thrown>> /\ pc[r] = "catch" /\ pc'[r] = "catchEvent"
    BY <1>8 DEF CatchRun, Goto
  <2>2. status'[r] \in {thrown[r], "removed"}
    BY <1>8, <2>1 DEF CatchRun, SetRun, InStore, Placed
  <2>3. QED
    BY <2>1, <2>2 DEF ClosesAt
<1>9. CASE EmitCaught(r)
  <2>1. /\ Emit(r, CaughtKind(r)) /\ pc[r] = "catchEvent" /\ pc'[r] = "over"
        /\ UNCHANGED status /\ CaughtKind(r) \in Kinds
    BY <1>9 DEF EmitCaught, Finish, Goto, Kinds, CaughtKind
  <2>2. status'[r] \in {thrown[r], "removed"} /\ thrown[r] \in {"cancelled", "failed"}
    BY <2>1 DEF ClosesAt, Caught
  <2>3. Len(chain'[r]) > 0 /\ chain'[r][Len(chain'[r])] = CaughtKind(r)
    <3>1. PICK k \in Kinds : k = CaughtKind(r)
      BY <2>1
    <3>2. LastIs(r, k)'
      BY <2>1, <3>1, EmitLast
    <3>3. QED
      BY <3>1, <3>2 DEF LastIs
  <2>4. Closing(thrown[r]) = CaughtKind(r)
    BY <2>2 DEF Closing, CaughtKind
  <2>5. QED
    BY <2>1, <2>2, <2>3, <2>4 DEF ClosesAt, Settled, LastIs
<1>10. QED
  BY <1>2, <1>3, <1>4, <1>5, <1>6, <1>7, <1>8, <1>9 DEF Exec, Execute, Child

Told(r) == IngestedAt(r) /\ OpensAt(r) /\ CapsuleAt(r) /\ ClosesAt(r)

ToldInv == TypeInv /\ Placed /\ \A r \in Runs : Told(r)

\* A run none of whose entries moved is told as before; deletion only removes it.
LEMMA ToldStays ==
  ASSUME TypeInv, NEW q \in Runs, Told(q),
         pc'[q] = pc[q], chain'[q] = chain[q], thrown'[q] = thrown[q],
         status'[q] \in {status[q], "removed"},
         ingested \subseteq ingested'
  PROVE  Told(q)'
<1>1. IngestedAt(q)'
  BY DEF Told, IngestedAt
<1>2. OpensAt(q)'
  BY DEF Told, OpensAt
<1>3. CapsuleAt(q)'
  BY DEF Told, CapsuleAt, CapsuleFirst, InChain
<1>4. ClosesAt(q)'
  BY DEF Told, ClosesAt, LastIs
<1>5. QED
  BY <1>1, <1>2, <1>3, <1>4 DEF Told

LEMMA ToldStep ==
  ASSUME ToldInv, [Next]_vars
  PROVE  \A q \in Runs : Told(q)'
<1> USE DEF ToldInv
<1>1. ASSUME NEW a \in Agents, CreateAgent(a) \/ StartAgent(a), NEW q \in Runs PROVE Told(q)'
  BY <1>1, ToldStays DEF CreateAgent, StartAgent, volatile
<1>2. ASSUME NEW a \in Agents, NEW r \in Runs, SendMessage(a, r), NEW q \in Runs PROVE Told(q)'
  <2>1. CASE q # r
    <3>1. pc'[q] = pc[q] /\ status'[q] = status[q]
      BY <1>2, <2>1 DEF SendMessage, TypeInv, TypeOK
    <3>2. UNCHANGED <<chain, thrown, ingested>>
      BY <1>2 DEF SendMessage
    <3>3. QED
      BY <3>1, <3>2, ToldStays
  <2>2. CASE q = r
    <3>1. pc[q] = "idle" /\ pc'[q] = "start" /\ status'[q] = "queued" /\ UNCHANGED chain
      BY <1>2, <2>2 DEF SendMessage, TypeInv, TypeOK, Placed
    <3>2. Told(q)
      OBVIOUS
    <3>3. IngestedAt(q)'
      BY <3>1 DEF IngestedAt
    <3>4. OpensAt(q)'
      BY <3>1, <3>2 DEF Told, OpensAt, AfterCapsule
    <3>5. CapsuleAt(q)'
      BY <3>1, <3>2 DEF Told, CapsuleAt, CapsuleFirst, AfterCapsule
    <3>6. ClosesAt(q)'
      BY <3>1 DEF ClosesAt
    <3>7. QED
      BY <3>3, <3>4, <3>5, <3>6 DEF Told
  <2>3. QED
    BY <2>1, <2>2
<1>3. ASSUME NEW r \in Runs, Exec(r), NEW q \in Runs PROVE Told(q)'
  <2>1. Moves(r) /\ Writes(r)
    BY <1>3, ExecShape
  <2>2. ingested \subseteq ingested'
    BY <1>3, ExecIngests DEF Told
  <2>3. CASE q = r
    BY <1>3, <2>3, ExecIngests, ExecOpens, ExecCapsule, ExecCloses DEF Told
  <2>4. CASE q # r
    <3>1. pc'[q] = pc[q] /\ status'[q] = status[q]
      BY <2>1, <2>4 DEF Moves, Writes, TypeInv, TypeOK
    <3>2. chain'[q] = chain[q]
      <4>1. UNCHANGED chain \/ \E kind \in Kinds : Emit(r, kind)
        BY <1>3, ExecTrace DEF Silent, Tells
      <4>2. QED
        BY <2>4, <4>1, EmitGrows DEF TypeInv
    <3>3. thrown'[q] = thrown[q]
      BY <1>3, <2>4, ExecThrows
    <3>4. QED
      BY <2>2, <3>1, <3>2, <3>3, ToldStays
  <2>5. QED
    BY <2>3, <2>4
<1>4. ASSUME ClientStep, NEW q \in Runs PROVE Told(q)'
  <2>1. UNCHANGED <<pc, thrown>> /\ status'[q] \in {status[q], "removed"}
    BY <1>4, ClientShape
  <2>2. UNCHANGED <<chain, ingested>>
    BY <1>4 DEF ClientStep, Serve, ChildClosed, RunOver, MarkStopped, Archive, RemoveAgent,
               CancelExecution, stored
  <2>3. QED
    BY <2>1, <2>2, ToldStays
<1>5. ASSUME Restart, NEW q \in Runs PROVE Told(q)'
  <2>1. /\ UNCHANGED <<chain, ingested>>
        /\ pc'[q] = IF pc[q] \in Finished THEN pc[q] ELSE "interrupted"
        /\ status'[q] = IF status[q] \in {"queued", "running"} THEN "cancelled" ELSE status[q]
    BY <1>5 DEF Restart, Interrupted, TypeInv, TypeOK
  <2>2. Told(q)
    OBVIOUS
  <2>3. IngestedAt(q)'
    BY <2>1, <2>2 DEF Told, IngestedAt, Finished
  <2>4. OpensAt(q)'
    BY <2>1, <2>2 DEF Told, OpensAt, Finished, AfterCapsule
  <2>5. CapsuleAt(q)'
    BY <2>1, <2>2 DEF Told, CapsuleAt, CapsuleFirst, InChain, Finished, AfterCapsule
  <2>6. ClosesAt(q)'
    <3>1. CASE pc[q] = "over"
      <4>1. status[q] \in Settled \cup {"removed"}
        BY <2>2, <3>1 DEF Told, ClosesAt, Settled
      <4>2. status'[q] = status[q] /\ pc'[q] = "over"
        BY <2>1, <3>1, <4>1 DEF Settled, Finished
      <4>3. QED
        BY <2>1, <2>2, <3>1, <4>2 DEF Told, ClosesAt, LastIs
    <3>2. CASE pc[q] # "over"
      BY <2>1, <3>2 DEF ClosesAt, Finished
    <3>3. QED
      BY <3>1, <3>2
  <2>7. QED
    BY <2>3, <2>4, <2>5, <2>6 DEF Told
<1>6. ASSUME Quiet, NEW q \in Runs PROVE Told(q)'
  BY <1>6, ToldStays DEF Quiet, stored, volatile
<1>7. QED
  BY <1>1, <1>2, <1>3, <1>4, <1>5, <1>6, NextCases

LEMMA ToldAlways == Spec => []ToldInv
<1>1. ASSUME Init, NEW r \in Runs PROVE Told(r)
  <2>1. pc[r] = "idle" /\ status[r] = "none" /\ chain[r] = <<>>
    BY <1>1 DEF Init
  <2>2. Len(chain[r]) = 0
    BY <2>1
  <2>3. QED
    BY <2>1, <2>2 DEF Told, IngestedAt, OpensAt, CapsuleAt, CapsuleFirst, AfterCapsule, ClosesAt
<1>2. Init => ToldInv
  BY <1>1, TypeInit, PlacedInit DEF ToldInv
<1>3. ToldInv /\ [Next]_vars => ToldInv'
  <2> SUFFICES ASSUME ToldInv, [Next]_vars PROVE ToldInv'
    OBVIOUS
  <2>1. \A q \in Runs : Told(q)'
    BY ToldStep
  <2>2. TypeInv' /\ Placed'
    BY TypeStep, PlacedStep DEF ToldInv
  <2>3. QED
    BY <2>1, <2>2 DEF ToldInv
<1>4. QED
  BY <1>2, <1>3, PTL DEF Spec

\* Whoever reads "completed" in the store finds the run's outbox ingested.
THEOREM Ingested == Spec => []CompletedIsIngested
<1>1. ToldInv => CompletedIsIngested
  BY DEF ToldInv, Told, IngestedAt, CompletedIsIngested
<1>2. QED
  BY <1>1, ToldAlways, PTL

\* After any faults, stops, deletes and restarts of others: a run's chain opens
\* with run.requested (or is the one event of a run that ended before it), has its
\* capsule before any work product, and once the execution is over its last event
\* is the outcome the store holds, a clarification's excepted.
THEOREM ChainTells == Spec => []ChainTellsOutcome
<1>1. ToldInv => ChainTellsOutcome
  <2> SUFFICES ASSUME ToldInv, NEW r \in Runs
      PROVE  Opens(r) /\ CapsuleFirst(r) /\ (pc[r] = "over" => Closes(r))
    BY DEF ChainTellsOutcome
  <2>1. OpensAt(r) /\ CapsuleAt(r) /\ ClosesAt(r)
    BY DEF ToldInv, Told
  <2>2. /\ chain[r] = <<>> <=> Len(chain[r]) = 0
        /\ \A k \in Kinds : chain[r] = <<k>> <=> Len(chain[r]) = 1 /\ chain[r][1] = k
        /\ Len(chain[r]) \in Nat
    BY Lengths DEF ToldInv, TypeInv, TypeOK
  <2>3. {"run.requested", "run.cancelled", "run.failed"} \subseteq Kinds
    BY DEF Kinds
  <2>4. Opens(r)
    BY <2>1, <2>2, <2>3 DEF OpensAt, Opens
  <2>5. pc[r] = "over" => Closes(r)
    BY <2>1, <2>2, <2>3 DEF ClosesAt, LastIs, Closes
  <2>6. QED
    BY <2>1, <2>4, <2>5 DEF CapsuleAt
<1>2. QED
  BY <1>1, ToldAlways, PTL

-----------------------------------------------------------------------------
(* One active run per Agent, while nothing disturbs the admission.         *)

Active(r) == status[r] \in {"queued", "running"}

\* A busy Agent stands for exactly one active run, and an execution that has yet
\* to decide its run's outcome is the one of an active run.
Admitted ==
    \A r \in Runs :
        /\ status[r] # "removed"
        /\ Active(r) => agent[owner[r]] = "busy"
        /\ Undecided(r) => Active(r)
        /\ pc[r] = "completedEvent" => status[r] = "completed"
        /\ pc[r] = "catchEvent" => status[r] \in Settled
        /\ \A s \in Runs : Active(r) /\ Active(s) /\ owner[r] = owner[s] => r = s

\* An execution's own run under the invariant: undecided until it leaves the
\* active statuses, and only then does the Agent change.
LEMMA ExecAdmits ==
  ASSUME TypeInv, Placed, Admitted, Undisturbed, Undisturbed', NEW r \in Runs, Exec(r)
  PROVE  /\ status'[r] # "removed"
         /\ Active(r)' => agent'[owner[r]] = "busy"
         /\ Undecided(r)' => Active(r)'
         /\ pc'[r] = "completedEvent" => status'[r] = "completed"
         /\ pc'[r] = "catchEvent" => status'[r] \in Settled
         /\ Active(r)' => Active(r)
         /\ ~Active(r) => UNCHANGED agent
<1> USE DEF TypeInv, TypeOK, Undecided, Active, Goto, Raise, Finish, stored
<1>0. /\ owner[r] \in Agents /\ status[r] # "none"
      /\ status[r] # "removed" /\ InStore(r) /\ Known(owner[r])
      /\ Active(r) => agent[owner[r]] = "busy"
      /\ Undecided(r) => Active(r)
      /\ pc[r] = "completedEvent" => status[r] = "completed"
      /\ pc[r] = "catchEvent" => status[r] \in Settled
  <2>1. pc[r] \notin Finished
    BY ExecShape
  <2>2. /\ status[r] # "removed"
        /\ Active(r) => agent[owner[r]] = "busy"
        /\ Undecided(r) => Active(r)
        /\ pc[r] = "completedEvent" => status[r] = "completed"
        /\ pc[r] = "catchEvent" => status[r] \in Settled
    BY DEF Admitted
  <2>3. QED
    BY <2>1, <2>2 DEF Placed, Finished, InStore
<1>1. CASE StartRun(r)
  BY <1>0, <1>1 DEF StartRun, SetRun
<1>2. CASE RequestRun(r) \/ BuildCapsule(r) \/ Deny(r)
  BY <1>0, <1>2 DEF RequestRun, BuildCapsule, Deny
<1>3. CASE Refuse(r)
  BY <1>0, <1>3 DEF Refuse, EndRefusal, SetRun
<1>4. CASE FinalizeCapsule(r) \/ CaptureBefore(r) \/ Spawn(r) \/ ChildError(r)
  BY <1>0, <1>4 DEF FinalizeCapsule, CaptureBefore, Spawn, ChildError
<1>5. CASE Drain(r) \/ CaptureDiff(r) \/ IngestOutbox(r)
  BY <1>0, <1>5 DEF Drain, CaptureDiff, AfterDiff, IngestOutbox
<1>6. CASE CompleteRun(r)
  BY <1>0, <1>6 DEF CompleteRun
<1>7. CASE EmitCompleted(r) \/ EmitCaught(r)
  BY <1>0, <1>7 DEF EmitCompleted, EmitCaught, Settled
<1>8. CASE CatchRun(r)
  <2>1. thrown[r] \in {"cancelled", "failed"} /\ Active(r)
    BY <1>0, <1>8 DEF CatchRun, Caught
  <2>2. status' = [status EXCEPT ![r] = thrown[r]] /\ pc'[r] = "catchEvent"
    BY <1>0, <1>8 DEF CatchRun, SetRun
  <2>3. QED
    BY <2>1, <2>2 DEF Settled
<1>9. CASE HitLimit(r) \/ Close(r)
  BY <1>0, <1>9 DEF HitLimit, Close, InProcess
<1>10. CASE AwaitThrows(r)
  <2>1. UNCHANGED <<agent, status>> /\ pc'[r] \in {"catch", "failedDiff"}
    BY <1>10 DEF AwaitThrows
  <2>2. CASE pc[r] = "completedEvent"
    <3>1. pc'[r] = "catch"
      BY <1>10, <2>2 DEF AwaitThrows
    <3>2. status'[r] = "completed"
      BY <1>0, <2>1, <2>2
    <3>3. ~(status'[r] = "completed" /\ pc'[r] = "catch")
      BY DEF Undisturbed
    <3>4. QED
      BY <3>1, <3>2, <3>3
  <2>3. CASE pc[r] # "completedEvent"
    BY <1>0, <1>10, <2>1, <2>3 DEF AwaitThrows, TryPoints
  <2>4. QED
    BY <2>2, <2>3
<1>11. CASE ExecutionRejects(r)
  BY <1>0, <1>11 DEF ExecutionRejects
<1>12. QED
  BY <1>1, <1>2, <1>3, <1>4, <1>5, <1>6, <1>7, <1>8, <1>9, <1>10, <1>11
  DEF Exec, Execute, Child, Fail

LEMMA AdmittedStep ==
  ASSUME TypeInv, Placed, Admitted, Undisturbed, Undisturbed', [Next]_vars
  PROVE  Admitted'
<1> USE NoneIsFresh DEF TypeInv, TypeOK
<1>1. ASSUME NEW a \in Agents, CreateAgent(a) PROVE Admitted'
  BY <1>1 DEF CreateAgent, volatile, Admitted, Active, Undecided
<1>2. ASSUME NEW a \in Agents, StartAgent(a) PROVE Admitted'
  BY <1>2 DEF StartAgent, MayStart, volatile, Admitted, Active, Undecided
<1>3. ASSUME NEW a \in Agents, NEW r \in Runs, SendMessage(a, r) PROVE Admitted'
  <2>1. /\ pc'[r] = "start" /\ status'[r] = "queued" /\ owner'[r] = a /\ agent'[a] = "busy"
        /\ agent[a] # "busy"
    BY <1>3 DEF SendMessage
  <2>2. \A q \in Runs \ {r} : pc'[q] = pc[q] /\ status'[q] = status[q] /\ owner'[q] = owner[q]
    BY <1>3 DEF SendMessage
  <2>3. \A b \in Agents : b # a => agent'[b] = agent[b]
    BY <1>3 DEF SendMessage
  <2>4. \A q \in Runs \ {r} : Active(q) => owner[q] # a /\ owner[q] \in Agents
    BY <2>1 DEF Admitted, Active, Placed
  <2>5. ASSUME NEW q \in Runs
        PROVE  /\ status'[q] # "removed"
               /\ Active(q)' => agent'[owner'[q]] = "busy"
               /\ Undecided(q)' => Active(q)'
               /\ pc'[q] = "completedEvent" => status'[q] = "completed"
               /\ pc'[q] = "catchEvent" => status'[q] \in Settled
    BY <2>1, <2>2, <2>3, <2>4 DEF Admitted, Active, Undecided
  <2>6. ASSUME NEW q \in Runs, NEW s \in Runs, Active(q)', Active(s)', owner'[q] = owner'[s]
        PROVE  q = s
    <3>1. \A x \in Runs \ {r} : Active(x)' => Active(x) /\ owner'[x] = owner[x] /\ owner[x] # a
      BY <2>2, <2>4 DEF Active
    <3>2. CASE q # r /\ s # r
      BY <2>6, <3>1, <3>2 DEF Admitted
    <3>3. CASE q = r \/ s = r
      BY <2>1, <2>6, <3>1, <3>3
    <3>4. QED
      BY <3>2, <3>3
  <2>7. QED
    BY ONLY <2>5, <2>6 DEF Admitted
<1>4. ASSUME NEW r \in Runs, Exec(r) PROVE Admitted'
  <2>1. Moves(r) /\ Writes(r) /\ Frees(r) /\ UNCHANGED owner /\ owner[r] \in Agents
    BY <1>4, ExecShape DEF Placed, Finished
  <2>2. \A q \in Runs \ {r} : pc'[q] = pc[q] /\ status'[q] = status[q]
    BY <2>1 DEF Moves, Writes
  <2>3. \A b \in Agents : b # owner[r] => agent'[b] = agent[b]
    BY <2>1 DEF Frees
  <2>4. /\ status'[r] # "removed"
        /\ Active(r)' => agent'[owner[r]] = "busy"
        /\ Undecided(r)' => Active(r)'
        /\ pc'[r] = "completedEvent" => status'[r] = "completed"
        /\ pc'[r] = "catchEvent" => status'[r] \in Settled
        /\ Active(r)' => Active(r)
        /\ ~Active(r) => UNCHANGED agent
    BY <1>4, ExecAdmits
  <2>5. \A q \in Runs \ {r} : Active(q)' <=> Active(q)
    BY <2>2 DEF Active
  <2>6. ASSUME NEW q \in Runs, q # r, Active(q) PROVE agent'[owner[q]] = "busy"
    <3>1. owner[q] \in Agents /\ agent[owner[q]] = "busy"
      BY <2>6 DEF Admitted, Active, Placed
    <3>2. CASE Active(r)
      <4>1. owner[q] # owner[r]
        BY <2>6, <3>2 DEF Admitted
      <4>2. QED
        BY <2>3, <3>1, <4>1
    <3>3. CASE ~Active(r)
      BY <2>4, <3>1, <3>3
    <3>4. QED
      BY <3>2, <3>3
  <2>7. ASSUME NEW q \in Runs
        PROVE  /\ status'[q] # "removed"
               /\ Active(q)' => agent'[owner'[q]] = "busy"
               /\ Undecided(q)' => Active(q)'
               /\ pc'[q] = "completedEvent" => status'[q] = "completed"
               /\ pc'[q] = "catchEvent" => status'[q] \in Settled
    <3>1. CASE q = r
      BY <2>1, <2>4, <3>1
    <3>2. CASE q # r
      <4>1. Undecided(q)' <=> Undecided(q)
        BY <2>2, <3>2 DEF Undecided
      <4>2. QED
        BY <2>1, <2>2, <2>5, <2>6, <3>2, <4>1 DEF Admitted
    <3>3. QED
      BY <3>1, <3>2
  <2>8. ASSUME NEW q \in Runs, NEW s \in Runs, Active(q)', Active(s)', owner'[q] = owner'[s]
        PROVE  q = s
    <3>1. Active(q) /\ Active(s)
      BY <2>4, <2>5, <2>8
    <3>2. owner[q] = owner[s]
      BY <2>1, <2>8
    <3>3. QED
      BY <3>1, <3>2 DEF Admitted
  <2>9. QED
    BY ONLY <2>7, <2>8 DEF Admitted
<1>5. CASE ClientStep
  <2>1. PICK c \in Clients :
           \/ Serve(c)
           \/ \E a \in Agents, op \in {"stop", "delete"} : CancelExecution(c, op, a)
    BY <1>5 DEF ClientStep
  <2>2. call[c] = NoCall /\ call'[c] = NoCall
    BY DEF Undisturbed
  <2>3. CASE Serve(c)
    BY <2>2, <2>3 DEF Serve, ChildClosed, RunOver, MarkStopped, Archive, RemoveAgent, NoCall
  <2>4. ASSUME NEW a \in Agents, NEW op \in {"stop", "delete"}, CancelExecution(c, op, a)
        PROVE  FALSE
    BY <2>2, <2>4 DEF CancelExecution, JoinExecution, At, NoCall
  <2>5. QED
    BY <2>1, <2>3, <2>4
<1>6. CASE Restart
  <2>1. \A r \in Runs : /\ status'[r] # "removed" /\ ~Active(r)' /\ pc'[r] \in Finished
    BY <1>6 DEF Restart, Interrupted, Admitted, Active, Finished
  <2>2. QED
    BY <2>1 DEF Admitted, Undecided, Finished
<1>7. CASE Quiet
  BY <1>7 DEF Quiet, stored, volatile, Admitted, Active, Undecided
<1>8. QED
  BY <1>1, <1>2, <1>3, <1>4, <1>5, <1>6, <1>7, NextCases

\* Whatever the number of Agents, runs, faults and restarts, an Agent has one
\* active run, unless a stop, a delete or a failed run.completed disturbs it.
THEOREM OneActive == Spec => OneActiveRunUnstopped
<1>1. Init => TypeInv /\ Placed /\ Admitted
  BY TypeInit, PlacedInit DEF Init, Admitted, Active, Undecided
<1>2. /\ TypeInv /\ Placed /\ Admitted /\ Undisturbed /\ Undisturbed' /\ [Next]_vars
      => (TypeInv /\ Placed /\ Admitted)'
  BY TypeStep, PlacedStep, AdmittedStep
<1>3. Admitted => OneActiveRun
  BY DEF Admitted, Active, OneActiveRun
<1>4. QED
  BY <1>1, <1>2, <1>3, PTL DEF Spec, OneActiveRunUnstopped
=============================================================================
