# Walnut Rewind in TLA+

Walnut Rewind is a control plane for coding agents. One Node.js process
(`apps/server`) keeps Agents with a workspace each, runs the Codex CLI for them
as a child process, gives every run a *capsule* of authorized Evidence, turns
what the run leaves in its outbox into new Evidence, writes everything to hash
chained ledgers, and, when Evidence is revoked or compromised, finds the runs
that depend on it, marks them and replaces them.

This directory models the parts of that program in which order, failure and
restarts matter, checks them with TLC and proves the central results with TLAPS.
Paths below are relative to `apps/server/src/` unless they start at the root.

## 1. The system

### Components

| Component | State it keeps | Operations | Where |
|---|---|---|---|
| `AgentService` (`agent-service.ts`) | agents and runs in the `JsonStore`; in memory `activeExecutions`, `cancellationRequests` | create, start, stop, delete, update an Agent; `sendMessage`; the background `executeRun`; `initialize` after a restart | `AgentService`; update in `Workspace` |
| Codex runner (`codex-runner.ts`, `container-codex-runner.ts`, `runner-factory.ts`) | the `active` map, flags of each child | `run`, `cancel`, timer, output bound, exit ladder | `AgentService` (life cycle), `RuntimeStream` (output) |
| `JsonStore` (`store.ts`) | one JSON file and its copy in memory | `initialize`, `snapshot`, `mutate` | atomic actions in `AgentService` |
| `WorkspaceManager` (`workspace.ts`) | a directory per Agent, `AGENTS.md` in it | `create`, `writeInstructions`, `archive` | create and archive in `AgentService`, the file in `Workspace` |
| JSON file state (`walnut/shared/json-file-state.ts`) | a file, its cached copy, a queue of mutations; under seven stores | `read`, `mutate` | `JsonFileState`, with the ledger in `AuditedState`; atomic or in two steps in the other modules |
| Evidence write service and store (`walnut/evidence/evidence-write-service.ts`, `evidence-store.ts`) | source pointers, citations, Evidence versions | `createEvidence`, `supersede`, `revoke`, `compromise` | `Evidence` |
| Citation verifier, workspace source | none | verify a quote, read a file | operators of `Evidence` |
| Ledger (`walnut/evidence/ledger.ts`) | one NDJSON file per chain, a promise queue per chain | `append`, `verifyChain` | `Ledger`, `AppendLog` |
| Runtime stream (`consume-codex-jsonl.ts`, `runtime-event-sink.ts`, `codex-event-adapter.ts`) | partial line, queue of records | chunk, line, flush, done | `RuntimeStream` |
| Projector and blast radius (`walnut/dependency/projector.ts`, `blast-radius.ts`) | none (pure) | `projectGraph`, `computeBlastRadius` | `DependencyGraph`, `BlastRadius` |
| Context broker and capsule store (`walnut/context/context-broker.ts`, `capsule-store.ts`) | capsule files and their index | `build`, `renderPrompt` | `Context`; its reads and writes again in `Recovery` |
| Run states, reconciliation, invalidation routes (`walnut/dependency/run-state.ts`, `reconciliation.ts`, `walnut/routes/walnut-routes.ts`) | transitions of each run, reconciliation records, a promise queue | revoke and compromise routes, `markStale`, `markTainted`, `markRecovered`, `reconcile` | `Recovery` |
| Outbox (`walnut/evidence/outbox.ts`, `agent-service.ts` 418-482) | `outbox.json` and its processed copies in the workspace | read what a run left, create Evidence from it, rename it, tell the chain | `Outbox`; one step of `AgentService` |
| Authorization (`walnut/auth/evaluator.ts`, `grant-store.ts`, `policy.ts`) | grants, stored decisions | `authorize`, `issue`, `revoke`, `listFor` | `Authorization`, `Sharing` |
| Share service (`walnut/context/share-service.ts`) | none | `share` | `Sharing` |
| Workspace artifacts (`walnut/evidence/workspace-artifacts.ts`) | artifacts | diff the workspace around a run | single steps of `AgentService`, `BlastRadius` |
| Conflict detector, clarifications, temporal resolver (`walnut/context/`) | open clarification requests | `detectConflicts`, `save`, `versionKnownAt` | operators of `Context` |
| Agent versions (`walnut/context/agent-version-store.ts`) | a list of versions per Agent | `resolve` | `Workspace` |
| Web console (`apps/web/src`) | the page's state: list, selection, messages, latest run, polls; the drawer's tabs and panels | what the user clicks, every request and answer | `Console` (the page), `Panels` (the drawer), `Page` (both) |
| Renderer, redactor | - | - | not modelled, see section 7 |
| Deployment, demo, documents | - | - | not modelled |

### How they interact

Everything runs on one event loop; what interleaves is asynchronous handlers at
their `await`s. A request enters through a route. `sendMessage` admits a run in one
store mutation and starts `executeRun` without waiting for it. `executeRun` calls the
broker (capsule), the workspace diff, the runner (child process), the outbox
(`createEvidence` per record) and the ledger between them. Stop and delete requests
set a flag, signal the child and await the same promise `executeRun` settles. A
revoke or compromise request changes the Evidence store, appends to the
governance chain, reads all the stores to build the graph, and marks runs. A
reconcile request calls `sendMessage` and polls for the new run's capsule. A share
request reads the Evidence, authorizes the sender, authorizes the recipient,
issues the grants the recipient lacks one after another and authorizes it again, while
operators issue and revoke grants.

### What is hard here

* Requests that overlap at their awaits and share a map, a flag or a status
  (stop against send, compromise against a capsule being built, two reconciles).
* State read before an await and used after it (the broker's candidates, the
  contributors of new Evidence, the Evidence of a share, the head of a chain, the graph's
  stores, the first load of a file).
* Several stores and the ledger change one after another: a failure or a restart in
  between leaves the first without the second.
* A child process that is cut anywhere, exits late, ignores a signal, or writes
  lines that are not what the parser expects.
* A client that shows what a server said some time ago: answers that come back for
  something else than what is selected now.
* Everything that must still happen: a run settles, a request answers, a queue
  goes on after a rejection.

`PROJECT.json` lists these at their lines (`hazards`) with the properties that
cover each.

### What makes each component correct

* **AgentService**: one child process per Agent, but for the orphans of an earlier server; nothing
  stays queued or busy without an execution; a settled run keeps its outcome; the run's chain
  agrees with the store; runs settle and requests answer.
* **Evidence**: no Evidence without content that held its quote; at any instant one
  version is believed; usable only if audited; told in the order of its versions.
* **Context**: a capsule is what was believed at one instant, holds nothing that
  disagrees, and is on record with its decisions before a prompt is rendered from it.
* **Configuration**: the version a run pins is the configuration it ran with, while its Agent is busy for it.
* **JSON file state**: the log of the mutations that resolved, nothing lost, whatever throws;
  what the governance chain tells of it is true.
* **Outbox**: every entry of an outbox a run read becomes Evidence of that run or is told as rejected;
  no two runs that came through make Evidence of the same entry.
* **Authorization, sharing**: an ALLOW rests on grants in force of the Agent it is about; a
  share bridges missing scopes and nothing else.
* **Ledger**: an append-only log; an edit of the history is detected and never hidden by
  a later append.
* **Runtime stream**: the chain of a successful run has every line of the child's output, in order, as it
  was but for a character that the pipe cut.
* **Blast radius**: exactly what came from the trigger.
* **Recovery**: every dependent run that the store still leads to is marked, marks are justified, a
  recovery answers a mark, records tell the truth and name every replacement.
* **Web console**: what is shown belongs to what is selected; a page at rest tells the
  server's truth; no panel waits for an answer nobody asked for.

## 2. Modules

| Module | What it is |
|---|---|
| `AgentService` | one process: Agents, runs, children, stop and delete requests, restarts |
| `Evidence` | Evidence records, two-step store mutations, the governance queue |
| `AppendLog` | abstract specification of a chain and of a JSON state: an append-only log of what was accepted |
| `JsonFileState` | one file, its cache, loads and queue; refines `AppendLog` |
| `Ledger` | one chain's file and its three-step append; refines `AppendLog` |
| `AuditedState` | a JSON state whose changes are told on a chain; composes `JsonFileState` and `Ledger` |
| `Context` | capsules, decisions, clarifications and prompts over the Evidence store; extends `Evidence` |
| `RuntimeStream` | a child's stdout to its run's chain |
| `DependencyGraph` | the projected graph as operators, with two reference definitions |
| `BlastRadius` | the records as they come about, and the walk over their graph |
| `Recovery` | capsules, invalidation, marking, reconciliation; extends `DependencyGraph` |
| `Outbox` | an Agent's outbox through a series of runs, which may overlap |
| `Workspace` | an Agent's configuration, the versions its runs pin and `AGENTS.md`; extends `Outbox` |
| `Authorization` | what the evaluator decides, as operators over grants, policy and Evidence |
| `Sharing` | grants, shares and the events they report; composes `Authorization` |
| `Console` | the page and the API it talks to |
| `Panels` | the drawer of one run: tabs, history panel, commands |
| `Page` | the page with its drawer; extends `Console`, composes `Panels` |
| `Places` | what a filter leaves of a sequence, for `RuntimeStream` and `Panels` |
| `MC...` | TLC instances: symmetry sets and state constraints |
| `AgentServiceProofs`, `AuditedStateProofs`, `WorkspaceProofs`, `SharingProofs`, `RecoveryProofs`, `ContextProofs`, `RuntimeStreamProofs`, `PageProofs` | theorems and proofs about the module of that name and those it composes: `AuditedStateProofs` is also about `JsonFileState` and `Ledger`, `ContextProofs` about `Evidence`, `WorkspaceProofs` about `Outbox`, `PageProofs` about `Console` and `Panels`; `RecoveryProofs` is also about `BlastRadius` |

An operator whose name ends in a suffix after `_` (`MayStart_EvenBusy`,
`Signal_Marked`, ...) is not part of a specification. It is a deliberately wrong
variant of the definition that follows it, the way a plausible bug would have
it, and shows that the property named with it in `PROJECT.json` notices.

### Granularity

JavaScript runs a callback to its end, so an action is what the code does
between two awaits that can be overtaken by another handler: a store mutation
with the synchronous code that follows it, a ledger append, a child process event.

**`AgentService`.** `pc[r]` is where `executeRun` of run `r` is, with one action per await
(`StartRun` .. `EmitCompleted`, `CatchRun`, `EmitCaught`). `AwaitThrows` is the exception
edge of every await in the `try`, `ExecutionRejects` a throw inside the `catch`. `Spawn`,
`ChildError`, `HitLimit`, `Close` and `Drain` are the runner; `HitLimit` stands for the timer
and for the output bound, which do the same. Each stop or delete request is a
client: `CancelExecution` sets the flag, signals the child and chooses what to await,
`ChildClosed` and `RunOver` are the two awaits, then `MarkStopped`, or `Archive` and
`RemoveAgent`. `JsonStore.mutate` is atomic: its queue runs one mutation at a time and the
readers see a mutation only once it persisted; mutations here may be taken in any
order, which includes the order they were queued in. `Restart` loses the in-memory
state and runs `initialize`. Neither the shutdown handler (`index.ts:201-208`) nor a crash kills the children:
each that was up may become one of the `orphans` and go on in the workspace, where no map knows of it,
until `OrphanExits`.

**`Evidence`.** Here the two steps of `JsonFileState.mutate` are kept apart (`draft`, then
`Persist`), since readers see the old data in between. `createEvidence` is `CreateEvidence`
(checks against the store it read), `ReadSource`, `AppendPointer`, `Verify` (the second read
of the file), `AppendEvidence`, `AppendCreated`, and `Compensate` when the audit append throws. A
transition request is `MoveEvidence` followed by its append to the governance chain, in
the chain's own queue. The cited file is in one of three contents: quoting at the
cited offsets, something else, or gone.

**`Context`.** A build is `ListCandidates`, `Stamp`, one `Authorize` per candidate in any order (the
code's order is the store's, which no property tells apart), `Clarify` or `Assemble`, `SaveCapsule`, `SaveIndex` and
`RenderPrompt`. A claim is a key and a hash, or no key. Grants and ceilings are in `Authorization`: here they
allow or deny anything that was ACTIVE when listed. The regime is chosen in `ContextInit`: no build
and every mishap the Evidence can meet, or a build among fewer requests.

**`AuditedState`.** The JSON state of `JsonFileState` and the chain of `Ledger` in one process: the route of
a change (`walnut-routes.ts:542-590` for grants) goes on to `AppendEvent` once its mutation
resolved, each on its own. A restart hits both. Both keep their refinement of `AppendLog`.

**`Ledger`.** One chain. `Verify`, `ReadHead` and `Write` are the two reads and the write of
one append; requests wait in the chain's promise queue. A line is a record or
`Garbage`. SHA-256 is an injective constructor. `Edit` changes the file behind the
server's back inside its history; `CutShort` is what a failed or interrupted write
leaves (nothing, part of a record, a record without its newline, the whole line).

**`RuntimeStream`.** The child's stdout is a sequence of pieces (the two halves and the newline of
each line), cut into chunks anywhere. A cut between the halves of a line that has a character
there divides it: each chunk is decoded by itself (`chunk.toString("utf8")`), so both pieces come out `Torn`. The runner's parser acts at once, the
sink's queue lags behind (`Accept`), and `Close` flushes the trailing line. Splitting and
filtering are stated with the places of the newlines in order (`Ascending`, `Starts`, `Chosen`), which is
what the provers can reason about; the library's `SelectSeq` is a recursive definition.

**`BlastRadius`.** The records grow (`StartRun`, `AddEvidence`, `CaptureAfter`) and shrink
(`DeleteAgent`) in any order, then a trigger is chosen and the walk runs one queue item
at a time. The code's queue is first in first out; the model takes any item, so
the result is shown for every order.

**`Recovery`.** A run reads its candidates (`ListCandidates`), decides for many awaits, and
saves (`SaveCapsule`, `IndexCapsule`: the file first, then the index). What
authorization decides is a choice of a subset. A revoke or compromise request is `Transition`,
`EmitTransition`, `BuildGraph` and one `MarkRun` per run: the runs are a snapshot of the first store read, the
others are read later. The walk is replaced by what the theorem `Exact` shows it to
return (`Reachable`). A reconcile request is `CheckRun` to `AppendRecord`, one label of
`request[q].at` per await; only the head of the promise queue is served. `RunsDeleted` is the mutation that deletes an
Agent: its runs leave the store, and with them, for every graph read later, the edges through them; capsules, states and records stay.

**`JsonFileState`.** A state is the sequence of the mutations it went through. A load is three
steps, `Read` or `Begin` (the mkdir), `OpenFile` (which file it reads: `persist` renames a new one
over it) and the assignment to the cache; loads of readers are not queued. A
mutation is `Begin` or `EndLoad` (the callback on the clone), `Persist` (the rename) and `Swap`.

**`Outbox`.** Runs are admitted on `agent.status`, as the code admits them, so they overlap where the code
lets them: a stop that waits for one execution and marks the Agent stopped over another, a `run.completed` that
cannot be appended (`EndThrows`, `CatchRun`), a run that ends under another one. What decides this is kept from
`AgentService` (`SendMessage`, `StartAgent`, `StopAgent`, `ChildClosed`, `MarkStopped`, `CompleteRun`, `CatchRun`,
`Restart`) and the rest of `executeRun` is left out. Each run's child writes the file, in one step of any content, while it
is up or an orphan; then come the steps of `processOutbox` and of its caller: `ReadOutbox`, one
`IngestEntry` per entry, `RenameOutbox` (of the file that is there by then), the events, and `OutboxThrows` at each of
them. An entry is a model value that one child wrote. `createEvidence` accepts, refuses or throws, the latter
before or after it stored. Two auxiliary variables name what the properties except: `cut` (a run interrupted between
read and rename, or whose file another run read meanwhile) and `rewritten` (a run whose file a child wrote meanwhile).

**`Workspace`.** `Admit` is a send with the snapshot it takes, `Resolve` what `executeRun` does with it
first. An update is `UpdateAgent` (the check outside the queue), `Edit` (the mutation with its own check of the
status), `OpenInstructions` and `WriteInstructions`: `fs.writeFile` empties the file and writes from its start, so a
longer text of another writer keeps its tail (`Mixed`). A configuration is a value; an update
writes the whole file from the record its mutation returned. The auxiliary `freed` names the runs under which the
Agent ceased to be busy.

**`Console`, `Panels`, `Page`.** A call has three moments: the page issues it, the server answers, the page
applies the answer. Setting the selection, the render that publishes it in `selectedIdRef` and the
effect that follows (`Select`, `Render`, `Effect`) are three moments of their own. `inOrder` chooses between a network that keeps calls and
answers in order and one that does not; `Lose` is a request that fails. The server is reduced to what the page can
see: the Agents' status and, for each, the status of its runs in the order they started (a run is its
Agent and its number; a deleted Agent loses its runs and is never created again, as identities are random). In `Panels` what the server knows of
a run is a version number that commands and others raise; the four commands that refresh the
drawer differ in nothing the drawer sees. `Page` ties them: the drawer follows the page's run, and a reconciliation it orders
may start a run and a message of the Agent on the server (`Replaced`) of which the Console hears nothing. A run whose
`run.completed` cannot be appended goes from completed to failed and its Agent to error (`Lapse`). Restarts of the server are left out.

**`Authorization`, `Sharing`.** `Authorize` is the evaluator's ladder of checks: the first that
fails is the reason. A grant is a record with a pattern (one scope or all) and a state (open,
dated, expired, closed), so time is the step `Expire`. A share is one label per await
(`CheckSender`, `CheckRecipient`, `IssueNext`, `Recheck`, `EmitShared`); the decisive read of each check is the
one of the grants. The routes that issue and revoke are two steps, the store's
and the event's.

## 3. Runs

| Run | What it checks | Result |
|---|---|---|
| `agent_safety` | `OneProcessPerAgent`, `NothingStranded`, `CompletedIsIngested`, `ChainTellsOutcome`, `SettledIsFinal` | holds |
| `agent_liveness` | `RunsSettle`, `CallsReturn`; `OneActiveRunUnstopped`: one active run per Agent while nobody stops or deletes and no append of `run.completed` throws | holds |
| `context_safety` | `Provenance`, `OneBelief`, `UsableIsAudited`, `AuditInVersionOrder` of the Evidence; `NoSilentPick`, `ContextIsOnRecord`, `CapsuleIsSnapshot` of what a Run is told | holds |
| `audited_state` | `ImplementsLog` and `ChainImplementsLog`: state and chain refine `AppendLog`; `ChainEditDetected`, `ChainAppendsSettle`, and `ChainTellsState` between the two | holds |
| `state_first_load` | `ResolvedStay`: a resolved mutation stays in the file | violated |
| `stream_safety` | `ChainKeepsOrder`, `SuccessIsRecorded` | holds |
| `blast_walk` | `WalkIsExact`, `RadiusIsDownstream` | holds |
| `recovery_safety` | `TaintReaches`, `MarksAreJustified`, `CompletedIsRecovered`, `OneRecoveryPerMark`, `ReplacementsRecorded` | holds |
| `recovery_race` | `ConsumersAreMarked`: no clean run holds invalidated Evidence | violated |
| `workspace_safety` | `EntriesAccounted`, `IngestedOnceUnharmed` of the outbox, with overlapping runs and orphans; `RunsAsPinned`: the configuration a busy run pinned is stored and in `AGENTS.md` | holds |
| `sharing_safety` | `AllowIsGranted`, `TransferBridgesOnlyScopes`, `TransferSuffices` | holds |
| `page_safety` | `ShownIsSelected`, `QuietIsTrue` of the page; `PanelsShowAsked`, `PanelsLoad`, `PanelsSeeCommand` of the drawer | holds |

Type invariants are no property of a run. They are stated for the proofs: `TypeOK` is proved for
`AgentService`, `BlastRadius`, `JsonFileState`, `AuditedState`, `Evidence` and `RuntimeStream`; the other proofs
carry the part of it that their argument needs.

### Where the code and its documents disagree

1. **`state_first_load`.** A reader that opens the file before the first mutation of the process
   renamed a new one over it, and finishes after it resolved, puts the old state into
   the cache (`ensureLoaded` does not look whether it was filled meanwhile). The next mutation
   clones the old state and persists it: the resolved one is gone. Only the first loads
   after a start are exposed.
2. **`recovery_race`.** The broker's candidates are read long before the capsule is saved.
   Evidence compromised in between is in the capsule, no capsule was in the graph when the
   radius was computed, and the run stays CLEAN.

The next four have no run of their own: the models contain them, and the properties are stated with the
condition each of them forces.

3. `docs/ARCHITECTURE.md:32-33` says that one Agent can have only one active run. `stopAgent`
   waits for what `cancelExecution` finds, then marks the Agent stopped without looking whether a send
   made it busy meanwhile; `startAgent` makes it ready and a second send is admitted while the
   first run is active. The claim (`OneActiveRun`) holds only while nobody stops or deletes and no append of `run.completed`
   throws (`OneActiveRunUnstopped`; the theorem `OneActive` shows that there is no third way).
4. `outbox.ts:167` says that every entry has been read when the file is renamed. `rename` takes the
   file that is there: what the child of an overlapping run, or an orphan, wrote since the read goes with it, unread
   (`rewritten` in `EntriesAccounted`).
5. The same comment, and `outbox.test.ts:73`, say that a restart never double-ingests. The entries are
   Evidence one by one before the rename, so a restart in between lets the next run ingest them again
   (`cut` in `IngestedOnceUnharmed`).
6. `specs/002-ledger-record-format.md:102` has `rawHash` be of the raw bytes. Each chunk is decoded
   by itself (`codex-runner.ts:180`), so a character that the pipe cut becomes replacement characters, and the hash is of
   those (`Torn` in `SuccessIsRecorded`).

Further limits of the code, which the models contain and which explain why
some properties are stated with a condition:

* Runs of one Agent overlap (3. above), so what follows cannot assume that they do not. One map still keeps one child per
  server and Agent: the second run's is refused, or comes when the first one's is gone. The claim breaks without any stop when
  the append after `CompleteRun` (`agent-service.ts:484-520`) throws: the Agent is ready already, a second send makes it
  busy, and the catch block (521-552) sets it to error, so a third is admitted while the second runs.
* A restart leaves the children of the old server (`index.ts:201-208` closes neither runner nor service), while `initialize`
  cancels their runs and makes their Agents ready: the next run's Codex shares the workspace with the orphan, which neither a
  stop nor the timer reaches. `OneProcessPerAgent` says that there is no other way to two processes, and whose the second is.
* A run that is cancelled at its start has no `run.requested` on its chain, nor has one whose append of it threw; a
  clarification fails a run without a closing event; an execution that rejects closes nothing (`ChainTellsOutcome` says which).
* An outbox is renamed after its entries are Evidence (5. above), and two ingestions may read one file when their runs overlap:
  `IngestedOnceUnharmed` says that of two runs with Evidence of one entry, one was cut short between read and
  rename or had not renamed the file when the other read it.
* `updateAgent` looks at the Agent's status, not at its runs: when a stop or another run's end freed it under a busy
  run, the edit is admitted and the run's version is no longer the stored configuration. `RunsAsPinned` holds for runs
  under which the Agent stayed busy (all but `freed`).
* A revoke or compromise request that throws makes none of the marks it still owed, and nothing but another request for the
  same Evidence makes them later. `TaintReaches` is about requests that were answered.
* Deleting an Agent removes its runs from the store, and the projector drops the edges through them: what depends on
  the Evidence only by way of such a run is not marked. `TaintReaches` then asks for what the runs still in the store lead to (`Due`).
* `reconciliation.ts:216-220` says that a replacement is never orphaned: it is when the append of its own record throws,
  or the server goes down before it. `ReplacementsRecorded` shows that nothing else forgets one: whichever
  other call fails, the record is appended in the catch path.
* A share issues its grants one at a time and reports them in one event at the end: a throw in
  between leaves grants in force that no event tells.
* Between the commit of new Evidence (`evidence-write-service.ts:253`) and the transition that takes it back
  when its audit record could not be written (279) it is ACTIVE: a capsule built in between holds it, and
  this transition, unlike a compromise request, marks no run. The comment at 275-278 promises that it
  is not "usable unaudited". `UsableIsAudited` is about the Evidence at rest.
* `updateAgent` writes `AGENTS.md` after its mutation and in no queue: two updates may leave the older
  text, a restart or a throw in between leaves it too, and no start rewrites it, although
  `workspace.ts:33` says that it "contains the current Agent instructions" (`RunsAsPinned` names these cases).
  A child may also change the file itself; that is not modelled.
* A capsule whose index entry was not written stays on disk and is found by nothing.
* The page refreshes nothing after a reconciliation it ordered itself but the drawer (`OverviewPanel.tsx:87-97`): the replacement
  run makes the Agent busy and brings a message of which a quiet page shows nothing. Nor does it hear of a run that
  goes from completed to failed after its loop ended. `QuietIsTrue` is about pages without such a run (`unsent`, `faults`).
* The page: (1) a load that finds a run active while its poll of an earlier visit still waits joins
  that poll, which ends for the other visit (`App.tsx:111-120`, 212); (2) an Agent that was busy when the page opened and is
  not selected stays "busy" in the list (`unsent`); (3) answers of `refreshAgents` on a network that
  reorders leave an older list; (4) a refused second send clears the run that is still active
  (`App.tsx:250`); (5) messages and the answer of a send may cross, so that the user's message shows twice or
  not at all; (6) the messages of the Agent selected before stay when the load fails. `ShownIsSelected` and `QuietIsTrue` carry
  the conditions these force.
* The drawer: (1) a command that is answered when the drawer went on to another run leaves
  that run's tabs loading (`WalnutDrawer.tsx:163-168`, `strays`); (2) on a network that reorders an older
  overview may come after the newer one; (3) the panel that would show the result of a successful revocation
  or reconciliation is unmounted by the refresh (`OverviewPanel.tsx:87-112`).
* `recordedAt` is read before the two store mutations that make an Evidence version
  visible: an as-of query for an instant in between changes its answer.
* A ledger write that stops between a record and its newline leaves a chain that verifies; the
  next append resolves on the same line, and from then on the chain is refused.
* A chain whose last lines were removed verifies (`Edit` leaves truncation out), and so does one whose
  edited line was edited back: `ChainEditDetected` and `ChainTellsState` are about one edit.
* Evidence produced by a tainted run stays ACTIVE; its replacement may consume it and the
  run is RECOVERED all the same.
* The JSON line `null` throws in the stdout listener and takes the server down (`Chunk`).

## 4. Bounds

| Run | Bound | Why it is enough for the question |
|---|---|---|
| `agent_safety` | 1 Agent, 2 runs, 2 clients; `OneMishap`: one fault, lost mutation or restart in all, and after it one request at a time | overlap needs two runs and a request; stop against delete needs two. Agents share no state but the maps, which are per Agent |
| `agent_liveness` | 1 Agent, 2 runs, 1 client, no faults | what is waited for is one child and one execution; a fault only shortens a run |
| `context_safety` | 2 Evidence (each may derive from or supersede the other), 2 requests, 2 classifications, 2 instants, 2 edits of the file, 1 Run, 1 key and 2 hashes; `OneMishap`: without a build one fault or restart, and edits with one request at most; with a build one request, one fault or restart, no edits, and Evidence that derives from nothing | a version conflict needs two requests, a supersession or a disagreement two Evidence; builds of two Runs share only files whose writes are queued |
| `stream_safety` | every output of 3 lines of 9 kinds, every cut, 1 fault, 1 limit | a line that is rejected, one before it and one behind it; lines that are cut, with and without a character there |
| `blast_walk` | 2 Evidence, 3 runs, 2 Agents, 2 sources | the shortest path through every edge, with a deleted Agent in the middle; the theorems have no bound |
| `recovery_safety` | 2 Evidence, 3 runs, 2 invalidations, 2 reconciles, 1 poll; 1 fault, 1 restart; `Small` limits how many of these and of deleted runs one behavior has | a chain of consumption through two runs and a replacement; two requests for one run; two marks of one run |
| `audited_state` | 3 mutations with their events, 1 reader, 1 edit, and of throws, restarts, edits and overwrites 2 in all (`MaxMishaps`) | a mutation that loads, one behind it, one after a restart; an edit or a swap inside the history with an append behind it needs three lines |
| `workspace_safety` | 2 runs, 2 entries (2 in one file), 1 stop, 2 updates, 2 configurations, 1 fault, 1 restart; a behavior has an outbox or updates, and with updates a fault or a restart (`OneSide`) | a file left or found by either of two runs that overlap, with the child of one behind the other; two updates that overlap and runs before, among and after them. Updates and outbox meet in the runs only, and the theorems have both |
| `sharing_safety` | 2 Agents, 1 principal, 2 scopes, 2 shares, 3 grants of 5 kinds, 1 revocation, 1 fault, 4 policies; `Small` lets a share meet three other calls, or two shares two | a sender's grant, an expired one of the recipient and a revocation around one share; a share that meets another one's grants |
| `page_safety` | 2 Agents, 2 runs, 2 tabs; 3 user actions in the Console (1 on a network that reorders or next to the drawer), 1 lost request or late failure, 2 looks into the drawer, 1 change by others, 1 stray command | send, select away and come back; a tab, a command and another run. The drawer starts shut, or at rest over a finished run |

`MaxPolls` is 1 for `CAPSULE_POLL_ATTEMPTS`: the number of attempts only decides how late giving up
may come, and the model lets it come at any time. Clock readings, edits, faults and
restarts are counted in the guards of their actions. Symmetry is used in safety
runs only. Deadlock is not checked: a server to which nobody sends anything, or
whose bounded identities are used up, stops in every one of these models.

## 5. Fairness

* `AgentService`: weak fairness of every `Execute(r)` and `Serve(c)` (the event loop resumes a handler
  whose promise settled), of `HitLimit(r)` (the runner's timer), and of `Close(r)` of a child that was signalled
  (SIGKILL follows SIGTERM). A child's own exit, the clients, faults and restarts are
  not promised.
* `AuditedState`: weak fairness of the append at the head of the chain's queue (the event loop resumes it).
* The other modules have safety properties only.

## 6. Proofs

TLC shows a property for the bounds above, the theorems for every value of the
constants. They assume only the `ASSUME`s of the modules: bounds are natural
numbers, `None` is no identity, status or content, Evidence, runs and requests are different
identities, an absent or malformed outbox is no entry, the queue's own load is none of the readers, and what a share is given are Agents,
scopes, grants and policies (`Inputs`), there are finitely many Agents and tabs on a page, and what marks an
unanswered, consumed or failed request, a closed panel or a blank tab is no answer (`Marks`, `PanelMarks`).
Every invariant and every refinement a passing run checks is a theorem.

**`AgentServiceProofs`**

* `TypeCorrect`: `TypeOK`, with `Caught` (an execution in its catch block has caught something).
* `OneProcess`: `OneProcessPerAgent`. `Held` says that the runner's map and the executions that hold a child agree, and that
  an orphan's run was interrupted and is settled or removed; it needs `Placed` (a run that was minted has an owner, and
  one that still exists while the store holds the run: without it a step of a run with no Agent could free another
  one's entry) and `SettledAt` (so that no step of another run revives an orphan's).
* `Unstranded`: `NothingStranded`. It is not inductive: "some execution is alive" says
  nothing about what that execution still does. `StrandedInv` replaces it by `Undecided`: the
  execution has yet to write the outcome and free the Agent. The lemma `ExecDecides`
  shows that it does both in the step in which it stops being undecided.
* `SettledStays`: `SettledIsFinal`, from `SettledAt`: where the execution of a settled run
  can still be, and what it can still throw.
* `Ingested`, `ChainTells`: `CompletedIsIngested`, `ChainTellsOutcome`. `Told` says per run what its label
  already promises: ingested before `complete` (`IngestedAt`), how its chain began (`OpensAt`), a capsule on it from `capture` on
  (`CapsuleAt`), and between the store's write and the append that tells of it the outcome that
  append will name (`ClosesAt`).
* `OneActive`: `OneActiveRunUnstopped`. As long as nothing disturbs, a busy Agent stands for exactly one active run, and
  whoever has yet to decide an outcome is the execution of an active run (`Admitted`).

**`RecoveryProofs`**, on `BlastRadius`

* `RadiusTypeCorrect`.
* `Exact`: `WalkIsExact`. The invariant `WalkInv` is that of every worklist
  algorithm: what was found and left the queue has its successors found
  (`Expanded`), and what was found lies in every closed set around the seeds
  (`Minimal`). With an empty queue both give equality with the least such set.
* `Complete`: `RadiusIsDownstream`. `RecordInv`: while no Agent was deleted, no record names an
  entity that is gone, so the projected graph loses no edge and reachability in it is
  descent in the records (`ReachableIsDownstream`). `ArraysInv`: each output array holds what
  the expanded part of the walk leads to.

**`AuditedStateProofs`**

* `TypeCorrect`, `AuditedTypes`.
* `StateIsLog`: `ImplementsLog`, every step but a restart maps to a step of `AppendLog` or to none. The
  log is the file, less the head's change between the rename and the swap. The invariant needs
  `Opened` (nothing was written before the first load is over, and what the queue's own load
  opened is what the file holds) to get `Cached` (the cache is the file except between rename
  and swap), and `Waiting` (who is queued has no answer yet, and is queued once). `AuditedStateIsLog` says
  the same of the state whose changes are told on a chain.
* `ResolvedIsKept`: `ResolvedStay` as long as no load put an older state back (`overwrites = 0`), through throws and
  restarts (`Kept`). The violating run is this theorem's other half.
* `ChainIsLog`: `ChainImplementsLog`, the refinement of `AppendLog` by the three steps of a ledger append: before its
  `Write` an append is not in the log, and with it, it is, whoever reads in between.
* `EditIsDetected`: `ChainEditDetected`. A chain nobody edited has only good lines, but for a last one that was cut
  short (`Unedited`: what the running append read as head is still the head when it writes). One edit
  leaves a line that is out of sequence, not linked or not sealed (`EditBreaks`, by the kind of edit), and an append, wherever its reads and its write lie, adds a line behind it and repairs none (`Edited`).
* `ChainTells`: `ChainTellsState`. An append is asked for when its mutation resolved (`Asked`), so with `ResolvedIsKept` what
  a chain tells is in the file; and who resolved has its line, unless the line was cut short (`LastIsCut`).

**`WorkspaceProofs`**

* `Accounts`: `EntriesAccounted`. `Kept` says for every step of a run what it has to show:
  nothing yet (`Untouched`), an answer for each entry before the rest it still reads
  (`Reading`), a chain that is the rejections so far (`Telling`), everything (`Accounted`). Another run may be at the file
  meanwhile: `Reading` says what it can have done to it, renamed it (then this run's rename throws) or, by its child, written it.
* `Once`: `IngestedOnceUnharmed`. A run that was not cut short leaves nothing in the file that it ingested (`Leftover`), of two
  that are between read and rename one is noted (`OneReader`), and what others ingested of the entries
  left to a run, they ingested cut short (`Unused`).
* `Pins`: `RunsAsPinned`. An edit is refused while the Agent is busy, so a run under which it stayed busy has the
  configuration of now (`Admitted`), and the version it pinned holds that (`PinCurrent`). That a step of another run
  never makes the Agent busy again is `StepEnds`. For
  `AGENTS.md`: one update writes at most, what is stored, into a file it emptied (`OneWriter`), or a loss has been named.
* `AccountsAmongUpdates`, `OnceAmongUpdates`: the outbox theorems again, for the Agent of `Workspace`, whose updates
  leave the outbox alone and share its budget of faults.

**`SharingProofs`**

* `Bridges`, `Suffices`: `TransferBridgesOnlyScopes`, `TransferSuffices`. `ShareInv`: the grants a share wrote are
  one for each scope of what it read, in turn, each still that grant and open or closed (`Transfer`), and
  it writes only for a recipient who lacked nothing but scopes (`Lacking`). The lemma
  `AuthorizeFact` says what each answer of the evaluator means; with all the grants open no leg
  fails, so a refusal afterwards names a closed one.
* `Allows`: `AllowIsGranted`, an action property: the step that turns to ALLOW has the grants at hand.

**`RecoveryProofs`**, on `Recovery`

* `Recovered`, `OnePerMark`, `Recorded`: `CompletedIsRecovered`, `OneRecoveryPerMark`, `ReplacementsRecorded`. `Promise` says
  what holds of a reconcile request at each of its awaits. It is stable because only the head of the queue
  is served (`OneServed`), a replacement belongs to one request (`OneOwner`) and histories only grow. `Answering`: a recovery
  is preceded by a mark.
* `Reaches`, `Justified`: `TaintReaches`, `MarksAreJustified`. `Owes` says what an invalidation request still has to
  mark. The graph is read from stores that go on changing: `Accrues` shows that an edge, once there,
  stays, so the closure computed from any mixture of older reads holds the closure of
  the first and lies in that of now (`NothingLost`, `NothingAdded`). A deletion takes edges away only from the runs read first; what
  the stores hold of a deleted run stays, so for the runs that were read the argument is the same.

**`ContextProofs`**

* `TypeCorrect`, `Proven` (`Provenance`), `Usability` (`UsableIsAudited`), `Belief` (`OneBelief`), about the Evidence. A reader,
  or the next process, sees the store or the mutation that is being persisted, so the
  invariant is stated of both (`Futures`). `Chained`: versions are recorded and closed in order and the
  last alone is open; then no instant lies in two. `Placed` says where a `createEvidence` call stands (what
  it stored of its pointer, that nobody stored its Evidence), `Drafted` that a mutation under way was
  computed from the present store at one instant (`GrowsAt`), `Audited` that who will audit nothing left nothing usable.
* `NoPick`, `OnRecord`, `Snapshot`: `NoSilentPick`, `ContextIsOnRecord`, `CapsuleIsSnapshot`. Every step of the Evidence only closes
  what was open, and closes it now (`Onward`); so what a build listed stays in the store, keeps its
  status, and was open at the instant of its list (`OpenAt`, `StaysInView`). With a mutation under way
  that instant is not now but when the mutation was computed: this is why `Drafted` names it.
  `BuildInv` and `CapsuleInv` carry it from the list to the capsule.
* `AuditOrder`: `AuditInVersionOrder`. What the governance chain and its queue hold about an Evidence are, in order, the
  versions from the second on (`Recounted`), less the one that a mutation under way or a transition before
  its append still owes. Each step of `MoveEvidence` adds exactly the version its request will tell of (`Adds`), and a
  compensation, which tells nothing, cannot happen before an append has failed.

**`RuntimeStreamProofs`**

* `StreamTypeCorrect`.
* `SplitJoin`, a lemma about the operators alone: however a text is cut in two, its lines are the
  lines of the first part, then those of what the first part left over with the second behind it. It rests
  on there being one order of a finite set of numbers (`OrderUnique`, `OrderExists`: by the well-foundedness of `<`, since an
  induction theorem cannot be applied) and on where the newlines of a joined text lie (`OrderJoin`). `AudibleJoin` is the same
  for the lines forwarded.
* `ChainIsOrdered`: `ChainKeepsOrder`. `Forwarded`: the lines forwarded are the chain, then a rest, which is the
  queue until something rejected.
* `SuccessTells`: `SuccessIsRecorded`. `Consumed`: until the output bound, the lines handled and the buffer are those
  of the whole text delivered; with an empty queue and no rejection `Forwarded` gives equality.

**`PageProofs`**

* `SelectedShown`: `ShownIsSelected`. The conjunct that says so (`Belongs`) is stated between renders' effects; it is stable
  because an answer belongs to what it was asked for (`CallTyped`: the messages of a load are its Agent's, the run of a poll is
  that poll's), the Agent and run of every call and of everything on the page were once created (`Born`, `RunKnown`), and a
  loop has one turn under way (`Pairs`), so that the poll that ends it is the only one there is. Calls leave the queue from
  anywhere and new ones join it at its end: the lemma `CallsFollow` says of such a queue once that its calls are
  still well formed and still apart (`Follows`).
* `QuietTrue`: `QuietIsTrue`. A page at rest tells the truth because of what was in flight before, so `CalmInv` says it of
  every state, as long as nothing is reordered or lost and there was no run that the page did not send (`Calm`). The end of every active
  run will be heard of (`RunsWatched`): its loop goes on, or the answer of its send, which starts the loop, is on its way.
  The list, and likewise the selected Agent's messages (`ListSettles`, `TalkSettles`), is what the server has,
  or the last answer in the queue that brings one is, or one is still to be asked for or
  answered, or a watched run will ask for it when it ends (`Settles`). Answers stand in the queue in the order they were given, and what
  a later one says of a run is no older (`Turns`): otherwise a late "active" would start a loop that nothing ends. Without faults only a call
  about a deleted Agent fails (`Honest`), whose loop nobody needs, and the run a send brings is new to the
  page (`NewRun`): a loop that was there already, at its end, would have hidden it. Each lemma about a queue (`DropKeeps`, `AddKeeps`, `PutKeeps`,
  `PutBrings`) says of all these at once what a call that leaves, joins or is answered does to them.
* `AskedShown`, `LoadingAwaited`, `CommandSeen`: `PanelsShowAsked`, `PanelsLoad`, `PanelsSeeCommand`. `DrawerInv`: what a tab keeps is its own run's, or
  the reset is due (`KeptOK`); a tab that loads has its question in the queue (`Awaited`); on a network that keeps
  the order, answers stand in the queue in the order they were given, so their versions grow along it (`AskPair`), and none is
  older than what the drawer was told (`AskOK`). A drawer that goes on to another run filters its queue: `ChosenFollows` says what the
  filter leaves, and rests, like `SplitJoin`, on there being one order of a finite set of numbers. The drawer
  relies on the page for one thing, that a run it shows has started.

Left to TLC: liveness and everything that needs `ENABLED` (`RunsSettle`, `CallsReturn`, `ChainAppendsSettle`). No module declares a recursive operator.

## 7. Not modelled, and the plan

Not modelled:

* Text: redaction patterns, rendering, prompts, quotes. Hashing and canonical form are an injective constructor.
* HTTP parsing, the access token and wiring (`app.ts`, `index.ts`, `config.ts`); the read-only
  routes and the attestation of `walnut-routes.ts`.
* Walking and hashing a workspace (`workspace-artifacts.ts`), path safety and `recheck` of a citation.
* Of the console: forms, error banner, system information, the tour, `DependencyPanel`, `ScenarioRail`, layout.
* What replaces a divided character; the identity and isolation of a container; what an orphan does besides writing the outbox.
* Deployment, demo data, scripts.

What would come next: reading the capsule directory against its index; restarts of the server under a page that stays open.

## 8. Running

    tlc -config AgentService_safety.cfg MCAgentService.tla
    tlc -config Context_safety.cfg MCContext.tla
    tlapm AgentServiceProofs.tla

`PROJECT.json` names the module and configuration of every run, the lines every
definition translates, and the theorems.
