------------------------------- MODULE Workspace -------------------------------
(***************************************************************************)
(* An Agent's configuration in its three copies: the store's record, the   *)
(* AgentVersion each run pins, and the AGENTS.md its child reads in the    *)
(* workspace.  updateAgent changes the record in a store mutation and      *)
(* rewrites the file afterwards, in no queue (agent-service.ts, workspace. *)
(* ts, walnut/context/agent-version-store.ts); the runs are Outbox's, who  *)
(* may overlap once the Agent's status was freed under one of them.        *)
(***************************************************************************)
EXTENDS Outbox

CONSTANTS
    Updates,       \* identities of update requests
    Configs        \* names, descriptions and instructions an Agent may have

VARIABLES
    config,        \* the Agent's record in the store
    snapshot,      \* agentAtStart of each run, or Blank
    versions,      \* the Agent's AgentVersions, the last one open
    pinned,        \* the number of the version a run pins, or 0
    instructions,  \* AGENTS.md: a configuration, Blank or Mixed
    update,        \* each update request: where it is, what it writes
    lost,          \* an update's write failed, or two of them overlapped
    freed          \* auxiliary: runs under which the Agent ceased to be "busy"

copies == <<config, snapshot, versions, pinned, instructions, update, lost>>
allVars == <<vars, copies, freed>>

Blank == <<"blank">>
Mixed == <<"mixed">>

\* createAgent writes the workspace, then stores the Agent.
WorkspaceInit ==
    /\ Init
    /\ config \in Configs /\ instructions = config
    /\ snapshot = [r \in Runs |-> Blank]
    /\ versions = <<>> /\ pinned = [r \in Runs |-> 0]
    /\ update = [u \in Updates |-> [at |-> "none", config |-> config]]
    /\ lost = FALSE /\ freed = {}

-----------------------------------------------------------------------------
(* A run: sendMessage takes the snapshot, executeRun pins its version.     *)

\* Whatever changes the status, the runs that are busy without it are noted.
StatusSeen ==
    freed' = IF agent' = "busy" THEN freed
             ELSE freed \cup {r \in Runs : run'[r] \in Busy}

Admit(r) ==
    /\ SendMessage(r) /\ StatusSeen
    /\ snapshot' = [snapshot EXCEPT ![r] = config]
    /\ UNCHANGED <<config, versions, pinned, instructions, update, lost>>

\* A version is minted when the configuration is not the latest one's.
Resolved(c) ==
    IF versions # <<>> /\ versions[Len(versions)] = c THEN versions ELSE Append(versions, c)

Resolve(r) ==
    /\ run[r] = "queued" /\ pinned[r] = 0
    /\ versions' = Resolved(snapshot[r])
    /\ pinned' = [pinned EXCEPT ![r] = Len(versions')]
    /\ UNCHANGED <<vars, config, snapshot, instructions, update, lost, freed>>

\* No child before the version is resolved.
RunStep(r) ==
    /\ Step(r) \/ OrphanExits(r)
    /\ run'[r] = "child" => pinned[r] # 0
    /\ StatusSeen /\ UNCHANGED copies

StatusStep ==
    /\ StartAgent \/ \E s \in Stops : StopStep(s)
    /\ StatusSeen /\ UNCHANGED copies

-----------------------------------------------------------------------------
(* updateAgent and writeInstructions.                                      *)

Goes(u, label) == update' = [update EXCEPT ![u].at = label]
IsBusy == agent = "busy"

UpdateAgent(u) ==
    /\ update[u].at = "none" /\ ~ IsBusy
    /\ \E c \in Configs : update' = [update EXCEPT ![u] = [at |-> "edit", config |-> c]]
    /\ UNCHANGED <<vars, config, snapshot, versions, pinned, instructions, lost, freed>>

\* The mutation looks again: a send may have been admitted since.
MayEdit_Unlocked == TRUE
MayEdit == ~ IsBusy

Writes(u) == update[u].at \in {"open", "write"}

Edit(u) ==
    /\ update[u].at = "edit" /\ MayEdit
    /\ config' = update[u].config
    /\ lost' = \E v \in Updates : Writes(v)
    /\ Goes(u, "open")
    /\ UNCHANGED <<vars, snapshot, versions, pinned, instructions, freed>>

RefuseEdit(u) ==
    /\ update[u].at = "edit" /\ ~ MayEdit
    /\ Goes(u, "refused")
    /\ UNCHANGED <<vars, config, snapshot, versions, pinned, instructions, lost, freed>>

\* writeFile opens the file, which empties it, and writes from its start.
OpenInstructions(u) ==
    /\ update[u].at = "open"
    /\ instructions' = Blank
    /\ Goes(u, "write")
    /\ UNCHANGED <<vars, config, snapshot, versions, pinned, lost, freed>>

\* A longer text written meanwhile keeps its tail.
WriteInstructions(u) ==
    /\ update[u].at = "write"
    /\ instructions' \in {update[u].config}
                         \cup (IF instructions \in {Blank, update[u].config} THEN {} ELSE {Mixed})
    /\ Goes(u, "done")
    /\ UNCHANGED <<vars, config, snapshot, versions, pinned, lost, freed>>

\* The store or the file system throws: 500, with the record perhaps changed.
UpdateThrows(u) ==
    /\ update[u].at \in {"edit", "open", "write"}
    /\ faults < MaxFaults /\ faults' = faults + 1
    /\ lost' = (lost \/ Writes(u))
    /\ Goes(u, "failed")
    /\ UNCHANGED <<lifecycle, run, files, reading, results, chain, orphans, crashes,
                   config, snapshot, versions, pinned, instructions, freed>>

\* initialize leaves AGENTS.md as it is.
RestartAll ==
    /\ Restart /\ StatusSeen
    /\ lost' = (lost \/ \E u \in Updates : Writes(u))
    /\ update' = [u \in Updates |->
           IF update[u].at = "edit" \/ Writes(u) THEN [update[u] EXCEPT !.at = "failed"]
           ELSE update[u]]
    /\ UNCHANGED <<config, snapshot, versions, pinned, instructions>>

WorkspaceNext ==
    \/ \E r \in Runs : Admit(r) \/ Resolve(r) \/ RunStep(r)
    \/ \E u \in Updates :
          \/ UpdateAgent(u) \/ Edit(u) \/ RefuseEdit(u)
          \/ OpenInstructions(u) \/ WriteInstructions(u) \/ UpdateThrows(u)
    \/ StatusStep \/ RestartAll

WorkspaceSpec == WorkspaceInit /\ [][WorkspaceNext]_allVars

-----------------------------------------------------------------------------
(* Property.                                                               *)

\* The types of the three copies.
CopiesTypeOK ==
    /\ TypeOK
    /\ config \in Configs /\ snapshot \in [Runs -> Configs \cup {Blank}]
    /\ versions \in Seq(Configs) /\ pinned \in [Runs -> 0..Len(versions)]
    /\ instructions \in Configs \cup {Blank, Mixed}
    /\ update \in [Updates -> [at : {"none", "edit", "open", "write", "done",
                                     "refused", "failed"}, config : Configs]]
    /\ lost \in BOOLEAN /\ freed \subseteq Runs

\* What a Run's record says it ran with is what it ran with: as long as it is busy the
\* version it pins is the stored configuration, and AGENTS.md says the same (workspace.
\* ts:33) unless an update that was admitted before it is still writing, its write was
\* lost to a fault or a restart, or two updates wrote in another order than they were
\* stored (agent-service.ts:139).  It holds while the Agent's status says "busy": once
\* a stop, or another run that ends or fails late, freed the Agent under the Run, an
\* update is admitted and nothing of this holds for it.
RunsAsPinned ==
    \A r \in Runs \ freed : run[r] \in Busy /\ pinned[r] # 0 =>
        /\ versions[pinned[r]] = config
        /\ \/ instructions = config
           \/ lost \/ \E u \in Updates : Writes(u)
=============================================================================
