------------------------------ MODULE AuditedState ------------------------------
(***************************************************************************)
(* A governed change: the mutation of a JSON state (JsonFileState) and,    *)
(* once it resolved, the event its route appends to the governance chain   *)
(* (Ledger), as the routes that issue and revoke grants do.  The event's   *)
(* payload names its mutation.  A restart hits both files at once.         *)
(***************************************************************************)
EXTENDS JsonFileState, FiniteSets

CONSTANTS
    Forged, None,
    MaxEdits,     \* bound: edits of the chain behind the server's back
    MaxMishaps    \* bound: faults, restarts, edits and overwrites in all

ASSUME Payloads == Forged \notin Mutations /\ None \notin Mutations
ASSUME MoreBounds == {MaxEdits, MaxMishaps} \subseteq Nat

VARIABLES
    lines, terminated,   \* the chain's file
    appends,             \* append requests not settled yet
    step, tip,           \* where the first of them is
    reported,            \* how the append of each mutation's event settled
    edits

chain == <<lines, terminated, appends, step, tip, reported, edits>>
state == <<file, cache, loads, head, overwrites>>
all   == <<vars, chain>>

L == INSTANCE Ledger WITH
    Events <- Mutations, queue <- appends, phase <- step, head <- tip, answer <- reported

Report_Early(m) == answer[m] = "pending"
Report(m) == answer[m] = "ok"

\* The route goes on after its mutation resolved, for each of them on its own.
AppendEvent(m) ==
    /\ Report(m)
    /\ L!AppendEvent(m)
    /\ UNCHANGED state

ChainStep == L!Verify \/ L!ReadHead \/ L!Write

StateStep ==
    \/ \E r \in Readers : Read(r) \/ EndRead(r)
    \/ \E l \in Loaders : OpenFile(l)
    \/ \E m \in Mutations : Mutate(m)
    \/ Begin \/ EndLoad \/ Persist \/ PersistFails \/ Swap

AuditedInit == Init /\ L!Init
AuditedNext ==
  /\ \/ StateStep /\ UNCHANGED chain
     \/ \E m \in Mutations : AppendEvent(m)
     \/ (ChainStep \/ L!WriteFails \/ L!Edit) /\ UNCHANGED state
     \/ Restart /\ L!Restart
  /\ faults' + crashes' + edits' + overwrites' <= MaxMishaps

\* The event loop keeps running the append at the front of the chain's queue.
AuditedSpec == AuditedInit /\ [][AuditedNext]_all /\ WF_all(ChainStep /\ UNCHANGED state)

-----------------------------------------------------------------------------
(* Properties.                                                             *)

\* INV-15, for edits inside the history: whatever the edit and whichever append was
\* between its read and its write, verifyChain names a broken line; and it never cries
\* tamper for concurrent appends, changes that throw or loads (ledger.ts:58-109).
ChainEditDetected == L!EditDetected /\ L!IntactIfUnedited

\* Until an edit, a failed write or a restart the chain's file and its queue are
\* the append-only log, step by step.
ChainImplementsLog == L!ImplementsLog

\* Every append is answered, behind a rejected one too (ledger.ts:101-107).
ChainAppendsSettle == L!AppendsSettle

\* What the governance chain tells happened and lasts (walnut-routes.ts:542-590): as
\* long as no load puts an older state back, a change with an event in the chain is
\* in the state's file, across throws, rejected appends and restarts.  The other way,
\* a chain that verifies has every event whose append resolved, though another append
\* failed half-way through its write; only a second edit could hide that one is gone.
Told(m) == \E i \in 1..Len(lines) : lines[i].body = m
Changed(m) == \E i \in 1..Len(file) : file[i] = m
ChainTellsState ==
    \A m \in Mutations :
        /\ Told(m) /\ overwrites = 0 => Changed(m)
        /\ reported[m] = "ok" /\ edits <= 1 /\ L!Verifies(lines) => Told(m)
=============================================================================
