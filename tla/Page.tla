--------------------------------- MODULE Page ---------------------------------
(***************************************************************************)
(* The page with its drawer: App.tsx renders the drawer for the run it     *)
(* shows, while the user has it open, and the selection effect closes it.  *)
(* A page is watched from its opening, with the drawer shut, or at rest on *)
(* an Agent's last run, with less to do in the Console.                    *)
(***************************************************************************)
EXTENDS Console

CONSTANTS
    Tabs, Closed, Unanswered, Blank, Fetching, Broken,
    MaxLooks,     \* bound: what the user does with the drawer
    MaxChanges,   \* bound: what others do to the runs' records
    MaxStrays,    \* bound: commands answered once the drawer shows another run
    MaxAside      \* bound: what the user does in the Console beside the
                  \* drawer, on a network that keeps the order

ASSUME PanelBounds == {MaxLooks, MaxChanges, MaxStrays} \subseteq Nat /\ MaxAside \in 0..MaxActs
ASSUME TabSet ==
    /\ IsFiniteSet(Tabs) /\ "overview" \in Tabs
    /\ Tabs \cap {"history", "command", "orphan"} = {}

VARIABLES
    showWalnut,   \* the drawer is open
    record, runId, resetDue, tab, kept, panel, asks, told, looks, strays, changes

P == INSTANCE Panels

ASSUME PanelMarks ==
    /\ Closed # Unanswered /\ Closed \notin RunIds
    /\ Blank # Fetching /\ Broken \notin {Blank, Fetching, Unanswered}
    /\ {Closed, Unanswered} \cap {Blank, Fetching} = {} /\ Closed # Broken
    /\ \A m \in {Closed, Unanswered, Blank, Fetching, Broken} :
          /\ m \notin [run : RunIds, version : Nat]
          /\ m \notin [nth : Nat, shown : {Closed} \cup
                         [nth : Nat, answer : {Broken} \cup [run : RunIds, version : Nat]]]

panels == <<record, runId, resetDue, tab, kept, panel, asks, told, looks, strays, changes>>
all    == <<vars, showWalnut, panels>>

-----------------------------------------------------------------------------
\* A page that has shown a run to its end, and is left with little to do.
AtRest ==
    /\ service = [a \in Agents |-> "ready"]
    /\ \E a \in Agents : /\ runs = [b \in Agents |-> IF b = a THEN <<"completed">> ELSE <<>>]
                         /\ selectedId = a /\ activeRun = Shown(<<a, 1>>)
    /\ unsent = FALSE
    /\ agents = AgentList
    /\ ref = selectedId /\ effectDue = FALSE
    /\ messages = MessagesOf(ref) /\ polls = {} /\ calls = <<>>
    /\ inOrder \in BOOLEAN /\ acts = (IF inOrder THEN MaxActs - MaxAside ELSE MaxReordered)
    /\ faults = MaxFaults

PageInit ==
    /\ showWalnut = FALSE
    /\ P!PanelsInit
    /\ \/ Init /\ looks = MaxLooks /\ changes = MaxChanges
       \/ AtRest /\ looks = 0 /\ changes = 0

-----------------------------------------------------------------------------
\* The drawer's run in the render that follows a step.
Followed == IF showWalnut' /\ activeRun' # None THEN activeRun'.run ELSE Closed
Follow == IF Followed = runId THEN UNCHANGED panels ELSE P!Show(Followed)

ConsoleStep == OtherThanEffect /\ UNCHANGED showWalnut /\ Follow
Selected == Effect /\ showWalnut' = FALSE /\ Follow

\* The Walnut button.
Toggle ==
    /\ Rendered /\ activeRun # None /\ (runId = Closed => looks < MaxLooks)
    /\ showWalnut' = ~ showWalnut /\ UNCHANGED vars
    /\ Follow

MayReply(i) == inOrder => \A j \in 1..(i - 1) : asks[j].answer # Unanswered
MayTake(i)  == inOrder => i = 1

PanelStep ==
    /\ \/ \E i \in 1..Len(asks) :
            \/ MayReply(i) /\ (P!Reply(i) \/ P!Refuse(i))
            \/ MayTake(i) /\ P!Answered(i)
       \/ \E r \in Started : P!Touch(r)
       \/ P!Reset \/ P!LoadTab
       \/ \E t \in Tabs \cup {"history"} : P!OpenTab(t)
       \/ P!Question \/ P!Retry \/ P!Order
    /\ UNCHANGED <<vars, showWalnut>>

\* A reconciliation sends the run's prompt to its Agent again, once; the drawer hears
\* of it at the end, and the Console never.
Replaced(i, a) ==
    /\ asks[i].op \in P!Commands /\ asks[i].answer = Unanswered /\ asks[i].nth = 0
    /\ asks[i].run[1] = a
    /\ service[a] = "ready" /\ Admit(a)
    /\ asks' = [asks EXCEPT ![i].nth = 1] /\ unsent' = TRUE
    /\ UNCHANGED <<agents, select, view, polls, calls, inOrder, acts, faults, showWalnut>>
    /\ UNCHANGED <<record, runId, resetDue, tab, kept, panel, told, looks, strays, changes>>

PageNext ==
    \/ ConsoleStep \/ Selected \/ Toggle \/ PanelStep
    \/ \E i \in 1..Len(asks), a \in Agents : Replaced(i, a)

PageSpec == PageInit /\ [][PageNext]_all

-----------------------------------------------------------------------------
(* Properties.                                                             *)

\* The drawer shows its own run's data, and the history panel the answer to its
\* last question, whichever answers are late (activeRunRef in WalnutDrawer.tsx:62-145 and the
\* requestSequence of HistoryPanel.tsx:20-41).
PanelsShowAsked == P!ShownIsAsked

\* A tab that says it is loading has its run's answer on the way, whatever the user
\* and the runs do (the effects of WalnutDrawer.tsx:174-195 do not ask for a tab that
\* is loading), unless a command was answered after the drawer went on to another run.
PanelsLoad == P!FetchingIsAwaited

\* Once the drawer heard that its revocation, mark or reconciliation succeeded, no tab
\* goes back to what was known before it (WalnutDrawer.tsx:163-168), as long as the
\* network keeps the order.
PanelsSeeCommand == inOrder => P!CommandIsSeen
=============================================================================
