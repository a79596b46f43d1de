-------------------------------- MODULE Panels --------------------------------
(***************************************************************************)
(* The drawer of one run, apps/web/src/walnut: the data its tabs keep      *)
(* (WalnutDrawer.tsx), the panel that numbers its questions                *)
(* (HistoryPanel.tsx) and the commands that change what the server knows   *)
(* of the run: revoke and compromise (TimelinePanel.tsx), reconcile        *)
(* (OverviewPanel.tsx).  What the server knows of a run is a version.      *)
(***************************************************************************)
EXTENDS Naturals, Sequences, SequencesExt, Places

CONSTANTS
    RunIds,
    Tabs,         \* tabs whose data the drawer keeps, "overview" among them
    Closed,       \* no drawer, no panel
    Unanswered,
    Blank, Fetching, Broken,   \* a tab without data
    MaxLooks,     \* bound: what the user does in the drawer
    MaxChanges,   \* bound: what others do to the runs
    MaxStrays     \* bound: commands answered once the drawer shows another run

VARIABLES
    record,       \* server: the version of each run
    runId,        \* the drawer's run, or Closed
    resetDue,     \* a run was rendered whose effects did not run yet
    tab,          \* the tab in front, of Tabs or "history"
    kept,         \* each tab's TabState: Blank, Fetching, Broken or an answer
    panel,        \* Closed, or the history panel's last question and its answer
    asks,         \* requests in flight, in the order they were issued
    told,         \* Closed, or the last command the drawer heard back from
    looks, strays, changes

drawer == <<runId, resetDue, tab, kept, told>>
spent  == <<looks, strays, changes>>
pvars  == <<record, drawer, panel, asks, spent>>

Empty == [t \in Tabs |-> Blank]
States == {Blank, Fetching, Broken}

\* A request: a question of the history panel has a number; a command, the runs it
\* has started.
Ask(op, r, n) == [op |-> op, run |-> r, nth |-> n, answer |-> Unanswered]
Open == runId # Closed

PanelsInit ==
    /\ record = [r \in RunIds |-> 0]
    /\ runId = Closed /\ resetDue = FALSE /\ tab = "overview" /\ kept = Empty
    /\ panel = Closed /\ asks = <<>> /\ told = Closed
    /\ strays = 0

-----------------------------------------------------------------------------
(* The routes: a command changes the record and then answers.              *)

\* Answers for a drawer or a panel that is gone change nothing: its commands go on.
Commands == {"command", "orphan"}

Changed(ask) ==
    IF ask.op \in Commands THEN [record EXCEPT ![ask.run] = @ + 1] ELSE record

Reply(i) ==
    LET ask == asks[i] IN
    /\ ask.answer = Unanswered
    /\ record' = Changed(ask)
    /\ asks' = [asks EXCEPT ![i].answer = [run |-> ask.run, version |-> record'[ask.run]]]
    /\ UNCHANGED <<drawer, panel, spent>>

\* A route that throws, a command it refuses.
Refuse(i) ==
    /\ asks[i].answer = Unanswered
    /\ changes < MaxChanges /\ changes' = changes + 1
    /\ asks' = [asks EXCEPT ![i].answer = Broken]
    /\ UNCHANGED <<record, drawer, panel, looks, strays>>

\* Another run's blast radius, or a recovery, reaches the run.
Touch(r) ==
    /\ changes < MaxChanges /\ changes' = changes + 1
    /\ record' = [record EXCEPT ![r] = @ + 1]
    /\ UNCHANGED <<drawer, panel, asks, looks, strays>>

-----------------------------------------------------------------------------
(* The drawer follows its run.                                             *)

Ordered == Chosen(asks, {i \in 1..Len(asks) : asks[i].op \in Commands})
NoPanel(rest) ==
    /\ panel' = Closed
    /\ asks' = IF panel = Closed THEN rest
               ELSE Chosen(rest, {i \in 1..Len(rest) : rest[i].op # "history"})

\* Closing forgets everything.  A command goes on, with nobody to hear of it.
Close ==
    /\ runId' = Closed /\ resetDue' = FALSE /\ kept' = Empty /\ told' = Closed
    /\ panel' = Closed
    /\ asks' = [i \in 1..Len(Ordered) |-> [Ordered[i] EXCEPT !.op = "orphan"]]
    /\ UNCHANGED tab

\* The drawer renders another run with what it kept of the last one.
Turn(r) ==
    /\ runId' = r /\ resetDue' = TRUE /\ told' = Closed
    /\ UNCHANGED <<tab, kept, panel, asks>>

Show(r) ==
    /\ r # runId
    /\ IF r = Closed THEN Close ELSE Turn(r)
    /\ UNCHANGED <<record, spent>>

Load(t, r, rest) == Append(rest, Ask(t, r, 0))

\* The effects of that render: forget, back to the overview, and load the tab
\* that was in front if it was empty.
Forgotten_Nothing == kept
Forgotten == Empty

Reset ==
    /\ resetDue /\ resetDue' = FALSE
    /\ tab' = "overview"
    /\ IF tab \in Tabs /\ kept[tab] = Blank
       THEN /\ kept' = [Forgotten EXCEPT ![tab] = Fetching]
            /\ NoPanel(Load(tab, runId, asks))
       ELSE kept' = Forgotten /\ NoPanel(asks)
    /\ UNCHANGED <<record, runId, told, spent>>

\* loadOverview, loadEvidence, loadDependencies: the effects on an empty tab.
LoadTab ==
    /\ Open /\ ~ resetDue /\ tab \in Tabs /\ kept[tab] = Blank
    /\ kept' = [kept EXCEPT ![tab] = Fetching]
    /\ asks' = Load(tab, runId, asks)
    /\ UNCHANGED <<record, runId, resetDue, tab, panel, told, spent>>

-----------------------------------------------------------------------------
(* Answers.                                                                *)

Gone(i) == RemoveAt(asks, i)

ForRun_Any(r) == TRUE
ForRun(r) == r = runId

TabAnswered(i) ==
    /\ asks[i].op \in Tabs /\ asks[i].answer # Unanswered
    /\ kept' = IF ForRun(asks[i].run) THEN [kept EXCEPT ![asks[i].op] = asks[i].answer] ELSE kept
    /\ asks' = Gone(i)
    /\ UNCHANGED <<record, runId, resetDue, tab, panel, told, spent>>

ForQuestion(n) == n = panel.nth

PanelAnswered(i) ==
    /\ asks[i].op = "history" /\ asks[i].answer # Unanswered
    /\ panel' = IF ForQuestion(asks[i].nth)
                THEN [panel EXCEPT !.shown = [nth |-> asks[i].nth, answer |-> asks[i].answer]]
                ELSE panel
    /\ asks' = Gone(i)
    /\ UNCHANGED <<record, drawer, spent>>

\* refreshIncidentState, as the click captured it: every tab goes to loading,
\* whatever the drawer shows by now, and the command's run is asked for.
Refreshed_Nothing(r) == FALSE
Refreshed(r) == TRUE

CommandAnswered(i) ==
    LET ask == asks[i] IN
    /\ ask.op \in Commands /\ ask.answer # Unanswered
    /\ IF ask.answer = Broken \/ ask.op = "orphan"
       THEN UNCHANGED <<kept, told, strays>> /\ asks' = Gone(i)
       ELSE /\ told' = IF ask.run = runId THEN ask.answer ELSE told
            /\ ask.run # runId => strays < MaxStrays
            /\ strays' = IF ask.run = runId THEN strays ELSE strays + 1
            /\ IF Refreshed(ask.run)
               THEN /\ kept' = [t \in Tabs |-> Fetching]
                    /\ asks' = Gone(i) \o [k \in 1..Len(SetToSeq(Tabs)) |->
                                              Ask(SetToSeq(Tabs)[k], ask.run, 0)]
               ELSE UNCHANGED kept /\ asks' = Gone(i)
    /\ UNCHANGED <<record, runId, resetDue, tab, panel, looks, changes>>

-----------------------------------------------------------------------------
(* The user.                                                               *)

Look ==
    /\ Open /\ ~ resetDue
    /\ looks < MaxLooks /\ looks' = looks + 1
    /\ UNCHANGED <<record, runId, resetDue, told, strays, changes>>

\* The history panel asks its first question when it appears.
OpenTab(t) ==
    /\ Look /\ t # tab /\ tab' = t
    /\ IF t = "history"
       THEN panel' = [nth |-> 1, shown |-> Closed] /\ asks' = Append(asks, Ask("history", runId, 1))
       ELSE NoPanel(asks)
    /\ UNCHANGED kept

Question ==
    /\ Look /\ panel # Closed
    /\ panel' = [nth |-> panel.nth + 1, shown |-> Closed]
    /\ asks' = Append(asks, Ask("history", runId, panel.nth + 1))
    /\ UNCHANGED <<tab, kept>>

Retry ==
    /\ Look /\ tab \in Tabs /\ kept[tab] = Broken
    /\ kept' = [kept EXCEPT ![tab] = Fetching]
    /\ asks' = Load(tab, runId, asks)
    /\ UNCHANGED <<tab, panel>>

\* revoke, compromise or reconcile, from the panel of a tab that has its data.
Order ==
    /\ Look /\ tab \in Tabs /\ kept[tab] \notin States
    /\ asks' = Append(asks, Ask("command", runId, 0))
    /\ UNCHANGED <<tab, kept, panel>>

Answered(i) == TabAnswered(i) \/ PanelAnswered(i) \/ CommandAnswered(i)

-----------------------------------------------------------------------------
(* Properties.                                                             *)

\* What the drawer shows is its own run's, and what the history panel shows is the
\* answer to its last question, whichever answers are late (activeRunRef in WalnutDrawer.tsx
\* and the requestSequence of HistoryPanel.tsx).
ShownIsAsked ==
    /\ Open /\ ~ resetDue => \A t \in Tabs : kept[t] \in States \/ kept[t].run = runId
    /\ panel # Closed => panel.shown = Closed \/ panel.shown.nth = panel.nth

\* A tab that says "Loading" has its run's answer coming, unless a command was
\* answered after the drawer went on to another run.
FetchingIsAwaited ==
    strays = 0 =>
        \A t \in Tabs : kept[t] = Fetching /\ ~ resetDue =>
            \E i \in 1..Len(asks) : asks[i].op = t /\ asks[i].run = runId

\* Once a command succeeded no tab shows what was known before it (WalnutDrawer.tsx
\* refreshIncidentState), as long as answers come in the order of their questions.
CommandIsSeen ==
    told # Closed => \A t \in Tabs : kept[t] \in States \/ kept[t].version >= told.version
=============================================================================
