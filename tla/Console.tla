-------------------------------- MODULE Console --------------------------------
(***************************************************************************)
(* The page of apps/web/src/App.tsx and the API it talks to: the Agents'   *)
(* list, the selection, the Playground's messages and latest run, and the  *)
(* loop that polls a run.  Every call is answered by the server at one     *)
(* moment and applied by the page at a later one; setting a state, the     *)
(* render that publishes it in selectedIdRef and the effect that follows   *)
(* are three moments too.                                                  *)
(***************************************************************************)
EXTENDS Naturals, Sequences, FiniteSets, SequencesExt

CONSTANTS
    Agents,
    None,
    Sent, Done, Failed,   \* a request not answered yet, consumed, or failed
    MaxRuns,      \* bound: runs
    MaxActs,      \* bound: what the user does
    MaxReordered, \* bound: what the user does on a network that reorders
    MaxFaults     \* bound: requests that fail on the network, and run.completed
                  \* events that cannot be appended

ASSUME Bounds == {MaxRuns, MaxActs, MaxReordered, MaxFaults} \subseteq Nat /\ MaxRuns # 0

\* What calls carry: runs as the page sees them, lists of Agents, and their messages.
RunIds        == Agents \X (1..MaxRuns)
RunViews      == [run : RunIds, status : {"active", "completed", "ended"}]
Listings      == UNION {[S -> {"ready", "busy", "stopped"}] : S \in SUBSET Agents}
Conversations == Seq(RunIds \X BOOLEAN)

ASSUME AgentSet == IsFiniteSet(Agents) /\ None \notin Agents
ASSUME Marks ==
    /\ None \notin {Sent, Done, Failed} /\ Sent \notin {Done, Failed} /\ Done # Failed
    /\ \A m \in {None, Sent, Done, Failed} :
          m \notin RunViews \cup Listings \cup Conversations \cup {"ok"}

\* The server's runs: "active" is "queued" or "running"; an "unrecorded" run completed,
\* and its run.completed event is about to fail; it has then "lapsed": it failed, and
\* its reply stays.  An "ended" one has no reply.
RunStatuses == {"active", "completed", "unrecorded", "ended", "lapsed"}
Replied     == {"completed", "unrecorded", "lapsed"}

VARIABLES
    service,      \* server: each Agent is "unborn", "ready" (or "error"), "busy", "stopped", "deleted"
    runs,         \* server: the status of each Agent's runs, in the order they started
    agents,       \* the list on the page: the status of each Agent in it
    selectedId,   \* the selection as last set
    ref,          \* selectedIdRef.current: the selection as last rendered
    effectDue,    \* the effect of that render has not run yet
    messages,     \* on the page: prompts, as <<run, whether it has a reply>>
    activeRun,    \* on the page: None or [run, status]
    polls,        \* pollingRunIds, with the call that owns each loop
    calls,        \* calls in flight, in the order they were issued
    inOrder,      \* the network keeps them in order, both ways
    unsent,       \* there were runs the page did not send: under way when it was opened,
                  \* or started by a reconciliation
    acts, faults

server == <<service, runs>>
select == <<selectedId, ref, effectDue>>
view   == <<messages, activeRun>>
budget == <<inOrder, unsent, acts, faults>>
vars   == <<server, agents, select, view, polls, calls, budget>>

\* The k-th run of an Agent is <<a, k>>.
Started     == {r \in RunIds : r[2] <= Len(runs[r[1]])}
Active(run) == run # None /\ run.status = "active"
Busy(a)     == service[a] = "busy"
Live(a)     == service[a] \in {"ready", "busy", "stopped"}

\* A call of the page: what it is, for which Agent and run, and the state of its
\* request, or of the two requests of a Promise.all.
Call(op, a, r, fst, snd) == [op |-> op, agent |-> a, run |-> r, fst |-> fst, snd |-> snd]
One(op, a, r)  == Call(op, a, r, Sent, Done)
Pair(op, a, r) == Call(op, a, r, Sent, Sent)
Pending(part)  == part \notin {Done, Failed}
Arrived(part)  == part \notin {Sent, Done}

-----------------------------------------------------------------------------
(* The server's answers: app.ts over agent-service.ts.                     *)

AgentList == [a \in {b \in Agents : Live(b)} |-> service[a]]
Seen(status) == CASE status = "unrecorded" -> "completed"
                  [] status = "lapsed"     -> "ended"
                  [] OTHER                 -> status
Shown(r) == [run |-> r, status |-> Seen(runs[r[1]][r[2]])]
Exchange(r) == <<r, runs[r[1]][r[2]] \in Replied>>
MessagesOf(a) == [k \in 1..Len(runs[a]) |-> Exchange(<<a, k>>)]
LatestOf(a)   == IF runs[a] = <<>> THEN None ELSE Shown(<<a, Len(runs[a])>>)

OrNotFound(c, answer) == IF Live(c.agent) THEN answer ELSE Failed

Commands == {"create", "update", "start", "stop", "delete"}
Lists    == {"list", "settle", "created"}

FirstAnswer(c) ==
    IF c.op \in Lists THEN AgentList
    ELSE OrNotFound(c, IF c.op = "poll" THEN Shown(c.run) ELSE MessagesOf(c.agent))
SecondAnswer(c) ==
    IF c.op = "load" THEN OrNotFound(c, LatestOf(c.agent)) ELSE AgentList

MayAnswer(i) == inOrder => \A j \in 1..(i - 1) : Sent \notin {calls[j].fst, calls[j].snd}

AnswerFirst(i) ==
    /\ calls[i].fst = Sent /\ MayAnswer(i)
    /\ calls[i].op \notin Commands \cup {"send"}
    /\ calls' = [calls EXCEPT ![i].fst = FirstAnswer(calls[i])]
    /\ UNCHANGED <<server, agents, select, view, polls, budget>>

AnswerSecond(i) ==
    /\ calls[i].snd = Sent /\ MayAnswer(i)
    /\ inOrder => calls[i].fst # Sent
    /\ calls' = [calls EXCEPT ![i].snd = SecondAnswer(calls[i])]
    /\ UNCHANGED <<server, agents, select, view, polls, budget>>

\* sendMessage refuses for an Agent that is gone, stopped or busy.
Admit(a) ==
    /\ Cardinality(Started) < MaxRuns
    /\ runs' = [runs EXCEPT ![a] = Append(@, "active")]
    /\ service' = [service EXCEPT ![a] = "busy"]

AnswerSend(i) ==
    /\ calls[i].op = "send" /\ calls[i].fst = Sent /\ MayAnswer(i)
    /\ LET a == calls[i].agent
           ok == service[a] = "ready"
       IN  /\ IF ok THEN Admit(a) ELSE UNCHANGED server
           /\ calls' = [calls EXCEPT ![i].fst =
                  IF ok THEN [run |-> <<a, Len(runs[a]) + 1>>, status |-> "active"] ELSE Failed]
    /\ UNCHANGED <<agents, select, view, polls, budget>>

\* stop and delete cancel the Agent's run, and wait for the last one it started;
\* delete removes them all.
Settled(status) == CASE status = "active"     -> "ended"
                     [] status = "unrecorded" -> "lapsed"
                     [] OTHER                 -> status
After(op, statuses) ==
    IF op = "delete" THEN <<>>
    ELSE [k \in 1..Len(statuses) |->
             IF op = "stop" /\ k = Len(statuses) THEN Settled(statuses[k]) ELSE statuses[k]]
Becomes(op, status) ==
    IF op = "update" THEN status
    ELSE IF op = "stop" THEN "stopped" ELSE IF op = "delete" THEN "deleted" ELSE "ready"

\* An Agent that is gone, or busy, refuses some of the commands.
Refused(op, a) ==
    \/ op # "create" /\ ~ Live(a)
    \/ op \in {"update", "start"} /\ Busy(a)

AnswerCommand(i) ==
    /\ calls[i].op \in Commands /\ calls[i].fst = Sent /\ MayAnswer(i)
    /\ LET a == calls[i].agent  op == calls[i].op IN
         IF Refused(op, a)
         THEN calls' = [calls EXCEPT ![i].fst = Failed] /\ UNCHANGED server
         ELSE /\ calls' = [calls EXCEPT ![i].fst = "ok"]
              /\ service' = [service EXCEPT ![a] = Becomes(op, @)]
              /\ runs' = [runs EXCEPT ![a] = After(op, @)]
    /\ UNCHANGED <<agents, select, view, polls, budget>>

\* The Agent of a run that ends is ready again, unless it was stopped; that of a run
\* that completes, even then.
Free(a) == service' = [service EXCEPT ![a] = IF @ = "stopped" THEN @ ELSE "ready"]

Finish(r) ==
    /\ runs[r[1]][r[2]] = "active"
    /\ \E status \in {"completed", "unrecorded", "ended"} :
          /\ runs' = [runs EXCEPT ![r[1]][r[2]] = status]
          /\ IF status = "ended" THEN Free(r[1]) ELSE service' = [service EXCEPT ![r[1]] = "ready"]
          /\ IF status = "unrecorded" THEN faults < MaxFaults /\ faults' = faults + 1
             ELSE UNCHANGED faults
    /\ UNCHANGED <<agents, select, view, polls, calls, inOrder, unsent, acts>>

\* The catch of a run whose run.completed event could not be appended: the Agent is
\* in "error" while another of its runs may be under way.
Lapse(r) ==
    /\ runs[r[1]][r[2]] = "unrecorded"
    /\ runs' = [runs EXCEPT ![r[1]][r[2]] = "lapsed"]
    /\ Free(r[1])
    /\ UNCHANGED <<agents, select, view, polls, calls, budget>>

\* A request or its answer is lost, whether the server handled it or not.
Lose(i) ==
    /\ faults < MaxFaults /\ faults' = faults + 1
    /\ \/ Pending(calls[i].fst) /\ calls' = [calls EXCEPT ![i].fst = Failed]
       \/ Pending(calls[i].snd) /\ calls' = [calls EXCEPT ![i].snd = Failed]
    /\ UNCHANGED <<server, agents, select, view, polls, inOrder, unsent, acts>>

-----------------------------------------------------------------------------
(* Rendering.                                                              *)

\* Effects of a render run before the next render.
Render ==
    /\ selectedId # ref /\ ~ effectDue
    /\ ref' = selectedId /\ effectDue' = TRUE
    /\ UNCHANGED <<server, agents, selectedId, view, polls, calls, budget>>

Effect_KeepsRun == activeRun
EffectRun == None

\* The effect on [selectedId]: the messages of the previous Agent stay until the
\* new one's arrive.
Effect ==
    /\ effectDue /\ effectDue' = FALSE
    /\ activeRun' = EffectRun
    /\ IF ref = None
       THEN messages' = <<>> /\ UNCHANGED calls
       ELSE calls' = Append(calls, Pair("load", ref, None)) /\ UNCHANGED messages
    /\ UNCHANGED <<server, agents, selectedId, ref, polls, budget>>

-----------------------------------------------------------------------------
(* Applying the answers.  With the network in order, the oldest first.     *)

MayApply(i) == inOrder => i = 1
Without(i) == RemoveAt(calls, i)
Instead(i, c) == Append(Without(i), c)

\* refreshAgents: the list as the server had it, and a selection that is in it.
ApplyList(list) ==
    /\ agents' = list
    /\ selectedId' \in IF selectedId \in DOMAIN list THEN {selectedId}
                       ELSE IF DOMAIN list = {} THEN {None} ELSE DOMAIN list

\* refreshMessages looks at the selection it finds when the answer comes.
ForSelected(a) == ref = a

ApplyMessages(a, list) == messages' = IF ForSelected(a) THEN list ELSE messages

Looping(r) == \E p \in polls : p.run = r
Start(r, owner) == IF Looping(r) THEN polls ELSE polls \cup {[run |-> r, owner |-> owner]}
Stop(r) == {p \in polls : p.run # r}
OwnerOf(r) == (CHOOSE p \in polls : p.run = r).owner

\* What a loop's call does when the loop throws: sendMessage's catch forgets the
\* shown run, whichever it is, and asks for the list.
Throw(r, rest) ==
    /\ polls' = Stop(r)
    /\ IF OwnerOf(r) = "send"
       THEN activeRun' = None /\ calls' = Append(rest, One("list", None, None))
       ELSE calls' = rest /\ UNCHANGED activeRun

Refreshed(i) ==
    /\ calls[i].op = "messages" /\ Arrived(calls[i].fst) /\ MayApply(i)
    /\ calls' = Without(i)
    /\ IF calls[i].fst = Failed THEN UNCHANGED messages
       ELSE ApplyMessages(calls[i].agent, calls[i].fst)
    /\ UNCHANGED <<server, agents, select, activeRun, polls, budget>>

Listed(i) ==
    /\ calls[i].op \in Lists /\ Arrived(calls[i].fst) /\ MayApply(i)
    /\ calls' = Without(i)
    /\ IF calls[i].fst = Failed THEN UNCHANGED <<agents, selectedId>>
       ELSE IF calls[i].op = "created"
       THEN agents' = calls[i].fst /\ selectedId' = calls[i].agent
       ELSE ApplyList(calls[i].fst)
    /\ UNCHANGED <<server, ref, effectDue, view, polls, budget>>

\* The effect's load: messages, then, with both answers there, the latest run.
LoadedMessages(i) ==
    /\ calls[i].op = "load" /\ Arrived(calls[i].fst) /\ MayApply(i)
    /\ IF calls[i].fst = Failed
       THEN calls' = Without(i) /\ UNCHANGED messages
       ELSE /\ calls' = [calls EXCEPT ![i].fst = Done]
            /\ ApplyMessages(calls[i].agent, calls[i].fst)
    /\ UNCHANGED <<server, agents, select, activeRun, polls, budget>>

LoadedRuns(i) ==
    LET latest == calls[i].snd IN
    /\ calls[i].op = "load" /\ calls[i].fst = Done /\ Arrived(latest) /\ MayApply(i)
    /\ calls' = Without(i)
    /\ IF latest = Failed \/ ~ ForSelected(calls[i].agent) THEN UNCHANGED <<activeRun, polls>>
       ELSE /\ activeRun' = latest
            /\ polls' = IF Active(latest) THEN Start(latest.run, "load") ELSE polls
    /\ UNCHANGED <<server, agents, select, messages, budget>>

Posted(i) ==
    LET a == calls[i].agent  answer == calls[i].fst IN
    /\ calls[i].op = "send" /\ Arrived(answer) /\ MayApply(i)
    /\ IF answer = Failed
       THEN /\ calls' = Instead(i, One("list", None, None))
            /\ activeRun' = None
            /\ UNCHANGED <<agents, messages, polls>>
       ELSE /\ calls' = Without(i)
            /\ IF ForSelected(a)
               THEN messages' = Append(messages, <<answer.run, FALSE>>) /\ activeRun' = answer
               ELSE UNCHANGED view
            /\ agents' = [b \in DOMAIN agents |-> IF b = a THEN "busy" ELSE agents[b]]
            /\ polls' = Start(answer.run, "send")
    /\ UNCHANGED <<server, select, budget>>

\* create, start, stop and delete ask for the list when they are done.
Commanded(i) ==
    /\ calls[i].op \in Commands /\ Arrived(calls[i].fst) /\ MayApply(i)
    /\ calls' = IF calls[i].fst = Failed THEN Without(i)
                ELSE Instead(i, One(IF calls[i].op = "create" THEN "created" ELSE "settle",
                                    calls[i].agent, None))
    /\ UNCHANGED <<server, agents, select, view, polls, budget>>

\* A turn of pollRun: the timer, the answer, and after the last one the messages
\* and the list.
Tick(p) ==
    /\ \A i \in 1..Len(calls) : ~ (calls[i].op \in {"poll", "final"} /\ calls[i].run = p.run)
    /\ calls' = Append(calls, One("poll", p.run[1], p.run))
    /\ UNCHANGED <<server, agents, select, view, polls, budget>>

Final_NoList(c) == One("final", c.agent, c.run)
Final(c) == Pair("final", c.agent, c.run)

Polled(i) ==
    LET c == calls[i] IN
    /\ c.op = "poll" /\ Arrived(c.fst) /\ MayApply(i)
    /\ IF c.fst = Failed THEN Throw(c.run, Without(i))
       ELSE /\ activeRun' = IF ForSelected(c.agent) THEN c.fst ELSE activeRun
            /\ calls' = IF Active(c.fst) THEN Without(i) ELSE Instead(i, Final(c))
            /\ UNCHANGED polls
    /\ UNCHANGED <<server, agents, select, messages, budget>>

\* The loop ends with the second of the two answers, or with the first failure.
EndsWith(i, other) ==
    /\ polls' = IF other = Done THEN Stop(calls[i].run) ELSE polls
    /\ UNCHANGED activeRun

FinalMessages(i) ==
    LET c == calls[i] IN
    /\ c.op = "final" /\ Arrived(c.fst) /\ MayApply(i)
    /\ IF c.fst = Failed
       THEN /\ Throw(c.run, IF c.snd = Done THEN Without(i)
                            ELSE [calls EXCEPT ![i] = Call("list", None, None, c.snd, Done)])
            /\ UNCHANGED messages
       ELSE /\ ApplyMessages(c.agent, c.fst)
            /\ EndsWith(i, c.snd)
            /\ calls' = IF c.snd = Done THEN Without(i) ELSE [calls EXCEPT ![i].fst = Done]
    /\ UNCHANGED <<server, agents, select, budget>>

FinalList(i) ==
    LET c == calls[i] IN
    /\ c.op = "final" /\ Arrived(c.snd) /\ MayApply(i) /\ (inOrder => c.fst = Done)
    /\ IF c.snd = Failed
       THEN /\ Throw(c.run, IF c.fst = Done THEN Without(i)
                            ELSE [calls EXCEPT ![i] = Call("messages", c.agent, None, c.fst, Done)])
            /\ UNCHANGED <<agents, selectedId>>
       ELSE /\ ApplyList(c.snd)
            /\ EndsWith(i, c.fst)
            /\ calls' = IF c.fst = Done THEN Without(i) ELSE [calls EXCEPT ![i].snd = Done]
    /\ UNCHANGED <<server, ref, effectDue, messages, budget>>

-----------------------------------------------------------------------------
(* The user, on a page that has rendered what was last set.                *)

Rendered == selectedId = ref /\ ~ effectDue
Forms == {i \in 1..Len(calls) : calls[i].op \in Commands \cup {"settle", "created"}}
Acts(new) ==
    /\ acts < (IF inOrder THEN MaxActs ELSE MaxReordered) /\ acts' = acts + 1
    /\ calls' = new
    /\ UNCHANGED <<server, agents, ref, effectDue, view, polls, inOrder, unsent, faults>>

Select(a) ==
    /\ Rendered /\ a \in DOMAIN agents \ {selectedId}
    /\ selectedId' = a
    /\ Acts(calls)

\* The composer is disabled for an Agent that is not ready and while the run shown
\* is active; a prompt that is on its way does not disable it.
Send ==
    /\ Rendered /\ ref \in DOMAIN agents /\ agents[ref] = "ready" /\ ~ Active(activeRun)
    /\ Acts(Append(calls, One("send", ref, None))) /\ UNCHANGED selectedId

Offered(op, a) ==
    IF op = "create" THEN service[a] = "unborn"
    ELSE /\ a = ref /\ a \in DOMAIN agents
         /\ op = "start" => agents[a] = "stopped"
         /\ op = "stop"  => agents[a] # "stopped"
         /\ op \in {"update", "delete"} => agents[a] # "busy"

Command(op, a) ==
    /\ Rendered /\ Forms = {} /\ Offered(op, a)
    /\ Acts(Append(calls, One(op, a, None))) /\ UNCHANGED selectedId

-----------------------------------------------------------------------------
Bootstrap == <<One("list", None, None)>>

Init ==
    /\ \E born \in SUBSET Agents :
          LET there == [a \in Agents |-> IF a \in born THEN "ready" ELSE "unborn"] IN
          \/ unsent = FALSE /\ service = there /\ runs = [a \in Agents |-> <<>>]
          \/ /\ unsent = TRUE
             /\ \E a \in born : /\ service = [there EXCEPT ![a] = "busy"]
                               /\ runs = [b \in Agents |-> IF b = a THEN <<"active">> ELSE <<>>]
    /\ agents = <<>> /\ selectedId = None /\ ref = None /\ effectDue = FALSE
    /\ messages = <<>> /\ activeRun = None /\ polls = {}
    /\ calls = Bootstrap
    /\ inOrder \in BOOLEAN /\ acts = 0 /\ faults = 0

Apply(i) ==
    \/ Listed(i) \/ Refreshed(i) \/ LoadedMessages(i) \/ LoadedRuns(i) \/ Posted(i)
    \/ Commanded(i) \/ Polled(i) \/ FinalMessages(i) \/ FinalList(i)

OtherThanEffect ==
    \/ \E i \in 1..Len(calls) :
          \/ AnswerFirst(i) \/ AnswerSecond(i) \/ AnswerSend(i) \/ AnswerCommand(i)
          \/ Lose(i) \/ Apply(i)
    \/ \E r \in Started : Finish(r) \/ Lapse(r)
    \/ Render
    \/ \E p \in polls : Tick(p)
    \/ \E a \in Agents : Select(a)
    \/ Send
    \/ \E op \in Commands, a \in Agents : Command(op, a)

Next == OtherThanEffect \/ Effect

Spec == Init /\ [][Next]_vars

-----------------------------------------------------------------------------
(* Properties.                                                             *)

LoadUnderWay(a) ==
    \E i \in 1..Len(calls) : calls[i].op = "load" /\ calls[i].agent = a /\ calls[i].fst # Done

\* Whatever the order of the answers and of the clicks, the run and the messages
\* shown are the selected Agent's (App.tsx:62 and the tests of selectedIdRef after
\* each await); only until its messages are loaded, or if that failed, do those of
\* the Agent selected before stay.
ShownIsSelected ==
    Rendered =>
        /\ activeRun # None => activeRun.run[1] = ref
        /\ \A k \in 1..Len(messages) :
              \/ messages[k][1][1] = ref
              \/ LoadUnderWay(ref) \/ faults > 0 \/ service[ref] = "deleted"

\* Once nothing is in flight and no loop polls, the page tells the truth, and no
\* Agent it shows is left "busy" (App.tsx:211-228): its list is the server's, the
\* selected Agent's messages are complete and its run has the status it ended with.
\* Only the loop of a run the page sent asks for the list again: this needs a network
\* that keeps the order and answers, a page opened with no run under way, no run that
\* a reconciliation started, and no run.completed event that could not be appended.
Quiet == Rendered /\ calls = <<>> /\ polls = {}
QuietIsTrue ==
    Quiet /\ inOrder /\ faults = 0 /\ ~ unsent =>
        /\ agents = AgentList
        /\ selectedId # None =>
              /\ messages = MessagesOf(selectedId)
              /\ ~ Busy(selectedId)
              /\ activeRun # None => activeRun = Shown(activeRun.run)
=============================================================================
