---------------------------- MODULE JsonFileState ----------------------------
(***************************************************************************)
(* shared/json-file-state.ts, the state under seven of the stores: one     *)
(* JSON file, a cached copy that the first load fills, and a promise queue *)
(* of mutations.  A state is the sequence of the mutations it went through.*)
(* Loads are not queued: each awaits a mkdir, opens the file (which decides*)
(* what it will read, for persist renames a new file over it) and assigns  *)
(* the cache when it has read it.                                          *)
(***************************************************************************)
EXTENDS Naturals, Sequences

CONSTANTS
    Mutations, Readers,
    Queue,         \* the loader inside mutate
    MaxFaults,     \* bound: mutations that throw or do not persist
    MaxCrashes,    \* bound: restarts of the server
    MaxOverwrites  \* bound: loads that put an older state back

ASSUME QueueIsNoReader == Queue \notin Readers
ASSUME Bounds == {MaxFaults, MaxCrashes, MaxOverwrites} \subseteq Nat

VARIABLES
    file,          \* what the file holds
    loaded, data,  \* data !== null, and the cache
    load, raw,     \* where each load is, and what it opened
    queue,         \* mutations in the promise queue, the head under way
    phase, draft,  \* where the head is, and the clone it changed
    answer,        \* what each mutation's caller got
    faults, crashes, overwrites

cache  == <<loaded, data>>
loads  == <<load, raw>>
head   == <<queue, phase, draft, answer>>
budget == <<faults, crashes, overwrites>>
vars   == <<file, cache, loads, head, budget>>

Loaders == Readers \cup {Queue}

Init ==
    /\ file = <<>> /\ loaded = FALSE /\ data = <<>>
    /\ load = [l \in Loaders |-> "idle"] /\ raw = [l \in Loaders |-> <<>>]
    /\ queue = <<>> /\ phase = "idle" /\ draft = <<>>
    /\ answer = [m \in Mutations |-> "none"]
    /\ faults = 0 /\ crashes = 0 /\ overwrites = 0

-----------------------------------------------------------------------------
(* ensureLoaded.                                                           *)

MustLoad == ~ loaded

\* A read with the cache filled returns at once and changes nothing.
Read(r) ==
    /\ MustLoad /\ load[r] = "idle"
    /\ load' = [load EXCEPT ![r] = "mkdir"]
    /\ UNCHANGED <<file, cache, raw, head, budget>>

OpenFile(l) ==
    /\ load[l] = "mkdir"
    /\ load' = [load EXCEPT ![l] = "opened"] /\ raw' = [raw EXCEPT ![l] = file]
    /\ UNCHANGED <<file, cache, head, budget>>

\* The load's assignment does not look whether another one came first.
Fill(l) ==
    /\ load[l] = "opened"
    /\ load' = [load EXCEPT ![l] = "idle"]
    /\ loaded' = TRUE /\ data' = raw[l]
    /\ UNCHANGED <<file, raw>>

PutsBack(l) == loaded /\ raw[l] \notin {data, file}

EndRead(r) ==
    /\ Fill(r)
    /\ IF PutsBack(r)
       THEN overwrites < MaxOverwrites /\ overwrites' = overwrites + 1
       ELSE UNCHANGED overwrites
    /\ UNCHANGED <<head, faults, crashes>>

-----------------------------------------------------------------------------
(* mutate.                                                                 *)

Mutate(m) ==
    /\ answer[m] = "none"
    /\ answer' = [answer EXCEPT ![m] = "pending"]
    /\ queue' = Append(queue, m)
    /\ UNCHANGED <<file, cache, loads, phase, draft, budget>>

Settle(how) ==
    /\ answer' = [answer EXCEPT ![Head(queue)] = how]
    /\ queue' = Tail(queue)
    /\ phase' = "idle"

\* fn runs on the clone of the loaded state, and may throw.
Change(current) ==
    \/ /\ draft' = Append(current, Head(queue)) /\ phase' = "persist"
       /\ UNCHANGED <<queue, answer, budget>>
    \/ /\ faults < MaxFaults /\ faults' = faults + 1
       /\ Settle("rejected")
       /\ UNCHANGED <<draft, crashes, overwrites>>

Begin ==
    /\ queue # <<>> /\ phase = "idle"
    /\ IF MustLoad
       THEN /\ load' = [load EXCEPT ![Queue] = "mkdir"] /\ phase' = "load"
            /\ UNCHANGED <<raw, queue, draft, answer, budget>>
       ELSE Change(data) /\ UNCHANGED loads
    /\ UNCHANGED <<file, cache>>

EndLoad ==
    /\ phase = "load" /\ Fill(Queue) /\ Change(raw[Queue])

\* writeFile of the temporary file and its rename.
Persist ==
    /\ phase = "persist"
    /\ file' = draft /\ phase' = "swap"
    /\ UNCHANGED <<cache, loads, queue, draft, answer, budget>>

PersistFails ==
    /\ phase = "persist"
    /\ faults < MaxFaults /\ faults' = faults + 1
    /\ Settle("rejected")
    /\ UNCHANGED <<file, cache, loads, draft, crashes, overwrites>>

Swapped_Forgotten == data
Swapped == draft

Swap ==
    /\ phase = "swap"
    /\ data' = Swapped
    /\ Settle("ok")
    /\ UNCHANGED <<file, loaded, loads, draft, budget>>

Restart ==
    /\ crashes < MaxCrashes /\ crashes' = crashes + 1
    /\ loaded' = FALSE /\ data' = <<>>
    /\ load' = [l \in Loaders |-> "idle"] /\ raw' = [l \in Loaders |-> <<>>]
    /\ queue' = <<>> /\ phase' = "idle" /\ draft' = <<>>
    /\ answer' = [m \in Mutations |-> IF answer[m] = "pending" THEN "lost" ELSE answer[m]]
    /\ UNCHANGED <<file, faults, overwrites>>

Next ==
    \/ \E r \in Readers : Read(r) \/ EndRead(r)
    \/ \E l \in Loaders : OpenFile(l)
    \/ \E m \in Mutations : Mutate(m)
    \/ Begin \/ EndLoad \/ Persist \/ PersistFails \/ Swap
    \/ Restart

Spec == Init /\ [][Next]_vars

-----------------------------------------------------------------------------

\* json-file-state.ts:7-16: a mutation persists the clone of the current state and
\* then makes it the cache, one after the other.  So a mutation that resolved stays
\* in the file, in front of whatever is persisted later.
ResolvedStay ==
    \A m \in Mutations : answer[m] = "ok" => \E i \in 1..Len(file) : file[i] = m

\* The state a caller was told of: the head's change once it settled.
Published == IF phase = "swap" THEN SubSeq(file, 1, Len(file) - 1) ELSE file

\* As long as no load puts an older state back, the state is the log of the
\* mutations that resolved, in the order of the queue, whatever throws and whatever
\* reads overlap it, across restarts too: a restart alone is no step of the log.
Log == INSTANCE AppendLog WITH
    Events <- Mutations, log <- Published, pending <- queue,
    accepted <- {m \in Mutations : answer[m] = "ok"}
ImplementsLog ==
    Log!Init /\ [][overwrites' = 0 /\ crashes' = crashes => [Log!Next]_Log!vars]_vars
=============================================================================
