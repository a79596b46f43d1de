-------------------------------- MODULE Ledger --------------------------------
(***************************************************************************)
(* One hash chain of walnut/evidence/ledger.ts: a run's NDJSON file or the *)
(* governance chain.  Appends go through the chain's promise queue; each   *)
(* verifies the whole file, reads its head and appends one line.  A line   *)
(* is a record or Garbage; SHA-256 is an injective constructor.            *)
(***************************************************************************)
EXTENDS Naturals, Sequences, FiniteSets, SequencesExt

CONSTANTS
    Events,       \* payloads, one per append request
    Forged,       \* a payload no request carries
    None,
    MaxEdits,     \* bound: edits of the file behind the server's back
    MaxFaults,    \* bound: appendFile calls that fail
    MaxCrashes    \* bound: restarts of the server

VARIABLES
    lines,        \* the chain's file
    terminated,   \* the file ends with "\n"
    queue,        \* append requests not settled yet, the first is running
    phase,        \* where the first one is
    head,         \* the sequence and hash it will follow
    answer,       \* how each request settled
    edits, faults, crashes

file   == <<lines, terminated>>
budget == <<edits, faults, crashes>>
vars   == <<file, queue, phase, head, answer, budget>>

Garbage == [seq |-> 0, body |-> None, prev |-> <<>>, hash |-> <<>>]
Hash(prev, seq, body) == <<seq, body, prev>>
Genesis == <<>>
Record(h, body) == [seq |-> h.seq + 1, body |-> body, prev |-> h.hash,
                    hash |-> Hash(h.hash, h.seq + 1, body)]
HeadOf(ls) == IF ls = <<>> THEN [seq |-> 0, hash |-> Genesis]
              ELSE [seq |-> Last(ls).seq, hash |-> Last(ls).hash]

-----------------------------------------------------------------------------
(* verifyChain: the first line that fails, and the check that fails first. *)

Before(ls, i) == IF i = 1 THEN Genesis ELSE ls[i - 1].hash

Linked(ls, i) == ls[i].prev = Before(ls, i)
Sealed_AsClaimed(ls, i) == ls[i].hash # <<>>
Sealed(ls, i) == ls[i].hash = Hash(Before(ls, i), ls[i].seq, ls[i].body)

Reason(ls, i) ==
    IF ls[i] = Garbage      THEN "parse_failure"
    ELSE IF ls[i].seq # i   THEN "sequence_gap"
    ELSE IF ~ Linked(ls, i) THEN "prev_hash_mismatch"
    ELSE IF ~ Sealed(ls, i) THEN "hash_mismatch" ELSE "none"

BrokenAt(ls) == {i \in 1..Len(ls) : Reason(ls, i) # "none"}
Verifies(ls) == BrokenAt(ls) = {}

-----------------------------------------------------------------------------
Init ==
    /\ lines = <<>> /\ terminated = TRUE
    /\ queue = <<>> /\ phase = "verify"
    /\ head = [seq |-> 0, hash |-> Genesis]
    /\ answer = [e \in Events |-> "none"]
    /\ edits = 0 /\ faults = 0 /\ crashes = 0

AppendEvent(e) ==
    /\ answer[e] = "none"
    /\ answer' = [answer EXCEPT ![e] = "pending"]
    /\ queue' = Append(queue, e)
    /\ UNCHANGED <<file, phase, head, budget>>

\* A settled append lets the next one of the queue start, whatever its outcome.
NextPhase_Stuck(how) == IF how = "ok" THEN "verify" ELSE "settled"
NextPhase(how) == "verify"

Settle(how) ==
    /\ answer' = [answer EXCEPT ![Head(queue)] = how]
    /\ queue' = Tail(queue)
    /\ phase' = NextPhase(how)

\* loadHead, first read of the file.
Chained == Verifies(lines)

Verify ==
    /\ queue # <<>> /\ phase = "verify"
    /\ IF Chained
       THEN phase' = "head" /\ UNCHANGED <<queue, answer>>
       ELSE Settle("rejected")
    /\ UNCHANGED <<file, head, budget>>

\* loadHead, second read: the file may have changed since the first.
ReadHead ==
    /\ phase = "head"
    /\ IF lines # <<>> /\ Last(lines) = Garbage
       THEN Settle("rejected") /\ UNCHANGED head
       ELSE /\ head' = HeadOf(lines)
            /\ phase' = "write"
            /\ UNCHANGED <<queue, answer>>
    /\ UNCHANGED <<file, budget>>

\* appendFile starts where the file ends, which is not always a line's start.
Written_Truncates(line) == <<line>>
Written(line) ==
    IF terminated THEN Append(lines, line)
    ELSE [lines EXCEPT ![Len(lines)] = Garbage]

Write ==
    /\ phase = "write"
    /\ lines' = Written(Record(head, Head(queue)))
    /\ terminated' = TRUE
    /\ Settle("ok")
    /\ UNCHANGED <<head, budget>>

\* What a write that did not return leaves: nothing, part of a record, all of it
\* but the newline, or the whole line.
CutShort ==
    \/ UNCHANGED file
    \/ lines' = Written(Record(head, Head(queue))) /\ terminated' = TRUE
    \/ lines' = Written(Garbage) /\ terminated' = FALSE
    \/ lines' = Written(Record(head, Head(queue))) /\ terminated' = FALSE

WriteFails ==
    /\ phase = "write"
    /\ faults < MaxFaults /\ faults' = faults + 1
    /\ CutShort
    /\ Settle("rejected")
    /\ UNCHANGED <<head, edits, crashes>>

Restart ==
    /\ crashes < MaxCrashes /\ crashes' = crashes + 1
    /\ IF phase = "write" THEN CutShort ELSE UNCHANGED file
    /\ answer' = [e \in Events |-> IF answer[e] = "pending" THEN "lost" ELSE answer[e]]
    /\ queue' = <<>> /\ phase' = "verify"
    /\ UNCHANGED <<head, edits, faults>>

-----------------------------------------------------------------------------
(* An operator or another process edits the file.  A line's record is not  *)
(* recomputed: POST verify-tamper edits one character of a copy.  The last *)
(* lines of a file are not deleted here: a shorter chain verifies.         *)

Edit ==
    /\ edits < MaxEdits /\ edits' = edits + 1
    /\ \E i, j \in 1..Len(lines) :
          \/ lines' = [lines EXCEPT ![i].body = Forged]
          \/ i < Len(lines) /\ lines' = RemoveAt(lines, i)
          \/ lines' = InsertAt(lines, i, lines[j])
          \/ lines' = Append(lines, lines[j])
          \/ i < j /\ lines' = [lines EXCEPT ![i] = lines[j], ![j] = lines[i]]
    /\ terminated' = TRUE
    /\ UNCHANGED <<queue, phase, head, answer, faults, crashes>>

Next ==
    \/ \E e \in Events : AppendEvent(e)
    \/ Verify \/ ReadHead \/ Write \/ WriteFails \/ Restart \/ Edit

Spec == Init /\ [][Next]_vars

-----------------------------------------------------------------------------
\* The types of the file and of the in-memory queue.
TypeOK ==
    /\ \A i \in 1..Len(lines) :
          lines[i].seq \in Nat /\ lines[i].body \in Events \cup {Forged, None}
    /\ terminated \in BOOLEAN
    /\ queue \in Seq(Events)
    /\ phase \in {"verify", "head", "write"}
    /\ head.seq \in Nat
    /\ answer \in [Events -> {"none", "pending", "ok", "rejected", "lost"}]
    /\ {edits, faults, crashes} \subseteq Nat

-----------------------------------------------------------------------------
(* Properties.                                                             *)

Unharmed == edits = 0 /\ faults = 0 /\ crashes = 0
Bodies(ls) == [i \in 1..Len(ls) |-> ls[i].body]

\* An append resolves only once its line is in the file, and concurrent appends
\* never interleave: an unedited file whose writes all completed verifies, and
\* holds the resolved appends, each once.
IntactIfUnedited ==
    Unharmed =>
        /\ Verifies(lines)
        /\ \A e \in Events : answer[e] = "ok" <=> \E i \in 1..Len(lines) : lines[i].body = e
        /\ \A i, j \in 1..Len(lines) : lines[i].body = lines[j].body => i = j

\* INV-15, for edits inside the history: whatever the edit and whichever append
\* was between its read and its write, verifyChain names a broken line.  A second
\* edit could undo the first.
EditDetected == edits = 1 => ~ Verifies(lines)

\* Every append is answered, behind a rejected one too.
AppendsSettle ==
    \A e \in Events : answer[e] = "pending" ~> answer[e] \in {"ok", "rejected", "lost"}

\* Until an edit, a failed write or a restart the chain implements the
\* append-only log, step by step.
Log == INSTANCE AppendLog WITH
    log <- Bodies(lines), pending <- queue,
    accepted <- {e \in Events : answer[e] = "ok"}
ImplementsLog == Log!Init /\ [][Unharmed' => [Log!Next]_Log!vars]_vars
=============================================================================
