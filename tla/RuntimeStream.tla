----------------------------- MODULE RuntimeStream -----------------------------
(***************************************************************************)
(* From a Codex child's stdout to its run's chain: the chunk handler of    *)
(* codex-runner.ts, consume-codex-jsonl.ts, runtime-event-sink.ts and      *)
(* codex-event-adapter.ts.  The child writes lines of the Kinds below, the *)
(* pipe cuts them into chunks anywhere, each chunk is decoded by itself,   *)
(* and every complete line is parsed by the runner at once and recorded by *)
(* the sink in a queue of its own.                                         *)
(***************************************************************************)
EXTENDS Naturals, Sequences, FiniteSets, SequencesExt, Places

CONSTANTS
    Kinds,          \* kinds of line the child may write
    MaxLines,       \* bound: lines it writes
    MaxFaults,      \* bound: ledger appends that throw
    MaxLimits       \* bound: chunks that exceed CODEX_MAX_OUTPUT_BYTES

\* "known", "unknown": events with a type the adapter knows, or not;
\* "message": an item.completed agent_message;
\* "inherited": an item whose type names a property of Object.prototype;
\* "null", "scalar": JSON, but not an object; "garbage": not JSON;
\* "unredactable": the redactor throws on it; "blank": white space.
AllKinds == {"known", "message", "unknown", "inherited", "null", "scalar", "garbage",
             "unredactable", "blank"}

ASSUME KindsAssumption == Kinds \subseteq AllKinds
ASSUME Bounds == {MaxLines, MaxFaults, MaxLimits} \subseteq Nat

VARIABLES
    stdout,     \* what the child writes: a sequence of pieces
    sent,       \* how many of them the pipe has delivered
    torn,       \* those that lost a character to a cut: toString("utf8") per chunk
    buffer,     \* the consumer's trailing partial line
    handled,    \* lines given to onLine, in order
    queue,      \* sink.accept calls not run yet
    broken,     \* an accept rejected: those behind it never run
    messages,   \* agent messages the runner parsed
    chain,      \* records of the run's chain, as <<line, kind>>
    state,      \* "running", "draining", then how runner.run settled
    exceeded,   \* output bound passed
    faults

consumer == <<buffer, handled, queue, messages>>
vars == <<stdout, sent, torn, consumer, broken, chain, state, exceeded, faults>>

\* Two pieces and a newline per line; line i is of kind ks[i].
Pieces(n, ks) == [p \in 1..(3 * n) |-> LET i == (p + 2) \div 3 IN
                    <<i, ks[i], <<"begin", "end", "nl">>[p - 3 * (i - 1)]>>]
Outputs == UNION {{Pieces(n, ks) : ks \in [1..n -> Kinds]} : n \in 1..MaxLines}

Init ==
    /\ stdout \in Outputs \cup {Front(out) : out \in Outputs}
    /\ sent = 0 /\ torn = {} /\ buffer = <<>> /\ handled = <<>> /\ queue = <<>> /\ messages = <<>>
    /\ broken = FALSE /\ chain = <<>> /\ state = "running"
    /\ exceeded = FALSE /\ faults = 0

IsNewline(piece) == piece[3] = "nl"

\* A cut in the middle of a line may fall inside a character of several bytes, in a
\* line of any kind that has text: each half is decoded to a replacement character.
Divisible(piece) == piece[3] = "begin" /\ piece[2] \notin {"null", "blank"}
Torn(piece) == <<piece[1], piece[2], "torn">>
Decoded(first, last, cuts) ==
    [q \in 1..(last - first + 1) |->
       LET p == first + q - 1 IN IF p \in cuts THEN Torn(stdout[p]) ELSE stdout[p]]
Kind(line) == IF Len(line) = 2 \/ line[1][2] = "blank" THEN line[1][2] ELSE "garbage"

-----------------------------------------------------------------------------
(* The sink: one record per line, whatever the line is.                    *)

\* classifyCodexEvent: an inherited name passes the "in" test and makes the
\* record's kind a function, which canonicalJson rejects.
Classified(kind) ==
    IF kind \in {"known", "message"} THEN "runtime.event"
    ELSE IF kind = "inherited" THEN "not JSON" ELSE "runtime.unknown"

Recorded(kind) ==
    IF kind = "garbage" THEN "runtime.parse_failure"
    ELSE IF kind = "unredactable" THEN "redaction_failure" ELSE Classified(kind)

AfterReject_Continues == FALSE
AfterReject == TRUE

\* sink.accept for the line at the head of the queue.
Accept ==
    /\ queue # <<>> /\ ~ broken
    /\ queue' = Tail(queue)
    /\ LET line == Head(queue) IN
         IF Recorded(Kind(line)) = "not JSON"
         THEN broken' = AfterReject /\ UNCHANGED chain
         ELSE /\ chain' = Append(chain, <<line, Recorded(Kind(line))>>)
              /\ UNCHANGED broken
    /\ UNCHANGED <<stdout, sent, torn, buffer, handled, messages, state, exceeded, faults>>

AcceptThrows ==
    /\ queue # <<>> /\ ~ broken
    /\ faults < MaxFaults /\ faults' = faults + 1
    /\ queue' = Tail(queue)
    /\ broken' = AfterReject
    /\ UNCHANGED <<stdout, sent, torn, buffer, handled, messages, chain, state, exceeded>>

-----------------------------------------------------------------------------
(* The consumer.                                                           *)

\* The pieces of a text, split at its newlines; the last part is not a line yet.
Newlines(text) == {i \in 1..Len(text) : IsNewline(text[i])}
Starts(text)   == <<1>> \o [j \in 1..Cardinality(Newlines(text)) |-> Ascending(Newlines(text))[j] + 1]
SplitLines(text) ==
    LET starts == Starts(text)
    IN  [j \in 1..Cardinality(Newlines(text)) |-> SubSeq(text, starts[j], starts[j + 1] - 2)]
Partial(text) == SubSeq(text, Last(Starts(text)), Len(text))

\* The lines that are forwarded to the sink: those of white space are not.
Audible(ls) == Chosen(ls, {i \in 1..Len(ls) : Kind(ls[i]) # "blank"})

\* parseCodexEventLine reads a property of whatever JSON.parse returned.
Throws(line) == Kind(line) = "null"

\* handleLine for each line, in order; one that throws ends the loop.
HandleLines(lines) ==
    LET bad  == {i \in 1..Len(lines) : Throws(lines[i])}
        done == IF bad = {} THEN lines ELSE SubSeq(lines, 1, Min(bad) - 1)
    IN  /\ handled' = handled \o done
        /\ queue' = queue \o Audible(done)
        /\ messages' = messages \o SelectSeq(done, LAMBDA l : Kind(l) = "message")

\* A data event.  A throw in it is not caught: the server process dies.
Chunk ==
    /\ state = "running" /\ sent < Len(stdout)
    /\ \E upto \in (sent + 1)..Len(stdout), cut \in BOOLEAN :
         LET cuts  == IF cut THEN torn \cup {upto, upto + 1} ELSE torn
             text  == buffer \o Decoded(sent + 1, upto, cuts)
             lines == SplitLines(text)
         IN  /\ cut => Divisible(stdout[upto])
             /\ sent' = upto /\ torn' = cuts
             /\ buffer' = Partial(text)
             /\ HandleLines(lines)
             /\ state' = IF \E i \in 1..Len(lines) : Throws(lines[i])
                         THEN "server down" ELSE "running"
    /\ UNCHANGED <<stdout, broken, chain, exceeded, faults>>

\* The chunk that passes the output bound is not consumed; the child is killed
\* and every later chunk is over the bound too.
ChunkExceeds ==
    /\ state = "running" /\ sent < Len(stdout)
    /\ MaxLimits > 0
    /\ sent' \in (sent + 1)..Len(stdout)
    /\ stdout' = SubSeq(stdout, 1, sent')
    /\ exceeded' = TRUE
    /\ UNCHANGED <<torn, consumer, broken, chain, state, faults>>

\* The child closes, having written everything or having died before that:
\* flush hands over the trailing line, inside runner.run's try.
FlushedText_Lost == <<>>
FlushedText == IF buffer = <<>> THEN <<>> ELSE <<buffer>>

Close ==
    /\ state = "running"
    /\ buffer' = <<>>
    /\ HandleLines(FlushedText)
    /\ state' = IF \E i \in 1..Len(FlushedText) : Throws(FlushedText[i])
                THEN "failed" ELSE "draining"
    /\ UNCHANGED <<stdout, sent, torn, broken, chain, exceeded, faults>>

\* consumer.done() settles with the queue; then the ladder, here for a child
\* that exits with 0 and was not cancelled.
Settled == broken \/ queue = <<>>
Done == Settled

Return ==
    /\ state = "draining"
    /\ Done
    /\ state' = IF broken \/ exceeded \/ messages = <<>> THEN "failed" ELSE "ok"
    /\ UNCHANGED <<stdout, sent, torn, consumer, broken, chain, exceeded, faults>>

Next == Accept \/ AcceptThrows \/ Chunk \/ ChunkExceeds \/ Close \/ Return

Spec == Init /\ [][Next]_vars

-----------------------------------------------------------------------------
Complete == {"ok", "failed", "server down"}

\* The states of a run and the bounds of its counters.
TypeOK ==
    /\ sent \in 0..Len(stdout)
    /\ state \in Complete \cup {"running", "draining"}
    /\ broken \in BOOLEAN /\ exceeded \in BOOLEAN
    /\ faults \in 0..MaxFaults
    /\ \A i \in 1..Len(chain) : chain[i][2] \in {"runtime.event", "runtime.unknown",
            "runtime.parse_failure", "redaction_failure"}

-----------------------------------------------------------------------------
(* Properties.                                                             *)

Lines(text) == SplitLines(text) \o (IF Partial(text) = <<>> THEN <<>> ELSE <<Partial(text)>>)
Received    == [p \in 1..sent |-> IF p \in torn THEN Torn(stdout[p]) ELSE stdout[p]]
Delivered   == Lines(Received)

\* INV-14: wherever the pipe cuts the stream, the chain is the lines in the order
\* the child wrote them, none twice and none skipped in the middle.
ChainKeepsOrder ==
    IsPrefix([i \in 1..Len(chain) |-> chain[i][1]], Audible(handled))

\* INV-13: a run that succeeds has every line the child wrote in its chain, the
\* unterminated last one too, as it was but for the characters a cut divided, and as
\* a parse failure if and only if it was none of JSON.
SuccessIsRecorded ==
    state = "ok" =>
        /\ [i \in 1..Len(chain) |-> chain[i][1]] = Audible(Delivered)
        /\ \A i \in 1..Len(chain) :
              chain[i][2] = "runtime.parse_failure" <=> Kind(chain[i][1]) = "garbage"
=============================================================================
