------------------------------ MODULE AppendLog ------------------------------
(***************************************************************************)
(* What a ledger chain promises its callers: requests are answered, and    *)
(* the log is the sequence of the accepted ones, each once, in the order   *)
(* they were accepted.  Nothing leaves the log or changes in it.           *)
(***************************************************************************)
EXTENDS Sequences

CONSTANT Events

VARIABLES log, pending, accepted

vars == <<log, pending, accepted>>

Init == log = <<>> /\ pending = <<>> /\ accepted = {}

Submit(e) ==
    /\ pending' = Append(pending, e)
    /\ UNCHANGED <<log, accepted>>

Accept ==
    /\ pending # <<>>
    /\ log' = Append(log, Head(pending))
    /\ accepted' = accepted \cup {Head(pending)}
    /\ pending' = Tail(pending)

Reject ==
    /\ pending # <<>>
    /\ pending' = Tail(pending)
    /\ UNCHANGED <<log, accepted>>

Next == (\E e \in Events : Submit(e)) \/ Accept \/ Reject

Spec == Init /\ [][Next]_vars
=============================================================================
