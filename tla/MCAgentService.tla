--------------------------- MODULE MCAgentService ---------------------------
(* TLC instance of AgentService.  Runs and clients are interchangeable.    *)
EXTENDS AgentService, TLC

Symmetry == Permutations(Runs) \cup Permutations(Clients)

\* Bound: one fault, unpersisted mutation or restart in all, and from then on
\* one stop or delete request at a time.
OneMishap ==
    LET mishaps == faults + storeFaults + crashes
    IN  /\ mishaps <= 1
        /\ mishaps = 1 => Cardinality({c \in Clients : call[c] # NoCall}) <= 1
=============================================================================
