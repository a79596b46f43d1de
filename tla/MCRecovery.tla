------------------------------ MODULE MCRecovery ------------------------------
(* Instances of Recovery for TLC.                                          *)
EXTENDS Recovery, TLC, FiniteSets

Symmetry == Permutations(Evidence) \cup Permutations(Runs) \cup Permutations(Requests)
            \cup Permutations(Tags)

\* Bound on what may happen in one behavior, evidence and invalidations counted
\* twice: one evidence, three runs, one invalidation, two reconciliations; or two
\* pieces of evidence with two runs; or two invalidations; or a fault, a restart, a deletion.
Small ==
    2 * Cardinality({e \in Evidence : status[e] # "none"})
      + Cardinality({r \in Runs : run[r] # "none"})
      + 2 * Cardinality({t \in Tags : tag[t].at # "idle"})
      + Cardinality({q \in Requests : request[q].at # "idle"})
      + faults + crashes + Cardinality(deleted) <= 9
=============================================================================
