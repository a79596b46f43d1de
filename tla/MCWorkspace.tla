----------------------------- MODULE MCWorkspace -----------------------------
(* The instance of Workspace for TLC.                                      *)
EXTENDS Workspace, TLC

Symmetry == Permutations(Runs) \cup Permutations(Proposals) \cup Permutations(Updates)
            \cup Permutations(Configs)

\* Bound: the updates and the outbox meet in the runs only, so a behavior has the one or
\* the other, and with updates a fault or a restart.
OneSide ==
    \/ \A u \in Updates : update[u].at = "none"
    \/ /\ outbox = Absent
       /\ \A r \in Runs : file[r] = Absent /\ processed[r] = Absent
       /\ faults + crashes <= 1
=============================================================================
