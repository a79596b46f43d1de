------------------------------- MODULE MCContext -------------------------------
(* Instances of Context for TLC.                                           *)
EXTENDS Context, TLC

\* Two hashes of one key: pieces that agree and pieces that do not.
OneKey == [key : Keys, hash : Hashes]

Symmetry == Permutations(Ids) \cup Permutations(Calls) \cup Permutations(Hashes)

\* Bound: one ledger fault, unpersisted mutation or restart in all; the file is
\* edited only where one request at most and one instant are looked at.  A build is
\* watched with one request, over Evidence that derives from nothing, and a refused one no
\* further.
Requested == Cardinality({c \in Calls : pc[c] # "idle"})
Built == \E r \in Runs : build[r].at # "off"
OneMishap ==
    /\ Built => /\ Requested <= 1 /\ storeFaults + crashes <= 1
                /\ \A e \in Ids : plan[e].class = 0 /\ plan[e].derived = {}
    /\ (\E r \in Runs : build[r].at = "denied") => clock = 1 /\ Requested = 0
    /\ ~ Built =>
          /\ ledgerFaults + storeFaults + crashes <= 1
          /\ edits > 0 => clock = 1 /\ Requested <= 1
=============================================================================
