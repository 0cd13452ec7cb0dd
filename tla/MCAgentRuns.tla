---- MODULE MCAgentRuns ----
(* Small instances of AgentRuns for TLC. *)
EXTENDS AgentRuns, TLC

CONSTANTS r1, r2, w1, w2, w3, q1, q2, q3, owner1, reviewer1, reviewer2

\* Every run acts for the one account that does not count as a reviewer.
MCRequesterOf == [r \in Runs |-> owner1]

Symmetry == Permutations(Workers) \cup Permutations(Requests)
====
