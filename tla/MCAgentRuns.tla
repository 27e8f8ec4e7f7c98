---------------------------- MODULE MCAgentRuns ----------------------------
(* Small instances of AgentRuns for TLC. *)
EXTENDS AgentRuns, TLC

CONSTANTS r1, r2, w1, w2

(* Runs and workers are interchangeable: no definition names one. *)
Symmetry == Permutations(Runs) \cup Permutations(Workers)
=============================================================================
