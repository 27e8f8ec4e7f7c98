-------------------------- MODULE MCTasksDialogue --------------------------
(* Small instances of TasksDialogue for TLC. *)
EXTENDS TasksDialogue, TLC

CONSTANTS m1, s1, s2, w1, w2

(* Workers, sessions and manual requirements are interchangeable. *)
Symmetry ==
    Permutations(Workers) \cup Permutations(Sessions)
        \cup Permutations(Manuals)
=============================================================================
