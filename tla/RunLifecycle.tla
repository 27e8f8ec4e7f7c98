---------------------------- MODULE RunLifecycle ----------------------------
(***************************************************************************)
(* The frozen run lifecycle of primer-agents (internal/domain): statuses,  *)
(* which of them are terminal, and the transitions the code admits.        *)
(***************************************************************************)

(* "absent" stands for a run whose row has not been inserted yet. *)
ActiveStatus == {"queued", "running", "cancel_requested"}
TerminalStatus == {"succeeded", "failed", "canceled", "interrupted"}
RunStatus == {"absent"} \cup ActiveStatus \cup TerminalStatus

(* IsTerminal reports whether s is terminal, hence never left again. *)
IsTerminal(s) == s \in TerminalStatus

(* Variant: any outcome may close a requested cancel. *)
CanTransitionCancelLoose(from, to) ==
    \/ from = "queued" /\ to \in {"running", "cancel_requested"}
    \/ from = "running" /\ to \in {"succeeded", "failed", "interrupted", "cancel_requested"}
    \/ from = "cancel_requested" /\ to \in TerminalStatus

(* CanTransition: membership in the graph validTransitions. *)
CanTransition(from, to) ==
    \/ from = "queued" /\ to \in {"running", "cancel_requested"}
    \/ from = "running" /\ to \in {"succeeded", "failed", "interrupted", "cancel_requested"}
    \/ from = "cancel_requested" /\ to = "canceled"

(* Kinds of log entry: what the runner emits while it works, its KindEnd   *)
(* event, and the terminal event run.<status>, named by the status.        *)
EventKind == {"progress", "end"} \cup TerminalStatus
=============================================================================
