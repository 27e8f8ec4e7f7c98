----------------------------- MODULE DurableRuns -----------------------------
(***************************************************************************)
(* What primer-agents promises a caller about a durable run, with workers, *)
(* leases and version fences hidden: the status a caller reads, whether    *)
(* the provider invocation has begun, and the append-only event log.       *)
(*                                                                         *)
(* AgentRuns is shown to implement this specification, and RunStream is    *)
(* composed with it.  The recovery statements of the code are single SQL   *)
(* UPDATEs over every matching row, so recovery acts on a set of runs.     *)
(***************************************************************************)
EXTENDS RunLifecycle, Naturals, Sequences

CONSTANT Runs

VARIABLES status, providerStarted, log

durableVars == <<status, providerStarted, log>>

DurableTypeOK ==
    /\ status \in [Runs -> RunStatus]
    /\ providerStarted \in [Runs -> BOOLEAN]
    /\ log \in [Runs -> Seq(EventKind)]

Init ==
    /\ status = [r \in Runs |-> "absent"]
    /\ providerStarted = [r \in Runs |-> FALSE]
    /\ log = [r \in Runs |-> <<>>]

SetStatus(S, s) == status' = [r \in Runs |-> IF r \in S THEN s ELSE status[r]]

Accept(r) ==
    /\ status[r] = "absent"
    /\ SetStatus({r}, "queued")
    /\ UNCHANGED <<providerStarted, log>>

Claim(r) ==
    /\ status[r] = "queued"
    /\ SetStatus({r}, "running")
    /\ UNCHANGED <<providerStarted, log>>

(* Recorded once, before any provider call, and never withdrawn. *)
BeginProvider(r) ==
    /\ status[r] = "running"
    /\ ~providerStarted[r]
    /\ providerStarted' = [providerStarted EXCEPT ![r] = TRUE]
    /\ UNCHANGED <<status, log>>

Cancel(r) ==
    /\ status[r] \in {"queued", "running"}
    /\ SetStatus({r}, "cancel_requested")
    /\ UNCHANGED <<providerStarted, log>>

(* Event appends check ownership, not the status of the run, so an         *)
(* executor that lost its run may still append.                            *)
AppendEvent(r) ==
    /\ providerStarted[r]
    /\ \E k \in {"progress", "end"} : log' = [log EXCEPT ![r] = Append(@, k)]
    /\ UNCHANGED <<status, providerStarted>>

(* Terminal status and terminal event commit together. *)
Terminate(r) ==
    \E s \in TerminalStatus :
        /\ providerStarted[r]
        /\ CanTransition(status[r], s)
        /\ SetStatus({r}, s)
        /\ log' = [log EXCEPT ![r] = Append(@, s)]
        /\ UNCHANGED providerStarted

(* Only work whose provider never began is handed out again. *)
Requeue(S) ==
    /\ \A r \in S : status[r] = "running" /\ ~providerStarted[r]
    /\ SetStatus(S, "queued")
    /\ UNCHANGED <<providerStarted, log>>

(* Work that had begun and lost its lease ends as interrupted, silently,   *)
(* also when a cancel was requested: an edge CanTransition does not have.  *)
Interrupt(S) ==
    /\ \A r \in S : status[r] \in {"running", "cancel_requested"} /\ providerStarted[r]
    /\ SetStatus(S, "interrupted")
    /\ UNCHANGED <<providerStarted, log>>

(* A cancel no executor will acknowledge is closed by recovery, silently. *)
CloseCancel(S) ==
    /\ \A r \in S : status[r] = "cancel_requested" /\ ~providerStarted[r]
    /\ SetStatus(S, "canceled")
    /\ UNCHANGED <<providerStarted, log>>

Next ==
    \/ \E r \in Runs : \/ Accept(r) \/ Claim(r) \/ BeginProvider(r) \/ Cancel(r)
                       \/ AppendEvent(r) \/ Terminate(r)
    \/ \E S \in SUBSET Runs : Requeue(S) \/ Interrupt(S) \/ CloseCancel(S)

Spec == Init /\ [][Next]_durableVars
=============================================================================
