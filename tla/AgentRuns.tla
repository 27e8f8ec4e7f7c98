------------------------------ MODULE AgentRuns ------------------------------
(***************************************************************************)
(* The durable run lifecycle of primer-agents: the agents.runs rows, the   *)
(* run_events log, callers that create and cancel runs, and the worker     *)
(* processes that claim, execute, heartbeat, cancel, terminate and         *)
(* reconcile them (internal/worker, internal/repo, internal/appservice).   *)
(*                                                                         *)
(* A worker is one process with one execution slot (MaxConcurrent = 1, the *)
(* default).  Its execute() call is a main thread and two goroutines, the  *)
(* heartbeat and the cancel poller, that share a run-scoped context.       *)
(* Every SQL statement or transaction is one step.  A database call may    *)
(* fail, with or without having committed, and a process may die between   *)
(* any two steps.                                                          *)
(***************************************************************************)
EXTENDS RunLifecycle, Naturals, Sequences

CONSTANTS
    Runs,           \* run ids
    Workers,        \* worker processes
    NoRun,          \* claimed[w] when w executes nothing
    RunTimeout,     \* TRUE when cfg.RunTimeout > 0
    MaxEvents,      \* bound: progress events in one run's log
    MaxCancels,     \* bound: cancel requests by callers
    MaxCrashes,     \* bound: process deaths
    MaxDBErrors     \* bound: failed database calls

ASSUME NoRunAssumption == NoRun \notin Runs
ASSUME BoundsAssumption ==
    /\ RunTimeout \in BOOLEAN
    /\ MaxEvents \in Nat /\ MaxCancels \in Nat
    /\ MaxCrashes \in Nat /\ MaxDBErrors \in Nat

VARIABLES
    status,           \* runs.status
    stateVersion,     \* runs.state_version, the fence
    providerStarted,  \* runs.provider_started_at IS NOT NULL
    lease,            \* runs.lease_expires_at: "none", "live" or "expired"
    log,              \* the run_events of each run, by sequence
    pc,               \* where each worker's main thread stands
    claimed,          \* the run each worker executes
    fence,            \* execute's stateVersion
    cause,            \* why each run context is cancelled; the first cause stays
    heartbeat,        \* whether each heartbeat goroutine is running
    poller,           \* whether each cancel poller is running
    beatFence,        \* the version each heartbeat was started with
    result,           \* what runner.Run returned
    term,             \* termStatus, the outcome runMAF classified
    from,             \* fromStatus, read before terminating
    executions,       \* history: provider invocations of each run
    lostEvent,        \* history: an event of this run was not persisted
    cancels, crashes, dbErrors  \* how much of each budget is used

rowVars == <<status, stateVersion, providerStarted, lease, log>>
contextVars == <<cause, heartbeat, poller, beatFence>>
outcomeVars == <<result, term, from>>
execVars == <<contextVars, outcomeVars>>
workerVars == <<pc, claimed, fence, execVars>>
historyVars == <<executions, lostEvent>>
faults == <<cancels, crashes, dbErrors>>
vars == <<rowVars, workerVars, historyVars, faults>>

-----------------------------------------------------------------------------
(* Types *)

PC == {"down", "reconcile1", "reconcile2", "reconcile3", "idle", "claimed",
       "marked", "running", "ended", "classified", "terminating", "draining"}

(* Types of the rows, the workers and the history. *)
TypeOK ==
    /\ status \in [Runs -> RunStatus]
    /\ stateVersion \in [Runs -> Nat]
    /\ providerStarted \in [Runs -> BOOLEAN]
    /\ lease \in [Runs -> {"none", "live", "expired"}]
    /\ log \in [Runs -> Seq(EventKind)]
    /\ pc \in [Workers -> PC]
    /\ claimed \in [Workers -> Runs \cup {NoRun}]
    /\ fence \in [Workers -> Nat]
    /\ cause \in [Workers -> {"none", "cancel", "other"}]
    /\ heartbeat \in [Workers -> BOOLEAN]
    /\ poller \in [Workers -> BOOLEAN]
    /\ beatFence \in [Workers -> Nat]
    /\ result \in [Workers -> {"none", "nil", "error"}]
    /\ term \in [Workers -> {"none"} \cup TerminalStatus]
    /\ from \in [Workers -> RunStatus]
    /\ executions \in [Runs -> Nat]
    /\ lostEvent \in [Runs -> BOOLEAN]
    /\ cancels \in Nat /\ crashes \in Nat /\ dbErrors \in Nat

Init ==
    /\ status = [r \in Runs |-> "absent"]
    /\ stateVersion = [r \in Runs |-> 0]
    /\ providerStarted = [r \in Runs |-> FALSE]
    /\ lease = [r \in Runs |-> "none"]
    /\ log = [r \in Runs |-> <<>>]
    /\ pc = [w \in Workers |-> "down"]
    /\ claimed = [w \in Workers |-> NoRun]
    /\ fence = [w \in Workers |-> 0]
    /\ cause = [w \in Workers |-> "none"]
    /\ heartbeat = [w \in Workers |-> FALSE]
    /\ poller = [w \in Workers |-> FALSE]
    /\ beatFence = [w \in Workers |-> 0]
    /\ result = [w \in Workers |-> "none"]
    /\ term = [w \in Workers |-> "none"]
    /\ from = [w \in Workers |-> "absent"]
    /\ executions = [r \in Runs |-> 0]
    /\ lostEvent = [r \in Runs |-> FALSE]
    /\ cancels = 0 /\ crashes = 0 /\ dbErrors = 0

-----------------------------------------------------------------------------
(* Callers and time *)

(* CreateRun: insert a queued row.  Repeating the call with the same key   *)
(* returns the existing row and changes nothing.                           *)
CreateRun(r) ==
    /\ status[r] = "absent"
    /\ status' = [status EXCEPT ![r] = "queued"]
    /\ stateVersion' = [stateVersion EXCEPT ![r] = 1]
    /\ UNCHANGED <<providerStarted, lease, log, workerVars, historyVars, faults>>

(* RequestCancel: any active run, also one already cancel_requested; the   *)
(* version moves in every case and the lease stays.                        *)
RequestCancel(r) ==
    /\ status[r] \in ActiveStatus
    /\ cancels < MaxCancels
    /\ cancels' = cancels + 1
    /\ status' = [status EXCEPT ![r] = "cancel_requested"]
    /\ stateVersion' = [stateVersion EXCEPT ![r] = @ + 1]
    /\ UNCHANGED <<providerStarted, lease, log, workerVars, historyVars, crashes,
                   dbErrors>>

(* lease_expires_at < now() becomes true.  A heartbeat may be late, so a   *)
(* lease can also expire under a worker that is alive.                     *)
LeaseExpires(r) ==
    /\ lease[r] = "live"
    /\ lease' = [lease EXCEPT ![r] = "expired"]
    /\ UNCHANGED <<status, stateVersion, providerStarted, log, workerVars,
                   historyVars, faults>>

-----------------------------------------------------------------------------
(* Worker process: start, reconcile, claim *)

SpendDBError ==
    /\ dbErrors < MaxDBErrors
    /\ dbErrors' = dbErrors + 1
    /\ UNCHANGED <<cancels, crashes>>

Goto(w, where) == pc' = [pc EXCEPT ![w] = where]

(* execute returns (or the process dies): its locals are gone. *)
Leave(w, where) ==
    /\ Goto(w, where)
    /\ claimed' = [claimed EXCEPT ![w] = NoRun]
    /\ fence' = [fence EXCEPT ![w] = 0]
    /\ cause' = [cause EXCEPT ![w] = "none"]
    /\ heartbeat' = [heartbeat EXCEPT ![w] = FALSE]
    /\ poller' = [poller EXCEPT ![w] = FALSE]
    /\ beatFence' = [beatFence EXCEPT ![w] = 0]
    /\ result' = [result EXCEPT ![w] = "none"]
    /\ term' = [term EXCEPT ![w] = "none"]
    /\ from' = [from EXCEPT ![w] = "absent"]

(* Start: the process comes up and reconciles once before it polls. *)
Start(w) ==
    /\ pc[w] = "down"
    /\ Goto(w, "reconcile1")
    /\ UNCHANGED <<rowVars, claimed, fence, execVars, historyVars, faults>>

(* Process death, and equally a shutdown: the worker context is cancelled, *)
(* so no further database call of it succeeds.                             *)
Crash(w) ==
    /\ pc[w] # "down"
    /\ crashes < MaxCrashes
    /\ crashes' = crashes + 1
    /\ Leave(w, "down")
    /\ UNCHANGED <<rowVars, historyVars, cancels, dbErrors>>

(* Variant: the recovery statements forget state_version. *)
BumpForgotten(S) == stateVersion' = [r \in Runs |-> stateVersion[r]]

Bump(S) == stateVersion' = [r \in Runs |-> stateVersion[r] + (IF r \in S THEN 1 ELSE 0)]
Assign(S, s) == status' = [r \in Runs |-> IF r \in S THEN s ELSE status[r]]

(* ReconcileInterrupted: one UPDATE, no event. *)
ReconcileInterrupted(w) ==
    LET S == {r \in Runs : /\ status[r] \in {"running", "cancel_requested"}
                           /\ providerStarted[r]
                           /\ lease[r] = "expired"}
    IN /\ pc[w] = "reconcile1"
       /\ Assign(S, "interrupted")
       /\ Bump(S)
       /\ Goto(w, "reconcile2")
       /\ UNCHANGED <<providerStarted, lease, log, claimed, fence, execVars,
                      historyVars, faults>>

(* Variant: the requeue does not look at provider_started_at. *)
ReconcileAnyExpired(w) ==
    LET S == {r \in Runs : status[r] = "running" /\ lease[r] = "expired"}
    IN /\ pc[w] = "reconcile2"
       /\ Assign(S, "queued")
       /\ Bump(S)
       /\ lease' = [r \in Runs |-> IF r \in S THEN "none" ELSE lease[r]]
       /\ Goto(w, "reconcile3")
       /\ UNCHANGED <<providerStarted, log, claimed, fence, execVars,
                      historyVars, faults>>

(* ReconcileNeverStartedInterrupted: back to the queue, lease cleared. *)
ReconcileNeverStarted(w) ==
    LET S == {r \in Runs : status[r] = "running" /\ ~providerStarted[r] /\ lease[r] = "expired"}
    IN /\ pc[w] = "reconcile2"
       /\ Assign(S, "queued")
       /\ Bump(S)
       /\ lease' = [r \in Runs |-> IF r \in S THEN "none" ELSE lease[r]]
       /\ Goto(w, "reconcile3")
       /\ UNCHANGED <<providerStarted, log, claimed, fence, execVars,
                      historyVars, faults>>

(* ReconcileStaleCancels: one UPDATE, no event. *)
ReconcileStaleCancels(w) ==
    LET S == {r \in Runs : /\ status[r] = "cancel_requested"
                           /\ ~providerStarted[r]
                           /\ lease[r] # "live"}
    IN /\ pc[w] = "reconcile3"
       /\ Assign(S, "canceled")
       /\ Bump(S)
       /\ Goto(w, "idle")
       /\ UNCHANGED <<providerStarted, lease, log, claimed, fence, execVars,
                      historyVars, faults>>

(* Reconcile returns at its first error, which Start only logs. *)
ReconcileFails(w) ==
    /\ pc[w] \in {"reconcile1", "reconcile2", "reconcile3"}
    /\ SpendDBError
    /\ Goto(w, "idle")
    /\ UNCHANGED <<rowVars, claimed, fence, execVars, historyVars>>

(* The rows ClaimNextQueued may select.  SKIP LOCKED passes over a row     *)
(* another transaction holds, so the oldest is not always the one taken.   *)
Claimable(r) == status[r] = "queued" /\ lease[r] # "live"

ClaimRow(r) ==
    /\ Claimable(r)
    /\ status' = [status EXCEPT ![r] = "running"]
    /\ stateVersion' = [stateVersion EXCEPT ![r] = @ + 1]
    /\ lease' = [lease EXCEPT ![r] = "live"]

(* Variant: execute keeps the version selected before the claim. *)
ClaimKeepsOldVersion(w) ==
    /\ pc[w] = "idle"
    /\ \E r \in Runs :
          /\ ClaimRow(r)
          /\ claimed' = [claimed EXCEPT ![w] = r]
          /\ fence' = [fence EXCEPT ![w] = stateVersion[r]]
    /\ Goto(w, "claimed")
    /\ UNCHANGED <<providerStarted, log, execVars, historyVars, faults>>

(* claimOne *)
ClaimNextQueued(w) ==
    /\ pc[w] = "idle"
    /\ \E r \in Runs :
          /\ ClaimRow(r)
          /\ claimed' = [claimed EXCEPT ![w] = r]
          /\ fence' = [fence EXCEPT ![w] = stateVersion[r] + 1]
    /\ Goto(w, "claimed")
    /\ UNCHANGED <<providerStarted, log, execVars, historyVars, faults>>

(* The claim commits but its answer is lost: the row runs under nobody. *)
ClaimUnacknowledged(w) ==
    /\ pc[w] = "idle"
    /\ SpendDBError
    /\ \E r \in Runs : ClaimRow(r)
    /\ UNCHANGED <<providerStarted, log, workerVars, historyVars>>

-----------------------------------------------------------------------------
(* execute, main thread *)

(* Variant: MarkProviderStarted without the version predicate. *)
MarkMatchesUnfenced(w) == status[claimed[w]] = "running" /\ ~providerStarted[claimed[w]]

MarkMatches(w) ==
    LET r == claimed[w]
    IN stateVersion[r] = fence[w] /\ status[r] = "running" /\ ~providerStarted[r]

(* MarkProviderStarted succeeds, before any provider call. *)
MarkProviderStarted(w) ==
    /\ pc[w] = "claimed"
    /\ MarkMatches(w)
    /\ providerStarted' = [providerStarted EXCEPT ![claimed[w]] = TRUE]
    /\ Goto(w, "marked")
    /\ UNCHANGED <<status, stateVersion, lease, log, claimed, fence, execVars,
                   historyVars, faults>>

(* Variant: the error of MarkProviderStarted is logged and ignored. *)
MarkStaleIgnored(w) ==
    /\ pc[w] = "claimed"
    /\ ~MarkMatches(w)
    /\ Goto(w, "marked")
    /\ UNCHANGED <<rowVars, claimed, fence, execVars, historyVars, faults>>

(* MarkProviderStarted finds no matching row: bail without executing. *)
MarkStale(w) ==
    /\ pc[w] = "claimed"
    /\ ~MarkMatches(w)
    /\ Leave(w, "idle")
    /\ UNCHANGED <<rowVars, historyVars, faults>>

(* MarkProviderStarted fails, before or after its statement committed. *)
MarkFails(w) ==
    /\ pc[w] = "claimed"
    /\ SpendDBError
    /\ \/ UNCHANGED providerStarted
       \/ /\ MarkMatches(w)
          /\ providerStarted' = [providerStarted EXCEPT ![claimed[w]] = TRUE]
    /\ Leave(w, "idle")
    /\ UNCHANGED <<status, stateVersion, lease, log, historyVars>>

(* The goroutines execute starts once it knows the row's version. *)
StartGoroutines(w) ==
    /\ fence' = [fence EXCEPT ![w] = stateVersion[claimed[w]]]
    /\ beatFence' = [beatFence EXCEPT ![w] = stateVersion[claimed[w]]]
    /\ heartbeat' = [heartbeat EXCEPT ![w] = TRUE]
    /\ poller' = [poller EXCEPT ![w] = TRUE]

(* Variant: an unknown profile is a run with nothing to do. *)
ProfileUnknownSucceeds(w) ==
    /\ Goto(w, "classified")
    /\ term' = [term EXCEPT ![w] = "succeeded"]
    /\ UNCHANGED executions

(* runMAF fails at once when the profile is unknown. *)
ProfileUnknown(w) ==
    /\ Goto(w, "classified")
    /\ term' = [term EXCEPT ![w] = "failed"]
    /\ UNCHANGED executions

(* The re-fetch takes the row's version whatever its status, starts both   *)
(* goroutines and enters runMAF, which calls runner.Run.                   *)
RefreshAndRun(w) ==
    /\ pc[w] = "marked"
    /\ StartGoroutines(w)
    /\ \/ /\ Goto(w, "running")
          /\ executions' = [executions EXCEPT ![claimed[w]] = @ + 1]
          /\ UNCHANGED term
       \/ ProfileUnknown(w)
    /\ UNCHANGED <<rowVars, claimed, cause, result, from, lostEvent, faults>>

RefreshFails(w) ==
    /\ pc[w] = "marked"
    /\ SpendDBError
    /\ Leave(w, "idle")
    /\ UNCHANGED <<rowVars, historyVars>>

Cancelled(w) == cause[w] # "none"

(* context.CancelCauseFunc: only the first cause is kept. *)
CancelCause(w, c) == cause' = [cause EXCEPT ![w] = IF Cancelled(w) THEN @ ELSE c]

(* durableSink.Emit writes under the run context.  A write that fails      *)
(* loses the event and cancels that context; on a cancelled context every  *)
(* write fails.  A failed write may still have committed.                  *)
EmitOK(w, kind) ==
    /\ ~Cancelled(w)
    /\ log' = [log EXCEPT ![claimed[w]] = Append(@, kind)]
    /\ UNCHANGED <<cause, lostEvent, faults>>

EmitFails(w, kind) ==
    /\ \/ /\ lostEvent' = [lostEvent EXCEPT ![claimed[w]] = TRUE]
          /\ UNCHANGED log
       \/ /\ ~Cancelled(w)
          /\ log' = [log EXCEPT ![claimed[w]] = Append(@, kind)]
          /\ UNCHANGED lostEvent
    /\ IF Cancelled(w) THEN UNCHANGED faults ELSE SpendDBError
    /\ CancelCause(w, "other")

(* runner.Run emits an event while it works. *)
EmitProgress(w) ==
    /\ pc[w] = "running"
    /\ Len(log[claimed[w]]) < MaxEvents
    /\ EmitOK(w, "progress") \/ EmitFails(w, "progress")
    /\ UNCHANGED <<status, stateVersion, providerStarted, lease, pc, claimed,
                   fence,
                   heartbeat, poller, beatFence, outcomeVars, executions>>

(* runner.Run emits KindEnd and returns nil or an error, whatever became   *)
(* of that last event.                                                     *)
RunnerReturns(w) ==
    /\ pc[w] = "running"
    /\ EmitOK(w, "end") \/ EmitFails(w, "end")
    /\ \E res \in {"nil", "error"} : result' = [result EXCEPT ![w] = res]
    /\ Goto(w, "ended")
    /\ UNCHANGED <<status, stateVersion, providerStarted, lease, claimed, fence,
                   heartbeat, poller, beatFence, term, from, executions>>

(* Variant: a status outside the schema's CHECK constraint. *)
OutcomeMisspelt(w) == IF result[w] = "nil" THEN "succeeded" ELSE "cancelled"

(* runMAF's classification of what runner.Run returned. *)
Outcome(w) ==
    CASE result[w] = "nil" -> "succeeded"
      [] result[w] = "error" /\ cause[w] = "cancel" -> "canceled"
      [] result[w] = "error" /\ cause[w] = "other" -> "interrupted"
      [] OTHER -> "failed"

Classify(w) ==
    /\ pc[w] = "ended"
    /\ term' = [term EXCEPT ![w] = Outcome(w)]
    /\ Goto(w, "classified")
    /\ UNCHANGED <<rowVars, claimed, fence, contextVars, result, from,
                   historyVars, faults>>

(* Re-read the row for the status and version to terminate from; when the  *)
(* read fails, assume running and the old version.                         *)
ReadBeforeTerminate(w) ==
    /\ pc[w] = "classified"
    /\ \/ /\ from' = [from EXCEPT ![w] = status[claimed[w]]]
          /\ fence' = [fence EXCEPT ![w] = stateVersion[claimed[w]]]
          /\ UNCHANGED faults
       \/ /\ SpendDBError
          /\ from' = [from EXCEPT ![w] = "running"]
          /\ UNCHANGED fence
    /\ Goto(w, "terminating")
    /\ UNCHANGED <<rowVars, claimed, contextVars, result, term, historyVars>>

TerminateMatches(w) ==
    LET r == claimed[w]
    IN /\ CanTransition(from[w], term[w])
       /\ status[r] = from[w]
       /\ stateVersion[r] = fence[w]

(* terminateWithEvent: status and terminal event in one transaction. *)
TerminateRow(w) ==
    LET r == claimed[w]
    IN /\ TerminateMatches(w)
       /\ status' = [status EXCEPT ![r] = term[w]]
       /\ stateVersion' = [stateVersion EXCEPT ![r] = @ + 1]
       /\ log' = [log EXCEPT ![r] = Append(@, term[w])]

(* Variant: the terminal event is appended whether or not the CAS wins. *)
TerminateAppendsAnyway(w) ==
    /\ pc[w] = "terminating"
    /\ \/ TerminateRow(w)
       \/ /\ ~TerminateMatches(w)
          /\ log' = [log EXCEPT ![claimed[w]] = Append(@, term[w])]
          /\ UNCHANGED <<status, stateVersion>>
    /\ Goto(w, "draining")
    /\ UNCHANGED <<providerStarted, lease, claimed, fence, execVars, historyVars,
                   faults>>

(* TerminateRun.  On any error the row stays as it is (unless only the     *)
(* answer was lost) and execute goes on to its deferred waits.             *)
TerminateRun(w) ==
    /\ pc[w] = "terminating"
    /\ \/ TerminateRow(w) /\ (UNCHANGED faults \/ SpendDBError)
       \/ ~TerminateMatches(w) /\ UNCHANGED <<status, stateVersion, log, faults>>
       \/ SpendDBError /\ UNCHANGED <<status, stateVersion, log>>
    /\ Goto(w, "draining")
    /\ UNCHANGED <<providerStarted, lease, claimed, fence, execVars, historyVars>>

(* The deferred function waits for both goroutines; only after it is the   *)
(* run context cancelled by the earlier defers, too late to stop them.     *)
Drain(w) ==
    /\ pc[w] = "draining"
    /\ ~heartbeat[w] /\ ~poller[w]
    /\ Leave(w, "idle")
    /\ UNCHANGED <<rowVars, historyVars, faults>>

-----------------------------------------------------------------------------
(* execute, goroutines and the run context *)

BeatMatches(w, f) ==
    LET r == claimed[w]
    IN stateVersion[r] = f /\ status[r] \in {"running", "cancel_requested"}

(* ExtendLease.  The closure reads stateVersion while the main thread may  *)
(* be writing it, so it may see the value from before or after the write.  *)
HeartbeatOK(w) ==
    /\ heartbeat[w]
    /\ \E f \in {fence[w], beatFence[w]} : BeatMatches(w, f)
    /\ lease' = [lease EXCEPT ![claimed[w]] = "live"]
    /\ UNCHANGED <<status, stateVersion, providerStarted, log, workerVars,
                   historyVars, faults>>

(* A refused or failed extension cancels the run context. *)
HeartbeatFails(w) ==
    /\ heartbeat[w]
    /\ \/ (\E f \in {fence[w], beatFence[w]} : ~BeatMatches(w, f)) /\ UNCHANGED faults
       \/ SpendDBError
    /\ heartbeat' = [heartbeat EXCEPT ![w] = FALSE]
    /\ CancelCause(w, "other")
    /\ UNCHANGED <<rowVars, pc, claimed, fence, poller, beatFence, outcomeVars,
                   historyVars>>

(* The cancel poller sees cancel_requested and cancels the run context. *)
CancelPoll(w) ==
    /\ poller[w]
    /\ status[claimed[w]] = "cancel_requested"
    /\ poller' = [poller EXCEPT ![w] = FALSE]
    /\ CancelCause(w, "cancel")
    /\ UNCHANGED <<rowVars, pc, claimed, fence, heartbeat, beatFence,
                   outcomeVars, historyVars, faults>>

(* A failed poll ends the poller silently. *)
CancelPollFails(w) ==
    /\ poller[w]
    /\ SpendDBError
    /\ poller' = [poller EXCEPT ![w] = FALSE]
    /\ UNCHANGED <<rowVars, pc, claimed, fence, cause, heartbeat, beatFence,
                   outcomeVars, historyVars>>

(* Each goroutine returns once it selects the cancelled run context. *)
HeartbeatStops(w) ==
    /\ heartbeat[w] /\ Cancelled(w)
    /\ heartbeat' = [heartbeat EXCEPT ![w] = FALSE]
    /\ UNCHANGED <<rowVars, pc, claimed, fence, cause, poller, beatFence,
                   outcomeVars, historyVars, faults>>

PollerStops(w) ==
    /\ poller[w] /\ Cancelled(w)
    /\ poller' = [poller EXCEPT ![w] = FALSE]
    /\ UNCHANGED <<rowVars, pc, claimed, fence, cause, heartbeat, beatFence,
                   outcomeVars, historyVars, faults>>

(* Variant: the timeout bounds runner.Run only. *)
RunnerTimesOut(w) ==
    /\ RunTimeout
    /\ pc[w] = "running"
    /\ ~Cancelled(w)
    /\ cause' = [cause EXCEPT ![w] = "other"]
    /\ UNCHANGED <<rowVars, pc, claimed, fence, heartbeat, poller, beatFence,
                   outcomeVars, historyVars, faults>>

(* context.WithTimeout(runCtx, cfg.RunTimeout) fires. *)
RunTimesOut(w) ==
    /\ RunTimeout
    /\ pc[w] \in {"running", "ended", "classified", "terminating", "draining"}
    /\ ~Cancelled(w)
    /\ cause' = [cause EXCEPT ![w] = "other"]
    /\ UNCHANGED <<rowVars, pc, claimed, fence, heartbeat, poller, beatFence,
                   outcomeVars, historyVars, faults>>

-----------------------------------------------------------------------------
(* The specification *)

MainStep(w) ==
    \/ ReconcileInterrupted(w) \/ ReconcileNeverStarted(w) \/ ReconcileStaleCancels(w)
    \/ ClaimNextQueued(w) \/ MarkProviderStarted(w) \/ MarkStale(w) \/ RefreshAndRun(w)
    \/ EmitProgress(w) \/ RunnerReturns(w) \/ Classify(w) \/ ReadBeforeTerminate(w)
    \/ TerminateRun(w) \/ Drain(w)

HeartbeatStep(w) == HeartbeatOK(w) \/ HeartbeatFails(w) \/ HeartbeatStops(w)
PollerStep(w) == CancelPoll(w) \/ PollerStops(w)

FaultStep(w) ==
    \/ Crash(w) \/ ReconcileFails(w) \/ ClaimUnacknowledged(w) \/ MarkFails(w)
    \/ RefreshFails(w) \/ CancelPollFails(w)

Next ==
    \/ \E r \in Runs : CreateRun(r) \/ RequestCancel(r) \/ LeaseExpires(r)
    \/ \E w \in Workers : \/ Start(w) \/ MainStep(w) \/ HeartbeatStep(w)
                          \/ PollerStep(w) \/ RunTimesOut(w) \/ FaultStep(w)

Spec == Init /\ [][Next]_vars

(* Scheduling: a process that is down is started again (the deployment     *)
(* restarts it), runnable threads run, the Go select of a goroutine does   *)
(* not ignore a cancelled context for ever, time passes.  A lease is only  *)
(* sure to run out when no heartbeat of its run is alive.                  *)
Unattended(r) == \A w \in Workers : ~(heartbeat[w] /\ claimed[w] = r)

Fairness ==
    /\ \A w \in Workers :
          /\ WF_vars(Start(w)) /\ WF_vars(MainStep(w))
          /\ WF_vars(HeartbeatStep(w)) /\ WF_vars(HeartbeatStops(w))
          /\ WF_vars(PollerStep(w)) /\ WF_vars(RunTimesOut(w))
    /\ \A r \in Runs : WF_vars(Unattended(r) /\ LeaseExpires(r))

FairSpec == Spec /\ Fairness

-----------------------------------------------------------------------------
(* Safety *)

(* The provider is invoked at most once for a run, whatever interleaving   *)
(* of claims, expiries, recoveries and crashes happens: execute calls      *)
(* runMAF only after its own MarkProviderStarted succeeded.                *)
AtMostOneExecution == \A r \in Runs : executions[r] <= 1

(* No two workers hold the row's current version for the same run, so the  *)
(* fence in MarkProviderStarted, ExtendLease and Transition lets at most   *)
(* one of them through.                                                    *)
OneFenceHolder ==
    \A v, w \in Workers :
        (v # w /\ claimed[v] = claimed[w] /\ claimed[v] # NoRun)
            => ~(fence[v] = stateVersion[claimed[v]] /\ fence[w] = stateVersion[claimed[w]])

(* Indexes of the terminal events of r. *)
TerminalEvents(r) == {i \in 1..Len(log[r]) : IsTerminal(log[r][i])}

(* The log never contradicts the row: at most one terminal event, it names *)
(* the status the row has, and an outcome a worker reports is in the log.  *)
LogAgreesWithStatus ==
    \A r \in Runs :
        /\ \A i, j \in TerminalEvents(r) : i = j
        /\ \A i \in TerminalEvents(r) : log[r][i] = status[r]
        /\ status[r] \in {"succeeded", "failed"} => TerminalEvents(r) # {}

(* A run reported succeeded was executed, and its provider start was       *)
(* recorded: no recovery path fabricates a success.                        *)
SuccessWasExecuted ==
    \A r \in Runs : status[r] = "succeeded" => executions[r] = 1 /\ providerStarted[r]

(* What every status change costs: the version moves by exactly one, which *)
(* is what makes a reader's version a fence.                               *)
StatusChangeMovesFence ==
    [][\A r \in Runs : status'[r] # status[r] => stateVersion'[r] = stateVersion[r] + 1]_vars

(* A requested cancel is never answered with success or failure, also when *)
(* its runner finishes in the same moment. A run whose provider was called *)
(* is canceled together with its event; the only other way out is          *)
(* recovery, which ends it as interrupted, without an event and only after *)
(* its lease has run out. SCHEMA.md's state machine does not have that     *)
(* edge: see EndsByTheBook.                                                *)
CancelIsSticky ==
    [][\A r \in Runs : status[r] = "cancel_requested" =>
          \/ status'[r] = "cancel_requested"
          \/ /\ status'[r] = "canceled"
             /\ providerStarted[r] => log'[r] = Append(log[r], "canceled")
          \/ /\ status'[r] = "interrupted"
             /\ providerStarted[r]
             /\ lease[r] = "expired"
             /\ log'[r] = log[r]]_vars

(* AgentRuns implements the caller's view of a run. *)
Durable == INSTANCE DurableRuns
DurableSpec == Durable!Spec

(* The comment on execute's event writer: an event that cannot be          *)
(* persisted fails the run, so no succeeded run lacks an event.            *)
UnpersistedEventFailsRun == \A r \in Runs : status[r] = "succeeded" => ~lostEvent[r]

(* SCHEMA.md's two claims about the end of a run, of which a step must     *)
(* keep at least one: a run ends along an edge of the frozen state machine *)
(* (cancel_requested only to canceled), and its terminal event commits in  *)
(* the same transaction. ReconcileInterrupted of a cancel keeps neither.   *)
EndsByTheBook ==
    [][\A r \in Runs : ~IsTerminal(status[r]) /\ IsTerminal(status'[r]) =>
          \/ CanTransition(status[r], status'[r])
          \/ log'[r] = Append(log[r], status'[r])]_vars

-----------------------------------------------------------------------------
(* Liveness, under FairSpec *)

(* A worker whose run is over gets its slot back although the deferred     *)
(* wait comes before the cancel of the run context.                        *)
SlotReleased == \A w \in Workers : (pc[w] = "draining") ~> (pc[w] \in {"idle", "down"})

(* Without cancels, crashes and database errors every accepted run ends,   *)
(* even when leases expire under live workers and processes come up late.  *)
Undisturbed == faults = <<0, 0, 0>>
UndisturbedRunEnds ==
    []Undisturbed => \A r \in Runs : (status[r] = "queued") ~> IsTerminal(status[r])

(* The runbook's cancellation contract: a requested cancel is eventually   *)
(* acknowledged by a terminal status.                                      *)
CancelIsAcknowledged ==
    \A r \in Runs : (status[r] = "cancel_requested") ~> IsTerminal(status[r])
=============================================================================
