--------------------------- MODULE AgentRunsProofs ---------------------------
(***************************************************************************)
(* Proofs about AgentRuns for any number of runs and workers and any       *)
(* fault budgets.                                                          *)
(***************************************************************************)
EXTENDS AgentRuns, TLAPS

-----------------------------------------------------------------------------
(* The inductive invariant *)

Executing == {"running", "ended", "classified", "terminating", "draining"}
Busy == {"claimed", "marked"} \cup Executing
Started == {"marked"} \cup Executing

(* A busy worker has a run whose row exists; an idle one has none. *)
SlotInv ==
    \A w \in Workers :
        /\ pc[w] \in Busy => claimed[w] \in Runs /\ status[claimed[w]] # "absent"
        /\ pc[w] \notin Busy => claimed[w] = NoRun

(* A worker's version is one the row has had, and of two workers that      *)
(* claimed the same run at most one holds the latest.                      *)
FenceInv ==
    /\ \A w \in Workers : pc[w] \in Busy => fence[w] <= stateVersion[claimed[w]]
    /\ \A v, w \in Workers :
          (v # w /\ pc[v] = "claimed" /\ claimed[v] = claimed[w])
              => /\ pc[w] = "claimed" => fence[v] # fence[w]
                 /\ pc[w] \in Started => fence[v] < stateVersion[claimed[v]]

(* provider_started_at is set before a worker goes past its claim, is      *)
(* never set on a row that can be claimed, and has one owner.              *)
StartInv ==
    /\ \A r \in Runs : status[r] \in {"absent", "queued"} => ~providerStarted[r]
    /\ \A w \in Workers : pc[w] \in Started => providerStarted[claimed[w]]
    /\ \A v, w \in Workers :
          (pc[v] \in Started /\ pc[w] \in Started /\ claimed[v] = claimed[w]) => v = w

(* Executions are counted only for the owner of the provider start. *)
ExecutionInv ==
    /\ \A r \in Runs : executions[r] \in {0, 1}
    /\ \A r \in Runs : ~providerStarted[r] => executions[r] = 0
    /\ \A w \in Workers : pc[w] = "marked" => executions[claimed[w]] = 0

(* A worker that will report success has executed its run. *)
OutcomeInv ==
    /\ \A w \in Workers : pc[w] \in {"running", "ended"} => executions[claimed[w]] = 1
    /\ \A w \in Workers : term[w] = "succeeded"
          => pc[w] \in {"classified", "terminating", "draining"} /\ executions[claimed[w]] = 1
    /\ \A r \in Runs : status[r] = "succeeded" => executions[r] = 1 /\ providerStarted[r]

CoreInv == TypeOK /\ SlotInv /\ FenceInv /\ StartInv /\ ExecutionInv /\ OutcomeInv

-----------------------------------------------------------------------------
(* What a step does to the variables CoreInv speaks of *)

CoreTypes ==
    /\ status \in [Runs -> RunStatus]
    /\ stateVersion \in [Runs -> Nat]
    /\ providerStarted \in [Runs -> BOOLEAN]
    /\ pc \in [Workers -> PC]
    /\ claimed \in [Workers -> Runs \cup {NoRun}]
    /\ fence \in [Workers -> Nat]
    /\ term \in [Workers -> {"none"} \cup TerminalStatus]
    /\ executions \in [Runs -> Nat]

SideTypes ==
    /\ lease \in [Runs -> {"none", "live", "expired"}]
    /\ log \in [Runs -> Seq(EventKind)]
    /\ cause \in [Workers -> {"none", "cancel", "other"}]
    /\ heartbeat \in [Workers -> BOOLEAN]
    /\ poller \in [Workers -> BOOLEAN]
    /\ beatFence \in [Workers -> Nat]
    /\ result \in [Workers -> {"none", "nil", "error"}]
    /\ from \in [Workers -> RunStatus]
    /\ lostEvent \in [Runs -> BOOLEAN]
    /\ cancels \in Nat /\ crashes \in Nat /\ dbErrors \in Nat

(* Callers, recovery, an unacknowledged claim, the goroutines and the      *)
(* clock: rows may change, but no worker takes, uses or gives up a run.    *)
Background ==
    /\ UNCHANGED <<claimed, fence, providerStarted, executions, term>>
    /\ pc' \in [Workers -> PC]
    /\ status' \in [Runs -> RunStatus]
    /\ stateVersion' \in [Runs -> Nat]
    /\ \A w \in Workers : pc'[w] = pc[w] \/ (pc[w] \notin Busy /\ pc'[w] \notin Busy)
    /\ \A r \in Runs :
          /\ status'[r] \in {"absent", "queued"}
                => status[r] \in {"absent", "queued"} \/ ~providerStarted[r]
          /\ status[r] # "absent"
                => status'[r] # "absent" /\ stateVersion[r] <= stateVersion'[r]
          /\ status'[r] = "succeeded" => status[r] = "succeeded"

Claims(w) ==
    /\ pc[w] = "idle"
    /\ \E r \in Runs :
          /\ status[r] = "queued"
          /\ status' = [status EXCEPT ![r] = "running"]
          /\ stateVersion' = [stateVersion EXCEPT ![r] = @ + 1]
          /\ claimed' = [claimed EXCEPT ![w] = r]
          /\ fence' = [fence EXCEPT ![w] = stateVersion[r] + 1]
    /\ pc' = [pc EXCEPT ![w] = "claimed"]
    /\ UNCHANGED <<providerStarted, executions, term>>

Marks(w) ==
    /\ pc[w] = "claimed"
    /\ fence[w] = stateVersion[claimed[w]]
    /\ status[claimed[w]] = "running"
    /\ ~providerStarted[claimed[w]]
    /\ providerStarted' = [providerStarted EXCEPT ![claimed[w]] = TRUE]
    /\ pc' = [pc EXCEPT ![w] = "marked"]
    /\ UNCHANGED <<claimed, fence, status, stateVersion, executions, term>>

Leaves(w) ==
    /\ \E p \in {"idle", "down"} : pc' = [pc EXCEPT ![w] = p]
    /\ claimed' = [claimed EXCEPT ![w] = NoRun]
    /\ fence' = [fence EXCEPT ![w] = 0]
    /\ term' = [term EXCEPT ![w] = "none"]
    /\ \/ UNCHANGED providerStarted
       \/ /\ pc[w] = "claimed"
          /\ status[claimed[w]] = "running"
          /\ providerStarted' = [providerStarted EXCEPT ![claimed[w]] = TRUE]
    /\ UNCHANGED <<status, stateVersion, executions>>

Executes(w) ==
    /\ pc[w] = "marked"
    /\ fence' = [fence EXCEPT ![w] = stateVersion[claimed[w]]]
    /\ \/ /\ pc' = [pc EXCEPT ![w] = "running"]
          /\ executions' = [executions EXCEPT ![claimed[w]] = @ + 1]
          /\ UNCHANGED term
       \/ /\ pc' = [pc EXCEPT ![w] = "classified"]
          /\ term' = [term EXCEPT ![w] = "failed"]
          /\ UNCHANGED executions
    /\ UNCHANGED <<claimed, status, stateVersion, providerStarted>>

Returns(w) ==
    /\ pc[w] = "running"
    /\ pc' = [pc EXCEPT ![w] = "ended"]
    /\ UNCHANGED <<claimed, fence, status, stateVersion, providerStarted, executions, term>>

Decides(w) ==
    /\ pc[w] = "ended"
    /\ pc' = [pc EXCEPT ![w] = "classified"]
    /\ \E t \in TerminalStatus : term' = [term EXCEPT ![w] = t]
    /\ UNCHANGED <<claimed, fence, status, stateVersion, providerStarted, executions>>

Reads(w) ==
    /\ pc[w] = "classified"
    /\ pc' = [pc EXCEPT ![w] = "terminating"]
    /\ UNCHANGED fence \/ fence' = [fence EXCEPT ![w] = stateVersion[claimed[w]]]
    /\ UNCHANGED <<claimed, status, stateVersion, providerStarted, executions, term>>

Terminates(w) ==
    /\ pc[w] = "terminating"
    /\ pc' = [pc EXCEPT ![w] = "draining"]
    /\ \/ UNCHANGED <<status, stateVersion>>
       \/ /\ term[w] \in TerminalStatus
          /\ status' = [status EXCEPT ![claimed[w]] = term[w]]
          /\ stateVersion' = [stateVersion EXCEPT ![claimed[w]] = @ + 1]
    /\ UNCHANGED <<claimed, fence, providerStarted, executions, term>>

CoreNext ==
    \/ Background
    \/ \E w \in Workers : \/ Claims(w) \/ Marks(w) \/ Leaves(w) \/ Executes(w)
                          \/ Returns(w) \/ Decides(w) \/ Reads(w) \/ Terminates(w)

(* TypeOK in two parts. *)
LEMMA TypesSplit == TypeOK <=> CoreTypes /\ SideTypes
  BY Zenon DEF TypeOK, CoreTypes, SideTypes

LEMMA TypesSplitNext == TypeOK' <=> CoreTypes' /\ SideTypes'
  BY Zenon DEF TypeOK, CoreTypes, SideTypes

(* The steps of the event sink, the goroutines and the clock touch nothing *)
(* CoreInv speaks of.                                                      *)
LEMMA QuietStep ==
    ASSUME CoreTypes,
           UNCHANGED <<pc, claimed, fence, status, stateVersion, providerStarted,
                       executions, term>>
    PROVE  Background
<1>1. pc' = pc /\ status' = status /\ stateVersion' = stateVersion
  BY Zenon
<1>2. \A r \in Runs : stateVersion[r] <= stateVersion[r]
  BY DEF CoreTypes
<1> QED
  BY <1>1, <1>2, Zenon DEF CoreTypes, Background

(* A recovery statement only touches the rows it selects. *)
LEMMA RecoverStep ==
    ASSUME CoreTypes, NEW w \in Workers, NEW p \in PC, NEW S, NEW s \in RunStatus,
           pc[w] \notin Busy, p \notin Busy, Goto(w, p), Assign(S, s), Bump(S),
           s # "absent", s # "succeeded",
           s = "queued" => \A r \in S : ~providerStarted[r],
           UNCHANGED <<claimed, fence, providerStarted, executions, term>>
    PROVE  Background
<1>1. pc' \in [Workers -> PC]
  BY Zenon DEF Goto, CoreTypes
<1>2. \A v \in Workers : pc'[v] = pc[v] \/ (pc[v] \notin Busy /\ pc'[v] \notin Busy)
  BY Zenon DEF Goto, CoreTypes
<1>3. status' \in [Runs -> RunStatus]
  BY Zenon DEF Assign, CoreTypes
<1>4. stateVersion' \in [Runs -> Nat] /\ \A r \in Runs : stateVersion[r] <= stateVersion'[r]
  BY DEF Bump, CoreTypes
<1>5. \A r \in Runs : status'[r] = IF r \in S THEN s ELSE status[r]
  BY Zenon DEF Assign
<1> QED
  BY <1>1, <1>2, <1>3, <1>4, <1>5, Zenon DEF Background

(* Every step of the system is one of these.  The leaf of an action cites  *)
(* no more of the state than CoreNext mentions.                            *)
LEMMA CoreEffect == CoreTypes /\ [Next]_vars => CoreNext
<1> SUFFICES ASSUME CoreTypes, [Next]_vars PROVE CoreNext
  BY Zenon
<1> DEFINE Rest == UNCHANGED <<claimed, fence, providerStarted, executions, term>>
<1>1. ASSUME NEW r \in Runs, CreateRun(r) PROVE Background
  <2>1. /\ status[r] = "absent" /\ status' = [status EXCEPT ![r] = "queued"]
        /\ stateVersion' = [stateVersion EXCEPT ![r] = 1] /\ pc' = pc /\ Rest
    BY <1>1, Zenon DEF CreateRun, workerVars, execVars, outcomeVars, historyVars
  <2> QED
    BY <2>1 DEF Background, CoreTypes, RunStatus, ActiveStatus
<1>2. ASSUME NEW r \in Runs, RequestCancel(r) PROVE Background
  <2>1. /\ status' = [status EXCEPT ![r] = "cancel_requested"]
        /\ stateVersion' = [stateVersion EXCEPT ![r] = @ + 1] /\ pc' = pc /\ Rest
    BY <1>2, Zenon DEF RequestCancel, workerVars, execVars, outcomeVars, historyVars
  <2> QED
    BY <2>1 DEF Background, CoreTypes, RunStatus, ActiveStatus
<1>3. ASSUME NEW r \in Runs, LeaseExpires(r) PROVE Background
  BY <1>3, QuietStep, Zenon DEF LeaseExpires, workerVars, execVars, outcomeVars, historyVars
<1>4. ASSUME NEW w \in Workers, NEW p \in PC, pc[w] \notin Busy, p \notin Busy,
             Goto(w, p), UNCHANGED <<status, stateVersion>>, Rest
      PROVE  Background
  <2>1. pc' \in [Workers -> PC]
    BY <1>4, Zenon DEF Goto, CoreTypes
  <2>2. \A v \in Workers : pc'[v] = pc[v] \/ (pc[v] \notin Busy /\ pc'[v] \notin Busy)
    BY <1>4, Zenon DEF Goto, CoreTypes
  <2>3. \A r \in Runs : stateVersion[r] <= stateVersion[r]
    BY DEF CoreTypes
  <2>4. status' = status /\ stateVersion' = stateVersion
    BY <1>4, Zenon
  <2> QED
    BY <1>4, <2>1, <2>2, <2>3, <2>4, Zenon DEF Background, CoreTypes
<1>5. ASSUME NEW w \in Workers, Start(w) PROVE Background
  <2>1. "reconcile1" \in PC /\ "reconcile1" \notin Busy /\ "down" \notin Busy
    BY Zenon DEF PC, Busy, Executing
  <2> QED
    BY <1>4, <1>5, <2>1, Zenon DEF Start, rowVars, execVars, outcomeVars, historyVars
<1>6. ASSUME NEW w \in Workers, ReconcileInterrupted(w) PROVE Background
  <2>1. /\ "reconcile2" \in PC /\ "reconcile2" \notin Busy /\ "reconcile1" \notin Busy
        /\ "interrupted" \in RunStatus /\ "interrupted" \notin {"absent", "succeeded", "queued"}
    BY Zenon DEF PC, Busy, Executing, RunStatus, TerminalStatus
  <2> DEFINE S == {r \in Runs : /\ status[r] \in {"running", "cancel_requested"}
                                /\ providerStarted[r]
                                /\ lease[r] = "expired"}
  <2>2. /\ pc[w] = "reconcile1" /\ Goto(w, "reconcile2") /\ Assign(S, "interrupted")
        /\ Bump(S) /\ Rest
    BY <1>6, Zenon DEF ReconcileInterrupted, execVars, outcomeVars, historyVars
  <2> HIDE DEF S
  <2> QED
    BY <2>1, <2>2, RecoverStep, Zenon
<1>7. ASSUME NEW w \in Workers, ReconcileNeverStarted(w) PROVE Background
  <2>1. /\ "reconcile3" \in PC /\ "reconcile3" \notin Busy /\ "reconcile2" \notin Busy
        /\ "queued" \in RunStatus /\ "queued" \notin {"absent", "succeeded"}
    BY Zenon DEF PC, Busy, Executing, RunStatus, ActiveStatus
  <2> DEFINE S == {r \in Runs : status[r] = "running" /\ ~providerStarted[r] /\ lease[r] = "expired"}
  <2>2. /\ pc[w] = "reconcile2" /\ Goto(w, "reconcile3") /\ Assign(S, "queued")
        /\ Bump(S) /\ Rest
    BY <1>7, Zenon DEF ReconcileNeverStarted, execVars, outcomeVars, historyVars
  <2>3. \A r \in S : ~providerStarted[r]
    BY Zenon
  <2> HIDE DEF S
  <2> QED
    BY <2>1, <2>2, <2>3, RecoverStep, Zenon
<1>8. ASSUME NEW w \in Workers, ReconcileStaleCancels(w) PROVE Background
  <2>1. /\ "idle" \in PC /\ "idle" \notin Busy /\ "reconcile3" \notin Busy
        /\ "canceled" \in RunStatus /\ "canceled" \notin {"absent", "succeeded", "queued"}
    BY Zenon DEF PC, Busy, Executing, RunStatus, TerminalStatus
  <2> DEFINE S == {r \in Runs : /\ status[r] = "cancel_requested"
                                /\ ~providerStarted[r]
                                /\ lease[r] # "live"}
  <2>2. /\ pc[w] = "reconcile3" /\ Goto(w, "idle") /\ Assign(S, "canceled")
        /\ Bump(S) /\ Rest
    BY <1>8, Zenon DEF ReconcileStaleCancels, execVars, outcomeVars, historyVars
  <2> HIDE DEF S
  <2> QED
    BY <2>1, <2>2, RecoverStep, Zenon
<1>9. ASSUME NEW w \in Workers, ReconcileFails(w) PROVE Background
  <2>1. "idle" \in PC /\ {"idle", "reconcile1", "reconcile2", "reconcile3"} \cap Busy = {}
    BY Zenon DEF PC, Busy, Executing
  <2>2. pc[w] \notin Busy /\ "idle" \notin Busy
    BY <1>9, <2>1, Zenon DEF ReconcileFails
  <2> QED
    BY <1>4, <1>9, <2>1, <2>2, Zenon DEF ReconcileFails, rowVars, execVars, outcomeVars,
       historyVars
<1>10. ASSUME NEW w \in Workers, ClaimUnacknowledged(w) PROVE Background
  <2>1. PICK r \in Runs : ClaimRow(r)
    BY <1>10, Zenon DEF ClaimUnacknowledged
  <2>2. pc' = pc /\ Rest
    BY <1>10, Zenon DEF ClaimUnacknowledged, workerVars, execVars, outcomeVars, historyVars
  <2>3. /\ status' = [status EXCEPT ![r] = "running"]
        /\ stateVersion' = [stateVersion EXCEPT ![r] = @ + 1]
    BY <2>1, Zenon DEF ClaimRow
  <2> QED
    BY <2>2, <2>3 DEF Background, CoreTypes, RunStatus, ActiveStatus
<1>11. ASSUME NEW w \in Workers, ClaimNextQueued(w) PROVE Claims(w)
  BY <1>11, Zenon DEF ClaimNextQueued, ClaimRow, Claimable, Goto, Claims, execVars,
     outcomeVars, historyVars
<1>12. ASSUME NEW w \in Workers, MarkProviderStarted(w) PROVE Marks(w)
  BY <1>12, Zenon DEF MarkProviderStarted, MarkMatches, Goto, Marks, execVars,
     outcomeVars, historyVars
<1>13. ASSUME NEW w \in Workers, NEW p \in {"idle", "down"}, Leave(w, p),
              UNCHANGED <<status, stateVersion, providerStarted, executions>>
       PROVE  Leaves(w)
  BY <1>13, Zenon DEF Leave, Goto, Leaves
<1>14. ASSUME NEW w \in Workers, MarkStale(w) \/ Drain(w) \/ Crash(w) \/ RefreshFails(w)
       PROVE  Leaves(w)
  <2>1. Leave(w, "idle") \/ Leave(w, "down")
    BY <1>14, Zenon DEF MarkStale, Drain, Crash, RefreshFails
  <2>2. UNCHANGED <<status, stateVersion, providerStarted, executions>>
    BY <1>14, Zenon DEF MarkStale, Drain, Crash, RefreshFails, rowVars, historyVars
  <2> QED
    BY <1>13, <2>1, <2>2, Zenon
<1>15. ASSUME NEW w \in Workers, MarkFails(w) PROVE Leaves(w)
  <2>1. Leave(w, "idle") /\ UNCHANGED <<status, stateVersion, executions>>
    BY <1>15, Zenon DEF MarkFails, historyVars
  <2>2. \/ UNCHANGED providerStarted
        \/ /\ pc[w] = "claimed"
           /\ status[claimed[w]] = "running"
           /\ providerStarted' = [providerStarted EXCEPT ![claimed[w]] = TRUE]
    BY <1>15, Zenon DEF MarkFails, MarkMatches
  <2> QED
    BY <2>1, <2>2, Zenon DEF Leave, Goto, Leaves
<1>16. ASSUME NEW w \in Workers, RefreshAndRun(w) PROVE Executes(w)
  BY <1>16, Zenon DEF RefreshAndRun, StartGoroutines, ProfileUnknown, Goto, Executes, rowVars
<1>17. ASSUME NEW w \in Workers, RunnerReturns(w) PROVE Returns(w)
  BY <1>17, Zenon DEF RunnerReturns, Goto, Returns
<1>18. ASSUME NEW w \in Workers, Classify(w) PROVE Decides(w)
  <2>1. Outcome(w) \in TerminalStatus
    BY DEF Outcome, TerminalStatus
  <2> QED
    BY <1>18, <2>1, Zenon DEF Classify, Goto, Decides, rowVars, historyVars
<1>19. ASSUME NEW w \in Workers, ReadBeforeTerminate(w) PROVE Reads(w)
  BY <1>19, Zenon DEF ReadBeforeTerminate, Goto, Reads, rowVars, historyVars
<1>20. ASSUME NEW w \in Workers, TerminateRun(w) PROVE Terminates(w)
  <2>1. /\ pc[w] = "terminating" /\ pc' = [pc EXCEPT ![w] = "draining"]
        /\ UNCHANGED <<claimed, fence, providerStarted, executions, term>>
    BY <1>20, Zenon DEF TerminateRun, Goto, execVars, outcomeVars, historyVars
  <2>2. UNCHANGED <<status, stateVersion>> \/ TerminateRow(w)
    BY <1>20, Zenon DEF TerminateRun
  <2>3. ASSUME TerminateRow(w)
        PROVE  /\ term[w] \in TerminalStatus
               /\ status' = [status EXCEPT ![claimed[w]] = term[w]]
               /\ stateVersion' = [stateVersion EXCEPT ![claimed[w]] = @ + 1]
    <3>1. CanTransition(from[w], term[w]) /\ term[w] \in {"none"} \cup TerminalStatus
      BY <2>3, Zenon DEF TerminateRow, TerminateMatches, CoreTypes
    <3>2. term[w] # "none"
      BY <3>1, Zenon DEF CanTransition
    <3> QED
      BY <2>3, <3>1, <3>2, Zenon DEF TerminateRow
  <2> QED
    BY <2>1, <2>2, <2>3, Zenon DEF Terminates
<1>21. ASSUME NEW w \in Workers, EmitProgress(w) PROVE Background
  BY <1>21, QuietStep, Zenon DEF EmitProgress, outcomeVars
<1>22. ASSUME NEW w \in Workers, HeartbeatOK(w) \/ HeartbeatFails(w) \/ HeartbeatStops(w)
       PROVE  Background
  BY <1>22, QuietStep, Zenon DEF HeartbeatOK, HeartbeatFails, HeartbeatStops, rowVars,
     workerVars, execVars, outcomeVars, historyVars
<1>23. ASSUME NEW w \in Workers, CancelPoll(w) \/ PollerStops(w) \/ CancelPollFails(w)
       PROVE  Background
  BY <1>23, QuietStep, Zenon DEF CancelPoll, PollerStops, CancelPollFails, rowVars,
     outcomeVars, historyVars
<1>24. ASSUME NEW w \in Workers, RunTimesOut(w) PROVE Background
  BY <1>24, QuietStep, Zenon DEF RunTimesOut, rowVars, outcomeVars, historyVars
<1>25. CASE UNCHANGED vars
  <2>1. UNCHANGED <<rowVars, workerVars, historyVars>>
    BY <1>25, Zenon DEF vars
  <2>2. UNCHANGED <<status, stateVersion, providerStarted, executions>>
    BY <2>1, Zenon DEF rowVars, historyVars
  <2>3. UNCHANGED <<pc, claimed, fence, term>>
    BY <2>1, Zenon DEF workerVars, execVars, outcomeVars
  <2> QED
    BY <2>2, <2>3, QuietStep, Zenon DEF CoreNext
<1>26. ASSUME NEW r \in Runs, CreateRun(r) \/ RequestCancel(r) \/ LeaseExpires(r)
       PROVE  CoreNext
  BY <1>26, <1>1, <1>2, <1>3, Zenon DEF CoreNext
<1>27. ASSUME NEW w \in Workers, MainStep(w) PROVE CoreNext
  BY <1>27, <1>6, <1>7, <1>8, <1>11, <1>12, <1>14, <1>16, <1>17, <1>18, <1>19, <1>20,
     <1>21, ZenonT(30) DEF MainStep, CoreNext
<1>28. ASSUME NEW w \in Workers, HeartbeatStep(w) \/ PollerStep(w) \/ FaultStep(w)
       PROVE  CoreNext
  BY <1>28, <1>9, <1>10, <1>14, <1>15, <1>22, <1>23, ZenonT(30) DEF HeartbeatStep,
     PollerStep, FaultStep, CoreNext
<1> QED
  BY <1>5, <1>24, <1>25, <1>26, <1>27, <1>28, ZenonT(30) DEF Next, CoreNext

-----------------------------------------------------------------------------
(* Every step preserves the invariant *)

(* The core variables keep their types; SlotInv supplies that a busy       *)
(* worker's claimed run is a run.                                          *)
LEMMA CoreTypesStep == CoreTypes /\ SlotInv /\ CoreNext => CoreTypes'
<1> SUFFICES ASSUME CoreTypes, SlotInv, CoreNext PROVE CoreTypes'
  BY Zenon
<1>0. \A p \in Busy \cup {"idle", "down"} : p \in PC
  BY Zenon DEF Busy, Executing, PC
<1>own. \A w \in Workers : pc[w] \in Busy => claimed[w] \in Runs
  BY Zenon DEF SlotInv
<1>1. CASE Background
  BY <1>1, Zenon DEF Background, CoreTypes
<1>2. ASSUME NEW w \in Workers, Claims(w) PROVE CoreTypes'
  BY <1>2 DEF Claims, CoreTypes, PC, RunStatus, ActiveStatus
<1>3. ASSUME NEW w \in Workers, Marks(w) PROVE CoreTypes'
  <2>1. pc' \in [Workers -> PC]
    BY <1>3, <1>0, Zenon DEF Marks, CoreTypes, Busy
  <2>2. providerStarted' \in [Runs -> BOOLEAN]
    BY <1>3, Zenon DEF Marks, CoreTypes
  <2> QED
    BY <1>3, <2>1, <2>2, Zenon DEF Marks, CoreTypes
<1>4. ASSUME NEW w \in Workers, Leaves(w) PROVE CoreTypes'
  <2>1. pc' \in [Workers -> PC]
    BY <1>4 DEF Leaves, CoreTypes, PC
  <2>2. providerStarted' \in [Runs -> BOOLEAN]
    BY <1>4, ZenonT(30) DEF Leaves, CoreTypes
  <2>3. /\ claimed' \in [Workers -> Runs \cup {NoRun}] /\ fence' \in [Workers -> Nat]
        /\ term' \in [Workers -> {"none"} \cup TerminalStatus]
    BY <1>4 DEF Leaves, CoreTypes
  <2> QED
    BY <1>4, <2>1, <2>2, <2>3, Zenon DEF Leaves, CoreTypes
<1>5. ASSUME NEW w \in Workers, Executes(w) PROVE CoreTypes'
  <2>1. claimed[w] \in Runs
    BY <1>5, <1>own, Zenon DEF Executes, Busy
  <2>2. stateVersion[claimed[w]] \in Nat /\ executions[claimed[w]] + 1 \in Nat
    BY <2>1 DEF CoreTypes
  <2>3. fence' \in [Workers -> Nat]
    BY <1>5, <2>2 DEF Executes, CoreTypes
  <2>4. /\ pc' \in [Workers -> PC] /\ executions' \in [Runs -> Nat]
        /\ term' \in [Workers -> {"none"} \cup TerminalStatus]
    BY <1>5, <2>2 DEF Executes, CoreTypes, PC, TerminalStatus
  <2> QED
    BY <1>5, <2>3, <2>4, Zenon DEF Executes, CoreTypes
<1>6. ASSUME NEW w \in Workers, Returns(w) PROVE CoreTypes'
  BY <1>6 DEF Returns, CoreTypes, PC
<1>7. ASSUME NEW w \in Workers, Decides(w) PROVE CoreTypes'
  BY <1>7 DEF Decides, CoreTypes, PC
<1>8. ASSUME NEW w \in Workers, Reads(w) PROVE CoreTypes'
  <2>1. claimed[w] \in Runs
    BY <1>8, <1>own, Zenon DEF Reads, Busy, Executing
  <2>2. stateVersion[claimed[w]] \in Nat
    BY <2>1, Zenon DEF CoreTypes
  <2> QED
    BY <1>8, <2>2 DEF Reads, CoreTypes, PC
<1>9. ASSUME NEW w \in Workers, Terminates(w) PROVE CoreTypes'
  BY <1>9 DEF Terminates, CoreTypes, PC, RunStatus
<1> QED
  BY <1>1, <1>2, <1>3, <1>4, <1>5, <1>6, <1>7, <1>8, <1>9, Zenon DEF CoreNext

(* The other variables keep theirs. *)
LEMMA SideTypesStep == CoreTypes /\ SideTypes /\ SlotInv /\ [Next]_vars => SideTypes'
<1> SUFFICES ASSUME CoreTypes, SideTypes, SlotInv, [Next]_vars PROVE SideTypes'
  BY Zenon
<1>own. \A w \in Workers : pc[w] \in Busy => claimed[w] \in Runs
  BY Zenon DEF SlotInv
<1>db. SpendDBError => cancels' \in Nat /\ crashes' \in Nat /\ dbErrors' \in Nat
  BY DEF SpendDBError, SideTypes
<1>same. UNCHANGED faults => cancels' \in Nat /\ crashes' \in Nat /\ dbErrors' \in Nat
  BY Zenon DEF faults, SideTypes
<1>leave. ASSUME NEW w \in Workers, NEW p, Leave(w, p)
          PROVE  /\ cause' \in [Workers -> {"none", "cancel", "other"}]
                 /\ heartbeat' \in [Workers -> BOOLEAN]
                 /\ poller' \in [Workers -> BOOLEAN]
                 /\ beatFence' \in [Workers -> Nat]
                 /\ result' \in [Workers -> {"none", "nil", "error"}]
                 /\ from' \in [Workers -> RunStatus]
  BY <1>leave DEF Leave, SideTypes, RunStatus
<1>cause. ASSUME NEW w \in Workers, NEW c \in {"cancel", "other"}, CancelCause(w, c)
          PROVE  cause' \in [Workers -> {"none", "cancel", "other"}]
  BY <1>cause DEF CancelCause, SideTypes
<1>emit. ASSUME NEW w \in Workers, NEW k \in EventKind, pc[w] \in Busy,
                EmitOK(w, k) \/ EmitFails(w, k)
         PROVE  /\ log' \in [Runs -> Seq(EventKind)]
                /\ lostEvent' \in [Runs -> BOOLEAN]
                /\ cause' \in [Workers -> {"none", "cancel", "other"}]
                /\ cancels' \in Nat /\ crashes' \in Nat /\ dbErrors' \in Nat
  <2>1. claimed[w] \in Runs
    BY <1>own, <1>emit, Zenon
  <2>2. log' \in [Runs -> Seq(EventKind)]
    <3>1. log' = log \/ log' = [log EXCEPT ![claimed[w]] = Append(@, k)]
      BY <1>emit, Zenon DEF EmitOK, EmitFails
    <3>2. Append(log[claimed[w]], k) \in Seq(EventKind)
      BY <2>1 DEF SideTypes
    <3> QED
      BY <3>1, <3>2, Zenon DEF SideTypes
  <2>3. lostEvent' \in [Runs -> BOOLEAN]
    BY <1>emit, Zenon DEF EmitOK, EmitFails, SideTypes
  <2>4. cause' \in [Workers -> {"none", "cancel", "other"}]
    BY <1>emit, <1>cause, Zenon DEF EmitOK, EmitFails, SideTypes
  <2>5. cancels' \in Nat /\ crashes' \in Nat /\ dbErrors' \in Nat
    BY <1>emit, <1>db, <1>same, Zenon DEF EmitOK, EmitFails
  <2> QED
    BY <2>2, <2>3, <2>4, <2>5, Zenon
<1> USE DEF SideTypes, execVars, contextVars, outcomeVars, historyVars
<1>1. ASSUME NEW r \in Runs, CreateRun(r) PROVE SideTypes'
  BY <1>1, <1>same, Zenon DEF CreateRun, workerVars
<1>2. ASSUME NEW r \in Runs, RequestCancel(r) PROVE SideTypes'
  <2>1. cancels' \in Nat /\ crashes' \in Nat /\ dbErrors' \in Nat
    BY <1>2 DEF RequestCancel
  <2> QED
    BY <1>2, <2>1, Zenon DEF RequestCancel, workerVars
<1>3. ASSUME NEW r \in Runs, LeaseExpires(r) PROVE SideTypes'
  <2>1. lease' \in [Runs -> {"none", "live", "expired"}]
    BY <1>3, Zenon DEF LeaseExpires
  <2> QED
    BY <1>3, <1>same, <2>1, Zenon DEF LeaseExpires, workerVars
<1>4. ASSUME NEW w \in Workers, Start(w) PROVE SideTypes'
  BY <1>4, <1>same, Zenon DEF Start, rowVars
<1>5. ASSUME NEW w \in Workers, ReconcileInterrupted(w) PROVE SideTypes'
  BY <1>5, <1>same, Zenon DEF ReconcileInterrupted
<1>6. ASSUME NEW w \in Workers, ReconcileNeverStarted(w) PROVE SideTypes'
  <2>1. lease' \in [Runs -> {"none", "live", "expired"}]
    BY <1>6 DEF ReconcileNeverStarted
  <2> QED
    BY <1>6, <1>same, <2>1, Zenon DEF ReconcileNeverStarted
<1>7. ASSUME NEW w \in Workers, ReconcileStaleCancels(w) PROVE SideTypes'
  BY <1>7, <1>same, Zenon DEF ReconcileStaleCancels
<1>8. ASSUME NEW w \in Workers, ReconcileFails(w) PROVE SideTypes'
  BY <1>8, <1>db, Zenon DEF ReconcileFails, rowVars
<1>9. ASSUME NEW r \in Runs, ClaimRow(r) PROVE lease' \in [Runs -> {"none", "live", "expired"}]
  BY <1>9, Zenon DEF ClaimRow
<1>10. ASSUME NEW w \in Workers, ClaimNextQueued(w) PROVE SideTypes'
  BY <1>10, <1>9, <1>same, Zenon DEF ClaimNextQueued
<1>11. ASSUME NEW w \in Workers, ClaimUnacknowledged(w) PROVE SideTypes'
  BY <1>11, <1>9, <1>db, Zenon DEF ClaimUnacknowledged, workerVars
<1>12. ASSUME NEW w \in Workers, MarkProviderStarted(w) PROVE SideTypes'
  BY <1>12, <1>same, Zenon DEF MarkProviderStarted
<1>13. ASSUME NEW w \in Workers, MarkStale(w) \/ Drain(w) PROVE SideTypes'
  BY <1>13, <1>leave, <1>same, Zenon DEF MarkStale, Drain, rowVars
<1>14. ASSUME NEW w \in Workers, Crash(w) PROVE SideTypes'
  <2>1. cancels' \in Nat /\ crashes' \in Nat /\ dbErrors' \in Nat
    BY <1>14 DEF Crash
  <2> QED
    BY <1>14, <1>leave, <2>1, Zenon DEF Crash, rowVars
<1>15. ASSUME NEW w \in Workers, MarkFails(w) PROVE SideTypes'
  BY <1>15, <1>leave, <1>db, Zenon DEF MarkFails
<1>16. ASSUME NEW w \in Workers, RefreshFails(w) PROVE SideTypes'
  BY <1>16, <1>leave, <1>db, Zenon DEF RefreshFails, rowVars
<1>17. ASSUME NEW w \in Workers, RefreshAndRun(w) PROVE SideTypes'
  <2>1. claimed[w] \in Runs
    BY <1>17, <1>own, Zenon DEF RefreshAndRun, Busy
  <2>2. stateVersion[claimed[w]] \in Nat
    BY <2>1, Zenon DEF CoreTypes
  <2>3. /\ beatFence' \in [Workers -> Nat] /\ heartbeat' \in [Workers -> BOOLEAN]
        /\ poller' \in [Workers -> BOOLEAN]
    BY <1>17, <2>2, Zenon DEF RefreshAndRun, StartGoroutines
  <2> QED
    BY <1>17, <1>same, <2>3, Zenon DEF RefreshAndRun, rowVars
<1>18. ASSUME NEW w \in Workers, EmitProgress(w) PROVE SideTypes'
  <2>1. "progress" \in EventKind /\ pc[w] \in Busy
    BY <1>18, Zenon DEF EmitProgress, EventKind, Busy, Executing
  <2>2. EmitOK(w, "progress") \/ EmitFails(w, "progress")
    BY <1>18, Zenon DEF EmitProgress
  <2>3. UNCHANGED <<lease, heartbeat, poller, beatFence, result, from>>
    BY <1>18, Zenon DEF EmitProgress
  <2> QED
    BY <1>emit, <2>1, <2>2, <2>3, Zenon
<1>19. ASSUME NEW w \in Workers, RunnerReturns(w) PROVE SideTypes'
  <2>1. "end" \in EventKind /\ pc[w] \in Busy
    BY <1>19, Zenon DEF RunnerReturns, EventKind, Busy, Executing
  <2>2. EmitOK(w, "end") \/ EmitFails(w, "end")
    BY <1>19, Zenon DEF RunnerReturns
  <2>3. UNCHANGED <<lease, heartbeat, poller, beatFence, from>>
    BY <1>19, Zenon DEF RunnerReturns
  <2>4. result' \in [Workers -> {"none", "nil", "error"}]
    BY <1>19, Zenon DEF RunnerReturns
  <2> QED
    BY <1>emit, <2>1, <2>2, <2>3, <2>4, Zenon
<1>20. ASSUME NEW w \in Workers, Classify(w) PROVE SideTypes'
  BY <1>20, <1>same, Zenon DEF Classify, rowVars
<1>21. ASSUME NEW w \in Workers, ReadBeforeTerminate(w) PROVE SideTypes'
  <2>1. claimed[w] \in Runs
    BY <1>21, <1>own, Zenon DEF ReadBeforeTerminate, Busy, Executing
  <2>2. status[claimed[w]] \in RunStatus /\ "running" \in RunStatus
    BY <2>1, Zenon DEF CoreTypes, RunStatus, ActiveStatus
  <2>3. from' \in [Workers -> RunStatus]
    BY <1>21, <2>2, Zenon DEF ReadBeforeTerminate
  <2>4. cancels' \in Nat /\ crashes' \in Nat /\ dbErrors' \in Nat
    BY <1>21, <1>db, <1>same, Zenon DEF ReadBeforeTerminate
  <2> QED
    BY <1>21, <2>3, <2>4, Zenon DEF ReadBeforeTerminate, rowVars
<1>22. ASSUME NEW w \in Workers, TerminateRun(w) PROVE SideTypes'
  <2>1. claimed[w] \in Runs /\ term[w] \in {"none"} \cup TerminalStatus
    BY <1>22, <1>own, Zenon DEF TerminateRun, Busy, Executing, CoreTypes
  <2>2. ASSUME TerminateRow(w) PROVE log' \in [Runs -> Seq(EventKind)]
    <3>1. term[w] # "none"
      BY <2>2, Zenon DEF TerminateRow, TerminateMatches, CanTransition
    <3>2. term[w] \in EventKind
      BY <2>1, <3>1, Zenon DEF EventKind
    <3>3. Append(log[claimed[w]], term[w]) \in Seq(EventKind)
      BY <2>1, <3>2
    <3> QED
      BY <2>2, <3>3, Zenon DEF TerminateRow
  <2>3. log' \in [Runs -> Seq(EventKind)]
    BY <1>22, <2>2, Zenon DEF TerminateRun
  <2>4. cancels' \in Nat /\ crashes' \in Nat /\ dbErrors' \in Nat
    BY <1>22, <1>db, <1>same, Zenon DEF TerminateRun
  <2> QED
    BY <1>22, <2>3, <2>4, Zenon DEF TerminateRun
<1>23. ASSUME NEW w \in Workers, HeartbeatOK(w) PROVE SideTypes'
  <2>1. lease' \in [Runs -> {"none", "live", "expired"}]
    BY <1>23, Zenon DEF HeartbeatOK
  <2> QED
    BY <1>23, <1>same, <2>1, Zenon DEF HeartbeatOK, workerVars
<1>24. ASSUME NEW w \in Workers, HeartbeatFails(w) \/ HeartbeatStops(w) PROVE SideTypes'
  <2>1. heartbeat' \in [Workers -> BOOLEAN]
    BY <1>24, Zenon DEF HeartbeatFails, HeartbeatStops
  <2>2. cause' \in [Workers -> {"none", "cancel", "other"}]
    BY <1>24, <1>cause, Zenon DEF HeartbeatFails, HeartbeatStops
  <2>3. cancels' \in Nat /\ crashes' \in Nat /\ dbErrors' \in Nat
    BY <1>24, <1>db, <1>same, Zenon DEF HeartbeatFails, HeartbeatStops
  <2> QED
    BY <1>24, <2>1, <2>2, <2>3, Zenon DEF HeartbeatFails, HeartbeatStops, rowVars
<1>25. ASSUME NEW w \in Workers, CancelPoll(w) \/ PollerStops(w) \/ CancelPollFails(w)
       PROVE  SideTypes'
  <2>1. poller' \in [Workers -> BOOLEAN]
    BY <1>25, Zenon DEF CancelPoll, PollerStops, CancelPollFails
  <2>2. cause' \in [Workers -> {"none", "cancel", "other"}]
    BY <1>25, <1>cause, Zenon DEF CancelPoll, PollerStops, CancelPollFails
  <2>3. cancels' \in Nat /\ crashes' \in Nat /\ dbErrors' \in Nat
    BY <1>25, <1>db, <1>same, Zenon DEF CancelPoll, PollerStops, CancelPollFails
  <2> QED
    BY <1>25, <2>1, <2>2, <2>3, Zenon DEF CancelPoll, PollerStops, CancelPollFails, rowVars
<1>26. ASSUME NEW w \in Workers, RunTimesOut(w) PROVE SideTypes'
  <2>1. cause' \in [Workers -> {"none", "cancel", "other"}]
    BY <1>26, Zenon DEF RunTimesOut
  <2> QED
    BY <1>26, <1>same, <2>1, Zenon DEF RunTimesOut, rowVars
<1>27. CASE UNCHANGED vars
  <2>1. UNCHANGED <<rowVars, workerVars, historyVars, faults>>
    BY <1>27, Zenon DEF vars
  <2> QED
    BY <2>1, <1>same, Zenon DEF rowVars, workerVars
<1> QED
  <2> HIDE DEF SideTypes, execVars, contextVars, outcomeVars, historyVars
  <2>1. ASSUME NEW w \in Workers, MainStep(w) PROVE SideTypes'
    BY <2>1, <1>5, <1>6, <1>7, <1>10, <1>12, <1>13, <1>17, <1>18, <1>19, <1>20, <1>21,
       <1>22, ZenonT(30) DEF MainStep
  <2>2. ASSUME NEW w \in Workers, HeartbeatStep(w) \/ PollerStep(w) \/ FaultStep(w)
        PROVE  SideTypes'
    BY <2>2, <1>8, <1>11, <1>14, <1>15, <1>16, <1>23, <1>24, <1>25, ZenonT(30)
       DEF HeartbeatStep, PollerStep, FaultStep
  <2> QED
    BY <1>1, <1>2, <1>3, <1>4, <1>26, <1>27, <2>1, <2>2, ZenonT(30) DEF Next

(* Workers take and release their slot together with the run in it, and    *)
(* no step removes a row.                                                  *)
LEMMA SlotStep == CoreTypes /\ SlotInv /\ CoreNext => SlotInv'
<1> SUFFICES ASSUME CoreTypes, SlotInv, CoreNext PROVE SlotInv'
  BY Zenon
<1>1. CASE Background
  BY <1>1, ZenonT(30) DEF Background, SlotInv, CoreTypes
<1>2. ASSUME NEW w \in Workers, Claims(w) PROVE SlotInv'
  BY <1>2 DEF Claims, SlotInv, CoreTypes, Busy, Executing
<1>3. ASSUME NEW w \in Workers, Marks(w) PROVE SlotInv'
  BY <1>3 DEF Marks, SlotInv, CoreTypes, Busy, Executing
<1>4. ASSUME NEW w \in Workers, Leaves(w) PROVE SlotInv'
  <2>1. PICK p \in {"idle", "down"} : pc' = [pc EXCEPT ![w] = p]
    BY <1>4, Zenon DEF Leaves
  <2>2. p \notin Busy
    BY Zenon DEF Busy, Executing
  <2>3. claimed' = [claimed EXCEPT ![w] = NoRun] /\ UNCHANGED status
    BY <1>4, Zenon DEF Leaves
  <2> QED
    BY <2>1, <2>2, <2>3 DEF SlotInv, CoreTypes
<1>5. ASSUME NEW w \in Workers, Executes(w) PROVE SlotInv'
  BY <1>5 DEF Executes, SlotInv, CoreTypes, Busy, Executing
<1>6. ASSUME NEW w \in Workers, Returns(w) PROVE SlotInv'
  BY <1>6 DEF Returns, SlotInv, CoreTypes, Busy, Executing
<1>7. ASSUME NEW w \in Workers, Decides(w) PROVE SlotInv'
  BY <1>7 DEF Decides, SlotInv, CoreTypes, Busy, Executing
<1>8. ASSUME NEW w \in Workers, Reads(w) PROVE SlotInv'
  BY <1>8 DEF Reads, SlotInv, CoreTypes, Busy, Executing
<1>9. ASSUME NEW w \in Workers, Terminates(w) PROVE SlotInv'
  BY <1>9 DEF Terminates, SlotInv, CoreTypes, Busy, Executing, TerminalStatus
<1> QED
  BY <1>1, <1>2, <1>3, <1>4, <1>5, <1>6, <1>7, <1>8, <1>9, Zenon DEF CoreNext

(* A claim hands out a version no other worker has, and every later change *)
(* of the row moves past it.                                               *)
LEMMA FenceStep == CoreTypes /\ SlotInv /\ StartInv /\ FenceInv /\ CoreNext => FenceInv'
<1> SUFFICES ASSUME CoreTypes, SlotInv, StartInv, FenceInv, CoreNext PROVE FenceInv'
  BY Zenon
<1>1. CASE Background
  BY <1>1 DEF Background, FenceInv, SlotInv, CoreTypes, Busy, Started
<1>2. ASSUME NEW w \in Workers, Claims(w) PROVE FenceInv'
  <2>1. PICK r \in Runs :
           /\ status[r] = "queued"
           /\ stateVersion' = [stateVersion EXCEPT ![r] = @ + 1]
           /\ claimed' = [claimed EXCEPT ![w] = r]
           /\ fence' = [fence EXCEPT ![w] = stateVersion[r] + 1]
    BY <1>2, Zenon DEF Claims
  <2>2. \A u \in Workers : pc[u] \in Started => claimed[u] # r
    BY <2>1, Zenon DEF StartInv
  <2>3. pc[w] = "idle" /\ pc' = [pc EXCEPT ![w] = "claimed"]
    BY <1>2, Zenon DEF Claims
  <2> QED
    BY <2>1, <2>2, <2>3 DEF FenceInv, SlotInv, CoreTypes, Busy, Executing, Started
<1>3. ASSUME NEW w \in Workers, Marks(w) PROVE FenceInv'
  BY <1>3 DEF Marks, FenceInv, SlotInv, CoreTypes, Busy, Executing, Started
<1>4. ASSUME NEW w \in Workers, Leaves(w) PROVE FenceInv'
  BY <1>4, NoRunAssumption DEF Leaves, FenceInv, SlotInv, CoreTypes, Busy, Executing, Started
<1>5. ASSUME NEW w \in Workers, Executes(w) PROVE FenceInv'
  BY <1>5 DEF Executes, FenceInv, SlotInv, CoreTypes, Busy, Executing, Started
<1>6. ASSUME NEW w \in Workers, Returns(w) PROVE FenceInv'
  BY <1>6 DEF Returns, FenceInv, SlotInv, CoreTypes, Busy, Executing, Started
<1>7. ASSUME NEW w \in Workers, Decides(w) PROVE FenceInv'
  BY <1>7 DEF Decides, FenceInv, SlotInv, CoreTypes, Busy, Executing, Started
<1>8. ASSUME NEW w \in Workers, Reads(w) PROVE FenceInv'
  BY <1>8 DEF Reads, FenceInv, SlotInv, CoreTypes, Busy, Executing, Started
<1>9. ASSUME NEW w \in Workers, Terminates(w) PROVE FenceInv'
  BY <1>9 DEF Terminates, FenceInv, SlotInv, CoreTypes, Busy, Executing, Started
<1> QED
  BY <1>1, <1>2, <1>3, <1>4, <1>5, <1>6, <1>7, <1>8, <1>9, Zenon DEF CoreNext

(* MarkProviderStarted lets one worker through per run: its fence is       *)
(* unique, and a started row is never queued again.                        *)
LEMMA StartStep == CoreTypes /\ SlotInv /\ FenceInv /\ StartInv /\ CoreNext => StartInv'
<1> SUFFICES ASSUME CoreTypes, SlotInv, FenceInv, StartInv, CoreNext PROVE StartInv'
  BY Zenon
<1>1. CASE Background
  BY <1>1 DEF Background, StartInv, CoreTypes, Busy, Started
<1>2. ASSUME NEW w \in Workers, Claims(w) PROVE StartInv'
  BY <1>2 DEF Claims, StartInv, SlotInv, CoreTypes, Busy, Executing, Started
<1>3. ASSUME NEW w \in Workers, Marks(w) PROVE StartInv'
  BY <1>3 DEF Marks, StartInv, SlotInv, CoreTypes, Busy, Executing, Started
<1>4. ASSUME NEW w \in Workers, Leaves(w) PROVE StartInv'
  BY <1>4 DEF Leaves, StartInv, SlotInv, CoreTypes, Busy, Executing, Started
<1>5. ASSUME NEW w \in Workers, Executes(w) PROVE StartInv'
  BY <1>5 DEF Executes, StartInv, CoreTypes, Executing, Started
<1>6. ASSUME NEW w \in Workers, Returns(w) PROVE StartInv'
  BY <1>6 DEF Returns, StartInv, CoreTypes, Executing, Started
<1>7. ASSUME NEW w \in Workers, Decides(w) PROVE StartInv'
  BY <1>7 DEF Decides, StartInv, CoreTypes, Executing, Started
<1>8. ASSUME NEW w \in Workers, Reads(w) PROVE StartInv'
  BY <1>8 DEF Reads, StartInv, CoreTypes, Executing, Started
<1>9. ASSUME NEW w \in Workers, Terminates(w) PROVE StartInv'
  BY <1>9 DEF Terminates, StartInv, SlotInv, CoreTypes, Busy, Executing, Started, TerminalStatus
<1> QED
  BY <1>1, <1>2, <1>3, <1>4, <1>5, <1>6, <1>7, <1>8, <1>9, Zenon DEF CoreNext

(* Only the owner of the provider start invokes the provider, once. *)
LEMMA ExecutionStep ==
    CoreTypes /\ SlotInv /\ StartInv /\ ExecutionInv /\ CoreNext => ExecutionInv'
<1> SUFFICES ASSUME CoreTypes, SlotInv, StartInv, ExecutionInv, CoreNext
             PROVE  ExecutionInv'
  BY Zenon
<1>1. CASE Background
  BY <1>1 DEF Background, ExecutionInv, CoreTypes, Busy, Executing
<1>2. ASSUME NEW w \in Workers, Claims(w) PROVE ExecutionInv'
  BY <1>2 DEF Claims, ExecutionInv, CoreTypes
<1>3. ASSUME NEW w \in Workers, Marks(w) PROVE ExecutionInv'
  BY <1>3 DEF Marks, ExecutionInv, SlotInv, CoreTypes, Busy
<1>4. ASSUME NEW w \in Workers, Leaves(w) PROVE ExecutionInv'
  BY <1>4 DEF Leaves, ExecutionInv, CoreTypes
<1>5. ASSUME NEW w \in Workers, Executes(w) PROVE ExecutionInv'
  BY <1>5 DEF Executes, ExecutionInv, StartInv, SlotInv, CoreTypes, Busy, Executing, Started
<1>6. ASSUME NEW w \in Workers, Returns(w) PROVE ExecutionInv'
  BY <1>6 DEF Returns, ExecutionInv, CoreTypes
<1>7. ASSUME NEW w \in Workers, Decides(w) PROVE ExecutionInv'
  BY <1>7 DEF Decides, ExecutionInv, CoreTypes
<1>8. ASSUME NEW w \in Workers, Reads(w) PROVE ExecutionInv'
  BY <1>8 DEF Reads, ExecutionInv, CoreTypes
<1>9. ASSUME NEW w \in Workers, Terminates(w) PROVE ExecutionInv'
  BY <1>9 DEF Terminates, ExecutionInv, CoreTypes
<1> QED
  BY <1>1, <1>2, <1>3, <1>4, <1>5, <1>6, <1>7, <1>8, <1>9, Zenon DEF CoreNext

(* Success is only classified after runner.Run, and only written by the    *)
(* worker that classified it.                                              *)
LEMMA OutcomeStep ==
    CoreTypes /\ SlotInv /\ StartInv /\ ExecutionInv /\ OutcomeInv /\ CoreNext
        => OutcomeInv'
<1> SUFFICES ASSUME CoreTypes, SlotInv, StartInv, ExecutionInv, OutcomeInv, CoreNext
             PROVE  OutcomeInv'
  BY Zenon
<1>1. CASE Background
  BY <1>1 DEF Background, OutcomeInv, CoreTypes, Busy, Executing
<1>2. ASSUME NEW w \in Workers, Claims(w) PROVE OutcomeInv'
  BY <1>2 DEF Claims, OutcomeInv, CoreTypes
<1>3. ASSUME NEW w \in Workers, Marks(w) PROVE OutcomeInv'
  BY <1>3 DEF Marks, OutcomeInv, CoreTypes
<1>4. ASSUME NEW w \in Workers, Leaves(w) PROVE OutcomeInv'
  BY <1>4 DEF Leaves, OutcomeInv, CoreTypes
<1>5. ASSUME NEW w \in Workers, Executes(w) PROVE OutcomeInv'
  BY <1>5 DEF Executes, OutcomeInv, StartInv, ExecutionInv, SlotInv, CoreTypes, Busy,
     Executing, Started
<1>6. ASSUME NEW w \in Workers, Returns(w) PROVE OutcomeInv'
  BY <1>6 DEF Returns, OutcomeInv, CoreTypes
<1>7. ASSUME NEW w \in Workers, Decides(w) PROVE OutcomeInv'
  BY <1>7 DEF Decides, OutcomeInv, CoreTypes
<1>8. ASSUME NEW w \in Workers, Reads(w) PROVE OutcomeInv'
  BY <1>8 DEF Reads, OutcomeInv, CoreTypes
<1>9. ASSUME NEW w \in Workers, Terminates(w) PROVE OutcomeInv'
  BY <1>9 DEF Terminates, OutcomeInv, StartInv, SlotInv, CoreTypes, Busy, Executing, Started
<1> QED
  BY <1>1, <1>2, <1>3, <1>4, <1>5, <1>6, <1>7, <1>8, <1>9, Zenon DEF CoreNext

-----------------------------------------------------------------------------
(* Theorems *)

(* The inductive invariant holds initially. *)
LEMMA CoreInit == Init => CoreInv
<1> SUFFICES ASSUME Init PROVE CoreInv
  BY Zenon
<1>1. CoreTypes
  BY DEF Init, CoreTypes, PC, RunStatus
<1>2. SideTypes
  BY DEF Init, SideTypes, RunStatus
<1>3. \A w \in Workers : pc[w] = "down" /\ claimed[w] = NoRun /\ term[w] = "none"
  BY Zenon DEF Init
<1>4. "down" \notin Busy /\ "down" \notin Started
  BY Zenon DEF Busy, Started, Executing
<1>5. \A r \in Runs : status[r] = "absent" /\ ~providerStarted[r] /\ executions[r] = 0
  BY Zenon DEF Init
<1>6. SlotInv /\ FenceInv /\ StartInv
  BY <1>3, <1>4, <1>5, Zenon DEF SlotInv, FenceInv, StartInv
<1>7. ExecutionInv /\ OutcomeInv
  BY <1>3, <1>5, Zenon DEF ExecutionInv, OutcomeInv
<1> QED
  BY <1>1, <1>2, <1>6, <1>7, TypesSplit, Zenon DEF CoreInv

(* The inductive invariant is preserved by every step. *)
LEMMA CoreStep == CoreInv /\ [Next]_vars => CoreInv'
<1> SUFFICES ASSUME CoreInv, [Next]_vars PROVE CoreInv'
  BY Zenon
<1>1. /\ CoreTypes /\ SideTypes /\ SlotInv /\ FenceInv /\ StartInv
      /\ ExecutionInv /\ OutcomeInv
  BY TypesSplit, Zenon DEF CoreInv
<1>2. CoreNext
  BY <1>1, CoreEffect, Zenon
<1>3. TypeOK'
  BY <1>1, <1>2, CoreTypesStep, SideTypesStep, TypesSplitNext, Zenon
<1>4. SlotInv' /\ FenceInv' /\ StartInv'
  BY <1>1, <1>2, SlotStep, FenceStep, StartStep, Zenon
<1>5. ExecutionInv' /\ OutcomeInv'
  BY <1>1, <1>2, ExecutionStep, OutcomeStep, Zenon
<1> QED
  BY <1>3, <1>4, <1>5, Zenon DEF CoreInv

(* The inductive invariant holds of every behaviour of workers, callers    *)
(* and recoveries.                                                         *)
THEOREM CoreCorrect == Spec => []CoreInv
  BY CoreInit, CoreStep, PTL DEF Spec

(* Rows, worker locals and budgets keep their types. *)
THEOREM TypeCorrect == Spec => []TypeOK
<1>1. CoreInv => TypeOK
  BY DEF CoreInv
<1> QED
  BY <1>1, CoreCorrect, PTL

(* For any number of workers, runs, crashes, cancels and database errors,  *)
(* execute calls the provider at most once per run.                        *)
THEOREM SingleExecution == Spec => []AtMostOneExecution
<1>1. ASSUME CoreInv, NEW r \in Runs PROVE executions[r] <= 1
  <2>1. executions[r] \in {0, 1}
    BY <1>1 DEF CoreInv, ExecutionInv
  <2> QED
    BY <2>1, SMTT(30)
<1>2. CoreInv => AtMostOneExecution
  BY <1>1 DEF AtMostOneExecution
<1> QED
  BY <1>2, CoreCorrect, PTL

(* The version read by a worker is a fence: two workers on one run never   *)
(* both hold the row's current version.                                    *)
THEOREM SingleFenceHolder == Spec => []OneFenceHolder
<1>1. CoreInv => OneFenceHolder
  <2> SUFFICES ASSUME CoreInv, NEW v \in Workers, NEW w \in Workers,
                      v # w, claimed[v] = claimed[w], claimed[v] # NoRun,
                      fence[v] = stateVersion[claimed[v]], fence[w] = stateVersion[claimed[w]]
               PROVE  FALSE
    BY DEF OneFenceHolder
  <2>1. pc[v] \in Busy /\ pc[w] \in Busy
    BY DEF CoreInv, SlotInv
  <2>2. ~(pc[v] \in Started /\ pc[w] \in Started)
    BY DEF CoreInv, StartInv
  <2>3. pc[v] = "claimed" \/ pc[w] = "claimed"
    BY <2>1, <2>2 DEF Busy, Started
  <2>4. claimed[v] \in Runs /\ stateVersion[claimed[v]] \in Nat
    BY <2>1 DEF CoreInv, SlotInv, TypeOK
  <2> QED
    BY <2>1, <2>3, <2>4 DEF CoreInv, FenceInv, Busy, Started
<1> QED
  BY <1>1, CoreCorrect, PTL

(* Only an execution yields succeeded: neither recovery nor a stale worker *)
(* reports a success for a run that was not executed.                      *)
THEOREM NoFabricatedSuccess == Spec => []SuccessWasExecuted
<1>1. CoreInv => SuccessWasExecuted
  BY DEF CoreInv, OutcomeInv, SuccessWasExecuted
<1> QED
  BY <1>1, CoreCorrect, PTL
=============================================================================
