--------------------------- MODULE AgentRunsRefinement ---------------------------
(***************************************************************************)
(* AgentRuns implements DurableRuns, its log never contradicts a row, and  *)
(* its step properties hold, for any number of runs and workers.           *)
(***************************************************************************)
EXTENDS AgentRunsProofs

-----------------------------------------------------------------------------
(* Steps that leave every status alone *)

StatusSteps ==
    \/ \E r \in Runs : CreateRun(r) \/ RequestCancel(r)
    \/ \E w \in Workers :
          \/ ReconcileInterrupted(w) \/ ReconcileNeverStarted(w) \/ ReconcileStaleCancels(w)
          \/ ClaimNextQueued(w) \/ ClaimUnacknowledged(w) \/ TerminateRun(w)

(* Only creates, cancels, recovery, claims and terminations change a       *)
(* status or a version.                                                    *)
LEMMA OtherSteps ==
    [Next]_vars /\ ~StatusSteps => UNCHANGED <<status, stateVersion>>
<1> SUFFICES ASSUME [Next]_vars, ~StatusSteps
             PROVE  UNCHANGED <<status, stateVersion>>
  OBVIOUS
<1> USE DEF vars, rowVars, workerVars, execVars, contextVars, outcomeVars,
        historyVars, faults
<1>1. ASSUME NEW r \in Runs, LeaseExpires(r)
      PROVE  UNCHANGED <<status, stateVersion>>
  BY <1>1 DEF LeaseExpires
<1>2. ASSUME NEW w \in Workers, Start(w) PROVE UNCHANGED <<status, stateVersion>>
  BY <1>2 DEF Start
<1>3. ASSUME NEW w \in Workers, MarkProviderStarted(w)
      PROVE  UNCHANGED <<status, stateVersion>>
  BY <1>3 DEF MarkProviderStarted
<1>4. ASSUME NEW w \in Workers, MarkStale(w)
      PROVE  UNCHANGED <<status, stateVersion>>
  BY <1>4 DEF MarkStale
<1>5. ASSUME NEW w \in Workers, RefreshAndRun(w)
      PROVE  UNCHANGED <<status, stateVersion>>
  BY <1>5 DEF RefreshAndRun
<1>6. ASSUME NEW w \in Workers, EmitProgress(w)
      PROVE  UNCHANGED <<status, stateVersion>>
  BY <1>6 DEF EmitProgress
<1>7. ASSUME NEW w \in Workers, RunnerReturns(w)
      PROVE  UNCHANGED <<status, stateVersion>>
  BY <1>7 DEF RunnerReturns
<1>8. ASSUME NEW w \in Workers, Classify(w)
      PROVE  UNCHANGED <<status, stateVersion>>
  BY <1>8 DEF Classify
<1>9. ASSUME NEW w \in Workers, ReadBeforeTerminate(w)
      PROVE  UNCHANGED <<status, stateVersion>>
  BY <1>9 DEF ReadBeforeTerminate
<1>10. ASSUME NEW w \in Workers, Drain(w) PROVE UNCHANGED <<status, stateVersion>>
  BY <1>10 DEF Drain
<1>11. ASSUME NEW w \in Workers, HeartbeatOK(w)
       PROVE  UNCHANGED <<status, stateVersion>>
  BY <1>11 DEF HeartbeatOK
<1>12. ASSUME NEW w \in Workers, HeartbeatFails(w)
       PROVE  UNCHANGED <<status, stateVersion>>
  BY <1>12 DEF HeartbeatFails
<1>13. ASSUME NEW w \in Workers, HeartbeatStops(w)
       PROVE  UNCHANGED <<status, stateVersion>>
  BY <1>13 DEF HeartbeatStops
<1>14. ASSUME NEW w \in Workers, CancelPoll(w)
       PROVE  UNCHANGED <<status, stateVersion>>
  BY <1>14 DEF CancelPoll
<1>15. ASSUME NEW w \in Workers, PollerStops(w)
       PROVE  UNCHANGED <<status, stateVersion>>
  BY <1>15 DEF PollerStops
<1>16. ASSUME NEW w \in Workers, RunTimesOut(w)
       PROVE  UNCHANGED <<status, stateVersion>>
  BY <1>16 DEF RunTimesOut
<1>17. ASSUME NEW w \in Workers, Crash(w) PROVE UNCHANGED <<status, stateVersion>>
  BY <1>17 DEF Crash
<1>18. ASSUME NEW w \in Workers, ReconcileFails(w)
       PROVE  UNCHANGED <<status, stateVersion>>
  BY <1>18 DEF ReconcileFails
<1>19. ASSUME NEW w \in Workers, MarkFails(w)
       PROVE  UNCHANGED <<status, stateVersion>>
  BY <1>19 DEF MarkFails
<1>20. ASSUME NEW w \in Workers, RefreshFails(w)
       PROVE  UNCHANGED <<status, stateVersion>>
  BY <1>20 DEF RefreshFails
<1>21. ASSUME NEW w \in Workers, CancelPollFails(w)
       PROVE  UNCHANGED <<status, stateVersion>>
  BY <1>21 DEF CancelPollFails
<1>22. CASE UNCHANGED vars
  BY <1>22
<1> QED
  BY <1>1, <1>2, <1>3, <1>4, <1>5, <1>6, <1>7, <1>8, <1>9, <1>10, <1>11, <1>12,
     <1>13, <1>14, <1>15, <1>16, <1>17, <1>18, <1>19, <1>20, <1>21, <1>22
     DEF StatusSteps, Next, MainStep, HeartbeatStep, PollerStep, FaultStep

-----------------------------------------------------------------------------
(* Step properties *)

(* A row that does not exist has no version yet. *)
AbsentInv == \A r \in Runs : status[r] = "absent" => stateVersion[r] = 0

(* No step gives a version to a row that does not exist. *)
LEMMA AbsentStep == TypeOK /\ SlotInv /\ AbsentInv /\ [Next]_vars => AbsentInv'
<1> SUFFICES ASSUME TypeOK, SlotInv, AbsentInv, [Next]_vars PROVE AbsentInv'
  OBVIOUS
<1> USE NoRunAssumption DEF SlotInv, Busy, Executing, Started, TypeOK, PC,
        RunStatus, ActiveStatus, TerminalStatus, vars, rowVars, workerVars,
        execVars, contextVars, outcomeVars, historyVars, faults, AbsentInv
<1>1. ASSUME NEW r \in Runs, CreateRun(r) PROVE AbsentInv'
  BY <1>1 DEF CreateRun
<1>2. ASSUME NEW r \in Runs, RequestCancel(r) PROVE AbsentInv'
  BY <1>2 DEF RequestCancel
<1>3. ASSUME NEW w \in Workers, ReconcileInterrupted(w) PROVE AbsentInv'
  BY <1>3 DEF ReconcileInterrupted, Assign, Bump, Goto
<1>4. ASSUME NEW w \in Workers, ReconcileNeverStarted(w) PROVE AbsentInv'
  BY <1>4 DEF ReconcileNeverStarted, Assign, Bump, Goto
<1>5. ASSUME NEW w \in Workers, ReconcileStaleCancels(w) PROVE AbsentInv'
  BY <1>5 DEF ReconcileStaleCancels, Assign, Bump, Goto
<1>6. ASSUME NEW w \in Workers, ClaimNextQueued(w) PROVE AbsentInv'
  BY <1>6 DEF ClaimNextQueued, ClaimRow, Claimable, Goto
<1>7. ASSUME NEW w \in Workers, ClaimUnacknowledged(w) PROVE AbsentInv'
  BY <1>7 DEF ClaimUnacknowledged, ClaimRow, Claimable, SpendDBError
<1>8. ASSUME NEW w \in Workers, TerminateRun(w) PROVE AbsentInv'
  <2>1. claimed[w] \in Runs /\ status[claimed[w]] # "absent"
    BY <1>8 DEF TerminateRun
  <2>2. CASE TerminateRow(w)
    <3>1. term[w] \in TerminalStatus
      BY <2>2 DEF TerminateRow, TerminateMatches, CanTransition
    <3>2. /\ status' = [status EXCEPT ![claimed[w]] = term[w]]
          /\ stateVersion' = [stateVersion EXCEPT ![claimed[w]] = @ + 1]
      BY <2>2 DEF TerminateRow
    <3> QED
      BY <2>1, <3>1, <3>2
  <2>3. CASE UNCHANGED <<status, stateVersion>>
    BY <2>3
  <2> QED
    BY <1>8, <2>2, <2>3 DEF TerminateRun
<1>9. CASE UNCHANGED <<status, stateVersion>>
  BY <1>9
<1> QED
  BY OtherSteps, <1>1, <1>2, <1>3, <1>4, <1>5, <1>6, <1>7, <1>8, <1>9
     DEF StatusSteps

VersionMoves == \A r \in Runs : status'[r] # status[r] => stateVersion'[r] = stateVersion[r] + 1

(* One status step, one version step. *)
LEMMA VersionStep == TypeOK /\ SlotInv /\ AbsentInv /\ [Next]_vars => VersionMoves
<1> SUFFICES ASSUME TypeOK, SlotInv, AbsentInv, [Next]_vars PROVE VersionMoves
  OBVIOUS
<1> USE NoRunAssumption DEF SlotInv, Busy, Executing, Started, TypeOK, PC,
        RunStatus, ActiveStatus, TerminalStatus, vars, rowVars, workerVars,
        execVars, contextVars, outcomeVars, historyVars, faults, AbsentInv,
        VersionMoves
<1>1. ASSUME NEW r \in Runs, CreateRun(r) PROVE VersionMoves
  BY <1>1 DEF CreateRun
<1>2. ASSUME NEW r \in Runs, RequestCancel(r) PROVE VersionMoves
  BY <1>2 DEF RequestCancel
<1>3. ASSUME NEW w \in Workers, ReconcileInterrupted(w) PROVE VersionMoves
  BY <1>3 DEF ReconcileInterrupted, Assign, Bump, Goto
<1>4. ASSUME NEW w \in Workers, ReconcileNeverStarted(w) PROVE VersionMoves
  BY <1>4 DEF ReconcileNeverStarted, Assign, Bump, Goto
<1>5. ASSUME NEW w \in Workers, ReconcileStaleCancels(w) PROVE VersionMoves
  BY <1>5 DEF ReconcileStaleCancels, Assign, Bump, Goto
<1>6. ASSUME NEW w \in Workers, ClaimNextQueued(w) PROVE VersionMoves
  BY <1>6 DEF ClaimNextQueued, ClaimRow, Claimable, Goto
<1>7. ASSUME NEW w \in Workers, ClaimUnacknowledged(w) PROVE VersionMoves
  BY <1>7 DEF ClaimUnacknowledged, ClaimRow, Claimable, SpendDBError
<1>8. ASSUME NEW w \in Workers, TerminateRun(w) PROVE VersionMoves
  <2>1. claimed[w] \in Runs /\ status[claimed[w]] # "absent"
    BY <1>8 DEF TerminateRun
  <2>2. CASE TerminateRow(w)
    <3>1. term[w] \in TerminalStatus
      BY <2>2 DEF TerminateRow, TerminateMatches, CanTransition
    <3>2. /\ status' = [status EXCEPT ![claimed[w]] = term[w]]
          /\ stateVersion' = [stateVersion EXCEPT ![claimed[w]] = @ + 1]
      BY <2>2 DEF TerminateRow
    <3> QED
      BY <2>1, <3>1, <3>2
  <2>3. CASE UNCHANGED <<status, stateVersion>>
    BY <2>3
  <2> QED
    BY <1>8, <2>2, <2>3 DEF TerminateRun
<1>9. CASE UNCHANGED <<status, stateVersion>>
  BY <1>9
<1> QED
  BY OtherSteps, <1>1, <1>2, <1>3, <1>4, <1>5, <1>6, <1>7, <1>8, <1>9
     DEF StatusSteps

(* Every status transition moves state_version by one, so a version names  *)
(* one status of a run: StatusChangeMovesFence for any number of workers.  *)
THEOREM FenceMoves == Spec => StatusChangeMovesFence
<1>1. Init => AbsentInv
  BY DEF Init, AbsentInv
<1>2. CoreInv /\ AbsentInv /\ [Next]_vars => AbsentInv'
  BY AbsentStep DEF CoreInv
<1>3. CoreInv /\ AbsentInv /\ [Next]_vars => [VersionMoves]_vars
  BY VersionStep DEF CoreInv
<1> QED
  BY <1>1, <1>2, <1>3, CoreCorrect, PTL DEF Spec, StatusChangeMovesFence,
     VersionMoves

-----------------------------------------------------------------------------
(* Refinement *)

(* An initial state of the workers and rows is one of the caller's view. *)
LEMMA DurableInit == Init => Durable!Init
  BY DEF Init, Durable!Init

(* Every step of callers, workers, goroutines and faults is a step of the  *)
(* caller's view or invisible to it.                                       *)
LEMMA DurableStep ==
    CoreInv /\ [Next]_vars => [Durable!Next]_(Durable!durableVars)
<1> SUFFICES ASSUME CoreInv, [Next]_vars
             PROVE  [Durable!Next]_(Durable!durableVars)
  OBVIOUS
<1> DEFINE Goal == [Durable!Next]_(Durable!durableVars)
<1> HIDE DEF Goal
<1>ty. TypeOK /\ SlotInv /\ StartInv
  BY DEF CoreInv
<1>own. \A w \in Workers : pc[w] \in Busy => claimed[w] \in Runs
  BY <1>ty DEF SlotInv
<1>own2. \A w \in Workers : pc[w] \in Started => claimed[w] \in Runs /\ providerStarted[claimed[w]]
  BY <1>ty DEF SlotInv, StartInv, Busy, Started, Executing
<1>quiet. UNCHANGED <<status, providerStarted, log>> => Goal
  BY DEF Goal, Durable!durableVars
<1>1. ASSUME NEW r \in Runs, CreateRun(r) PROVE Goal
  <2>1. Durable!Accept(r)
    BY <1>1, <1>ty DEF TypeOK, CreateRun, Durable!Accept, Durable!SetStatus
  <2> QED
    BY <2>1 DEF Goal, Durable!Next
<1>2. ASSUME NEW r \in Runs, RequestCancel(r) PROVE Goal
  <2>1. CASE status[r] = "cancel_requested"
    <3>1. status' = status
      BY <1>2, <2>1, <1>ty DEF TypeOK, RequestCancel
    <3> QED
      BY <1>2, <3>1, <1>quiet DEF RequestCancel
  <2>2. CASE status[r] # "cancel_requested"
    <3>1. Durable!Cancel(r)
      BY <1>2, <2>2, <1>ty DEF TypeOK, RequestCancel, ActiveStatus,
         Durable!Cancel, Durable!SetStatus
    <3> QED
      BY <3>1 DEF Goal, Durable!Next
  <2> QED
    BY <2>1, <2>2
<1>3. ASSUME NEW w \in Workers, ReconcileInterrupted(w) PROVE Goal
  <2> DEFINE S == {r \in Runs : /\ status[r] \in {"running", "cancel_requested"}
                             /\ providerStarted[r]
                             /\ lease[r] = "expired"}
  <2>1. Durable!Interrupt(S)
    BY <1>3 DEF ReconcileInterrupted, Assign, Durable!Interrupt, Durable!SetStatus
  <2>2. S \in SUBSET Runs
    OBVIOUS
  <2> QED
    BY <2>1, <2>2 DEF Goal, Durable!Next
<1>4. ASSUME NEW w \in Workers, ReconcileNeverStarted(w) PROVE Goal
  <2> DEFINE S == {r \in Runs : status[r] = "running" /\ ~providerStarted[r] /\ lease[r] = "expired"}
  <2>1. Durable!Requeue(S)
    BY <1>4 DEF ReconcileNeverStarted, Assign, Durable!Requeue, Durable!SetStatus
  <2>2. S \in SUBSET Runs
    OBVIOUS
  <2> QED
    BY <2>1, <2>2 DEF Goal, Durable!Next
<1>5. ASSUME NEW w \in Workers, ReconcileStaleCancels(w) PROVE Goal
  <2> DEFINE S == {r \in Runs : /\ status[r] = "cancel_requested"
                             /\ ~providerStarted[r]
                             /\ lease[r] # "live"}
  <2>1. Durable!CloseCancel(S)
    BY <1>5 DEF ReconcileStaleCancels, Assign, Durable!CloseCancel,
       Durable!SetStatus
  <2>2. S \in SUBSET Runs
    OBVIOUS
  <2> QED
    BY <2>1, <2>2 DEF Goal, Durable!Next
<1>6. ASSUME NEW w \in Workers, ClaimNextQueued(w) PROVE Goal
  <2>1. PICK r \in Runs : ClaimRow(r)
    BY <1>6 DEF ClaimNextQueued
  <2>2. Durable!Claim(r)
    BY <1>6, <2>1, <1>ty DEF TypeOK, ClaimNextQueued, ClaimRow, Claimable,
       Durable!Claim, Durable!SetStatus
  <2> QED
    BY <2>2 DEF Goal, Durable!Next
<1>7. ASSUME NEW w \in Workers, MarkProviderStarted(w) PROVE Goal
  <2>1. claimed[w] \in Runs
    BY <1>7, <1>own DEF MarkProviderStarted, Busy
  <2>2. Durable!BeginProvider(claimed[w])
    BY <1>7 DEF MarkProviderStarted, MarkMatches, Durable!BeginProvider
  <2> QED
    BY <2>1, <2>2 DEF Goal, Durable!Next
<1>8. ASSUME NEW w \in Workers, EmitProgress(w) PROVE Goal
  <2>1. claimed[w] \in Runs /\ providerStarted[claimed[w]]
    BY <1>8, <1>own2 DEF EmitProgress, Started, Executing
  <2>2. UNCHANGED <<status, providerStarted>>
    BY <1>8 DEF EmitProgress
  <2>3. CASE log' = [log EXCEPT ![claimed[w]] = Append(@, "progress")]
    <3>1. Durable!AppendEvent(claimed[w])
      BY <2>1, <2>2, <2>3 DEF Durable!AppendEvent
    <3> QED
      BY <2>1, <3>1 DEF Goal, Durable!Next
  <2>4. CASE UNCHANGED log
    BY <2>2, <2>4, <1>quiet
  <2> QED
    BY <1>8, <2>3, <2>4 DEF EmitProgress, EmitOK, EmitFails
<1>9. ASSUME NEW w \in Workers, RunnerReturns(w) PROVE Goal
  <2>1. claimed[w] \in Runs /\ providerStarted[claimed[w]]
    BY <1>9, <1>own2 DEF RunnerReturns, Started, Executing
  <2>2. UNCHANGED <<status, providerStarted>>
    BY <1>9 DEF RunnerReturns
  <2>3. CASE log' = [log EXCEPT ![claimed[w]] = Append(@, "end")]
    <3>1. Durable!AppendEvent(claimed[w])
      BY <2>1, <2>2, <2>3 DEF Durable!AppendEvent
    <3> QED
      BY <2>1, <3>1 DEF Goal, Durable!Next
  <2>4. CASE UNCHANGED log
    BY <2>2, <2>4, <1>quiet
  <2> QED
    BY <1>9, <2>3, <2>4 DEF RunnerReturns, EmitOK, EmitFails
<1>10. ASSUME NEW w \in Workers, TerminateRun(w) PROVE Goal
  <2>1. claimed[w] \in Runs /\ providerStarted[claimed[w]]
    BY <1>10, <1>own2 DEF TerminateRun, Started, Executing
  <2>2. UNCHANGED providerStarted
    BY <1>10 DEF TerminateRun
  <2>3. CASE TerminateRow(w)
    <3>1. CanTransition(status[claimed[w]], term[w])
      BY <2>3 DEF TerminateRow, TerminateMatches
    <3>2. term[w] \in TerminalStatus
      BY <1>ty, <3>1 DEF TypeOK, CanTransition, TerminalStatus
    <3>3. /\ status' = [status EXCEPT ![claimed[w]] = term[w]]
          /\ log' = [log EXCEPT ![claimed[w]] = Append(@, term[w])]
      BY <2>3 DEF TerminateRow
    <3>4. Durable!SetStatus({claimed[w]}, term[w])
      BY <2>1, <3>3, <1>ty DEF TypeOK, Durable!SetStatus
    <3>5. term[w] \in Durable!TerminalStatus /\ Durable!CanTransition(status[claimed[w]], term[w])
      BY <3>1, <3>2 DEF CanTransition, Durable!CanTransition, TerminalStatus,
         Durable!TerminalStatus
    <3>6. Durable!Terminate(claimed[w])
      BY <2>1, <2>2, <3>3, <3>4, <3>5 DEF Durable!Terminate
    <3> QED
      BY <2>1, <3>6 DEF Goal, Durable!Next
  <2>4. CASE UNCHANGED <<status, log>>
    BY <2>2, <2>4, <1>quiet
  <2> QED
    BY <1>10, <2>3, <2>4 DEF TerminateRun
<1>11. ASSUME NEW w \in Workers, ClaimUnacknowledged(w) PROVE Goal
  <2>1. PICK r \in Runs : ClaimRow(r)
    BY <1>11 DEF ClaimUnacknowledged
  <2>2. Durable!Claim(r)
    BY <1>11, <2>1, <1>ty DEF TypeOK, ClaimUnacknowledged, ClaimRow, Claimable,
       Durable!Claim, Durable!SetStatus
  <2> QED
    BY <2>2 DEF Goal, Durable!Next
<1>12. ASSUME NEW w \in Workers, MarkFails(w) PROVE Goal
  <2>1. claimed[w] \in Runs
    BY <1>12, <1>own DEF MarkFails, Busy
  <2>2. CASE UNCHANGED providerStarted
    BY <1>12, <2>2, <1>quiet DEF MarkFails
  <2>3. CASE /\ MarkMatches(w)
             /\ providerStarted' = [providerStarted EXCEPT ![claimed[w]] = TRUE]
    <3>1. Durable!BeginProvider(claimed[w])
      BY <1>12, <2>3 DEF MarkFails, MarkMatches, Durable!BeginProvider
    <3> QED
      BY <2>1, <3>1 DEF Goal, Durable!Next
  <2> QED
    BY <1>12, <2>2, <2>3 DEF MarkFails
<1>13. ASSUME NEW r \in Runs, LeaseExpires(r) PROVE Goal
  BY <1>13, <1>quiet DEF LeaseExpires, rowVars
<1>14. ASSUME NEW w \in Workers, Start(w) PROVE Goal
  BY <1>14, <1>quiet DEF Start, rowVars
<1>15. ASSUME NEW w \in Workers, MarkStale(w) PROVE Goal
  BY <1>15, <1>quiet DEF MarkStale, rowVars
<1>16. ASSUME NEW w \in Workers, RefreshAndRun(w) PROVE Goal
  BY <1>16, <1>quiet DEF RefreshAndRun, rowVars
<1>17. ASSUME NEW w \in Workers, Classify(w) PROVE Goal
  BY <1>17, <1>quiet DEF Classify, rowVars
<1>18. ASSUME NEW w \in Workers, ReadBeforeTerminate(w) PROVE Goal
  BY <1>18, <1>quiet DEF ReadBeforeTerminate, rowVars
<1>19. ASSUME NEW w \in Workers, Drain(w) PROVE Goal
  BY <1>19, <1>quiet DEF Drain, rowVars
<1>20. ASSUME NEW w \in Workers, HeartbeatOK(w) PROVE Goal
  BY <1>20, <1>quiet DEF HeartbeatOK, rowVars
<1>21. ASSUME NEW w \in Workers, HeartbeatFails(w) PROVE Goal
  BY <1>21, <1>quiet DEF HeartbeatFails, rowVars
<1>22. ASSUME NEW w \in Workers, HeartbeatStops(w) PROVE Goal
  BY <1>22, <1>quiet DEF HeartbeatStops, rowVars
<1>23. ASSUME NEW w \in Workers, CancelPoll(w) PROVE Goal
  BY <1>23, <1>quiet DEF CancelPoll, rowVars
<1>24. ASSUME NEW w \in Workers, PollerStops(w) PROVE Goal
  BY <1>24, <1>quiet DEF PollerStops, rowVars
<1>25. ASSUME NEW w \in Workers, RunTimesOut(w) PROVE Goal
  BY <1>25, <1>quiet DEF RunTimesOut, rowVars
<1>26. ASSUME NEW w \in Workers, Crash(w) PROVE Goal
  BY <1>26, <1>quiet DEF Crash, rowVars
<1>27. ASSUME NEW w \in Workers, ReconcileFails(w) PROVE Goal
  BY <1>27, <1>quiet DEF ReconcileFails, rowVars
<1>28. ASSUME NEW w \in Workers, RefreshFails(w) PROVE Goal
  BY <1>28, <1>quiet DEF RefreshFails, rowVars
<1>29. ASSUME NEW w \in Workers, CancelPollFails(w) PROVE Goal
  BY <1>29, <1>quiet DEF CancelPollFails, rowVars
<1>30. ASSUME UNCHANGED vars PROVE Goal
  BY <1>30, <1>quiet DEF vars, rowVars
<1>31. Goal
  BY <1>1, <1>2, <1>3, <1>4, <1>5, <1>6, <1>7, <1>8, <1>9, <1>10, <1>11, <1>12,
     <1>13, <1>14, <1>15, <1>16, <1>17, <1>18, <1>19, <1>20, <1>21, <1>22, <1>23,
     <1>24, <1>25, <1>26, <1>27, <1>28, <1>29, <1>30 DEF Next, MainStep,
     HeartbeatStep, PollerStep, FaultStep
<1> QED
  BY <1>31 DEF Goal

(* AgentRuns implements the caller's view DurableRuns: DurableSpec holds   *)
(* for any number of runs and workers and any budget of faults.            *)
THEOREM ImplementsDurableRuns == Spec => DurableSpec
<1>1. Init => Durable!Init
  BY DurableInit
<1>2. CoreInv /\ [Next]_vars => [Durable!Next]_(Durable!durableVars)
  BY DurableStep, SMTT(30)
<1> QED
  BY <1>1, <1>2, CoreCorrect, PTL DEF Spec, DurableSpec, Durable!Spec

-----------------------------------------------------------------------------
(* What the caller's view guarantees, and AgentRuns inherits *)

(* The ways out of cancel_requested for one run, seen from the caller's    *)
(* view: canceled, with its event once the provider began, or interrupted. *)
CancelSeen(r) ==
    \/ status'[r] = "cancel_requested"
    \/ /\ status'[r] = "canceled"
       /\ providerStarted[r] => log'[r] = Append(log[r], "canceled")
    \/ /\ status'[r] = "interrupted"
       /\ providerStarted[r]
       /\ log'[r] = log[r]

(* No step of the caller's view takes a requested cancel elsewhere. *)
LEMMA CancelStep ==
  ASSUME TypeOK, [Durable!Next]_(Durable!durableVars),
         NEW r \in Runs, status[r] = "cancel_requested"
  PROVE  CancelSeen(r)
<1> USE DEF TypeOK, CancelSeen, Durable!SetStatus
<1>1. ASSUME NEW q \in Runs, Durable!Accept(q) PROVE CancelSeen(r)
  BY <1>1 DEF Durable!Accept
<1>2. ASSUME NEW q \in Runs, Durable!Claim(q) PROVE CancelSeen(r)
  BY <1>2 DEF Durable!Claim
<1>3. ASSUME NEW q \in Runs, Durable!BeginProvider(q) PROVE CancelSeen(r)
  BY <1>3 DEF Durable!BeginProvider
<1>4. ASSUME NEW q \in Runs, Durable!Cancel(q) PROVE CancelSeen(r)
  BY <1>4 DEF Durable!Cancel
<1>5. ASSUME NEW q \in Runs, Durable!AppendEvent(q) PROVE CancelSeen(r)
  BY <1>5 DEF Durable!AppendEvent
<1>6. ASSUME NEW q \in Runs, Durable!Terminate(q) PROVE CancelSeen(r)
  <2>1. CASE q = r
    BY <1>6, <2>1 DEF Durable!Terminate, Durable!CanTransition
  <2>2. CASE q # r
    BY <1>6, <2>2 DEF Durable!Terminate
  <2> QED
    BY <2>1, <2>2
<1>7. ASSUME NEW S \in SUBSET Runs, Durable!Requeue(S) PROVE CancelSeen(r)
  BY <1>7 DEF Durable!Requeue
<1>8. ASSUME NEW S \in SUBSET Runs, Durable!Interrupt(S) PROVE CancelSeen(r)
  BY <1>8 DEF Durable!Interrupt
<1>9. ASSUME NEW S \in SUBSET Runs, Durable!CloseCancel(S) PROVE CancelSeen(r)
  BY <1>9 DEF Durable!CloseCancel
<1>10. CASE UNCHANGED Durable!durableVars
  BY <1>10 DEF Durable!durableVars
<1> QED
  BY <1>1, <1>2, <1>3, <1>4, <1>5, <1>6, <1>7, <1>8, <1>9, <1>10 DEF Durable!Next

InterruptedLate ==
    \A r \in Runs : status[r] = "cancel_requested" /\ status'[r] = "interrupted"
        => lease[r] = "expired"

(* Only the recovery statement, which looks at the lease, interrupts a     *)
(* requested cancel: the state machine stops every worker from doing so.   *)
LEMMA InterruptStep == TypeOK /\ SlotInv /\ [Next]_vars => InterruptedLate
<1> SUFFICES ASSUME TypeOK, SlotInv, [Next]_vars PROVE InterruptedLate
  OBVIOUS
<1> USE NoRunAssumption DEF SlotInv, Busy, Executing, Started, TypeOK, InterruptedLate
<1>1. ASSUME NEW r \in Runs, CreateRun(r) PROVE InterruptedLate
  BY <1>1 DEF CreateRun
<1>2. ASSUME NEW r \in Runs, RequestCancel(r) PROVE InterruptedLate
  BY <1>2 DEF RequestCancel
<1>3. ASSUME NEW w \in Workers, ReconcileInterrupted(w) PROVE InterruptedLate
  BY <1>3 DEF ReconcileInterrupted, Assign
<1>4. ASSUME NEW w \in Workers, ReconcileNeverStarted(w) PROVE InterruptedLate
  BY <1>4 DEF ReconcileNeverStarted, Assign
<1>5. ASSUME NEW w \in Workers, ReconcileStaleCancels(w) PROVE InterruptedLate
  BY <1>5 DEF ReconcileStaleCancels, Assign
<1>6. ASSUME NEW w \in Workers, ClaimNextQueued(w) PROVE InterruptedLate
  BY <1>6 DEF ClaimNextQueued, ClaimRow
<1>7. ASSUME NEW w \in Workers, ClaimUnacknowledged(w) PROVE InterruptedLate
  BY <1>7 DEF ClaimUnacknowledged, ClaimRow
<1>8. ASSUME NEW w \in Workers, TerminateRun(w) PROVE InterruptedLate
  <2>1. CASE TerminateRow(w)
    <3>1. CanTransition(status[claimed[w]], term[w])
      BY <2>1 DEF TerminateRow, TerminateMatches
    <3>2. status' = [status EXCEPT ![claimed[w]] = term[w]]
      BY <2>1 DEF TerminateRow
    <3> QED
      BY <3>1, <3>2 DEF CanTransition
  <2>2. CASE UNCHANGED <<status, stateVersion>>
    BY <2>2
  <2> QED
    BY <1>8, <2>1, <2>2 DEF TerminateRun
<1>9. CASE UNCHANGED <<status, stateVersion>>
  BY <1>9
<1> QED
  BY OtherSteps, <1>1, <1>2, <1>3, <1>4, <1>5, <1>6, <1>7, <1>8, <1>9
     DEF StatusSteps

(* What CancelIsSticky says of one step. *)
CancelKept ==
    \A r \in Runs : status[r] = "cancel_requested" =>
        \/ status'[r] = "cancel_requested"
        \/ /\ status'[r] = "canceled"
           /\ providerStarted[r] => log'[r] = Append(log[r], "canceled")
        \/ /\ status'[r] = "interrupted"
           /\ providerStarted[r]
           /\ lease[r] = "expired"
           /\ log'[r] = log[r]

(* A requested cancel is never answered with success or failure, however   *)
(* its worker and recovery race, and is interrupted only by recovery after *)
(* its lease ran out: CancelIsSticky for any number of workers.            *)
THEOREM CancelSticks == Spec => CancelIsSticky
<1>1. CoreInv /\ [Next]_vars => CancelKept
  <2> SUFFICES ASSUME CoreInv, [Next]_vars, NEW r \in Runs,
                      status[r] = "cancel_requested"
               PROVE  /\ CancelSeen(r)
                      /\ status'[r] = "interrupted" => lease[r] = "expired"
    BY DEF CancelKept, CancelSeen
  <2>1. [Durable!Next]_(Durable!durableVars)
    BY DurableStep
  <2>2. TypeOK /\ SlotInv
    BY DEF CoreInv
  <2>3. CancelSeen(r)
    BY <2>1, <2>2, CancelStep
  <2>4. InterruptedLate
    BY <2>2, InterruptStep
  <2> QED
    BY <2>3, <2>4 DEF InterruptedLate
<1> QED
  BY <1>1, CoreCorrect, PTL DEF Spec, CancelIsSticky, CancelKept

(* LogAgreesWithStatus for one row: its status s and its log l. *)
LogOK(s, l) ==
    /\ \A i, j \in 1..Len(l) : IsTerminal(l[i]) /\ IsTerminal(l[j]) => i = j
    /\ \A i \in 1..Len(l) : IsTerminal(l[i]) => l[i] = s
    /\ s \in {"succeeded", "failed"} => \E i \in 1..Len(l) : IsTerminal(l[i])

LogInv == \A r \in Runs : LogOK(status[r], log[r])

(* LogInv is LogAgreesWithStatus, row by row. *)
LEMMA LogInvMeaning == LogInv <=> LogAgreesWithStatus
  BY DEF LogInv, LogOK, LogAgreesWithStatus, TerminalEvents

(* What Append does to length and elements. *)
LEMMA AppendFacts ==
    ASSUME NEW T, NEW l \in Seq(T), NEW e \in T
    PROVE  /\ Len(Append(l, e)) = Len(l) + 1
           /\ Len(l) \in Nat
           /\ \A i \in 1..Len(l) : Append(l, e)[i] = l[i]
           /\ Append(l, e)[Len(l) + 1] = e
  OBVIOUS

(* An active row has no terminal event, so it may take any status that is  *)
(* not reported by a worker without touching the log.                      *)
LEMMA LogQuiet ==
    ASSUME NEW s, NEW t, NEW l, LogOK(s, l), ~IsTerminal(s), t \notin {"succeeded", "failed"}
    PROVE  LogOK(t, l)
  BY DEF LogOK

(* Progress does not disturb the agreement, also on a terminal row. *)
LEMMA LogProgress ==
    ASSUME NEW s, NEW l \in Seq(EventKind), LogOK(s, l), NEW k \in {"progress", "end"}
    PROVE  LogOK(s, Append(l, k))
<1>1. ~IsTerminal(k) /\ k \in EventKind
  BY DEF IsTerminal, TerminalStatus, EventKind
<1> QED
  BY <1>1, AppendFacts DEF LogOK

(* A terminal status written with its event keeps the agreement. *)
LEMMA LogTerminal ==
    ASSUME NEW s, NEW l \in Seq(EventKind), LogOK(s, l), ~IsTerminal(s), NEW t \in TerminalStatus
    PROVE  LogOK(t, Append(l, t))
<1>1. IsTerminal(t) /\ t \in EventKind
  BY SMTT(30) DEF IsTerminal, EventKind
<1> QED
  BY <1>1, AppendFacts DEF LogOK

(* Every step of the caller's view keeps log and row in agreement. *)
LEMMA LogStep ==
    TypeOK /\ LogInv /\ [Durable!Next]_(Durable!durableVars) => LogInv'
<1> SUFFICES ASSUME TypeOK, LogInv, [Durable!Next]_(Durable!durableVars), NEW q \in Runs
             PROVE  LogOK(status'[q], log'[q])
  BY DEF LogInv
<1>ok. LogOK(status[q], log[q]) /\ log[q] \in Seq(EventKind)
  BY DEF LogInv, TypeOK
<1>quiet. ASSUME NEW S \in SUBSET Runs, NEW t, Durable!SetStatus(S, t), log' = log,
                 \A r \in S : ~IsTerminal(status[r]), t \notin {"succeeded", "failed"}
          PROVE  LogOK(status'[q], log'[q])
  <2>1. CASE q \in S
    BY <1>ok, <1>quiet, <2>1, LogQuiet DEF Durable!SetStatus
  <2>2. CASE q \notin S
    BY <1>ok, <1>quiet, <2>2 DEF Durable!SetStatus
  <2> QED
    BY <2>1, <2>2
<1>1. ASSUME NEW r \in Runs, Durable!Accept(r) \/ Durable!Claim(r) \/ Durable!Cancel(r)
      PROVE  LogOK(status'[q], log'[q])
  BY <1>1, <1>quiet DEF Durable!Accept, Durable!Claim, Durable!Cancel,
     IsTerminal, TerminalStatus
<1>2. ASSUME NEW S \in SUBSET Runs,
             Durable!Requeue(S) \/ Durable!Interrupt(S) \/ Durable!CloseCancel(S)
      PROVE  LogOK(status'[q], log'[q])
  BY <1>2, <1>quiet DEF Durable!Requeue, Durable!Interrupt, Durable!CloseCancel,
     IsTerminal, TerminalStatus
<1>3. ASSUME NEW r \in Runs, Durable!BeginProvider(r)
      PROVE  LogOK(status'[q], log'[q])
  BY <1>3, <1>ok DEF Durable!BeginProvider
<1>4. ASSUME NEW r \in Runs, Durable!AppendEvent(r)
      PROVE  LogOK(status'[q], log'[q])
  <2>1. PICK k \in {"progress", "end"} : log' = [log EXCEPT ![r] = Append(@, k)]
    BY <1>4 DEF Durable!AppendEvent
  <2>2. LogOK(status[q], Append(log[q], k))
    BY <1>ok, LogProgress
  <2>3. log'[q] = log[q] \/ log'[q] = Append(log[q], k)
    BY <2>1 DEF TypeOK
  <2> QED
    BY <1>4, <1>ok, <2>2, <2>3 DEF Durable!AppendEvent
<1>5. ASSUME NEW r \in Runs, Durable!Terminate(r) PROVE LogOK(status'[q], log'[q])
  <2>1. PICK s \in TerminalStatus : /\ Durable!CanTransition(status[r], s)
                                    /\ Durable!SetStatus({r}, s)
                                    /\ log' = [log EXCEPT ![r] = Append(@, s)]
    BY <1>5 DEF Durable!Terminate, TerminalStatus, Durable!TerminalStatus
  <2>2. CASE q = r
    <3>1. status'[q] = s /\ log'[q] = Append(log[q], s)
      BY <2>1, <2>2 DEF TypeOK, Durable!SetStatus
    <3>2. ~IsTerminal(status[q])
      BY <2>1, <2>2 DEF Durable!CanTransition, IsTerminal, TerminalStatus
    <3> QED
      BY <1>ok, <3>1, <3>2, LogTerminal
  <2>3. CASE q # r
    <3>1. status'[q] = status[q] /\ log'[q] = log[q]
      BY <2>1, <2>3 DEF TypeOK, Durable!SetStatus
    <3> QED
      BY <1>ok, <3>1
  <2> QED
    BY <2>2, <2>3
<1>6. CASE UNCHANGED Durable!durableVars
  BY <1>6, <1>ok DEF Durable!durableVars
<1> QED
  BY <1>1, <1>2, <1>3, <1>4, <1>5, <1>6 DEF Durable!Next

(* The log never contradicts the row, for any number of runs and workers:  *)
(* LogAgreesWithStatus always holds.                                       *)
THEOREM LogAlwaysAgrees == Spec => []LogAgreesWithStatus
<1>1. Init => LogInv
  BY DEF Init, LogInv, LogOK
<1>2. CoreInv /\ LogInv /\ [Next]_vars => LogInv'
  BY DurableStep, LogStep DEF CoreInv
<1> QED
  BY <1>1, <1>2, CoreCorrect, LogInvMeaning, PTL DEF Spec
=============================================================================
