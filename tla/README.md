# Primer: a TLA+ verification project

Primer is a family of services for home schooling: a learning-management
server, a TV server, Curriculum Studio, Identity, Tasks, a student workstation
and Primer Agents, which runs AI agents durably.  They own separate databases
and talk over HTTP.  What can go wrong between their processes is mostly the
same story told several times: a row is claimed under a lease, something
happens outside the database, and the outcome is written back by whoever still
owns the row.

This project models that story in the four places where it carries most: runs
of Primer Agents and the stream of their events, dialogue verification in
Primer Tasks, webhook delivery in Curriculum Studio, and sign-in sessions in
Primer Identity.  Modules are plain TLA+; TLC checks the runs below on small
instances, TLAPS proves the theorems for every instance.

## Inventory

The parts, what they hold and what makes them hard.

| Part | State and operations | What is hard | Here |
| --- | --- | --- | --- |
| Agents: runs and worker (`primer-agents/internal/{worker,repo,appservice,domain}`) | run rows with status, version, lease, provider mark; event log; create, cancel, claim, mark, heartbeat, append, terminate, reconcile | several worker processes, goroutines sharing one context, crashes between statements, lease expiry under a live worker, lost answers | modelled, proved |
| Agents: event stream (`internal/sse`, `client/ts`) | cursor, page, frames in flight, resume cursor | pages, frames and status check are separate; lost connections | modelled, proved |
| Agents: sessions, turns, schedules (`internal/repo/{sessions,session_turns,schedules}.go`) | session revision, turns, firings | compare-and-set, idempotent retries | not modelled, but for the stream's queries |
| Agents: runner and controller (`runtime/`) | child budgets, event bridge | concurrent children | runner by its events |
| Tasks: dialogue verification (`primer-tasks/internal/{verification,jobs,api}`) | occurrence, attempts, questions, answers, evaluations, leased jobs, decisions, overrides | a model call between read and commit, lost leases, three transactions that may complete an occurrence, deadlines, retries | modelled, proved |
| Studio outbox (`curriculum-studio/internal/{outbox,repo/events.go}`) | events, endpoints, deliveries, leases, attempts | leases that lapse in flight, processes of one name, lost answers, deletion under a worker | modelled, proved |
| Identity sessions (`primer-identity/internal/{broker,oauth,repo}`) | logins, grants, codes, refresh families and tokens | concurrent callbacks and redemptions, each with a time of its own, reuse detection, rolled-back attempts | modelled, proved |
| Workstation sync (`server/internal/studentclient/{cache,sync}`) | local outboxes, work pages | lost acknowledgements, restart within a paged pull | not modelled |
| TV grants and reporter (`server/internal/tv`) | grants, sessions, export ledger | crash between post and ledger | not modelled |
| LMS mastery (`server/internal/mastery`) | evidence and status promotion | arithmetic within one transaction | not modelled |
| Interfaces, ingest, packaging, content | | no protocol state | not modelled |

`PROJECT.json` lists every part with its sources, and the hazards at their
lines.

## Modules

| Module | Models |
| --- | --- |
| `RunLifecycle` | statuses, terminal ones, and the transition graph of `internal/domain` |
| `DurableRuns` | what a caller is promised of a run: status, whether the provider began, the log |
| `AgentRuns` | callers, worker processes, run rows and log, in full |
| `AgentRunsProofs` | the inductive invariant of `AgentRuns` and its safety theorems |
| `AgentRunsRefinement` | `AgentRuns` implements `DurableRuns`; step properties; the log |
| `RunStream` | the SSE stream and its subscriber, composed with `DurableRuns` |
| `RunStreamProofs` | the invariant of `RunStream` and its theorems |
| `TasksDialogue` | one task occurrence: its dialogue attempts, jobs and workers, the parent's decisions |
| `Interview` | what a dialogue is to student and parent: questions, answers and verdicts in strict turns |
| `TasksDialogueProofs` | the invariant of `TasksDialogue`, completion and history; what the evidence rules make of questions, answers and evaluations |
| `TasksDialogueEvidence` | the invariant of jobs and evidence and its theorems; `TasksDialogue` implements `Interview` |
| `WebhookPromise` | what a webhook subscriber is promised of a delivery |
| `StudioOutbox` | outbox, fan-out, leased delivery, endpoints, purge |
| `StudioOutboxProofs` | the invariant of `StudioOutbox`; it implements `WebhookPromise` |
| `IdentitySessions` | broker callback, grants, codes, token endpoint, refresh families |
| `IdentitySessionsInvariant` | the inductive invariant; callbacks, the ends of a family, issue, exchange and rotation keep it |
| `IdentitySessionsProofs` | the theorems of `IdentitySessions` |
| `MCAgentRuns`, `MCRunStream`, `MCTasksDialogue`, `MCStudioOutbox`, `MCIdentitySessions` | instances for TLC |

`AgentRuns` implements `DurableRuns`, and `RunStream` runs against
`DurableRuns`.  So what is shown of the stream holds over the real worker,
without exploring workers and subscribers together.

Definitions named as a *variant* are the code with one plausible mistake in it:
a dropped predicate, a forgotten increment, an ignored error.  Each is the
subject of a mutation run that must break the property it aims at.  No
specification uses them.

### AgentRuns and the code

A row is `status`, `stateVersion`, `providerStarted`, `lease` and `log`.  Time
is abstract: a lease is live until `LeaseExpires` happens, and that may be
under a worker that is alive, since nothing in the code keeps a heartbeat
punctual.  A worker is a process with one slot, the default `MaxConcurrent`.
`pc` is its place in `Worker.execute`, and `cause`, `heartbeat` and `poller` are
the run context and the two goroutines that share it.

| Action | Code |
| --- | --- |
| `CreateRun`, `RequestCancel` | `RunRepo.Create`, `RunRepo.RequestCancel` |
| `Start`, `Reconcile...` | `Worker.Start`, the three UPDATEs of `Worker.Reconcile` |
| `ClaimNextQueued`, `ClaimUnacknowledged` | `claimOne`, with and without its answer |
| `MarkProviderStarted`, `MarkStale`, `MarkFails` | the mark that precedes any provider call, and its errors |
| `RefreshAndRun`, `RefreshFails` | the re-fetch, start of the goroutines, entry of `runMAF` |
| `EmitProgress`, `RunnerReturns` | events of `Runner.Run` through `durableSink`, its return |
| `Classify`, `ReadBeforeTerminate`, `TerminateRun`, `Drain` | the rest of `execute`, up to the deferred wait |
| `HeartbeatOK/Fails/Stops`, `CancelPoll/PollFails`, `PollerStops`, `RunTimesOut` | goroutines and run context |
| `Crash` | process death, or a shutdown, which cancels the worker's context |

Every SQL statement or transaction is a step of its own.  A failing database
call may have committed or not.  The heartbeat closure reads `stateVersion`
while the main thread writes it (`worker.go:203` and `:258`); that data race is
a choice between the two values.

### RunStream and the code

One subscriber per run.  `Connect` is the handler with `ParseCursor`;
`ListPage`, `WriteFrame`, `PageWritten`, `CheckTerminal`, `FinalPage`,
`FinalWritten` and `Wake` are the loop of `Stream`, a step per query and per
frame.  `OnFrame` and `EndOfBody` are the read loop of `streamRunEvents`.
`Disconnect` loses what is in flight; `HandlerFails` does not.  The client does
not reconnect by itself: its caller calls it again with the last sequence it
was given, and that caller is part of the model.  Events are named by their
sequence.  `Append` takes the next one and inserts the event in one transaction
that holds the run's row, so sequences have no gaps and follow commit order;
the model takes this from the code and does not check it.

### TasksDialogue and the code

One occurrence with one dialogue requirement and any number of manual ones.
Every transaction of the service locks the occurrence first, so a transaction
is a step; a worker's read before the model call (`ReadState`) and its commit
afterwards are two.  Questions, answers and evaluations are kept by their
ordinals and verdicts; wording, rubrics and prompts are data.

| Action | Code |
| --- | --- |
| `Start`, `Admit`, `RetryJob` | the student's start, answer and retry, each with the job it enqueues |
| `Claim`, `Reconcile`, `CleanUp` | the job queue of `internal/jobs`: claim under lease and generation, recovery of lapsed, exhausted and superseded jobs |
| `CommitQuestion`, `CommitEvaluation` | the two commits, fenced by the lease, with revalidation and completion |
| `WorkerFails`, `FailDialogue`, `Crash` | model failure, its settlement, process death |
| `Override`, `Decide`, `RetryDialogue`, `RetryManual`, `SetStatus` | the parent's handlers |
| `ManualStart`, `ManualSubmit`, `Revoke` | manual requirements; end of a login session |
| `LeaseLapses`, `DeadlinePasses` | the database clock |

The mapping to `Interview` reads the phase off the latest attempt: `over` when
the attempt or the occurrence is closed, `none` before its dialogue row exists,
`asking` or `judging` while a job of that stage is queued, running or failed,
and `answering`, the student's turn, when there is no such job.  The counters
are those of `DialogueEvidence`, recomputed from the rows as the code does.

### StudioOutbox and the code

A process is one `Worker`; `Tick` is `Fanout`, then `Claim`, `Load`, `Post` and
`Record`, a step for each statement or request.  `Operate` has the API handlers
for endpoints, the enqueue of an event and the retention purge.  `Abandon` is a
process that stops, or a statement that fails, with a claim in hand.  Owner
names are drawn from `Naming`, because the code derives them from the listen
address, and replicas may share one.  `accepted` is the receiver's side: the
attempts it answered with a 2xx, whether or not the answer arrived.  One attempt
is one `client.Do`; Go's HTTP client may send such a request again by itself
when a reused connection breaks, so the receiver may see an attempt more than
once, and neither the model nor `WebhookPromise` says otherwise.
A delivery whose last attempt was abandoned stays `pending` in its row and is
never claimed again; the mapping to `WebhookPromise` counts it as given up.
Readers of the table should know that `outbox/README.md:54` ("dead-letter as
`failed` after `MaxAttempts`") and `events.go:252` ("left as dead-lettered
failures") do not describe such a row: it is out of attempts and not `failed`.

### IdentitySessions and the code

One person and one client, so that logins share a grant while it is active.
A handler is a call in progress: a provider callback (`LoadLiveBinding`,
`Advance`, `Authenticated`, `GiveBack`, `IssueCallbackArtifacts`) or a request
to the token and revocation endpoints (`Receive`, `ExchangeCode`, `Rotate`,
`RedeemSpent`, `RedeemOverdue`, `RedeemEnded`, `RedeemUnknown`, `Revoke`,
`Finish`).  `RedeemUnknown` is a refresh token that does not belong to the
client and resource it is presented for: the lookup finds no row, the answer is
`invalid_grant` and nothing is written.
Transactions are serializable, hence one step; `Fail` is one that is rolled
back for good, and a `Finish` is the end of a call, its answer arrived or not.
`now` is read before the transaction and kept across its retries
(`WithSerializableRetry`), so times of overlapping requests may be applied out
of order.  All servers read one clock.

Some behaviour looks like a mistake in the model and is in the code:

- redeeming a spent token at a time before its live successor was issued would
  set a time before `issued_at`; the CHECK constraint of
  `oauth_refresh_tokens` refuses it and the client is told to try again;
- so does redeeming a spent token of an expired family, by the constraint of
  `oauth_refresh_families`;
- a successor token expires at the family's idle limit from before the
  rotation (`refresh.go:84`), so later than that is never promised to it;
- families of one grant stay `active` when the grant ends; they are refused
  through the grant;
- a callback that dies in `provider_validating` leaves the login unusable until
  it expires.

## Runs

| Run | Question | Answer |
| --- | --- | --- |
| `agent_runs_safety` | two workers, one run, two crashes, two cancels, one failing call | all hold |
| `agent_runs_liveness` | does a slot come back, does an undisturbed run end | both hold |
| `agent_runs_cancel` | is every cancel, a repeated one too, acknowledged, as the runbook says | no |
| `agent_runs_events` | does a lost event fail the run, as the comment says | no |
| `agent_runs_terminal` | does a run end along the schema's state machine, or at least with its event | no |
| `run_stream_replay` | two lost connections, pages of two, logs of four | all hold |
| `run_stream_final` | does a finished stream carry the terminal event | no |
| `dialogue_workers` | two workers on one attempt: lapsed leases, deadlines, failures, overrides; is the talk still in turns | all hold |
| `dialogue_retries` | two attempts, a manual requirement, two overrides; is a retry a fresh interview | all hold |
| `dialogue_turns` | does an open dialogue always take an answer or end | no |
| `outbox_delivery` | two processes on the outbox and a delivery of three attempts | all hold |
| `identity_sessions` | two logins, two calls at a time, lost answers, rolled-back transactions | all hold |

**What holds.** The provider is invoked at most once for a run
(`AtMostOneExecution`), and at most one worker holds the version that the
fenced statements ask for (`OneFenceHolder`).  The log agrees with the row
(`LogAgreesWithStatus`), a success was executed (`SuccessWasExecuted`), a status
change moves the fence (`StatusChangeMovesFence`), a cancel is never answered
with success or failure: a started run is canceled with its event, or recovery
interrupts it after its lease ran out (`CancelIsSticky`).  A subscriber sees a gapless prefix
of the log however often it loses its connection (`StreamIsPrefix`).

In Tasks, an occurrence is completed only when all requirements were accepted,
by whichever of its three writers (`CompletionIsEarned`), and the completion is
in the event log the student's socket reads (`CompletionIsAnnounced`).  A
worker's read stays true for as long as it holds its lease
(`LeaseKeepsReadFresh`), every job that may still run fits the evidence, so that
neither commit nor recovery can fail on it (`JobFitsEvidence`), no later step
rewrites an attempt (`HistoryIsKept`), and a busy dialogue settles
(`BusyDialogueSettles`).  All the machinery of jobs and leases implements an
interview in strict turns (`TakesTurns`), and when it is the student's turn,
nothing but the turn limit can refuse the answer (`OnlyTurnsRunOut`).

In Studio, the machinery of leases implements the plain promise of
`WebhookPromise` (`PromiseKept`), processes with different names never touch the
newest attempt of another (`LeaseProtects`), no two of them, whatever their
names, are in the same attempt, and none posts an attempt that was accepted
before (`OnePostPerAttempt`), and every event is published and every delivery
ends (`EventsArePublished`, `DeliveriesSettle`).

In Identity, a login is driven by one callback (`CallbackOwnsLogin`), a code and
a refresh token have one winner (`SingleWinner`), an active family has one live
token (`FamilyLifecycle`) that expires within the limits of family and grant
(`WithinLimits`), the refusal of a token that was found leaves a session that is
over (`RefusalIsFinal`; `RedeemUnknown` touches none) and cannot turn into
success on a retry (`RefusalIsStable`), and what ended stays ended
(`TerminalIsFinal`).

**What does not.** The five violation runs show places where a comment, the
schema's document, the runbook or the interface says more than the code does; `PROJECT.json`
quotes them under findings.

- A failed write of the last event leaves a succeeded run with a hole, since
  `runMAF` looks at the context only after an error.
- Recovery takes a started run whose cancel is pending from `cancel_requested`
  to `interrupted` (`worker_repo.go:116`), where `SCHEMA.md` has only
  `cancel_requested → canceled` in a state machine that "workers must not
  bypass", and writes no event, where it says that event and status commit
  together.  `EndsByTheBook` asks for at least one of the two, so its
  counterexample refutes both.  Recovery's other steps break one each, or none:
  a running run is interrupted and a stale cancel closed along the graph but
  without an event, and a run that never started goes back from `running` to
  `queued`, not in the graph either, which only the comment on `Reconcile` has.
- A cancel before the claim waits for the next process start.  A cancel whose
  version change the heartbeat notices first classifies the run as interrupted,
  which the lifecycle refuses from `cancel_requested`.
- The final catch-up of a stream is one page.  If it is full, the terminal
  event may be beyond it.  `CatchUpSendsTerminalEvent` states what is left: a
  final page that is not full has it.
- A dialogue answer accepted with the last allowed turn, before the last
  question, leaves an open attempt with a question that no answer is taken for.
  Only a rejected answer ends an attempt that is out of turns.  The theorem
  `EnoughTurnsSuffice` says which policies are safe from this: those with at
  least `RequiredQuestions * (1 + AllowedFollowUps)` turns, where
  `DialogueConfig.Validate` asks for three.

### Bounds

One run in the `AgentRuns` instances: runs meet only in a worker's slot, no
statement relates two rows, and the set-valued recovery actions treat rows
independently.  Two workers are the two parties of every race on a row.  Two
crashes let both die, or one die twice; two cancels include the repeated
request, which moves the version again and so fences the worker that would
acknowledge the first; one failing call per behaviour is placed at every call in turn.
`MaxEvents` bounds progress events only.  The theorems below hold without these
bounds.  `RunStream` has pages of two and logs of four, so a page can be full,
short or empty, and the log can outgrow a final page.  `MaxBreaks` 2 allows a
second loss while the first is being repaired.  Deadlock is not checked in
`AgentRuns`: once all runs are over and the budgets are used, nothing is left
to do.

`dialogue_workers` has two workers, so one may hold a lease the other lost, two
questions and a follow-up, so both job stages recur and a rejection can be
repaired, and two tries per job.  `dialogue_retries` trades the second worker
for a second attempt, a manual requirement and two overrides: 1.2 million
states.  `dialogue_turns` uses a policy `DialogueConfig.Validate` allows, three
questions in three turns.  `MaxOverrides` is a bound of the model; the others
are configuration.  `outbox_delivery` has one delivery of three attempts, so a
late worker can be one or two attempts behind; deliveries share only the
endpoint and a worker's hand.  `identity_sessions` has two of everything that
races, one rotation per family (`MaxSeq` 1), and a clock that runs far enough
for codes and idle limits to pass.  Its limits are scaled to a few units, with
`Idle` below `Absolute` and a provider session that may end before both.
Deadlock is checked in `run_stream_*` and `outbox_delivery`.  A finished
occurrence has nothing left to do, and the identity model stops at its bounds.

### Fairness

`AgentRuns!Fairness`: processes are restarted by their deployment; the main
thread and each goroutine are scheduled; a `select` with a cancelled context
does not choose its ticker for ever (`HeartbeatStops`); an armed timeout fires;
a lease that nobody renews expires.  Callers, crashes and database errors are
not fair.  `SlotReleased` is checked with `RunTimeout` set, which the service
does when the live provider is on.  Without it a failed `TerminateRun` leaves
both goroutines running and the deferred wait never returns (`worker.go:238`).
`RunStream!FairSpec`: handler and subscriber are scheduled, the ticker and the
poll interval fire, a subscriber whose stream ended comes back.  Nothing is
assumed of the runs.
`TasksDialogue!Fairness`: workers are scheduled and poll, so recovery happens;
deadlines come; the lease of a job nobody works on lapses.  Nothing is assumed
of student and parent.  `StudioOutbox!Fairness`: processes tick for as long as
they live and restart, and leases lapse.  `IdentitySessions` has none: its
clients need not come back, and only safety is claimed.

## Proofs

For every set of processes, runs, deliveries, logins and so on, and all bounds,
from the assumptions named in the modules: `NoRunAssumption`,
`BoundsAssumption`, `StreamAssumption`, `PolicyAssumption` and `NoneAssumption`
(`TasksDialogue`), `OutboxAssumption`, `SessionAssumption`.

**The worker protocol** (`AgentRunsProofs`).  None of the properties is
inductive.  `CoreInv` adds to the types:

- `SlotInv`: a worker has a run, whose row exists, exactly while it is busy;
- `FenceInv`: no worker's fence is ahead of its row.  Two claimants of a run
  hold different versions, and beside a worker past its mark a claimant's
  version is outdated.  A claim moves the version past every older one, and a
  claimant cannot catch up, because the version is read again only past the mark;
- `StartInv` and `ExecutionInv`: a row that can be claimed has no mark, past the
  mark a worker owns it alone, and there is no execution before it;
- `OutcomeInv`: an outcome `succeeded` is carried by a worker whose run was
  executed.

`CoreEffect` first sorts the steps by what they do to the eight variables the
invariant speaks of: `Background` steps (callers, recovery, the goroutines, the
clock) move rows but no worker's run, and eight more actions are what one worker
does from claim to release.  Each part of the invariant is then proved step by
step over these nine, with the types of those variables only (`CoreTypes`; the
others are `SideTypes`).  `TypeCorrect`, `SingleExecution`, `SingleFenceHolder`
and `NoFabricatedSuccess` follow.

**Refinement** (`AgentRunsRefinement`).  `ImplementsDurableRuns`: every step of
`AgentRuns` is a step of `DurableRuns` or changes nothing a caller sees; the
mapping is the identity on `status`, `providerStarted` and `log`.  From it
`LogAlwaysAgrees`, which needs no worker any more, and most of `CancelSticks`:
`CancelStep` has the ways out of `cancel_requested` in the caller's view, and
`InterruptStep` adds, from the workers' steps, that an interrupted one had lost
its lease.  Beside it `FenceMoves`.

**The stream** (`RunStreamProofs`).  `StreamInv` says that what was received, is
in flight and is still to be written counts 1, 2, 3, ... within the log, that
the cursor stands behind the last frame written, and that behind a final page
that is not full there is no terminal event.  Concatenation facts about counting
sequences are lemmas.  `SubscriberSeesPrefix` and `CatchUpIsComplete` follow.
`StreamAssumption` has page sizes 1..500, the ones `EventRepo.List` honours.

**The dialogue** (`TasksDialogueProofs`).  `CompletionIsEarned` speaks of
completed occurrences only and says nothing of the state before.  `Inv` adds
what every attempt row satisfies: numbers beyond the last are unused, an open
attempt is undecided, and an outcome that counts as accepted stands on an
accepted attempt whose evidence is complete unless it was overridden.  From it
`CompletionsAreEarned` and `CompletionsAreAnnounced`; `HistoryKept` is the
action property, step by step.

The same module has the lemmas on `DialogueEvidence`, whose rules quantify over
three sequences at once: valid evidence stays valid when a question is asked
after all before it were accepted (`NextQuestionFits`), when an answer to the
last question is added (`AnswerFits`) and when it is evaluated
(`EvaluationFits`); all questions but the last are accepted, so the count of
accepted ones is known (`CountOfAccepted`, `OneToAccept`); and what each
operation does to the counters (`AskCounts`, `AnswerCounts`, `EvaluateCounts`).

**Jobs and evidence** (`TasksDialogueEvidence`).  `JobFitsEvidence` is not
inductive: that an evaluation can be committed now does not say that the next
question can be asked afterwards, nor that a job was not left on an attempt
without rows.  `WorkInv` adds

- `Unbegun`: attempts after the last, and those without a dialogue row, have
  neither rows nor a job;
- `Fits`: the open attempt's rows are valid and take what its pending job will
  commit;
- `Turns`: without a pending job the current question waits for an answer, all
  earlier ones evaluated and a follow-up left; with a pending evaluation exactly
  one answer is not evaluated; and no question took more than its share;
- `ReadIsCurrent`: a worker that owns the running job read what is still there,
  with no regard to whether its lease is live, because a lapsed lease must not
  become live again with a stale read.

Most steps are quiet (`QuietStep`): they leave an attempt with the same work on
the same rows, or close it.  `StepKinds` sorts the steps into quiet ones, the
claim and the read of a worker, and those of the talk, so that only the last
kinds need proofs of their own.  `JobsFitEvidence`, `ReadsStayFresh` and
`OnlyTurnsStrand` follow, and `EnoughTurnsSuffice` from the latter.
`TalkTakesTurns` is the refinement of `Interview`: quiet steps are pauses or
`Close`, and each step of the talk is the one action of its name.  Here `WorkInv`
is needed to know that a verdict leaves exactly the current question to accept,
and that a retry finds an attempt without rows.

**The outbox** (`StudioOutboxProofs`).  `Core` relates a worker's hand to its
row: the attempt it holds was counted, it is unknown to the receiver before it
is sent and known after a 2xx, and two workers on a row are in different
attempts.  `AttemptsArePostedOnce` is the part of it that a receiver feels.
`Inv` is `Core` with `LeaseProtects`.  `PromiseIsKept` is the
refinement: rows map to phases by `Phase`, attempts and the receiver's side to
themselves, and a lapsing last lease to `GiveUp`.

**Sessions** (`IdentitySessionsInvariant`, `IdentitySessionsProofs`).  `Inv` adds
to the types: `Owned`, a callback that may call the provider is the one the
login's version names; `Coded`, a login with a code is authorized; and
`Sessions`.  The latter says that a family's code is used up and that a family
that ended has an ended grant (`FamilyOK`), that a code buys one family, and,
the least obvious part, that a live token was issued no later than the time of
any pending request that presents it (`IssuedInTime`): without this a rotation
with an old `now` could give a token more than its limits.

Left to TLC: the liveness properties (`SlotReleased`, `UndisturbedRunEnds`,
`EveryEventArrives`, `BusyDialogueSettles`, `EventsArePublished`,
`DeliveriesSettle`), since fairness and ENABLED are beyond the prover, and the
violated ones.  Every invariant and every action property of a passing run has
its theorem.

## Not modelled

The project covers a small share of the repository's lines, and the rest is of
a different kind: create, read, update and list handlers over single rows,
browser, Android and terminal interfaces, generated clients, packaging,
curriculum content and its import.  They hold no protocol state, and a model of
them would say what one statement says.

Of the parts that do hold such state:

- **Workstation sync** is the largest protocol left: outboxes in SQLite against
  the LMS, and paged pulls that resume after a restart.  Reading it for its
  hazards turned up that a restart within a snapshot walk takes the mode of the
  walk from the next answer, which is incremental, so that the reconciliation
  at the end of the snapshot is skipped (`sync.go:271`), and that completing a
  session writes back a row read before the request.
- **Agents' turns and schedules**: `AppendTurn` and `ClaimNextDue` are single
  transactions under a row lock whose effect on runs is `Accept` of
  `DurableRuns`; `ClaimNextDue` has no caller outside tests.
- **TV**: grants are single-row updates; the reporter repeats an idempotent
  ingest.
- **Mastery** is arithmetic over the evidence rows of one transaction.
- **Identity**: purge of old logins, `client_credentials`, client
  authentication, signing and key rotation.  `RevokeInitialFamily` has no caller
  outside tests, and the webhook and alert workers are started by no binary.
- **Tasks**: schedules, and the media job queue, which is leased like the
  dialogue's.

Within the modelled parts: payloads, agent profiles and providers, and the
LISTEN/NOTIFY channel beyond a wake-up that may be lost.  `MaxConcurrent` above
one: slots of a process share no state but the semaphore, so more slots are
more workers, except that a crash takes them together.  `ClaimRun` and
`AcknowledgeCancel` of the agents' service have no caller outside tests.
Periodic reconciliation is in the phase plan and not in the code.
