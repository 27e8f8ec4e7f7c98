---------------------------- MODULE TasksDialogue ----------------------------
(***************************************************************************)
(* Verification of one task occurrence in primer-tasks: the occurrence     *)
(* row, the attempts at its dialogue requirement with their questions,     *)
(* answers and evaluations, the leased jobs that workers execute for them, *)
(* the parent's decisions, overrides and retries, and the manual           *)
(* requirements of the same task (internal/verification, internal/jobs,    *)
(* internal/api).                                                          *)
(*                                                                         *)
(* Every transaction takes the occurrence lock first, so a transaction is  *)
(* one step; what a worker read before a model call and what it commits    *)
(* afterwards are different steps.  Requests that are refused, and resent  *)
(* requests that are answered from the stored row, change nothing and are  *)
(* left out.  A task may have several dialogue requirements; this is one   *)
(* of them, and the others would be like Manuals.                          *)
(***************************************************************************)
EXTENDS Naturals, Sequences, FiniteSets

CONSTANTS
    Manuals,            \* the parent_approval requirements of the revision
    Sessions,           \* the student's login sessions
    Workers,            \* dialogue worker processes
    None,               \* no lease owner, no session
    RequiredQuestions,  \* domain.DialogueRequiredQuestions
    AllowedFollowUps,   \* DialogueConfig.AllowedFollowUps
    MaxTurns,           \* DialogueConfig.MaxTurns
    MaxAttempts,        \* DialogueConfig.MaxAttempts
    JobMaxAttempts,     \* verification_jobs.max_attempts
    MaxOverrides        \* bound: overrides of one attempt

(* DialogueConfig.Validate and the constants of the job rows. *)
ASSUME PolicyAssumption ==
    /\ RequiredQuestions \in Nat \ {0}
    /\ AllowedFollowUps \in Nat
    /\ MaxTurns \in Nat /\ MaxTurns >= RequiredQuestions
    /\ MaxAttempts \in Nat \ {0}
    /\ JobMaxAttempts \in Nat \ {0}
    /\ MaxOverrides \in Nat
ASSUME NoneAssumption == None \notin Workers \cup Sessions

VARIABLES
    occ,        \* task_occurrences.status
    manual,     \* status of the latest attempt at each manual requirement
    last,       \* number of the latest dialogue attempt, 0 if there is none
    status,     \* verification_attempts.status of each dialogue attempt
    dlg,        \* dialogue_attempts with its questions, messages, evaluations
    decision,   \* verification_decisions of each dialogue attempt
    overrides,  \* verification_overrides of each dialogue attempt, in order
    announced,  \* attempts whose event log has the "completion" event
    job,        \* the latest verification_jobs row of each dialogue attempt
    live,       \* sessions neither revoked nor expired
    worker      \* what each worker process is doing

requirementVars == <<occ, manual, last, status>>
evidenceVars == <<dlg, decision, overrides, announced>>
vars == <<requirementVars, evidenceVars, job, live, worker>>

-----------------------------------------------------------------------------
(* Rows *)

Numbers == 1..MaxAttempts

OccurrenceStatus ==
    {"pending", "in_progress", "awaiting_verification",
     "completed", "excused", "canceled"}
IsTerminal(s) == s \in {"completed", "excused", "canceled"}

CanTransition(from, to) ==
    \/ from = to
    \/ from = "pending" /\ to \in {"in_progress", "excused", "canceled"}
    \/ /\ from = "in_progress"
       /\ to \in {"awaiting_verification", "excused", "canceled"}
    \/ /\ from = "awaiting_verification"
       /\ to \in {"completed", "pending", "excused", "canceled"}

Message == [question : Nat, expected : Nat]  \* verification_messages
Evaluation == [message : Nat, accepted : BOOLEAN, version : Nat]
Dialogue ==
    [bound : BOOLEAN,              \* the dialogue_attempts row exists
     version : Nat,
     questions : Seq(Nat),         \* dialogue_questions.version by ordinal
     messages : Seq(Message),
     evaluations : Seq(Evaluation)]
NoDialogue ==
    [bound |-> FALSE, version |-> 1, questions |-> <<>>, messages |-> <<>>,
     evaluations |-> <<>>]

Job ==
    [message : Nat,                \* the answer to evaluate, 0 if none
     status : {"none", "queued", "running", "succeeded", "failed"},
     stage : {"question", "evaluation", "done"},
     session : Sessions \cup {None},
     attempts : Nat, generation : Nat,
     owner : Workers \cup {None},
     leased : BOOLEAN,             \* lease_until > now
     late : BOOLEAN]               \* deadline <= now
NoJob ==
    [message |-> 0, status |-> "none", stage |-> "done", session |-> None,
     attempts |-> 0, generation |-> 0, owner |-> None,
     leased |-> FALSE, late |-> FALSE]
NewJob(m, stage, s) ==
    [NoJob EXCEPT !.message = m, !.status = "queued", !.stage = stage,
                  !.session = s]

WorkerRow ==
    [pc : {"idle", "claimed", "thinking", "failing"},
     attempt : Nat, message : Nat, generation : Nat,
     stage : {"question", "evaluation", "done"}, ordinal : Nat]
Idle == [pc |-> "idle", attempt |-> 0, message |-> 0, generation |-> 0,
         stage |-> "done", ordinal |-> 0]

(* Types of the rows and of the workers' local variables. *)
TypeOK ==
    /\ occ \in OccurrenceStatus
    /\ manual \in [Manuals -> {"none", "open", "accepted", "rejected"}]
    /\ last \in 0..MaxAttempts
    /\ status \in [Numbers -> {"none", "open", "accepted", "rejected",
                               "exhausted"}]
    /\ dlg \in [Numbers -> Dialogue]
    /\ decision \in [Numbers -> {"none", "accepted", "rejected"}]
    /\ overrides \in [Numbers -> Seq(BOOLEAN)]
    /\ announced \subseteq Numbers
    /\ job \in [Numbers -> Job]
    /\ live \subseteq Sessions
    /\ worker \in [Workers -> WorkerRow]

Init ==
    /\ occ = "pending"
    /\ manual = [m \in Manuals |-> "none"]
    /\ last = 0
    /\ status = [n \in Numbers |-> "none"]
    /\ dlg = [n \in Numbers |-> NoDialogue]
    /\ decision = [n \in Numbers |-> "none"]
    /\ overrides = [n \in Numbers |-> <<>>]
    /\ announced = {}
    /\ job = [n \in Numbers |-> NoJob]
    /\ live = Sessions
    /\ worker = [p \in Workers |-> Idle]

-----------------------------------------------------------------------------
(* The evidence rules *)

Question(d, k) == d.messages[d.evaluations[k].message].question
AcceptedQuestions(d) ==
    {Question(d, k) : k \in {l \in DOMAIN d.evaluations :
                                 d.evaluations[l].accepted}}
AcceptedCount(d) == Cardinality(AcceptedQuestions(d))
Ready(d) == AcceptedCount(d) = RequiredQuestions

(* DialogueEvidence: the rows of one attempt, read without trusting a     *)
(* counter.  An attempt that fails it cannot be loaded by anybody.        *)
EvidenceOK(d) ==
    /\ Len(d.questions) <= RequiredQuestions
    /\ \A k \in DOMAIN d.questions : d.questions[k] \in 1..d.version
    /\ \A k \in DOMAIN d.messages :
           /\ d.messages[k].question \in DOMAIN d.questions
           /\ d.messages[k].expected >= d.questions[d.messages[k].question]
           /\ d.messages[k].expected <= d.version
    /\ \A k \in DOMAIN d.evaluations :
           /\ d.evaluations[k].message \in DOMAIN d.messages
           /\ d.evaluations[k].version >
                  d.messages[d.evaluations[k].message].expected + 1
           /\ d.evaluations[k].version <= d.version
    /\ \A k, l \in DOMAIN d.evaluations : k < l =>
           /\ d.evaluations[k].message # d.evaluations[l].message
           /\ d.evaluations[k].accepted => Question(d, k) # Question(d, l)
    /\ \A q \in DOMAIN d.questions : q < Len(d.questions) =>
           \E k \in DOMAIN d.evaluations :
               /\ d.evaluations[k].accepted
               /\ Question(d, k) = q
               /\ d.evaluations[k].version < d.questions[q + 1]

(* LoadDialogueState: only the latest attempt, and only valid evidence. *)
Loadable(n) == n = last /\ dlg[n].bound /\ EvidenceOK(dlg[n])
Closed(n) == status[n] # "open" \/ IsTerminal(occ)

Answers(d, q) == {k \in DOMAIN d.messages : d.messages[k].question = q}
Evaluated(d, q) == {k \in DOMAIN d.evaluations : Question(d, k) = q}
(* Variant: only the turns are counted. *)
OutOfTurns(d, q) == Len(d.messages) >= MaxTurns
OutOfAnswers(d, q) ==
    \/ Cardinality(Answers(d, q)) >= 1 + AllowedFollowUps
    \/ Len(d.messages) >= MaxTurns

Ask(d) ==
    [d EXCEPT !.version = @ + 1, !.questions = Append(@, d.version + 1)]
Answer(d) ==
    [d EXCEPT !.version = @ + 1,
              !.messages = Append(@, [question |-> Len(d.questions),
                                      expected |-> d.version])]
Evaluate(d, m, accepted) ==
    [d EXCEPT !.version = @ + 1,
              !.evaluations = Append(@, [message |-> m, accepted |-> accepted,
                                         version |-> d.version + 1])]

(* RecordQuestion *)
MayAsk(n, d) ==
    /\ ~Closed(n) /\ ~Ready(d)
    /\ Len(d.questions) = AcceptedCount(d)
    /\ EvidenceOK(Ask(d))
(* RecordMessage: the current question, all its answers evaluated, and the *)
(* follow-up and turn limits.                                              *)
MayAnswer(n, d) ==
    /\ ~Closed(n) /\ ~Ready(d)
    /\ d.questions # <<>> /\ AcceptedCount(d) # Len(d.questions)
    /\ Cardinality(Answers(d, Len(d.questions))) =
           Cardinality(Evaluated(d, Len(d.questions)))
    /\ ~OutOfAnswers(d, Len(d.questions))
    /\ EvidenceOK(Answer(d))
(* RecordEvaluation: the last answer, to the last question. *)
MayEvaluate(n, d, m, accepted) ==
    /\ ~Closed(n) /\ ~Ready(d)
    /\ d.questions # <<>> /\ d.messages # <<>>
    /\ m = Len(d.messages) /\ d.messages[m].question = Len(d.questions)
    /\ EvidenceOK(Evaluate(d, m, accepted))

(* The outcome of dialogue attempt n when the engine's decision is dec:    *)
(* the latest override, else the decision.                                *)
Outcome(n, dec) ==
    IF overrides[n] # <<>> THEN overrides[n][Len(overrides[n])]
    ELSE dec = "accepted"

(* RequirementPolicySatisfied: the latest attempt at every requirement. *)
Satisfied(dec, manuals) ==
    /\ last # 0 /\ Outcome(last, dec)
    /\ \A m \in Manuals : manuals[m] = "accepted"

-----------------------------------------------------------------------------
(* The student *)

Unsettled(n) == job[n].status \in {"queued", "running", "failed"}

(* DialogueEngine.Start: the first attempt, or the open one that a parent's *)
(* retry created; its dialogue row and first job; the manual attempts.     *)
Start(s) ==
    LET n == IF last = 0 THEN 1 ELSE last IN
    /\ s \in live /\ ~IsTerminal(occ)
    /\ last = 0 \/ status[n] = "open"
    /\ EvidenceOK(dlg[n])
    /\ last' = n
    /\ status' = [status EXCEPT ![n] = "open"]
    /\ dlg' = [dlg EXCEPT ![n].bound = TRUE]
    /\ job' = IF dlg[n].bound THEN job
              ELSE [job EXCEPT ![n] = NewJob(0, "question", s)]
    /\ manual' = [m \in Manuals |->
                     IF manual[m] = "none" THEN "open" ELSE manual[m]]
    /\ occ' = "awaiting_verification"
    /\ UNCHANGED <<decision, overrides, announced, live, worker>>

(* DialogueEngine.Admit: an answer to the current question and its job. *)
Admit(s) ==
    /\ last # 0 /\ s \in live /\ Loadable(last)
    /\ ~Unsettled(last)
    /\ MayAnswer(last, dlg[last])
    /\ dlg' = [dlg EXCEPT ![last] = Answer(@)]
    /\ job' = [job EXCEPT ![last] =
                  NewJob(Len(dlg[last].messages) + 1, "evaluation", s)]
    /\ UNCHANGED <<requirementVars, decision, overrides, announced, live,
                   worker>>

(* DialogueEngine.Retry: the session that admitted a failed job requeues   *)
(* it while its budget and its deadline last.                              *)
RetryJob(s) ==
    /\ last # 0 /\ s \in live /\ Loadable(last) /\ ~Closed(last)
    /\ job[last].status = "failed" /\ job[last].session = s
    /\ job[last].attempts < JobMaxAttempts /\ ~job[last].late
    /\ job' = [job EXCEPT ![last].status = "queued"]
    /\ UNCHANGED <<requirementVars, evidenceVars, live, worker>>

(* manualMutation2: start and submit of a manual requirement, with a       *)
(* session (the device route takes no task with several requirements).     *)
ManualStart(m) ==
    /\ live # {} /\ occ = "pending" /\ manual[m] # "accepted"
    /\ occ' = "in_progress"
    /\ UNCHANGED <<manual, last, status, evidenceVars, job, live, worker>>
ManualSubmit(m) ==
    /\ live # {} /\ occ \in {"in_progress", "awaiting_verification"}
    /\ manual[m] # "accepted"
    /\ manual' = [manual EXCEPT ![m] = "open"]
    /\ occ' = "awaiting_verification"
    /\ UNCHANGED <<last, status, evidenceVars, job, live, worker>>

(* A session is revoked, or expires. *)
Revoke(s) ==
    /\ s \in live
    /\ live' = live \ {s}
    /\ UNCHANGED <<requirementVars, evidenceVars, job, worker>>

-----------------------------------------------------------------------------
(* Jobs and workers *)

EndJob(j, s) == [j EXCEPT !.status = s, !.owner = None, !.leased = FALSE]

(* settleDialogueJob: worker failure and recovery, behind the same locks   *)
(* as ordinary effects.  A job of a closed or superseded attempt is only   *)
(* cleaned up; a spent one exhausts its attempt with a negative decision.  *)
Superseded(n) == Closed(n) \/ n # last
Spent(j) == j.late \/ j.attempts >= JobMaxAttempts
CleanUp(n) ==
    /\ Superseded(n) /\ job[n].status \in {"queued", "running"}
    /\ job' = [job EXCEPT ![n] = EndJob(@, "failed")]
    /\ UNCHANGED <<requirementVars, evidenceVars>>
Requeue(n) ==
    /\ ~Superseded(n) /\ ~Spent(job[n])
    /\ job[n].status = "running" /\ ~job[n].leased
    /\ job' = [job EXCEPT ![n] = EndJob(@, "queued")]
    /\ UNCHANGED <<requirementVars, evidenceVars>>
FailLeased(n) ==
    /\ ~Superseded(n) /\ ~Spent(job[n]) /\ job[n].leased
    /\ job' = [job EXCEPT ![n] = EndJob(@, "failed")]
    /\ UNCHANGED <<requirementVars, evidenceVars>>
(* Variant: only a running job is exhausted, a failed one is left. *)
SpentWhileRunning(n) ==
    ~Superseded(n) /\ Spent(job[n]) /\ job[n].status = "running"
BudgetSpent(n) == ~Superseded(n) /\ Spent(job[n]) /\ Unsettled(n)
Exhaust(n) ==
    /\ BudgetSpent(n)
    /\ Loadable(n) /\ decision[n] = "none"
    /\ job' = [job EXCEPT ![n] = EndJob(@, "failed")]
    /\ decision' = [decision EXCEPT ![n] = "rejected"]
    /\ status' = [status EXCEPT ![n] = "exhausted"]
    /\ occ' = "pending"
    /\ dlg' = [dlg EXCEPT ![n].version = @ + 1]
    /\ UNCHANGED <<manual, last, overrides, announced>>

(* ReconcileDialogueJobs, one pass. *)
Working(n) ==
    job[n].status = "running" /\ job[n].leased /\ ~job[n].late
Reconcile(n) ==
    /\ CleanUp(n) \/ Requeue(n) \/ (~Working(n) /\ Exhaust(n))
    /\ UNCHANGED <<live, worker>>

(* ClaimDialogue *)
Claim(p, n) ==
    /\ worker[p].pc = "idle"
    /\ job[n].status = "queued" /\ ~job[n].late
    /\ job[n].attempts < JobMaxAttempts
    /\ job' = [job EXCEPT ![n] =
                  [job[n] EXCEPT !.status = "running", !.owner = p,
                                 !.leased = TRUE, !.attempts = @ + 1,
                                 !.generation = @ + 1]]
    /\ worker' = [worker EXCEPT ![p] =
                     [Idle EXCEPT !.pc = "claimed", !.attempt = n,
                                  !.message = job[n].message,
                                  !.generation = job[n].generation + 1]]
    /\ UNCHANGED <<requirementVars, evidenceVars, live>>

(* Variant: the lease check forgets owner and generation. *)
HoldsUnfenced(p) ==
    /\ job[worker[p].attempt].status = "running"
    /\ job[worker[p].attempt].message = worker[p].message
(* lockDialogueLease, with the student's authority. *)
Holds(p) ==
    LET j == job[worker[p].attempt] IN
    /\ j.status = "running" /\ j.owner = p
    /\ j.message = worker[p].message
    /\ j.generation = worker[p].generation
Leased(p) ==
    LET j == job[worker[p].attempt] IN
    Holds(p) /\ j.leased /\ ~j.late /\ j.session \in live

(* WorkerState, before the model is asked. *)
ReadState(p) ==
    LET n == worker[p].attempt IN
    /\ worker[p].pc = "claimed" /\ Leased(p)
    /\ Loadable(n) /\ ~Closed(n)
    /\ worker' = [worker EXCEPT ![p] =
                     [@ EXCEPT !.pc = "thinking", !.stage = job[n].stage,
                               !.ordinal = Len(dlg[n].questions) + 1]]
    /\ UNCHANGED <<requirementVars, evidenceVars, job, live>>

(* CommitQuestion *)
CommitQuestion(p) ==
    LET n == worker[p].attempt IN
    /\ worker[p].pc = "thinking" /\ worker[p].stage = "question"
    /\ Leased(p) /\ job[n].stage = "question" /\ Loadable(n)
    /\ Len(dlg[n].questions) < RequiredQuestions
    /\ worker[p].ordinal = Len(dlg[n].questions) + 1
    /\ MayAsk(n, dlg[n])
    /\ dlg' = [dlg EXCEPT ![n] = Ask(@)]
    /\ job' = [job EXCEPT ![n] = [EndJob(@, "succeeded") EXCEPT
                                     !.stage = "done"]]
    /\ worker' = [worker EXCEPT ![p] = Idle]
    /\ UNCHANGED <<requirementVars, decision, overrides, announced, live>>

(* CommitEvaluation: the answer's evaluation, the stage that follows, and  *)
(* the decision it leads to, in one transaction that is rolled back when   *)
(* the occurrence is not awaiting verification.                            *)
Evaluates(p, accepted) ==
    LET n == worker[p].attempt IN
    /\ worker[p].pc = "thinking" /\ worker[p].stage = "evaluation"
    /\ Leased(p) /\ job[n].stage = "evaluation" /\ Loadable(n)
    /\ MayEvaluate(n, dlg[n], job[n].message, accepted)
    /\ dlg' = [dlg EXCEPT ![n] = Evaluate(@, job[n].message, accepted)]
JobDone(n, p) ==
    /\ job' = [job EXCEPT ![n] = [EndJob(@, "succeeded") EXCEPT
                                     !.stage = "done"]]
    /\ worker' = [worker EXCEPT ![p] = Idle]
(* Variant: the job stays at its evaluation stage. *)
AnswerAcceptedSameStage(p) ==
    LET n == worker[p].attempt IN
    /\ Evaluates(p, TRUE) /\ ~Ready(dlg'[n])
    /\ worker' = [worker EXCEPT ![p].pc = "claimed"]
    /\ UNCHANGED <<requirementVars, decision, overrides, announced, job, live>>
AnswerAccepted(p) ==
    LET n == worker[p].attempt IN
    /\ Evaluates(p, TRUE) /\ ~Ready(dlg'[n])
    /\ job' = [job EXCEPT ![n].stage = "question"]
    /\ worker' = [worker EXCEPT ![p].pc = "claimed"]
    /\ UNCHANGED <<requirementVars, decision, overrides, announced, live>>
DialogueAccepted(p) ==
    LET n == worker[p].attempt IN
    /\ Evaluates(p, TRUE) /\ Ready(dlg'[n]) /\ decision[n] = "none"
    /\ decision' = [decision EXCEPT ![n] = "accepted"]
    /\ status' = [status EXCEPT ![n] = "accepted"]
    /\ IF Satisfied("accepted", manual)
       THEN /\ occ = "awaiting_verification" /\ occ' = "completed"
            /\ announced' = announced \cup {n}
       ELSE UNCHANGED <<occ, announced>>
    /\ JobDone(n, p)
    /\ UNCHANGED <<manual, last, overrides, live>>
AnswerRejected(p) ==
    LET n == worker[p].attempt IN
    /\ Evaluates(p, FALSE)
    /\ IF OutOfAnswers(dlg[n], Len(dlg[n].questions))
       THEN /\ decision[n] = "none" /\ occ = "awaiting_verification"
            /\ decision' = [decision EXCEPT ![n] = "rejected"]
            /\ status' = [status EXCEPT ![n] = "exhausted"]
            /\ occ' = "pending"
       ELSE UNCHANGED <<decision, status, occ>>
    /\ JobDone(n, p)
    /\ UNCHANGED <<manual, last, overrides, announced, live>>
CommitEvaluation(p) ==
    AnswerAccepted(p) \/ DialogueAccepted(p) \/ AnswerRejected(p)

(* The provider, a read, a commit or a renewal failed. *)
WorkerFails(p) ==
    /\ worker[p].pc \in {"claimed", "thinking"}
    /\ worker' = [worker EXCEPT ![p].pc = "failing"]
    /\ UNCHANGED <<requirementVars, evidenceVars, job, live>>

(* FailDialogue, which may itself be refused or lost. *)
FailDialogue(p) ==
    LET n == worker[p].attempt IN
    /\ worker[p].pc = "failing"
    /\ \/ Holds(p) /\ (CleanUp(n) \/ FailLeased(n) \/ Exhaust(n))
       \/ UNCHANGED <<requirementVars, evidenceVars, job>>
    /\ worker' = [worker EXCEPT ![p] = Idle]
    /\ UNCHANGED live

(* The process dies; a new one starts with a new owner name. *)
Crash(p) ==
    /\ worker[p].pc # "idle"
    /\ worker' = [worker EXCEPT ![p] = Idle]
    /\ UNCHANGED <<requirementVars, evidenceVars, job, live>>

(* RenewDialogue did not come in time, and the deadline of a job passes. *)
LeaseLapses(n) ==
    /\ job[n].leased
    /\ job' = [job EXCEPT ![n].leased = FALSE]
    /\ UNCHANGED <<requirementVars, evidenceVars, live, worker>>
DeadlinePasses(n) ==
    /\ Unsettled(n) /\ ~job[n].late
    /\ job' = [job EXCEPT ![n].late = TRUE]
    /\ UNCHANGED <<requirementVars, evidenceVars, live, worker>>

-----------------------------------------------------------------------------
(* The parent *)

(* The status an override leads to. *)
OverrideResult(accepted) ==
    CASE ~accepted -> "pending"
      [] /\ accepted
         /\ occ = "completed" \/ \A m \in Manuals : manual[m] = "accepted"
         -> "completed"
      [] OTHER -> "awaiting_verification"

(* Variant: a completed occurrence may be reversed. *)
MayReverse(accepted) ==
    /\ last # 0 /\ Loadable(last)
    /\ occ \notin {"canceled", "excused"}
MayOverride(accepted) ==
    /\ last # 0 /\ Loadable(last)
    /\ ~(occ = "completed" /\ ~accepted)
    /\ occ \notin {"canceled", "excused"}
    /\ CanTransition(occ, OverrideResult(accepted))

(* Variant: the attempt is closed as rejected whatever the decision. *)
AttemptRejected(accepted) == "rejected"
AttemptStatus(accepted) == IF accepted THEN "accepted" ELSE "rejected"

(* OverrideDialogue: an audited human decision on the latest attempt. *)
Override(accepted) ==
    LET result == OverrideResult(accepted) IN
    /\ MayOverride(accepted)
    /\ Len(overrides[last]) < MaxOverrides
    /\ occ' = result
    /\ overrides' = [overrides EXCEPT ![last] = Append(@, accepted)]
    /\ dlg' = [dlg EXCEPT ![last].version = @ + 1]
    /\ status' = [status EXCEPT ![last] = AttemptStatus(accepted)]
    /\ job' = IF job[last].status \in {"queued", "running"}
              THEN [job EXCEPT ![last] = EndJob(@, "failed")] ELSE job
    /\ announced' = IF result = "completed" /\ occ # "completed"
                    THEN announced \cup {last} ELSE announced
    /\ UNCHANGED <<manual, last, decision, live, worker>>

(* Variant: the parent's approvals complete the occurrence by themselves. *)
ManualsSuffice(manuals) == \A m \in Manuals : manuals[m] = "accepted"
Completes(manuals) == Satisfied(decision[last], manuals)

(* Variant: the completion is not announced. *)
NoAnnouncement(all) == UNCHANGED announced
(* PublishDialogueOccurrenceCompletion, on the accepted dialogue attempt. *)
PublishCompletion(all) ==
    announced' = IF all /\ dlg[last].bound /\ status[last] = "accepted"
                 THEN announced \cup {last} ELSE announced

(* decideOccurrence2 on a manual requirement. *)
Decide(m, accepted) ==
    LET manuals == [manual EXCEPT ![m] = AttemptStatus(accepted)]
        all == accepted /\ Completes(manuals)
    IN
    /\ occ = "awaiting_verification" /\ manual[m] = "open"
    /\ manual' = manuals
    /\ occ' = CASE ~accepted -> "pending" [] all -> "completed" [] OTHER -> occ
    /\ PublishCompletion(all)
    /\ UNCHANGED <<last, status, dlg, decision, overrides, job, live, worker>>

(* retryOccurrence2: a new attempt at a rejected or exhausted requirement. *)
Retryable == occ \in {"pending", "awaiting_verification"}
(* Variant: one attempt too many. *)
AttemptsLeftOrOne == last <= MaxAttempts
AttemptsLeft == last + 1 <= MaxAttempts
(* Variant: the latest attempt may still be open. *)
RetryOpenDialogue ==
    /\ Retryable /\ last # 0 /\ AttemptsLeft
    /\ last' = last + 1
    /\ status' = [status EXCEPT ![last + 1] = "open"]
    /\ occ' = "awaiting_verification"
    /\ UNCHANGED <<manual, evidenceVars, job, live, worker>>
RetryDialogue ==
    /\ Retryable /\ last # 0 /\ status[last] \in {"rejected", "exhausted"}
    /\ AttemptsLeft
    /\ last' = last + 1
    /\ status' = [status EXCEPT ![last + 1] = "open"]
    /\ occ' = "awaiting_verification"
    /\ UNCHANGED <<manual, evidenceVars, job, live, worker>>
RetryManual(m) ==
    /\ Retryable /\ manual[m] = "rejected"
    /\ manual' = [manual EXCEPT ![m] = "open"]
    /\ occ' = "awaiting_verification"
    /\ UNCHANGED <<last, status, evidenceVars, job, live, worker>>

(* setOccurrenceStatus2 *)
SetStatus(to) ==
    /\ occ # to /\ CanTransition(occ, to)
    /\ occ' = to
    /\ UNCHANGED <<manual, last, status, evidenceVars, job, live, worker>>

-----------------------------------------------------------------------------
(* Behaviours *)

WorkerStep(p) ==
    \/ ReadState(p) \/ CommitQuestion(p) \/ CommitEvaluation(p)
    \/ WorkerFails(p) \/ FailDialogue(p)
StudentStep ==
    \/ \E s \in Sessions : Start(s) \/ Admit(s) \/ RetryJob(s) \/ Revoke(s)
    \/ \E m \in Manuals : ManualStart(m) \/ ManualSubmit(m)
ParentStep ==
    \/ \E accepted \in BOOLEAN : Override(accepted)
    \/ \E m \in Manuals, accepted \in BOOLEAN : Decide(m, accepted)
    \/ RetryDialogue
    \/ \E m \in Manuals : RetryManual(m)
    \/ \E to \in {"canceled", "excused"} : SetStatus(to)
JobStep ==
    \E n \in Numbers :
        \/ Reconcile(n) \/ LeaseLapses(n) \/ DeadlinePasses(n)
        \/ \E p \in Workers : Claim(p, n)
Next ==
    \/ StudentStep \/ ParentStep \/ JobStep
    \/ \E p \in Workers : WorkerStep(p) \/ Crash(p)

(* Worker processes poll and recover (the ticker of runDialogueWorker),    *)
(* execute what they claimed, and the database clock runs: the lease of a  *)
(* job nobody works on lapses, and its deadline comes.  Nothing is assumed *)
(* of the student and the parent.                                          *)
Abandoned(n) == \A p \in Workers :
    worker[p].pc = "idle" \/ worker[p].attempt # n
Fairness ==
    /\ \A n \in Numbers :
           /\ WF_vars(Reconcile(n))
           /\ WF_vars(LeaseLapses(n) /\ Abandoned(n))
           /\ WF_vars(DeadlinePasses(n))
    /\ \A p \in Workers : WF_vars(WorkerStep(p))

Spec == Init /\ [][Next]_vars /\ Fairness

-----------------------------------------------------------------------------
(* Properties *)

(* An occurrence is completed only when every requirement of the issued    *)
(* revision was accepted in its latest attempt: each manual one by the     *)
(* parent, the dialogue by an override or by accepted answers to all the   *)
(* distinct questions.  It has three writers (CommitEvaluation,            *)
(* OverrideDialogue, decideOccurrence2), each looking at the others' rows. *)
CompletionIsEarned ==
    occ = "completed" =>
        /\ \A m \in Manuals : manual[m] = "accepted"
        /\ last # 0 /\ status[last] = "accepted"
        /\ Outcome(last, decision[last])
        /\ overrides[last] = <<>> => Ready(dlg[last])

(* Whoever completes the occurrence, the student's socket, which reads the *)
(* event log of the latest dialogue attempt, finds the completion there.   *)
CompletionIsAnnounced == occ = "completed" => last \in announced

(* A job that may still run fits the evidence of its attempt: a question   *)
(* job finds every question so far accepted and one left to ask, an        *)
(* evaluation job finds its answer the last one, not yet evaluated; so the *)
(* revalidation in CommitQuestion and CommitEvaluation never refuses a     *)
(* proper proposal, and settleDialogueJob can always load the attempt and  *)
(* insert its decision (a failing recovery would block the whole queue).   *)
JobFitsEvidence ==
    \A n \in Numbers : (Unsettled(n) /\ ~Superseded(n)) =>
        /\ Loadable(n) /\ decision[n] = "none" /\ overrides[n] = <<>>
        /\ job[n].stage = "question" => MayAsk(n, dlg[n])
        /\ job[n].stage = "evaluation" =>
               \A accepted \in BOOLEAN :
                   MayEvaluate(n, dlg[n], job[n].message, accepted)

(* What a worker read before it asked the model is still what its commit   *)
(* finds, as long as its lease is the current one: the lease fences every  *)
(* writer of the attempt's evidence for the time of the model call, and    *)
(* only a close of the attempt comes between.                              *)
LeaseKeepsReadFresh ==
    \A p \in Workers :
        LET n == worker[p].attempt IN
        (worker[p].pc = "thinking" /\ Leased(p) /\ ~Superseded(n)) =>
            /\ worker[p].stage = job[n].stage
            /\ worker[p].ordinal = Len(dlg[n].questions) + 1

(* Late workers, replays, retries and overrides never rewrite history:     *)
(* the rows of an attempt only grow, an attempt that is not open any more  *)
(* gets no further question, answer, evaluation or engine decision, and a  *)
(* finished occurrence stays as it is.                                     *)
Extends(s, t) == Len(s) <= Len(t) /\ \A k \in DOMAIN s : s[k] = t[k]
SameEvidence(d, e) ==
    /\ d.questions = e.questions /\ d.messages = e.messages
    /\ d.evaluations = e.evaluations
HistoryStep ==
    /\ IsTerminal(occ) => occ' = occ
    /\ \A n \in Numbers :
           /\ Extends(dlg[n].questions, dlg'[n].questions)
           /\ Extends(dlg[n].messages, dlg'[n].messages)
           /\ Extends(dlg[n].evaluations, dlg'[n].evaluations)
           /\ Extends(overrides[n], overrides'[n])
           /\ decision[n] # "none" => decision'[n] = decision[n]
           /\ (status[n] \notin {"none", "open"} \/ n < last) =>
                  /\ SameEvidence(dlg[n], dlg'[n])
                  /\ decision'[n] = decision[n]
           /\ n < last => status'[n] = status[n]
HistoryIsKept == [][HistoryStep]_vars

(* The queue never locks a student out for good: while the attempt is open *)
(* and a job of it is queued, running or failed, no answer is admitted;    *)
(* such a job is finished, or recovery closes the attempt, whatever the    *)
(* workers' crashes and lost leases.                                       *)
Busy(n) == Unsettled(n) /\ ~Superseded(n)
BusyDialogueSettles == \A n \in Numbers : Busy(n) ~> ~Busy(n)

(* Where the interview of the latest attempt stands: whose work is         *)
(* pending, or the student's turn when no job is.                          *)
Current == IF last = 0 THEN NoDialogue ELSE dlg[last]
Over == IsTerminal(occ) \/ (last # 0 /\ status[last] # "open")
Phase ==
    IF Over THEN "over"
    ELSE IF ~Current.bound THEN "none"
    ELSE IF ~Unsettled(last) THEN "answering"
    ELSE IF job[last].stage = "question" THEN "asking" ELSE "judging"
Talk == INSTANCE Interview WITH
    attempt <- last,
    phase <- Phase,
    asked <- Len(Current.questions),
    accepted <- AcceptedCount(Current),
    tries <- Cardinality(Answers(Current, Len(Current.questions))),
    turns <- Len(Current.messages)

(* Workers that crash, hang, lose their lease or come too late, requeued   *)
(* and retried jobs, deadlines and overrides are invisible in the talk     *)
(* itself: it takes the turns of Interview, one question, one answer and   *)
(* one verdict at a time, within the policy's limits.                      *)
TakesTurns == Talk!Spec

(* The student's turn: the attempt is open and no job of it is pending. *)
StudentsTurn ==
    last # 0 /\ Loadable(last) /\ ~Closed(last) /\ ~Unsettled(last)

(* Nothing but the turn limit ever stands between an open dialogue and the *)
(* student's next answer: the current question is there and not accepted,  *)
(* all its answers are evaluated, a follow-up is left (CommitEvaluation    *)
(* closed the attempt otherwise) and the row RecordMessage adds is valid   *)
(* evidence; and the limit bites only when MaxTurns is less than one       *)
(* answer and all follow-ups for each question asked.                      *)
OnlyTurnsRunOut ==
    StudentsTurn =>
        LET d == dlg[last] IN
        /\ MayAnswer(last, d) \/ Len(d.messages) >= MaxTurns
        /\ Len(d.messages) < Len(d.questions) * (1 + AllowedFollowUps)

(* "The task remains incomplete until policy is satisfied or attempts     *)
(* end", and queue updates must not "strand an open occurrence": an open   *)
(* dialogue that is not busy takes the student's answer.                   *)
OpenDialogueTakesAnswer == StudentsTurn => MayAnswer(last, dlg[last])
=============================================================================
