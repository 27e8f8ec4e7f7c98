------------------------ MODULE TasksDialogueProofs ------------------------
(***************************************************************************)
(* Proofs about TasksDialogue, for any policy, any number of manual        *)
(* requirements, sessions, workers, attempts and overrides.                *)
(***************************************************************************)
EXTENDS TasksDialogue, FiniteSetTheorems, TLAPS

(* What ties the rows of an attempt together: later numbers are unused, an *)
(* open attempt is undecided, and an attempt whose outcome is positive is  *)
(* marked accepted and, unless a parent overrode it, has its evidence.     *)
AttemptRows(n) ==
    /\ n > last => status[n] = "none"
    /\ status[n] \in {"none", "open"} =>
           decision[n] = "none" /\ overrides[n] = <<>>
    /\ Outcome(n, decision[n]) =>
           /\ status[n] = "accepted" /\ dlg[n].bound
           /\ overrides[n] = <<>> => Ready(dlg[n])
Rows == \A n \in Numbers : AttemptRows(n)
WorkerRefs ==
    \A p \in Workers : worker[p].pc # "idle" => worker[p].attempt \in Numbers
Inv ==
    /\ TypeOK /\ WorkerRefs /\ Rows
    /\ CompletionIsEarned /\ CompletionIsAnnounced

-----------------------------------------------------------------------------
(* The rows the actions build have the types of the tables. *)

LEMMA Basics == 0 \in Nat /\ TRUE \in BOOLEAN /\ FALSE \in BOOLEAN
OBVIOUS

LEMMA EndJobType ==
    ASSUME NEW j \in Job, NEW s \in {"queued", "failed", "succeeded"}
    PROVE  /\ EndJob(j, s) \in Job
           /\ [EndJob(j, s) EXCEPT !.stage = "done"] \in Job
BY Zenon DEF EndJob, Job

LEMMA NewJobType ==
    ASSUME NEW m \in Nat, NEW st \in {"question", "evaluation"},
           NEW s \in Sessions
    PROVE  NewJob(m, st, s) \in Job
BY Zenon DEF NewJob, NoJob, Job

LEMMA RowUpdate ==
    ASSUME NEW Q, NEW M, NEW E,
           NEW d \in [bound : BOOLEAN, version : Nat, questions : Q,
                      messages : M, evaluations : E],
           NEW v \in Nat, NEW q \in Q, NEW m \in M, NEW e \in E
    PROVE  LET R == [bound : BOOLEAN, version : Nat, questions : Q,
                     messages : M, evaluations : E]
           IN  /\ [d EXCEPT !.version = v, !.questions = q] \in R
               /\ [d EXCEPT !.version = v, !.messages = m] \in R
               /\ [d EXCEPT !.version = v, !.evaluations = e] \in R
               /\ [d EXCEPT !.version = v] \in R
               /\ [d EXCEPT !.bound = TRUE] \in R
BY Zenon

LEMMA DialogueType ==
    ASSUME NEW d \in Dialogue, NEW m \in Nat, NEW b \in BOOLEAN
    PROVE  /\ Ask(d) \in Dialogue /\ Answer(d) \in Dialogue
           /\ Evaluate(d, m, b) \in Dialogue
           /\ [d EXCEPT !.version = @ + 1] \in Dialogue
           /\ [d EXCEPT !.bound = TRUE] \in Dialogue
<1>1. /\ d.version \in Nat /\ d.questions \in Seq(Nat)
      /\ d.messages \in Seq(Message) /\ d.evaluations \in Seq(Evaluation)
  BY Zenon DEF Dialogue
<1>2. /\ d.version + 1 \in Nat
      /\ Append(d.questions, d.version + 1) \in Seq(Nat)
  BY <1>1
<1>3. Append(d.messages, [question |-> Len(d.questions),
                          expected |-> d.version]) \in Seq(Message)
  <2>1. Len(d.questions) \in Nat
    BY <1>1
  <2>2. [question |-> Len(d.questions), expected |-> d.version] \in Message
    BY <1>1, <2>1, Zenon DEF Message
  <2> QED
    BY <1>1, <2>2
<1>4. Append(d.evaluations, [message |-> m, accepted |-> b,
                             version |-> d.version + 1]) \in Seq(Evaluation)
  <2>1. [message |-> m, accepted |-> b, version |-> d.version + 1]
            \in Evaluation
    BY <1>2, Zenon DEF Evaluation
  <2> QED
    BY <1>1, <2>1
<1> DEFINE Q == Seq(Nat)
           M == Seq(Message)
           E == Seq(Evaluation)
<1>5. \A v \in Nat, q \in Q, u \in M, e \in E :
          /\ [d EXCEPT !.version = v, !.questions = q] \in Dialogue
          /\ [d EXCEPT !.version = v, !.messages = u] \in Dialogue
          /\ [d EXCEPT !.version = v, !.evaluations = e] \in Dialogue
          /\ [d EXCEPT !.version = v] \in Dialogue
          /\ [d EXCEPT !.bound = TRUE] \in Dialogue
  <2> HIDE DEF Q, M, E
  <2>1. Dialogue = [bound : BOOLEAN, version : Nat, questions : Q,
                    messages : M, evaluations : E]
    BY Zenon DEF Dialogue, Q, M, E
  <2> QED
    BY <2>1, RowUpdate, Zenon
<1>6. Ask(d) \in Dialogue
  BY <1>1, <1>2, <1>5, Zenon DEF Ask
<1>7. Answer(d) \in Dialogue
  BY <1>1, <1>2, <1>3, <1>5, Zenon DEF Answer
<1>8. Evaluate(d, m, b) \in Dialogue
  BY <1>1, <1>2, <1>4, <1>5, Zenon DEF Evaluate
<1>9. [d EXCEPT !.version = @ + 1] \in Dialogue
      /\ [d EXCEPT !.bound = TRUE] \in Dialogue
  BY <1>1, <1>2, <1>5, Zenon
<1> QED
  BY <1>6, <1>7, <1>8, <1>9

(* None of them takes the dialogue row away. *)
LEMMA StaysBound ==
    ASSUME NEW d \in Dialogue, NEW m \in Nat, NEW b \in BOOLEAN
    PROVE  /\ Ask(d).bound = d.bound /\ Answer(d).bound = d.bound
           /\ Evaluate(d, m, b).bound = d.bound
<1>1. Ask(d).bound = d.bound
  BY Zenon DEF Ask, Dialogue
<1>2. Answer(d).bound = d.bound
  BY Zenon DEF Answer, Dialogue
<1>3. Evaluate(d, m, b).bound = d.bound
  BY Zenon DEF Evaluate, Dialogue
<1> QED
  BY <1>1, <1>2, <1>3, Zenon

(* Updates of job rows and worker variables in place. *)
LEMMA JobType ==
    ASSUME NEW j \in Job
    PROVE  /\ [j EXCEPT !.status = "queued"] \in Job
           /\ [j EXCEPT !.stage = "question"] \in Job
           /\ [j EXCEPT !.leased = FALSE] \in Job
           /\ [j EXCEPT !.late = TRUE] \in Job
           /\ j.message \in Nat /\ j.generation + 1 \in Nat
           /\ j.stage \in {"question", "evaluation", "done"}
<1>1. /\ [j EXCEPT !.status = "queued"] \in Job
      /\ [j EXCEPT !.stage = "question"] \in Job
  BY Zenon DEF Job
<1>2. /\ [j EXCEPT !.leased = FALSE] \in Job
      /\ [j EXCEPT !.late = TRUE] \in Job
  BY Zenon DEF Job
<1>3. /\ j.message \in Nat /\ j.generation + 1 \in Nat
      /\ j.stage \in {"question", "evaluation", "done"}
  BY DEF Job
<1> QED
  BY <1>1, <1>2, <1>3

LEMMA ClaimedJobType ==
    ASSUME NEW j \in Job, NEW p \in Workers
    PROVE  [j EXCEPT !.status = "running", !.owner = p, !.leased = TRUE,
                     !.attempts = @ + 1, !.generation = @ + 1] \in Job
<1>1. /\ j.attempts + 1 \in Nat /\ j.generation + 1 \in Nat
      /\ p \in Workers \cup {None}
  BY DEF Job
<1>2. \A a \in Nat, g \in Nat, o \in Workers \cup {None} :
          [j EXCEPT !.status = "running", !.owner = o, !.leased = TRUE,
                    !.attempts = a, !.generation = g] \in Job
  <2> DEFINE A == {"none", "queued", "running", "succeeded", "failed"}
             B == {"question", "evaluation", "done"}
             C == Sessions \cup {None}
             O == Workers \cup {None}
  <2>1. /\ Job = [message : Nat, status : A, stage : B, session : C,
                  attempts : Nat, generation : Nat, owner : O,
                  leased : BOOLEAN, late : BOOLEAN]
        /\ "running" \in A
    BY Zenon DEF Job
  <2> HIDE DEF A, B, C, O
  <2>2. \A a \in Nat, g \in Nat, o \in O :
            [j EXCEPT !.status = "running", !.owner = o, !.leased = TRUE,
                      !.attempts = a, !.generation = g] \in Job
    BY <2>1, Zenon
  <2> QED
    BY <2>2, Zenon DEF O
<1> QED
  BY <1>1, <1>2, Zenon

LEMMA WorkerType ==
    ASSUME NEW w \in WorkerRow, NEW n \in Nat, NEW m \in Nat, NEW g \in Nat,
           NEW st \in {"question", "evaluation", "done"}
    PROVE  /\ Idle \in WorkerRow
           /\ [w EXCEPT !.pc = "claimed"] \in WorkerRow
           /\ [w EXCEPT !.pc = "failing"] \in WorkerRow
           /\ [w EXCEPT !.pc = "thinking", !.stage = st, !.ordinal = n]
                  \in WorkerRow
           /\ [Idle EXCEPT !.pc = "claimed", !.attempt = n, !.message = m,
                           !.generation = g] \in WorkerRow
           /\ w.attempt \in Nat
<1>1. Idle \in WorkerRow /\ w.attempt \in Nat
  BY Zenon DEF WorkerRow, Idle
<1>2. /\ [w EXCEPT !.pc = "claimed"] \in WorkerRow
      /\ [w EXCEPT !.pc = "failing"] \in WorkerRow
  BY Zenon DEF WorkerRow
<1>3. [w EXCEPT !.pc = "thinking", !.stage = st, !.ordinal = n]
          \in WorkerRow
  BY Zenon DEF WorkerRow
<1>4. [Idle EXCEPT !.pc = "claimed", !.attempt = n, !.message = m,
                   !.generation = g] \in WorkerRow
  BY Zenon DEF WorkerRow, Idle
<1> QED
  BY <1>1, <1>2, <1>3, <1>4

-----------------------------------------------------------------------------
(* Steps that leave the requirement's rows and the evidence alone, such as *)
(* every step of the queue, keep what is said about them.                  *)
LEMMA QueueSteps ==
    ASSUME Inv, UNCHANGED <<requirementVars, evidenceVars>>
    PROVE  Rows' /\ CompletionIsEarned' /\ CompletionIsAnnounced'
<1>1. /\ occ' = occ /\ manual' = manual /\ last' = last /\ status' = status
      /\ dlg' = dlg /\ decision' = decision /\ overrides' = overrides
      /\ announced' = announced
  BY Zenon DEF requirementVars, evidenceVars
<1>2. Rows'
  BY <1>1, Zenon DEF Inv, Rows, AttemptRows, Outcome
<1>3. CompletionIsEarned' /\ CompletionIsAnnounced'
  BY <1>1, Zenon DEF Inv, CompletionIsEarned, CompletionIsAnnounced, Outcome
<1> QED
  BY <1>2, <1>3

(* So do steps that only add evidence to an open attempt. *)
LEMMA EvidenceSteps ==
    ASSUME Inv, NEW n \in Numbers, ~Closed(n),
           UNCHANGED <<requirementVars, decision, overrides, announced>>,
           NEW d, d.bound = dlg[n].bound, dlg' = [dlg EXCEPT ![n] = d]
    PROVE  Rows' /\ CompletionIsEarned' /\ CompletionIsAnnounced'
<1>1. /\ occ' = occ /\ manual' = manual /\ last' = last /\ status' = status
      /\ decision' = decision /\ overrides' = overrides
      /\ announced' = announced
  BY Zenon DEF requirementVars
<1>2. status[n] = "open" /\ occ # "completed"
  BY Zenon DEF Closed, IsTerminal
<1>3. Rows'
  <2> SUFFICES ASSUME NEW k \in Numbers PROVE AttemptRows(k)'
    BY Zenon DEF Rows
  <2>1. AttemptRows(k)
    BY Zenon DEF Inv, Rows
  <2>2. k # n => dlg'[k] = dlg[k]
    BY Zenon DEF Inv, TypeOK
  <2>3. k = n => ~Outcome(k, decision[k])
    BY <2>1, <1>2, Zenon DEF AttemptRows
  <2> QED
    BY <1>1, <2>1, <2>2, <2>3, Zenon DEF AttemptRows, Outcome
<1>4. CompletionIsEarned' /\ CompletionIsAnnounced'
  BY <1>1, <1>2, Zenon DEF CompletionIsEarned, CompletionIsAnnounced
<1> QED
  BY <1>3, <1>4, Zenon

-----------------------------------------------------------------------------
(* The student's requests *)

LEMMA StartStep == ASSUME Inv, NEW s \in Sessions, Start(s) PROVE Inv'
<1> DEFINE n == IF last = 0 THEN 1 ELSE last
<1> USE PolicyAssumption
<1>1. /\ n \in Numbers /\ last' = n /\ ~IsTerminal(occ)
      /\ last = 0 \/ status[n] = "open"
      /\ status' = [status EXCEPT ![n] = "open"]
      /\ dlg' = [dlg EXCEPT ![n].bound = TRUE]
      /\ manual' = [m \in Manuals |->
                       IF manual[m] = "none" THEN "open" ELSE manual[m]]
      /\ occ' = "awaiting_verification"
      /\ decision' = decision /\ overrides' = overrides
      /\ announced' = announced /\ live' = live /\ worker' = worker
  BY DEF Start, Inv, TypeOK, Numbers
<1>2. job' \in [Numbers -> Job]
  <2>1. NewJob(0, "question", s) \in Job
    BY NewJobType
  <2> QED
    BY <2>1, Zenon DEF Start, Inv, TypeOK
<1>3. dlg' \in [Numbers -> Dialogue]
  <2>1. dlg' = [dlg EXCEPT ![n] = [dlg[n] EXCEPT !.bound = TRUE]]
    BY <1>1
  <2>2. dlg[n] \in Dialogue
    BY <1>1, Zenon DEF Inv, TypeOK
  <2>3. [dlg[n] EXCEPT !.bound = TRUE] \in Dialogue
    BY <2>2, DialogueType, Basics, Zenon
  <2> QED
    BY <2>1, <2>3, Zenon DEF Inv, TypeOK
<1>4. TypeOK'
  BY <1>1, <1>2, <1>3 DEF Inv, TypeOK, OccurrenceStatus, Numbers
<1>5. WorkerRefs'
  BY <1>1, Zenon DEF Inv, WorkerRefs
<1>6. Rows'
  <2> SUFFICES ASSUME NEW k \in Numbers PROVE AttemptRows(k)'
    BY Zenon DEF Rows
  <2>1. AttemptRows(k)
    BY Zenon DEF Inv, Rows
  <2>2. k # n => dlg'[k] = dlg[k] /\ status'[k] = status[k]
    BY <1>1, Zenon DEF Inv, TypeOK
  <2>3. k = n => /\ status[k] \in {"none", "open"} /\ status'[k] = "open"
                 /\ ~Outcome(k, decision[k])
    <3>1. k = n => status[k] \in {"none", "open"} /\ status'[k] = "open"
      BY <1>1, <2>1 DEF AttemptRows, Numbers, Inv, TypeOK
    <3> QED
      BY <3>1, <2>1, Zenon DEF AttemptRows, Outcome
  <2>4. (k > last' => k > last) /\ (k = n => ~(k > last'))
    BY <1>1 DEF Numbers, Inv, TypeOK
  <2> QED
    BY <1>1, <2>1, <2>2, <2>3, <2>4, Zenon DEF AttemptRows, Outcome
<1>7. CompletionIsEarned' /\ CompletionIsAnnounced'
  BY <1>1, Zenon DEF CompletionIsEarned, CompletionIsAnnounced
<1> QED
  BY <1>4, <1>5, <1>6, <1>7, Zenon DEF Inv

LEMMA AdmitStep == ASSUME Inv, NEW s \in Sessions, Admit(s) PROVE Inv'
<1> USE PolicyAssumption
<1>1. /\ last \in Numbers /\ ~Closed(last)
      /\ dlg' = [dlg EXCEPT ![last] = Answer(dlg[last])]
      /\ UNCHANGED <<requirementVars, decision, overrides, announced>>
      /\ live' = live /\ worker' = worker
  BY DEF Admit, Inv, TypeOK, Numbers, MayAnswer
<1>2. dlg[last] \in Dialogue
  BY <1>1, Zenon DEF Inv, TypeOK
<1>3. /\ Answer(dlg[last]) \in Dialogue
      /\ Answer(dlg[last]).bound = dlg[last].bound
  BY <1>2, DialogueType, StaysBound, Basics, Zenon
<1>4. job' \in [Numbers -> Job]
  <2>1. Len(dlg[last].messages) + 1 \in Nat
    BY <1>2 DEF Dialogue
  <2>2. NewJob(Len(dlg[last].messages) + 1, "evaluation", s) \in Job
    BY <2>1, NewJobType
  <2> QED
    BY <2>2, Zenon DEF Admit, Inv, TypeOK
<1>5. TypeOK' /\ WorkerRefs'
  BY <1>1, <1>3, <1>4, Zenon DEF Inv, TypeOK, WorkerRefs, requirementVars
<1>6. Rows' /\ CompletionIsEarned' /\ CompletionIsAnnounced'
  BY <1>1, <1>3, EvidenceSteps, Zenon
<1> QED
  BY <1>5, <1>6, Zenon DEF Inv

LEMMA RetryJobStep == ASSUME Inv, NEW s \in Sessions, RetryJob(s) PROVE Inv'
<1>1. /\ UNCHANGED <<requirementVars, evidenceVars>>
      /\ live' = live /\ worker' = worker
      /\ job' = [job EXCEPT ![last] = [job[last] EXCEPT !.status = "queued"]]
  BY Zenon DEF RetryJob
<1>2. job' \in [Numbers -> Job]
  <2>1. last \in Numbers => job[last] \in Job
    BY Zenon DEF Inv, TypeOK
  <2>2. last \in Numbers => [job[last] EXCEPT !.status = "queued"] \in Job
    BY <2>1, JobType, Zenon
  <2> QED
    BY <1>1, <2>2, Zenon DEF Inv, TypeOK
<1>3. TypeOK' /\ WorkerRefs'
  BY <1>1, <1>2, Zenon DEF Inv, TypeOK, WorkerRefs, requirementVars, evidenceVars
<1> QED
  BY <1>1, <1>3, QueueSteps, Zenon DEF Inv

LEMMA RevokeStep == ASSUME Inv, NEW s \in Sessions, Revoke(s) PROVE Inv'
<1>1. /\ UNCHANGED <<requirementVars, evidenceVars>>
      /\ live' \subseteq Sessions /\ worker' = worker /\ job' = job
  BY Zenon DEF Revoke, Inv, TypeOK
<1>2. TypeOK' /\ WorkerRefs'
  BY <1>1, Zenon DEF Inv, TypeOK, WorkerRefs, requirementVars, evidenceVars
<1> QED
  BY <1>1, <1>2, QueueSteps, Zenon DEF Inv

LEMMA ManualSteps ==
    ASSUME Inv, NEW m \in Manuals, ManualStart(m) \/ ManualSubmit(m)
    PROVE  Inv'
<1>1. /\ last' = last /\ status' = status /\ dlg' = dlg
      /\ decision' = decision /\ overrides' = overrides
      /\ announced' = announced /\ job' = job /\ live' = live
      /\ worker' = worker
      /\ occ' \in {"in_progress", "awaiting_verification"}
      /\ manual' = manual \/ manual' = [manual EXCEPT ![m] = "open"]
  BY Zenon DEF ManualStart, ManualSubmit, evidenceVars
<1>2. TypeOK' /\ WorkerRefs'
  BY <1>1, Zenon DEF Inv, TypeOK, WorkerRefs, OccurrenceStatus
<1>3. Rows'
  BY <1>1, Zenon DEF Inv, Rows, AttemptRows, Outcome
<1>4. CompletionIsEarned' /\ CompletionIsAnnounced'
  BY <1>1, Zenon DEF CompletionIsEarned, CompletionIsAnnounced
<1> QED
  BY <1>2, <1>3, <1>4, Zenon DEF Inv

-----------------------------------------------------------------------------
(* The queue *)

LEMMA OnlyQueueSteps ==
    ASSUME Inv, UNCHANGED <<requirementVars, evidenceVars>>, live' = live,
           job' \in [Numbers -> Job],
           worker' \in [Workers -> WorkerRow], WorkerRefs'
    PROVE  Inv'
<1>1. TypeOK'
  BY Zenon DEF Inv, TypeOK, requirementVars, evidenceVars
<1> QED
  BY <1>1, QueueSteps, Zenon DEF Inv

LEMMA SettleJobSteps ==
    ASSUME Inv, NEW n \in Numbers, CleanUp(n) \/ Requeue(n) \/ FailLeased(n)
    PROVE  /\ UNCHANGED <<requirementVars, evidenceVars>>
           /\ job' \in [Numbers -> Job]
<1>1. job[n] \in Job
  BY Zenon DEF Inv, TypeOK
<1>2. EndJob(job[n], "failed") \in Job /\ EndJob(job[n], "queued") \in Job
  BY <1>1, EndJobType, Zenon
<1> QED
  BY <1>2, Zenon DEF CleanUp, Requeue, FailLeased, Inv, TypeOK

(* Recovery closes an open attempt with the engine's negative decision. *)
LEMMA ExhaustStep ==
    ASSUME Inv, NEW n \in Numbers, Exhaust(n), live' = live,
           worker' \in [Workers -> WorkerRow], WorkerRefs'
    PROVE  Inv'
<1>1. /\ status[n] = "open" /\ ~IsTerminal(occ) /\ n = last
      /\ job' = [job EXCEPT ![n] = EndJob(job[n], "failed")]
      /\ decision' = [decision EXCEPT ![n] = "rejected"]
      /\ status' = [status EXCEPT ![n] = "exhausted"]
      /\ occ' = "pending"
      /\ dlg' = [dlg EXCEPT ![n] = [dlg[n] EXCEPT !.version = @ + 1]]
      /\ manual' = manual /\ last' = last /\ overrides' = overrides
      /\ announced' = announced
  BY Zenon DEF Exhaust, BudgetSpent, Superseded, Closed
<1>2. dlg[n] \in Dialogue /\ job[n] \in Job
  BY Zenon DEF Inv, TypeOK
<1>3. /\ [dlg[n] EXCEPT !.version = @ + 1] \in Dialogue
      /\ EndJob(job[n], "failed") \in Job
  BY <1>2, EndJobType, DialogueType, Basics, Zenon
<1>4. TypeOK'
  BY <1>1, <1>3, Zenon DEF Inv, TypeOK, OccurrenceStatus
<1>5. Rows'
  <2> SUFFICES ASSUME NEW k \in Numbers PROVE AttemptRows(k)'
    BY Zenon DEF Rows
  <2>1. AttemptRows(k)
    BY Zenon DEF Inv, Rows
  <2>2. CASE k # n
    <3>1. /\ dlg'[k] = dlg[k] /\ status'[k] = status[k]
          /\ decision'[k] = decision[k]
      BY <1>1, <2>2, Zenon DEF Inv, TypeOK
    <3> QED
      BY <1>1, <2>1, <3>1, Zenon DEF AttemptRows, Outcome
  <2>3. CASE k = n
    <3>1. /\ status'[k] = "exhausted" /\ decision'[k] = "rejected"
          /\ overrides[k] = <<>> /\ ~(k > last)
      BY <1>1, <2>1, <2>3, Zenon DEF AttemptRows, Inv, TypeOK, Numbers
    <3> QED
      BY <1>1, <3>1, Zenon DEF AttemptRows, Outcome
  <2> QED
    BY <2>2, <2>3
<1>6. CompletionIsEarned' /\ CompletionIsAnnounced'
  BY <1>1, Zenon DEF CompletionIsEarned, CompletionIsAnnounced
<1> QED
  BY <1>4, <1>5, <1>6, Zenon DEF Inv

LEMMA ReconcileStep ==
    ASSUME Inv, NEW n \in Numbers, Reconcile(n) PROVE Inv'
<1>1. /\ live' = live /\ worker' = worker
      /\ CleanUp(n) \/ Requeue(n) \/ Exhaust(n)
  BY Zenon DEF Reconcile
<1>2. worker' \in [Workers -> WorkerRow] /\ WorkerRefs'
  BY <1>1, Zenon DEF Inv, TypeOK, WorkerRefs
<1>3. CASE Exhaust(n)
  BY <1>1, <1>2, <1>3, ExhaustStep
<1>4. CASE CleanUp(n) \/ Requeue(n)
  BY <1>1, <1>2, <1>4, SettleJobSteps, OnlyQueueSteps
<1> QED
  BY <1>1, <1>3, <1>4, Zenon

LEMMA ClockSteps ==
    ASSUME Inv, NEW n \in Numbers, LeaseLapses(n) \/ DeadlinePasses(n)
    PROVE  Inv'
<1>1. /\ UNCHANGED <<requirementVars, evidenceVars>>
      /\ live' = live /\ worker' = worker
      /\ \/ job' = [job EXCEPT ![n] = [job[n] EXCEPT !.leased = FALSE]]
         \/ job' = [job EXCEPT ![n] = [job[n] EXCEPT !.late = TRUE]]
  BY Zenon DEF LeaseLapses, DeadlinePasses
<1>2. job[n] \in Job
  BY Zenon DEF Inv, TypeOK
<1>3. /\ [job[n] EXCEPT !.leased = FALSE] \in Job
      /\ [job[n] EXCEPT !.late = TRUE] \in Job
  BY <1>2, JobType, Zenon
<1>4. job' \in [Numbers -> Job]
  BY <1>1, <1>3, Zenon DEF Inv, TypeOK
<1>5. worker' \in [Workers -> WorkerRow] /\ WorkerRefs'
  BY <1>1, Zenon DEF Inv, TypeOK, WorkerRefs
<1> QED
  BY <1>1, <1>4, <1>5, OnlyQueueSteps

LEMMA ClaimStep ==
    ASSUME Inv, NEW p \in Workers, NEW n \in Numbers, Claim(p, n) PROVE Inv'
<1> USE PolicyAssumption
<1> DEFINE w == [Idle EXCEPT !.pc = "claimed", !.attempt = n,
                             !.message = job[n].message,
                             !.generation = job[n].generation + 1]
<1>1. /\ UNCHANGED <<requirementVars, evidenceVars>> /\ live' = live
      /\ worker' = [worker EXCEPT ![p] = w]
  BY Zenon DEF Claim
<1>2. job[n] \in Job /\ n \in Nat
  BY DEF Inv, TypeOK, Numbers
<1>3. job[n].message \in Nat /\ job[n].generation + 1 \in Nat
  BY <1>2, JobType, Zenon
<1>4. job' \in [Numbers -> Job]
  <2> DEFINE j == [job[n] EXCEPT !.status = "running", !.owner = p,
                                 !.leased = TRUE, !.attempts = @ + 1,
                                 !.generation = @ + 1]
  <2>1. j \in Job
    BY <1>2, ClaimedJobType, Zenon
  <2>2. job' = [job EXCEPT ![n] = j]
    BY Zenon DEF Claim
  <2> HIDE DEF j
  <2> QED
    BY <2>1, <2>2, Zenon DEF Inv, TypeOK
<1>5. w \in WorkerRow /\ w.attempt = n
  BY <1>2, <1>3, Zenon DEF WorkerRow, Idle
<1>6. worker' \in [Workers -> WorkerRow] /\ WorkerRefs'
  <2> HIDE DEF w
  <2> QED
    BY <1>1, <1>5, Zenon DEF Inv, TypeOK, WorkerRefs
<1> QED
  BY <1>1, <1>4, <1>6, OnlyQueueSteps, Zenon

-----------------------------------------------------------------------------
(* The workers *)

LEMMA ReadStateStep ==
    ASSUME Inv, NEW p \in Workers, ReadState(p) PROVE Inv'
<1> DEFINE n == worker[p].attempt
           w == [worker[p] EXCEPT !.pc = "thinking", !.stage = job[n].stage,
                                  !.ordinal = Len(dlg[n].questions) + 1]
<1>1. /\ UNCHANGED <<requirementVars, evidenceVars>> /\ live' = live
      /\ job' = job /\ worker[p].pc = "claimed"
      /\ worker' = [worker EXCEPT ![p] = w]
  BY Zenon DEF ReadState
<1>2. n \in Numbers /\ worker[p] \in WorkerRow
  BY <1>1, Zenon DEF Inv, TypeOK, WorkerRefs
<1>3. job[n] \in Job /\ dlg[n] \in Dialogue
  BY <1>2, Zenon DEF Inv, TypeOK
<1>4. /\ job[n].stage \in {"question", "evaluation", "done"}
      /\ Len(dlg[n].questions) + 1 \in Nat
  <2>1. dlg[n].questions \in Seq(Nat)
    BY <1>3, Zenon DEF Dialogue
  <2>2. Len(dlg[n].questions) + 1 \in Nat
    BY <2>1, SMTT(30)
  <2> QED
    BY <1>3, <2>2, JobType, Zenon
<1>5. w \in WorkerRow
  BY <1>2, <1>4, WorkerType, Basics, ZenonT(30)
<1>6. w.attempt = n
  BY <1>2, Zenon DEF WorkerRow
<1>7. worker' \in [Workers -> WorkerRow] /\ WorkerRefs'
  <2>1. \A q \in Workers : q # p => worker'[q] = worker[q]
    BY <1>1, Zenon DEF Inv, TypeOK
  <2>2. worker'[p] = w
    BY <1>1, Zenon DEF Inv, TypeOK
  <2>3. worker' \in [Workers -> WorkerRow]
    <3> HIDE DEF w
    <3> QED
      BY <1>1, <1>5, Zenon DEF Inv, TypeOK
  <2> HIDE DEF w
  <2> QED
    BY <1>2, <1>6, <2>1, <2>2, <2>3, Zenon DEF Inv, WorkerRefs
<1>8. job' \in [Numbers -> Job]
  BY <1>1, Zenon DEF Inv, TypeOK
<1> QED
  BY <1>1, <1>7, <1>8, OnlyQueueSteps, Zenon

(* A worker that goes idle, or on with the job it has. *)
LEMMA WorkerMoves ==
    ASSUME Inv, NEW p \in Workers,
           \/ worker' = [worker EXCEPT ![p] = Idle]
           \/ /\ worker[p].pc # "idle"
              /\ \/ worker' = [worker EXCEPT ![p].pc = "claimed"]
                 \/ worker' = [worker EXCEPT ![p].pc = "failing"]
    PROVE  worker' \in [Workers -> WorkerRow] /\ WorkerRefs'
<1>1. worker[p] \in WorkerRow
  BY Zenon DEF Inv, TypeOK
<1>2. /\ Idle \in WorkerRow /\ Idle.pc = "idle"
      /\ [worker[p] EXCEPT !.pc = "claimed"] \in WorkerRow
      /\ [worker[p] EXCEPT !.pc = "failing"] \in WorkerRow
      /\ [worker[p] EXCEPT !.pc = "claimed"].attempt = worker[p].attempt
      /\ [worker[p] EXCEPT !.pc = "failing"].attempt = worker[p].attempt
  BY <1>1, Zenon DEF WorkerRow, Idle
<1>3. worker' \in [Workers -> WorkerRow]
  BY <1>2, Zenon DEF Inv, TypeOK
<1>4. ASSUME NEW q \in Workers, worker'[q].pc # "idle"
      PROVE  worker'[q].attempt \in Numbers
  <2>1. CASE q # p
    BY <1>4, <2>1, Zenon DEF Inv, TypeOK, WorkerRefs
  <2>2. CASE q = p
    <3>1. \/ worker'[p] = Idle
          \/ /\ worker[p].pc # "idle"
             /\ \/ worker'[p] = [worker[p] EXCEPT !.pc = "claimed"]
                \/ worker'[p] = [worker[p] EXCEPT !.pc = "failing"]
      BY Zenon DEF Inv, TypeOK
    <3>2. worker[p].pc # "idle" => worker[p].attempt \in Numbers
      BY Zenon DEF Inv, WorkerRefs
    <3> QED
      BY <1>2, <1>4, <2>2, <3>1, <3>2, Zenon
  <2> QED
    BY <2>1, <2>2, Zenon
<1> QED
  BY <1>3, <1>4, Zenon DEF WorkerRefs

LEMMA LeaveSteps ==
    ASSUME Inv, NEW p \in Workers, WorkerFails(p) \/ Crash(p) PROVE Inv'
<1>1. /\ UNCHANGED <<requirementVars, evidenceVars>> /\ live' = live
      /\ job' = job
      /\ worker' \in [Workers -> WorkerRow] /\ WorkerRefs'
  BY WorkerMoves, Zenon DEF WorkerFails, Crash
<1>2. job' \in [Numbers -> Job]
  BY <1>1, Zenon DEF Inv, TypeOK
<1> QED
  BY <1>1, <1>2, OnlyQueueSteps, Zenon

LEMMA FailDialogueStep ==
    ASSUME Inv, NEW p \in Workers, FailDialogue(p) PROVE Inv'
<1> DEFINE n == worker[p].attempt
<1>1. /\ worker[p].pc = "failing" /\ live' = live
      /\ worker' = [worker EXCEPT ![p] = Idle]
      /\ \/ CleanUp(n) \/ FailLeased(n) \/ Exhaust(n)
         \/ UNCHANGED <<requirementVars, evidenceVars, job>>
  BY Zenon DEF FailDialogue
<1>2. n \in Numbers
  BY <1>1, Zenon DEF Inv, WorkerRefs
<1>3. worker' \in [Workers -> WorkerRow] /\ WorkerRefs'
  BY <1>1, WorkerMoves, Zenon
<1>4. CASE Exhaust(n)
  BY <1>1, <1>2, <1>3, <1>4, ExhaustStep, Zenon
<1>5. CASE CleanUp(n) \/ FailLeased(n)
  BY <1>1, <1>2, <1>3, <1>5, SettleJobSteps, OnlyQueueSteps
<1>6. CASE UNCHANGED <<requirementVars, evidenceVars, job>>
  <2>1. job' \in [Numbers -> Job]
    BY <1>6, Zenon DEF Inv, TypeOK
  <2> QED
    BY <1>1, <1>3, <1>6, <2>1, OnlyQueueSteps
<1> QED
  BY <1>1, <1>4, <1>5, <1>6, Zenon

LEMMA CommitQuestionStep ==
    ASSUME Inv, NEW p \in Workers, CommitQuestion(p) PROVE Inv'
<1> DEFINE n == worker[p].attempt
<1>1. /\ worker[p].pc = "thinking" /\ ~Closed(n)
      /\ dlg' = [dlg EXCEPT ![n] = Ask(dlg[n])]
      /\ job' = [job EXCEPT ![n] = [EndJob(job[n], "succeeded") EXCEPT
                                       !.stage = "done"]]
      /\ worker' = [worker EXCEPT ![p] = Idle]
      /\ UNCHANGED <<requirementVars, decision, overrides, announced>>
      /\ live' = live
  BY Zenon DEF CommitQuestion, MayAsk
<1>2. n \in Numbers
  BY <1>1, Zenon DEF Inv, WorkerRefs
<1>3. dlg[n] \in Dialogue /\ job[n] \in Job
  BY <1>2, Zenon DEF Inv, TypeOK
<1>4. /\ Ask(dlg[n]) \in Dialogue /\ Ask(dlg[n]).bound = dlg[n].bound
      /\ [EndJob(job[n], "succeeded") EXCEPT !.stage = "done"] \in Job
  BY <1>3, DialogueType, StaysBound, EndJobType, Basics, Zenon
<1>5. worker' \in [Workers -> WorkerRow] /\ WorkerRefs'
  BY <1>1, WorkerMoves, Zenon
<1>6. dlg' \in [Numbers -> Dialogue] /\ job' \in [Numbers -> Job]
  BY <1>1, <1>4, Zenon DEF Inv, TypeOK
<1>7. TypeOK'
  BY <1>1, <1>5, <1>6, Zenon DEF Inv, TypeOK, requirementVars
<1>8. Rows' /\ CompletionIsEarned' /\ CompletionIsAnnounced'
  BY <1>1, <1>2, <1>4, EvidenceSteps, Zenon
<1> QED
  BY <1>5, <1>7, <1>8, Zenon DEF Inv

(* What every evaluation does to the dialogue row. *)
LEMMA EvaluatesType ==
    ASSUME Inv, NEW p \in Workers, NEW b \in BOOLEAN, Evaluates(p, b)
    PROVE  LET n == worker[p].attempt IN
           /\ n \in Numbers /\ n = last /\ ~Closed(n) /\ dlg[n].bound
           /\ dlg' = [dlg EXCEPT ![n] = Evaluate(dlg[n], job[n].message, b)]
           /\ Evaluate(dlg[n], job[n].message, b).bound = dlg[n].bound
           /\ dlg' \in [Numbers -> Dialogue]
           /\ job[n] \in Job /\ worker[p].pc = "thinking"
<1> DEFINE n == worker[p].attempt
<1>1. /\ worker[p].pc = "thinking" /\ Loadable(n) /\ ~Closed(n)
      /\ dlg' = [dlg EXCEPT ![n] = Evaluate(dlg[n], job[n].message, b)]
  BY Zenon DEF Evaluates, MayEvaluate
<1>2. n \in Numbers
  BY <1>1, Zenon DEF Inv, WorkerRefs
<1>3. dlg[n] \in Dialogue /\ job[n] \in Job
  BY <1>2, Zenon DEF Inv, TypeOK
<1>4. job[n].message \in Nat
  BY <1>3, JobType, Zenon
<1>5. /\ Evaluate(dlg[n], job[n].message, b) \in Dialogue
      /\ Evaluate(dlg[n], job[n].message, b).bound = dlg[n].bound
  BY <1>3, <1>4, DialogueType, StaysBound, Zenon
<1> QED
  BY <1>1, <1>2, <1>3, <1>5, Zenon DEF Loadable, Inv, TypeOK

LEMMA AnswerAcceptedStep ==
    ASSUME Inv, NEW p \in Workers, AnswerAccepted(p) PROVE Inv'
<1> DEFINE n == worker[p].attempt
<1>1. /\ Evaluates(p, TRUE) /\ live' = live
      /\ job' = [job EXCEPT ![n] = [job[n] EXCEPT !.stage = "question"]]
      /\ worker' = [worker EXCEPT ![p].pc = "claimed"]
      /\ UNCHANGED <<requirementVars, decision, overrides, announced>>
  BY Zenon DEF AnswerAccepted
<1>2. /\ n \in Numbers /\ ~Closed(n)
      /\ dlg' = [dlg EXCEPT ![n] = Evaluate(dlg[n], job[n].message, TRUE)]
      /\ Evaluate(dlg[n], job[n].message, TRUE).bound = dlg[n].bound
      /\ dlg' \in [Numbers -> Dialogue]
      /\ job[n] \in Job /\ worker[p].pc = "thinking"
  BY <1>1, EvaluatesType, Basics, Zenon
<1>3. job' \in [Numbers -> Job]
  <2>1. [job[n] EXCEPT !.stage = "question"] \in Job
    BY <1>2, JobType, Zenon
  <2> QED
    BY <1>1, <2>1, Zenon DEF Inv, TypeOK
<1>4. worker' \in [Workers -> WorkerRow] /\ WorkerRefs'
  BY <1>1, <1>2, WorkerMoves, Zenon
<1>5. TypeOK'
  BY <1>1, <1>2, <1>3, <1>4, Zenon DEF Inv, TypeOK, requirementVars
<1>6. Rows' /\ CompletionIsEarned' /\ CompletionIsAnnounced'
  BY <1>1, <1>2, EvidenceSteps, Zenon
<1> QED
  BY <1>4, <1>5, <1>6, Zenon DEF Inv

(* An attempt that was open is closed by the engine's decision dec. *)
LEMMA DecidedRows ==
    ASSUME Inv, NEW n \in Numbers, n = last, status[n] = "open", dlg[n].bound,
           NEW d, d.bound = dlg[n].bound, dlg' = [dlg EXCEPT ![n] = d],
           NEW dec \in {"accepted", "rejected"}, NEW st,
           dec = "accepted" => st = "accepted" /\ Ready(d),
           st \notin {"none", "open"},
           decision' = [decision EXCEPT ![n] = dec],
           status' = [status EXCEPT ![n] = st],
           overrides' = overrides, last' = last
    PROVE  Rows'
<1> SUFFICES ASSUME NEW k \in Numbers PROVE AttemptRows(k)'
  BY Zenon DEF Rows
<1>1. AttemptRows(k)
  BY Zenon DEF Inv, Rows
<1>2. CASE k # n
  <2>1. /\ dlg'[k] = dlg[k] /\ status'[k] = status[k]
        /\ decision'[k] = decision[k]
    BY <1>2, Zenon DEF Inv, TypeOK
  <2> QED
    BY <1>1, <2>1, Zenon DEF AttemptRows, Outcome
<1>3. CASE k = n
  <2>1. /\ status'[k] = st /\ decision'[k] = dec /\ dlg'[k] = d
        /\ overrides[k] = <<>> /\ ~(k > last)
    BY <1>1, <1>3, Zenon DEF AttemptRows, Inv, TypeOK, Numbers
  <2> QED
    BY <2>1, Zenon DEF AttemptRows, Outcome
<1> QED
  BY <1>2, <1>3, Zenon

LEMMA DialogueAcceptedStep ==
    ASSUME Inv, NEW p \in Workers, DialogueAccepted(p) PROVE Inv'
<1> DEFINE n == worker[p].attempt
           d == Evaluate(dlg[n], job[n].message, TRUE)
<1>1. /\ Evaluates(p, TRUE) /\ live' = live /\ Ready(dlg'[n])
      /\ decision' = [decision EXCEPT ![n] = "accepted"]
      /\ status' = [status EXCEPT ![n] = "accepted"]
      /\ \/ /\ Satisfied("accepted", manual) /\ occ' = "completed"
            /\ announced' = announced \cup {n}
         \/ occ' = occ /\ announced' = announced
      /\ job' = [job EXCEPT ![n] = [EndJob(job[n], "succeeded") EXCEPT
                                       !.stage = "done"]]
      /\ worker' = [worker EXCEPT ![p] = Idle]
      /\ manual' = manual /\ last' = last /\ overrides' = overrides
  BY Zenon DEF DialogueAccepted, JobDone
<1>2. /\ n \in Numbers /\ n = last /\ ~Closed(n) /\ dlg[n].bound
      /\ dlg' = [dlg EXCEPT ![n] = d] /\ d.bound = dlg[n].bound
      /\ dlg' \in [Numbers -> Dialogue]
      /\ job[n] \in Job /\ worker[p].pc = "thinking"
  BY <1>1, EvaluatesType, Basics, Zenon
<1>3. status[n] = "open" /\ occ # "completed"
  BY <1>2, Zenon DEF Closed, IsTerminal
<1>4. dlg'[n] = d /\ Ready(d)
  BY <1>1, <1>2, Zenon DEF Inv, TypeOK
<1>5. job' \in [Numbers -> Job]
  <2>1. [EndJob(job[n], "succeeded") EXCEPT !.stage = "done"] \in Job
    BY <1>2, EndJobType, Zenon
  <2> QED
    BY <1>1, <2>1, Zenon DEF Inv, TypeOK
<1>6. worker' \in [Workers -> WorkerRow] /\ WorkerRefs'
  BY <1>1, WorkerMoves, Zenon
<1>7. TypeOK'
  BY <1>1, <1>2, <1>5, <1>6, Zenon DEF Inv, TypeOK, OccurrenceStatus
<1>8. Rows'
  <2> HIDE DEF n, d
  <2> QED
    BY <1>1, <1>2, <1>3, <1>4, DecidedRows, Zenon
<1>9. CompletionIsEarned' /\ CompletionIsAnnounced'
  <2>1. CASE occ' = occ
    BY <1>3, <2>1, Zenon DEF CompletionIsEarned, CompletionIsAnnounced
  <2>2. CASE /\ Satisfied("accepted", manual) /\ occ' = "completed"
             /\ announced' = announced \cup {n}
    <3>1. overrides[n] = <<>> /\ last # 0
      BY <1>2, <1>3, PolicyAssumption DEF Inv, Rows, AttemptRows, Numbers
    <3>2. \A m \in Manuals : manual'[m] = "accepted"
      BY <1>1, <2>2, Zenon DEF Satisfied
    <3>3. /\ status'[last'] = "accepted" /\ decision'[last'] = "accepted"
          /\ overrides'[last'] = <<>> /\ Ready(dlg'[last'])
      BY <1>1, <1>2, <3>1, Zenon DEF Inv, TypeOK
    <3>4. CompletionIsEarned'
      BY <1>1, <3>1, <3>2, <3>3, Zenon DEF CompletionIsEarned, Outcome
    <3>5. CompletionIsAnnounced'
      BY <1>1, <1>2, <2>2, Zenon DEF CompletionIsAnnounced
    <3> QED
      BY <3>4, <3>5
  <2> QED
    BY <1>1, <2>1, <2>2, Zenon
<1> QED
  BY <1>6, <1>7, <1>8, <1>9, Zenon DEF Inv

LEMMA AnswerRejectedStep ==
    ASSUME Inv, NEW p \in Workers, AnswerRejected(p) PROVE Inv'
<1> DEFINE n == worker[p].attempt
           d == Evaluate(dlg[n], job[n].message, FALSE)
<1>1. /\ Evaluates(p, FALSE) /\ live' = live
      /\ \/ /\ decision' = [decision EXCEPT ![n] = "rejected"]
            /\ status' = [status EXCEPT ![n] = "exhausted"]
            /\ occ' = "pending"
         \/ decision' = decision /\ status' = status /\ occ' = occ
      /\ job' = [job EXCEPT ![n] = [EndJob(job[n], "succeeded") EXCEPT
                                       !.stage = "done"]]
      /\ worker' = [worker EXCEPT ![p] = Idle]
      /\ manual' = manual /\ last' = last /\ overrides' = overrides
      /\ announced' = announced
  BY Zenon DEF AnswerRejected, JobDone
<1>2. /\ n \in Numbers /\ n = last /\ ~Closed(n) /\ dlg[n].bound
      /\ dlg' = [dlg EXCEPT ![n] = d] /\ d.bound = dlg[n].bound
      /\ dlg' \in [Numbers -> Dialogue]
      /\ job[n] \in Job /\ worker[p].pc = "thinking"
  BY <1>1, EvaluatesType, Basics, Zenon
<1>3. status[n] = "open" /\ occ # "completed"
  BY <1>2, Zenon DEF Closed, IsTerminal
<1>4. job' \in [Numbers -> Job]
  <2>1. [EndJob(job[n], "succeeded") EXCEPT !.stage = "done"] \in Job
    BY <1>2, EndJobType, Zenon
  <2> QED
    BY <1>1, <2>1, Zenon DEF Inv, TypeOK
<1>5. worker' \in [Workers -> WorkerRow] /\ WorkerRefs'
  BY <1>1, WorkerMoves, Zenon
<1>6. TypeOK'
  BY <1>1, <1>2, <1>4, <1>5, Zenon DEF Inv, TypeOK, OccurrenceStatus
<1>7. CASE decision' = decision /\ status' = status /\ occ' = occ
  <2>1. UNCHANGED <<requirementVars, decision, overrides, announced>>
    BY <1>1, <1>7, Zenon DEF requirementVars
  <2>2. Rows' /\ CompletionIsEarned' /\ CompletionIsAnnounced'
    <3> HIDE DEF n, d
    <3> QED
      BY <1>2, <2>1, EvidenceSteps, Zenon
  <2> QED
    BY <1>5, <1>6, <2>2, Zenon DEF Inv
<1>8. CASE /\ decision' = [decision EXCEPT ![n] = "rejected"]
           /\ status' = [status EXCEPT ![n] = "exhausted"]
           /\ occ' = "pending"
  <2>1. Rows'
    <3> HIDE DEF n, d
    <3> QED
      BY <1>1, <1>2, <1>3, <1>8, DecidedRows, Zenon
  <2>2. CompletionIsEarned' /\ CompletionIsAnnounced'
    BY <1>8, Zenon DEF CompletionIsEarned, CompletionIsAnnounced
  <2> QED
    BY <1>5, <1>6, <2>1, <2>2, Zenon DEF Inv
<1> QED
  BY <1>1, <1>7, <1>8, Zenon

-----------------------------------------------------------------------------
(* The parent *)

LEMMA OverrideStep ==
    ASSUME Inv, NEW b \in BOOLEAN, Override(b) PROVE Inv'
<1> USE PolicyAssumption
<1>1. /\ last \in Numbers /\ dlg[last].bound
      /\ occ' = OverrideResult(b)
      /\ overrides' = [overrides EXCEPT ![last] = Append(overrides[last], b)]
      /\ dlg' = [dlg EXCEPT ![last] = [dlg[last] EXCEPT !.version = @ + 1]]
      /\ status' = [status EXCEPT ![last] = AttemptStatus(b)]
      /\ announced' = IF OverrideResult(b) = "completed" /\ occ # "completed"
                      THEN announced \cup {last} ELSE announced
      /\ manual' = manual /\ last' = last /\ decision' = decision
      /\ live' = live /\ worker' = worker
  BY DEF Override, MayOverride, Loadable, Inv, TypeOK, Numbers
<1>2. /\ dlg[last] \in Dialogue /\ job[last] \in Job
      /\ overrides[last] \in Seq(BOOLEAN)
  BY <1>1, Zenon DEF Inv, TypeOK
<1>3. /\ [dlg[last] EXCEPT !.version = @ + 1] \in Dialogue
      /\ [dlg[last] EXCEPT !.version = @ + 1].bound = dlg[last].bound
  BY <1>2, DialogueType, Basics, Zenon DEF Dialogue
<1>4. /\ Append(overrides[last], b) \in Seq(BOOLEAN)
      /\ Append(overrides[last], b) # <<>>
      /\ Append(overrides[last], b)[Len(Append(overrides[last], b))] = b
  BY <1>2
<1>5. job' \in [Numbers -> Job]
  <2>1. EndJob(job[last], "failed") \in Job
    BY <1>2, EndJobType, Zenon
  <2> QED
    BY <2>1, Zenon DEF Override, Inv, TypeOK
<1>6. dlg' \in [Numbers -> Dialogue]
  BY <1>1, <1>3, Zenon DEF Inv, TypeOK
<1>7. overrides' \in [Numbers -> Seq(BOOLEAN)]
  BY <1>1, <1>4, Zenon DEF Inv, TypeOK
<1>8. status'[last] = AttemptStatus(b) /\ status' \in
          [Numbers -> {"none", "open", "accepted", "rejected", "exhausted"}]
  BY <1>1, Zenon DEF Inv, TypeOK, AttemptStatus
<1>9. OverrideResult(b) \in {"pending", "completed", "awaiting_verification"}
  BY Zenon DEF OverrideResult
<1>10. announced' \subseteq Numbers
  BY <1>1, Zenon DEF Inv, TypeOK
<1>11. TypeOK'
  BY <1>1, <1>5, <1>6, <1>7, <1>8, <1>9, <1>10, Zenon
     DEF Inv, TypeOK, OccurrenceStatus
<1>12. WorkerRefs'
  BY <1>1, Zenon DEF Inv, WorkerRefs
<1>13. Rows'
  <2> SUFFICES ASSUME NEW k \in Numbers PROVE AttemptRows(k)'
    BY Zenon DEF Rows
  <2>1. AttemptRows(k)
    BY Zenon DEF Inv, Rows
  <2>2. CASE k # last
    <3>1. /\ dlg'[k] = dlg[k] /\ status'[k] = status[k]
          /\ overrides'[k] = overrides[k]
      BY <1>1, <2>2, Zenon DEF Inv, TypeOK
    <3> QED
      BY <1>1, <2>1, <3>1, Zenon DEF AttemptRows, Outcome
  <2>3. CASE k = last
    <3>1. /\ status'[k] = AttemptStatus(b) /\ dlg'[k].bound
          /\ overrides'[k] = Append(overrides[last], b) /\ ~(k > last)
      BY <1>1, <1>3, <2>3 DEF Inv, TypeOK, Numbers
    <3>2. Outcome(k, decision[k])' <=> b
      BY <1>4, <3>1, Zenon DEF Outcome
    <3> QED
      BY <1>1, <1>4, <3>1, <3>2 DEF AttemptRows, AttemptStatus
  <2> QED
    BY <2>2, <2>3, Zenon
<1>14. CompletionIsEarned'
  <2> SUFFICES ASSUME occ' = "completed"
               PROVE  /\ \A m \in Manuals : manual'[m] = "accepted"
                      /\ last' # 0 /\ status'[last'] = "accepted"
                      /\ Outcome(last, decision[last])'
                      /\ overrides'[last'] # <<>>
    BY Zenon DEF CompletionIsEarned
  <2>1. b /\ \A m \in Manuals : manual[m] = "accepted"
    BY <1>1, Zenon DEF OverrideResult, Inv, CompletionIsEarned
  <2>2. overrides'[last'] = Append(overrides[last], b)
    BY <1>1, Zenon DEF Inv, TypeOK
  <2>3. Outcome(last, decision[last])'
    BY <1>1, <1>4, <2>1, <2>2, Zenon DEF Outcome
  <2>4. last' # 0 /\ status'[last'] = "accepted"
    BY <1>1, <1>8, <2>1 DEF AttemptStatus, Numbers
  <2> QED
    BY <1>1, <1>4, <2>1, <2>2, <2>3, <2>4, Zenon
<1>15. CompletionIsAnnounced'
  BY <1>1, Zenon DEF CompletionIsAnnounced, Inv
<1> QED
  BY <1>11, <1>12, <1>13, <1>14, <1>15, Zenon DEF Inv

LEMMA DecideStep ==
    ASSUME Inv, NEW m \in Manuals, NEW b \in BOOLEAN, Decide(m, b) PROVE Inv'
<1> DEFINE manuals == [manual EXCEPT ![m] = AttemptStatus(b)]
           all == b /\ Completes(manuals)
<1>1. /\ occ = "awaiting_verification" /\ manual' = manuals
      /\ occ' = CASE ~b -> "pending" [] all -> "completed" [] OTHER -> occ
      /\ announced' = IF all /\ dlg[last].bound /\ status[last] = "accepted"
                      THEN announced \cup {last} ELSE announced
      /\ last' = last /\ status' = status /\ dlg' = dlg
      /\ decision' = decision /\ overrides' = overrides /\ job' = job
      /\ live' = live /\ worker' = worker
  BY Zenon DEF Decide, PublishCompletion
<1>2. all => last \in Numbers
  BY DEF Completes, Satisfied, Inv, TypeOK, Numbers
<1>3. manuals \in [Manuals -> {"none", "open", "accepted", "rejected"}]
  BY Zenon DEF Inv, TypeOK, AttemptStatus
<1>4. /\ occ' \in {"pending", "completed", "awaiting_verification"}
      /\ occ' = "completed" => all
  BY <1>1
<1>5. TypeOK'
  BY <1>1, <1>2, <1>3, <1>4, Zenon DEF Inv, TypeOK, OccurrenceStatus
<1>6. WorkerRefs'
  BY <1>1, Zenon DEF Inv, WorkerRefs
<1>7. Rows'
  BY <1>1, Zenon DEF Inv, Rows, AttemptRows, Outcome
<1>8. all => /\ \A k \in Manuals : manuals[k] = "accepted"
             /\ last # 0 /\ Outcome(last, decision[last])
             /\ status[last] = "accepted" /\ dlg[last].bound
             /\ overrides[last] = <<>> => Ready(dlg[last])
  BY <1>2, Zenon DEF Completes, Satisfied, Inv, Rows, AttemptRows
<1>9. CompletionIsEarned' /\ CompletionIsAnnounced'
  BY <1>1, <1>4, <1>8, Zenon DEF CompletionIsEarned, CompletionIsAnnounced, Outcome
<1> QED
  BY <1>5, <1>6, <1>7, <1>9, Zenon DEF Inv

LEMMA RetryDialogueStep == ASSUME Inv, RetryDialogue PROVE Inv'
<1> USE PolicyAssumption
<1>1. /\ last \in Numbers /\ last + 1 \in Numbers /\ last' = last + 1
      /\ status' = [status EXCEPT ![last + 1] = "open"]
      /\ occ' = "awaiting_verification" /\ manual' = manual
      /\ dlg' = dlg /\ decision' = decision /\ overrides' = overrides
      /\ announced' = announced /\ job' = job /\ live' = live
      /\ worker' = worker
  BY DEF RetryDialogue, AttemptsLeft, evidenceVars, Inv, TypeOK, Numbers
<1>2. TypeOK'
  BY <1>1 DEF Inv, TypeOK, OccurrenceStatus, Numbers
<1>3. WorkerRefs'
  BY <1>1, Zenon DEF Inv, WorkerRefs
<1>4. Rows'
  <2> SUFFICES ASSUME NEW k \in Numbers PROVE AttemptRows(k)'
    BY Zenon DEF Rows
  <2>1. AttemptRows(k)
    BY Zenon DEF Inv, Rows
  <2>2. CASE k # last + 1
    <3>1. status'[k] = status[k] /\ (k > last' => k > last)
      BY <1>1, <2>2 DEF Inv, TypeOK, Numbers
    <3> QED
      BY <1>1, <2>1, <3>1, Zenon DEF AttemptRows, Outcome
  <2>3. CASE k = last + 1
    <3>1. status'[k] = "open" /\ ~(k > last') /\ k > last
      BY <1>1, <2>3 DEF Inv, TypeOK, Numbers
    <3> QED
      BY <1>1, <2>1, <3>1, Zenon DEF AttemptRows, Outcome
  <2> QED
    BY <2>2, <2>3
<1>5. CompletionIsEarned' /\ CompletionIsAnnounced'
  BY <1>1, Zenon DEF CompletionIsEarned, CompletionIsAnnounced
<1> QED
  BY <1>2, <1>3, <1>4, <1>5, Zenon DEF Inv

LEMMA StatusSteps ==
    ASSUME Inv, \/ \E m \in Manuals : RetryManual(m)
                \/ \E to \in {"canceled", "excused"} : SetStatus(to)
    PROVE  Inv'
<1>1. /\ last' = last /\ status' = status /\ dlg' = dlg
      /\ decision' = decision /\ overrides' = overrides
      /\ announced' = announced /\ job' = job /\ live' = live
      /\ worker' = worker
      /\ occ' \in {"awaiting_verification", "canceled", "excused"}
      /\ \/ manual' = manual
         \/ \E m \in Manuals : manual' = [manual EXCEPT ![m] = "open"]
  BY Zenon DEF RetryManual, SetStatus, evidenceVars
<1>2. TypeOK' /\ WorkerRefs'
  BY <1>1, Zenon DEF Inv, TypeOK, WorkerRefs, OccurrenceStatus
<1>3. Rows'
  BY <1>1, Zenon DEF Inv, Rows, AttemptRows, Outcome
<1>4. CompletionIsEarned' /\ CompletionIsAnnounced'
  BY <1>1, Zenon DEF CompletionIsEarned, CompletionIsAnnounced
<1> QED
  BY <1>2, <1>3, <1>4, Zenon DEF Inv

-----------------------------------------------------------------------------
(* The invariant *)

LEMMA InitInv == Init => Inv
<1> SUFFICES ASSUME Init PROVE Inv
  BY Zenon
<1> USE PolicyAssumption
<1>1. NoDialogue \in Dialogue
  BY DEF NoDialogue, Dialogue
<1>2. NoJob \in Job /\ Idle \in WorkerRow
  BY Zenon DEF NoJob, Job, Idle, WorkerRow
<1>3. TypeOK
  BY <1>1, <1>2 DEF Init, TypeOK, OccurrenceStatus
<1>4. WorkerRefs /\ CompletionIsEarned /\ CompletionIsAnnounced
  BY Zenon DEF Init, WorkerRefs, Idle, CompletionIsEarned, CompletionIsAnnounced
<1>5. Rows
  BY Zenon DEF Init, Rows, AttemptRows, Outcome
<1> QED
  BY <1>3, <1>4, <1>5, Zenon DEF Inv

LEMMA StepInv == Inv /\ [Next]_vars => Inv'
<1> SUFFICES ASSUME Inv, [Next]_vars PROVE Inv'
  BY Zenon
<1>1. CASE StudentStep
  BY <1>1, StartStep, AdmitStep, RetryJobStep, RevokeStep, ManualSteps, Zenon
     DEF StudentStep
<1>2. CASE ParentStep
  BY <1>2, OverrideStep, DecideStep, RetryDialogueStep, StatusSteps, Zenon
     DEF ParentStep
<1>3. CASE JobStep
  BY <1>3, ReconcileStep, ClockSteps, ClaimStep, Zenon DEF JobStep
<1>4. CASE \E p \in Workers : WorkerStep(p) \/ Crash(p)
  BY <1>4, ReadStateStep, CommitQuestionStep, AnswerAcceptedStep,
     DialogueAcceptedStep, AnswerRejectedStep, LeaveSteps, FailDialogueStep, Zenon
     DEF WorkerStep, CommitEvaluation
<1>5. CASE UNCHANGED vars
  <2>1. /\ UNCHANGED <<requirementVars, evidenceVars>>
        /\ job' = job /\ live' = live /\ worker' = worker
    BY <1>5, Zenon DEF vars
  <2>2. TypeOK' /\ WorkerRefs'
    BY <2>1, Zenon DEF Inv, TypeOK, WorkerRefs, requirementVars, evidenceVars
  <2> QED
    BY <2>1, <2>2, QueueSteps, Zenon DEF Inv
<1> QED
  BY <1>1, <1>2, <1>3, <1>4, <1>5, Zenon DEF Next

(* The inductive invariant holds in every behaviour, whatever the student, *)
(* the parent, the workers, crashes and the clock do.                      *)
THEOREM InvariantHolds == Spec => []Inv
<1> QED
  BY InitInv, StepInv, PTL DEF Spec

(* Every row keeps the type of its table. *)
THEOREM DialogueTyped == Spec => []TypeOK
<1>1. Inv => TypeOK
  BY Zenon DEF Inv
<1> QED
  BY <1>1, InvariantHolds, PTL

(* For any policy and any number of attempts and workers, an occurrence    *)
(* that CommitEvaluation, OverrideDialogue or decideOccurrence2 completed  *)
(* has every requirement accepted.                                         *)
THEOREM CompletionsAreEarned == Spec => []CompletionIsEarned
<1>1. Inv => CompletionIsEarned
  BY Zenon DEF Inv
<1> QED
  BY <1>1, InvariantHolds, PTL

(* A completed occurrence has its completion event on the latest attempt.  *)
THEOREM CompletionsAreAnnounced == Spec => []CompletionIsAnnounced
<1>1. Inv => CompletionIsAnnounced
  BY Zenon DEF Inv
<1> QED
  BY <1>1, InvariantHolds, PTL

-----------------------------------------------------------------------------
(* History *)

LEMMA ExtendsAppend ==
    ASSUME NEW S, NEW s \in Seq(S), NEW x \in S
    PROVE  Extends(s, s) /\ Extends(s, Append(s, x))
<1>1. Len(s) \in Nat /\ DOMAIN s = 1..Len(s)
  OBVIOUS
<1>2. /\ Len(Append(s, x)) = Len(s) + 1
      /\ \A k \in 1..Len(s) : Append(s, x)[k] = s[k]
  OBVIOUS
<1> QED
  BY <1>1, <1>2 DEF Extends

(* HistoryStep for one attempt. *)
Kept(n) ==
    /\ Extends(dlg[n].questions, dlg'[n].questions)
    /\ Extends(dlg[n].messages, dlg'[n].messages)
    /\ Extends(dlg[n].evaluations, dlg'[n].evaluations)
    /\ Extends(overrides[n], overrides'[n])
    /\ decision[n] # "none" => decision'[n] = decision[n]
    /\ (status[n] \notin {"none", "open"} \/ n < last) =>
           /\ SameEvidence(dlg[n], dlg'[n])
           /\ decision'[n] = decision[n]
    /\ n < last => status'[n] = status[n]

(* The rows of a dialogue and what Ask, Answer and Evaluate leave of them. *)
LEMMA RowsGrow ==
    ASSUME NEW d \in Dialogue, NEW m \in Nat, NEW b \in BOOLEAN
    PROVE  /\ Extends(d.questions, d.questions)
           /\ Extends(d.messages, d.messages)
           /\ Extends(d.evaluations, d.evaluations)
           /\ \A e \in {Ask(d), Answer(d), Evaluate(d, m, b)} :
                  /\ Extends(d.questions, e.questions)
                  /\ Extends(d.messages, e.messages)
                  /\ Extends(d.evaluations, e.evaluations)
<1>1. /\ d.version + 1 \in Nat /\ d.version \in Nat
      /\ d.questions \in Seq(Nat)
      /\ d.messages \in Seq(Message) /\ d.evaluations \in Seq(Evaluation)
  BY DEF Dialogue
<1> DEFINE u == [question |-> Len(d.questions), expected |-> d.version]
           v == [message |-> m, accepted |-> b, version |-> d.version + 1]
<1>2. u \in Message
  <2>1. Len(d.questions) \in Nat
    BY <1>1
  <2> QED
    BY <1>1, <2>1, Zenon DEF Message
<1>3. v \in Evaluation
  BY <1>1, Zenon DEF Evaluation
<1>4. /\ Extends(d.questions, d.questions)
      /\ Extends(d.questions, Append(d.questions, d.version + 1))
  BY <1>1, ExtendsAppend, Zenon
<1>5. /\ Extends(d.messages, d.messages)
      /\ Extends(d.messages, Append(d.messages, u))
  BY <1>1, <1>2, ExtendsAppend, Zenon
<1>6. /\ Extends(d.evaluations, d.evaluations)
      /\ Extends(d.evaluations, Append(d.evaluations, v))
  BY <1>1, <1>3, ExtendsAppend
<1>7. /\ Ask(d).questions = Append(d.questions, d.version + 1)
      /\ Ask(d).messages = d.messages /\ Ask(d).evaluations = d.evaluations
  BY Zenon DEF Ask, Dialogue
<1>8. /\ Answer(d).questions = d.questions
      /\ Answer(d).messages = Append(d.messages, u)
      /\ Answer(d).evaluations = d.evaluations
  BY Zenon DEF Answer, Dialogue
<1>9. /\ Evaluate(d, m, b).questions = d.questions
      /\ Evaluate(d, m, b).messages = d.messages
      /\ Evaluate(d, m, b).evaluations = Append(d.evaluations, v)
  BY Zenon DEF Evaluate, Dialogue
<1> QED
  BY <1>4, <1>5, <1>6, <1>7, <1>8, <1>9, Zenon

(* An attempt whose evidence and decision a step leaves alone. *)
LEMMA KeptSame ==
    ASSUME Inv, NEW n \in Numbers, SameEvidence(dlg[n], dlg'[n]),
           decision'[n] = decision[n], n < last => status'[n] = status[n],
           \/ overrides'[n] = overrides[n]
           \/ \E b \in BOOLEAN : overrides'[n] = Append(overrides[n], b)
    PROVE  Kept(n)
<1>1. dlg[n] \in Dialogue /\ overrides[n] \in Seq(BOOLEAN)
  BY Zenon DEF Inv, TypeOK
<1>2. /\ Extends(dlg[n].questions, dlg[n].questions)
      /\ Extends(dlg[n].messages, dlg[n].messages)
      /\ Extends(dlg[n].evaluations, dlg[n].evaluations)
  BY <1>1, RowsGrow, Basics, Zenon
<1>3. Extends(overrides[n], overrides'[n])
  BY <1>1, ExtendsAppend, Basics, Zenon
<1> QED
  BY <1>2, <1>3, Zenon DEF Kept, SameEvidence

(* A step that adds evidence to, and may decide, the latest open attempt.  *)
LEMMA KeptOpen ==
    ASSUME Inv, NEW n \in Numbers, n = last, status[n] = "open",
           NEW m \in Nat, NEW b \in BOOLEAN,
           NEW e \in {Ask(dlg[n]), Answer(dlg[n]), Evaluate(dlg[n], m, b)},
           dlg' = [dlg EXCEPT ![n] = e], overrides' = overrides,
           \A k \in Numbers : k # n =>
               decision'[k] = decision[k] /\ status'[k] = status[k],
           NEW k \in Numbers
    PROVE  Kept(k)
<1>1. CASE k # n
  <2>1. dlg'[k] = dlg[k] /\ overrides'[k] = overrides[k]
    BY <1>1, Zenon DEF Inv, TypeOK
  <2> QED
    BY <1>1, <2>1, KeptSame, Zenon DEF SameEvidence
<1>2. CASE k = n
  <2>1. /\ dlg[n] \in Dialogue /\ overrides[n] \in Seq(BOOLEAN)
        /\ dlg'[n] = e /\ overrides'[n] = overrides[n]
        /\ decision[n] = "none" /\ ~(n < last)
    BY Zenon DEF Inv, TypeOK, Rows, AttemptRows, Numbers
  <2>2. /\ Extends(dlg[n].questions, e.questions)
        /\ Extends(dlg[n].messages, e.messages)
        /\ Extends(dlg[n].evaluations, e.evaluations)
    BY <2>1, RowsGrow, Zenon
  <2>3. Extends(overrides[n], overrides'[n])
    BY <2>1, ExtendsAppend, Basics
  <2> QED
    BY <1>2, <2>1, <2>2, <2>3, Zenon DEF Kept
<1> QED
  BY <1>1, <1>2

LEMMA KeptQueue ==
    ASSUME Inv, UNCHANGED <<dlg, decision, overrides>>, NEW n \in Numbers,
           n < last => status'[n] = status[n]
    PROVE  Kept(n)
BY KeptSame, Zenon DEF SameEvidence

(* Rows whose version alone moves, as after an override or exhaustion. *)
LEMMA VersionMoves ==
    ASSUME Inv, NEW n \in Numbers, NEW k \in Numbers,
           dlg' = [dlg EXCEPT ![n] = [dlg[n] EXCEPT !.version = @ + 1]]
    PROVE  SameEvidence(dlg[k], dlg'[k])
<1>1. dlg[n] \in Dialogue
  BY Zenon DEF Inv, TypeOK
<1>2. CASE k # n
  BY <1>2, Zenon DEF Inv, TypeOK, SameEvidence
<1>3. CASE k = n
  <2>1. dlg'[k] = [dlg[n] EXCEPT !.version = @ + 1]
    BY <1>3, Zenon DEF Inv, TypeOK
  <2> QED
    BY <1>1, <1>3, <2>1 DEF SameEvidence, Dialogue
<1> QED
  BY <1>2, <1>3

LEMMA ExhaustKeeps ==
    ASSUME Inv, NEW n \in Numbers, Exhaust(n), NEW k \in Numbers
    PROVE  ~IsTerminal(occ) /\ Kept(k)
<1>1. /\ status[n] = "open" /\ ~IsTerminal(occ) /\ n = last
      /\ decision' = [decision EXCEPT ![n] = "rejected"]
      /\ status' = [status EXCEPT ![n] = "exhausted"]
      /\ dlg' = [dlg EXCEPT ![n] = [dlg[n] EXCEPT !.version = @ + 1]]
      /\ overrides' = overrides
  BY Zenon DEF Exhaust, BudgetSpent, Superseded, Closed
<1>2. SameEvidence(dlg[k], dlg'[k])
  BY <1>1, VersionMoves, Zenon
<1>3. CASE k # n
  <2>1. decision'[k] = decision[k] /\ status'[k] = status[k]
    BY <1>1, <1>3, Zenon DEF Inv, TypeOK
  <2> QED
    BY <1>1, <1>2, <2>1, KeptSame, Zenon
<1>4. CASE k = n
  <2>1. /\ dlg[n] \in Dialogue /\ overrides[n] \in Seq(BOOLEAN)
        /\ overrides'[n] = overrides[n]
        /\ decision[n] = "none" /\ ~(n < last)
    BY <1>1, Zenon DEF Inv, TypeOK, Rows, AttemptRows, Numbers
  <2>2. /\ Extends(dlg[n].questions, dlg[n].questions)
        /\ Extends(dlg[n].messages, dlg[n].messages)
        /\ Extends(dlg[n].evaluations, dlg[n].evaluations)
    BY <2>1, RowsGrow, Basics, Zenon
  <2>3. Extends(overrides[n], overrides'[n])
    BY <2>1, ExtendsAppend, Basics, Zenon
  <2> QED
    BY <1>1, <1>2, <1>4, <2>1, <2>2, <2>3, Zenon DEF Kept, SameEvidence
<1> QED
  BY <1>1, <1>3, <1>4, Zenon

(* HistoryStep attempt by attempt; there is at least one number. *)
LEMMA HistoryFrom ==
    ASSUME \A n \in Numbers : (IsTerminal(occ) => occ' = occ) /\ Kept(n)
    PROVE  HistoryStep
<1>1. 1 \in Numbers
  BY PolicyAssumption DEF Numbers
<1>2. IsTerminal(occ) => occ' = occ
  BY <1>1
<1>3. \A n \in Numbers : Kept(n)
  OBVIOUS
<1> QED
  BY <1>2, <1>3, Zenon DEF HistoryStep, Kept

LEMMA StudentKeeps == ASSUME Inv, StudentStep PROVE HistoryStep
<1> USE PolicyAssumption
<1> SUFFICES ASSUME NEW k \in Numbers
             PROVE  (IsTerminal(occ) => occ' = occ) /\ Kept(k)
  BY HistoryFrom, Zenon
<1>1. CASE \E s \in Sessions : Start(s)
  <2> DEFINE n == IF last = 0 THEN 1 ELSE last
  <2>1. /\ n \in Numbers /\ ~IsTerminal(occ)
        /\ n = last \/ last = 0
        /\ dlg' = [dlg EXCEPT ![n] = [dlg[n] EXCEPT !.bound = TRUE]]
        /\ status' = [status EXCEPT ![n] = "open"]
        /\ decision' = decision /\ overrides' = overrides
    BY <1>1 DEF Start, Inv, TypeOK, Numbers
  <2>2. dlg[n] \in Dialogue
    BY <2>1, Zenon DEF Inv, TypeOK
  <2>3. SameEvidence(dlg[k], dlg'[k])
    <3>1. CASE k # n
      BY <2>1, <3>1, Zenon DEF Inv, TypeOK, SameEvidence
    <3>2. CASE k = n
      <4>1. dlg'[k] = [dlg[n] EXCEPT !.bound = TRUE]
        BY <2>1, <3>2, Zenon DEF Inv, TypeOK
      <4> QED
        BY <2>2, <3>2, <4>1, Zenon DEF SameEvidence, Dialogue
    <3> QED
      BY <3>1, <3>2, Zenon
  <2>4. k < last => status'[k] = status[k]
    BY <2>1 DEF Inv, TypeOK, Numbers
  <2> HIDE DEF n
  <2> QED
    BY <2>1, <2>3, <2>4, KeptSame, Zenon
<1>2. CASE \E s \in Sessions : Admit(s)
  <2>1. /\ last \in Numbers /\ ~Closed(last)
        /\ dlg' = [dlg EXCEPT ![last] = Answer(dlg[last])]
        /\ status' = status /\ decision' = decision
        /\ overrides' = overrides
    BY <1>2 DEF Admit, MayAnswer, requirementVars, Inv, TypeOK, Numbers
  <2>2. status[last] = "open" /\ ~IsTerminal(occ)
    BY <2>1, Zenon DEF Closed
  <2> QED
    BY <2>1, <2>2, KeptOpen, Basics, Zenon
<1>3. CASE \/ \E s \in Sessions : RetryJob(s) \/ Revoke(s)
           \/ \E m \in Manuals : ManualStart(m) \/ ManualSubmit(m)
  <2>1. /\ UNCHANGED <<dlg, decision, overrides>> /\ status' = status
        /\ occ' = occ \/ ~IsTerminal(occ)
    BY <1>3, Zenon DEF RetryJob, Revoke, ManualStart, ManualSubmit, evidenceVars,
                requirementVars, IsTerminal
  <2> QED
    BY <2>1, KeptQueue, Zenon
<1> QED
  BY <1>1, <1>2, <1>3, Zenon DEF StudentStep

LEMMA ParentKeeps == ASSUME Inv, ParentStep PROVE HistoryStep
<1> USE PolicyAssumption
<1> SUFFICES ASSUME NEW k \in Numbers
             PROVE  (IsTerminal(occ) => occ' = occ) /\ Kept(k)
  BY HistoryFrom
<1>1. CASE \E b \in BOOLEAN : Override(b)
  <2> PICK b \in BOOLEAN : Override(b)
    BY <1>1, Zenon
  <2>1. /\ last \in Numbers /\ occ' = OverrideResult(b)
        /\ ~(occ = "completed" /\ ~b) /\ occ \notin {"canceled", "excused"}
        /\ overrides' = [overrides EXCEPT ![last] = Append(overrides[last], b)]
        /\ dlg' = [dlg EXCEPT ![last] = [dlg[last] EXCEPT !.version = @ + 1]]
        /\ status' = [status EXCEPT ![last] = AttemptStatus(b)]
        /\ decision' = decision
    BY DEF Override, MayOverride, Inv, TypeOK, Numbers
  <2>2. IsTerminal(occ) => occ' = occ
    BY <2>1, Zenon DEF IsTerminal, OverrideResult
  <2>3. SameEvidence(dlg[k], dlg'[k])
    BY <2>1, VersionMoves, Zenon
  <2>4. /\ k < last => status'[k] = status[k]
        /\ \/ overrides'[k] = overrides[k]
           \/ overrides'[k] = Append(overrides[k], b)
    BY <2>1 DEF Inv, TypeOK, Numbers
  <2> QED
    BY <2>1, <2>2, <2>3, <2>4, KeptSame, Zenon
<1>2. CASE \E m \in Manuals, b \in BOOLEAN : Decide(m, b)
  <2>1. /\ UNCHANGED <<dlg, decision, overrides>> /\ status' = status
        /\ ~IsTerminal(occ)
    BY <1>2, Zenon DEF Decide, IsTerminal
  <2> QED
    BY <2>1, KeptQueue
<1>3. CASE RetryDialogue
  <2>1. /\ UNCHANGED <<dlg, decision, overrides>> /\ ~IsTerminal(occ)
        /\ status' = [status EXCEPT ![last + 1] = "open"]
    BY <1>3, Zenon DEF RetryDialogue, Retryable, IsTerminal, evidenceVars
  <2>2. k < last => status'[k] = status[k]
    BY <2>1 DEF Inv, TypeOK, Numbers
  <2> QED
    BY <2>1, <2>2, KeptQueue, Zenon
<1>4. CASE \/ \E m \in Manuals : RetryManual(m)
           \/ \E to \in {"canceled", "excused"} : SetStatus(to)
  <2>1. /\ UNCHANGED <<dlg, decision, overrides>> /\ status' = status
        /\ ~IsTerminal(occ)
    BY <1>4, Zenon DEF RetryManual, SetStatus, Retryable, CanTransition, IsTerminal,
                evidenceVars
  <2> QED
    BY <2>1, KeptQueue
<1> QED
  BY <1>1, <1>2, <1>3, <1>4, Zenon DEF ParentStep

LEMMA JobKeeps == ASSUME Inv, JobStep PROVE HistoryStep
<1> SUFFICES ASSUME NEW k \in Numbers
             PROVE  (IsTerminal(occ) => occ' = occ) /\ Kept(k)
  BY HistoryFrom
<1>1. CASE \E n \in Numbers : Exhaust(n)
  BY <1>1, ExhaustKeeps
<1>2. CASE UNCHANGED <<requirementVars, evidenceVars>>
  BY <1>2, KeptQueue, SMTT(30) DEF requirementVars, evidenceVars
<1>3. \/ \E n \in Numbers : Exhaust(n)
      \/ UNCHANGED <<requirementVars, evidenceVars>>
  BY Zenon DEF JobStep, Reconcile, CleanUp, Requeue, LeaseLapses, DeadlinePasses,
         Claim
<1> QED
  BY <1>1, <1>2, <1>3, Zenon

LEMMA WorkerKeeps ==
    ASSUME Inv, NEW p \in Workers, WorkerStep(p) \/ Crash(p)
    PROVE  HistoryStep
<1> SUFFICES ASSUME NEW k \in Numbers
             PROVE  (IsTerminal(occ) => occ' = occ) /\ Kept(k)
  BY HistoryFrom, Zenon
<1> DEFINE n == worker[p].attempt
<1>1. CASE ReadState(p) \/ WorkerFails(p) \/ Crash(p)
  <2>1. UNCHANGED <<requirementVars, evidenceVars>>
    BY <1>1, Zenon DEF ReadState, WorkerFails, Crash
  <2> QED
    BY <2>1, KeptQueue, Zenon DEF requirementVars, evidenceVars
<1>2. CASE FailDialogue(p)
  <2>1. n \in Numbers
    BY <1>2, SMTT(30) DEF FailDialogue, Inv, WorkerRefs
  <2>2. Exhaust(n) \/ UNCHANGED <<requirementVars, evidenceVars>>
    BY <1>2, Zenon DEF FailDialogue, CleanUp, FailLeased
  <2>3. CASE Exhaust(n)
    BY <2>1, <2>3, ExhaustKeeps, Zenon
  <2>4. CASE UNCHANGED <<requirementVars, evidenceVars>>
    BY <2>4, KeptQueue, Zenon DEF requirementVars, evidenceVars
  <2> QED
    BY <2>2, <2>3, <2>4, Zenon
<1>3. CASE CommitQuestion(p)
  <2>1. /\ worker[p].pc = "thinking" /\ ~Closed(n) /\ n = last
        /\ dlg' = [dlg EXCEPT ![n] = Ask(dlg[n])]
        /\ status' = status /\ decision' = decision
        /\ overrides' = overrides
    BY <1>3, Zenon DEF CommitQuestion, MayAsk, Loadable, requirementVars
  <2>2. n \in Numbers /\ status[n] = "open" /\ ~IsTerminal(occ)
    BY <2>1, Zenon DEF Inv, WorkerRefs, Closed
  <2> QED
    BY <2>1, <2>2, KeptOpen, Basics, Zenon
<1>4. CASE CommitEvaluation(p)
  <2>1. PICK b \in BOOLEAN : Evaluates(p, b)
    BY <1>4, Zenon DEF CommitEvaluation, AnswerAccepted, DialogueAccepted,
                AnswerRejected
  <2>2. /\ n \in Numbers /\ n = last /\ ~Closed(n)
        /\ dlg' = [dlg EXCEPT ![n] = Evaluate(dlg[n], job[n].message, b)]
        /\ job[n] \in Job
    BY <2>1, EvaluatesType, Zenon
  <2>3. status[n] = "open" /\ ~IsTerminal(occ) /\ job[n].message \in Nat
    BY <2>2, JobType, Zenon DEF Closed
  <2>4. /\ overrides' = overrides
        /\ decision' = decision
           \/ \E x : decision' = [decision EXCEPT ![n] = x]
        /\ status' = status \/ \E x : status' = [status EXCEPT ![n] = x]
    BY <1>4, Zenon DEF CommitEvaluation, AnswerAccepted, DialogueAccepted,
                AnswerRejected, requirementVars
  <2>5. \A l \in Numbers : l # n =>
            decision'[l] = decision[l] /\ status'[l] = status[l]
    BY <2>4, Zenon DEF Inv, TypeOK
  <2> HIDE DEF n
  <2> QED
    BY <2>2, <2>3, <2>4, <2>5, KeptOpen, Zenon
<1> QED
  BY <1>1, <1>2, <1>3, <1>4, Zenon DEF WorkerStep

(* Late workers, replays, retries and overrides never rewrite history, for *)
(* any number of them: HistoryIsKept.                                      *)
THEOREM HistoryKept == Spec => HistoryIsKept
<1>1. Inv /\ [Next]_vars => [HistoryStep]_vars
  <2> SUFFICES ASSUME Inv, Next PROVE HistoryStep
    BY Zenon
  <2> QED
    BY StudentKeeps, ParentKeeps, JobKeeps, WorkerKeeps, Zenon DEF Next
<1> QED
  BY <1>1, InvariantHolds, PTL DEF Spec, HistoryIsKept

-----------------------------------------------------------------------------
(* The rows of an attempt, before and after Ask, Answer and Evaluate. *)

LEMMA RowTypes ==
    ASSUME NEW d \in Dialogue
    PROVE  /\ d.version \in Nat
           /\ d.questions \in Seq(Nat) /\ d.messages \in Seq(Message)
           /\ d.evaluations \in Seq(Evaluation)
           /\ Len(d.questions) \in Nat /\ DOMAIN d.questions = 1..Len(d.questions)
           /\ Len(d.messages) \in Nat /\ DOMAIN d.messages = 1..Len(d.messages)
           /\ Len(d.evaluations) \in Nat
           /\ DOMAIN d.evaluations = 1..Len(d.evaluations)
           /\ \A k \in DOMAIN d.questions : d.questions[k] \in Nat
           /\ \A k \in DOMAIN d.messages :
                  d.messages[k].question \in Nat /\ d.messages[k].expected \in Nat
           /\ \A k \in DOMAIN d.evaluations :
                  /\ d.evaluations[k].message \in Nat
                  /\ d.evaluations[k].version \in Nat
                  /\ d.evaluations[k].accepted \in BOOLEAN
<1>1. /\ d.version \in Nat /\ d.questions \in Seq(Nat)
      /\ d.messages \in Seq(Message) /\ d.evaluations \in Seq(Evaluation)
  BY Zenon DEF Dialogue
<1>2. \A S : \A s \in Seq(S) :
          /\ Len(s) \in Nat /\ DOMAIN s = 1..Len(s)
          /\ \A k \in DOMAIN s : s[k] \in S
  OBVIOUS
<1>3. /\ \A k \in DOMAIN d.messages : d.messages[k] \in Message
      /\ \A k \in DOMAIN d.evaluations : d.evaluations[k] \in Evaluation
  BY <1>1, <1>2, Zenon
<1>4. /\ \A x \in Message : x.question \in Nat /\ x.expected \in Nat
      /\ \A x \in Evaluation : /\ x.message \in Nat /\ x.version \in Nat
                               /\ x.accepted \in BOOLEAN
  BY Zenon DEF Message, Evaluation
<1> QED
  BY <1>1, <1>2, <1>3, <1>4, Zenon

(* One more element at the end. *)
LEMMA AppendFields ==
    ASSUME NEW S, NEW s \in Seq(S), NEW x
    PROVE  /\ Len(Append(s, x)) = Len(s) + 1
           /\ DOMAIN Append(s, x) = 1..(Len(s) + 1)
           /\ \A k \in 1..Len(s) : Append(s, x)[k] = s[k]
           /\ Append(s, x)[Len(s) + 1] = x
OBVIOUS

LEMMA AskRows ==
    ASSUME NEW d \in Dialogue
    PROVE  LET e == Ask(d) IN
           /\ e.version = d.version + 1
           /\ e.messages = d.messages /\ e.evaluations = d.evaluations
           /\ Len(e.questions) = Len(d.questions) + 1
           /\ DOMAIN e.questions = 1..(Len(d.questions) + 1)
           /\ \A k \in 1..Len(d.questions) : e.questions[k] = d.questions[k]
           /\ e.questions[Len(d.questions) + 1] = d.version + 1
<1>1. /\ Ask(d).version = d.version + 1
      /\ Ask(d).messages = d.messages /\ Ask(d).evaluations = d.evaluations
      /\ Ask(d).questions = Append(d.questions, d.version + 1)
  BY Zenon DEF Ask, Dialogue
<1>2. d.questions \in Seq(Nat)
  BY RowTypes, Zenon
<1>3. LET t == Append(d.questions, (d.version + 1)) IN
      /\ Len(t) = Len(d.questions) + 1 /\ DOMAIN t = 1..(Len(d.questions) + 1)
      /\ \A k \in 1..Len(d.questions) : t[k] = d.questions[k]
      /\ t[Len(d.questions) + 1] = (d.version + 1)
  BY <1>2, AppendFields
<1> QED
  BY <1>1, <1>3, Zenon

LEMMA AnswerRows ==
    ASSUME NEW d \in Dialogue
    PROVE  LET e == Answer(d)
               m == Len(d.messages) + 1 IN
           /\ e.version = d.version + 1
           /\ e.questions = d.questions /\ e.evaluations = d.evaluations
           /\ Len(e.messages) = m /\ DOMAIN e.messages = 1..m
           /\ \A k \in 1..Len(d.messages) : e.messages[k] = d.messages[k]
           /\ e.messages[m].question = Len(d.questions)
           /\ e.messages[m].expected = d.version
<1> DEFINE u == [question |-> Len(d.questions), expected |-> d.version]
<1>1. /\ Answer(d).version = d.version + 1
      /\ Answer(d).questions = d.questions
      /\ Answer(d).evaluations = d.evaluations
      /\ Answer(d).messages = Append(d.messages, u)
  BY Zenon DEF Answer, Dialogue
<1>2. u.question = Len(d.questions) /\ u.expected = d.version
  BY Zenon
<1>3. d.messages \in Seq(Message)
  BY RowTypes, Zenon
<1> HIDE DEF u
<1>4. LET t == Append(d.messages, u) IN
      /\ Len(t) = Len(d.messages) + 1 /\ DOMAIN t = 1..(Len(d.messages) + 1)
      /\ \A k \in 1..Len(d.messages) : t[k] = d.messages[k]
      /\ t[Len(d.messages) + 1] = u
  BY <1>3, AppendFields
<1> QED
  BY <1>1, <1>2, <1>4, Zenon

LEMMA EvaluateRows ==
    ASSUME NEW d \in Dialogue, NEW m \in Nat, NEW b \in BOOLEAN
    PROVE  LET e == Evaluate(d, m, b)
               k == Len(d.evaluations) + 1 IN
           /\ e.version = d.version + 1
           /\ e.questions = d.questions /\ e.messages = d.messages
           /\ Len(e.evaluations) = k /\ DOMAIN e.evaluations = 1..k
           /\ \A l \in 1..Len(d.evaluations) :
                  e.evaluations[l] = d.evaluations[l]
           /\ e.evaluations[k].message = m
           /\ e.evaluations[k].accepted = b
           /\ e.evaluations[k].version = d.version + 1
<1> DEFINE u == [message |-> m, accepted |-> b, version |-> d.version + 1]
<1>1. /\ Evaluate(d, m, b).version = d.version + 1
      /\ Evaluate(d, m, b).questions = d.questions
      /\ Evaluate(d, m, b).messages = d.messages
      /\ Evaluate(d, m, b).evaluations = Append(d.evaluations, u)
  BY Zenon DEF Evaluate, Dialogue
<1>2. u.message = m /\ u.accepted = b /\ u.version = d.version + 1
  BY Zenon
<1>3. d.evaluations \in Seq(Evaluation)
  BY RowTypes, Zenon
<1> HIDE DEF u
<1>4. LET t == Append(d.evaluations, u) IN
      /\ Len(t) = Len(d.evaluations) + 1 /\ DOMAIN t = 1..(Len(d.evaluations) + 1)
      /\ \A k \in 1..Len(d.evaluations) : t[k] = d.evaluations[k]
      /\ t[Len(d.evaluations) + 1] = u
  BY <1>3, AppendFields
<1> QED
  BY <1>1, <1>2, <1>4, Zenon

-----------------------------------------------------------------------------
(* Counting accepted questions *)

(* Valid evidence has every question accepted but perhaps the last, so the *)
(* count RecordQuestion, RecordMessage and RecordEvaluation compare with   *)
(* says whether the last one is.                                           *)
LEMMA AcceptedSoFar ==
    ASSUME NEW d \in Dialogue, EvidenceOK(d)
    PROVE  LET L == Len(d.questions) IN
           /\ AcceptedQuestions(d) \subseteq 1..L
           /\ \A q \in 1..L : q < L => q \in AcceptedQuestions(d)
<1> DEFINE L == Len(d.questions)
<1>1. L \in Nat /\ DOMAIN d.questions = 1..L
  BY RowTypes, Zenon
<1>2. ASSUME NEW q \in AcceptedQuestions(d) PROVE q \in 1..L
  <2>1. PICK k \in DOMAIN d.evaluations : q = Question(d, k)
    BY <1>2, Zenon DEF AcceptedQuestions
  <2>2. d.evaluations[k].message \in DOMAIN d.messages
    BY <2>1, Zenon DEF EvidenceOK
  <2>3. Question(d, k) \in DOMAIN d.questions
    BY <2>2, Zenon DEF EvidenceOK, Question
  <2> QED
    BY <1>1, <2>1, <2>3, Zenon
<1>3. ASSUME NEW q \in 1..L, q < L PROVE q \in AcceptedQuestions(d)
  <2>1. \E k \in DOMAIN d.evaluations :
            d.evaluations[k].accepted /\ Question(d, k) = q
    BY <1>1, <1>3, Zenon DEF EvidenceOK
  <2> QED
    BY <2>1, Zenon DEF AcceptedQuestions
<1> QED
  BY <1>2, <1>3, Zenon

LEMMA CountOfAccepted ==
    ASSUME NEW d \in Dialogue, EvidenceOK(d)
    PROVE  LET L == Len(d.questions) IN
           /\ AcceptedCount(d) \in Nat /\ AcceptedCount(d) <= L
           /\ AcceptedCount(d) = L <=> L = 0 \/ L \in AcceptedQuestions(d)
<1> DEFINE L == Len(d.questions)
           A == AcceptedQuestions(d)
<1>1. L \in Nat
  BY RowTypes, Zenon
<1>2. A \subseteq 1..L /\ \A q \in 1..L : q < L => q \in A
  BY AcceptedSoFar, Zenon
<1>3. IsFiniteSet(1..L) /\ Cardinality(1..L) = L
  <2>1. 1 \in Int /\ L \in Int
    BY <1>1
  <2> QED
    BY <1>1, <2>1, FS_Interval
<1>4. /\ IsFiniteSet(A) /\ Cardinality(A) <= L
      /\ Cardinality(A) = L => A = 1..L
  <2>1. A \in SUBSET (1..L)
    BY <1>2
  <2> HIDE DEF A, L
  <2> QED
    BY <1>3, <2>1, FS_Subset, Zenon
<1>5. Cardinality(A) \in Nat
  BY <1>4, FS_CardinalityType
<1>6. ASSUME L = 0 \/ L \in A PROVE Cardinality(A) = L
  <2> HIDE DEF A, L
  <2>1. A = 1..L
    <3>1. ASSUME NEW q \in 1..L PROVE q \in A
      <4>1. q < L \/ (q = L /\ L # 0)
        BY <1>1
      <4> QED
        BY <1>2, <1>6, <4>1, Zenon
    <3> QED
      BY <1>2, <3>1, Zenon
  <2> QED
    BY <1>3, <2>1
<1>7. ASSUME Cardinality(A) = L PROVE L = 0 \/ L \in A
  <2> HIDE DEF A, L
  <2> QED
    BY <1>1, <1>4, <1>7
<1> QED
  BY <1>4, <1>5, <1>6, <1>7, Zenon DEF AcceptedCount
-----------------------------------------------------------------------------
(* The rows each job needs *)

(* What the rows of an open attempt must allow: the next question; the     *)
(* evaluation of message m.                                                *)
TakesQuestion(d) ==
    /\ ~Ready(d) /\ Len(d.questions) = AcceptedCount(d)
    /\ EvidenceOK(Ask(d))
TakesEvaluation(d, m) ==
    /\ ~Ready(d) /\ d.questions # <<>> /\ d.messages # <<>>
    /\ m = Len(d.messages) /\ d.messages[m].question = Len(d.questions)
    /\ \A accepted \in BOOLEAN : EvidenceOK(Evaluate(d, m, accepted))

(* Asking keeps the evidence valid as soon as every question is accepted   *)
(* and one is left.                                                        *)
LEMMA NextQuestionFits ==
    ASSUME NEW d \in Dialogue, EvidenceOK(d), ~Ready(d),
           Len(d.questions) = AcceptedCount(d)
    PROVE  EvidenceOK(Ask(d))
<1> DEFINE L == Len(d.questions)
           e == Ask(d)
<1>1. RequiredQuestions \in Nat
  BY PolicyAssumption, Zenon
<1>2. L + 1 <= RequiredQuestions
  <2>1. L # RequiredQuestions
    BY Zenon DEF Ready
  <2>2. L \in Nat /\ L <= RequiredQuestions
    BY RowTypes, Zenon DEF EvidenceOK
  <2> QED
    BY <1>1, <2>1, <2>2
<1>3. /\ e.version = d.version + 1
      /\ e.messages = d.messages /\ e.evaluations = d.evaluations
      /\ Len(e.questions) = L + 1 /\ DOMAIN e.questions = 1..(L + 1)
      /\ \A k \in 1..L : e.questions[k] = d.questions[k]
      /\ e.questions[L + 1] = d.version + 1
  BY AskRows, Zenon
<1>4. /\ L \in Nat /\ d.version \in Nat /\ DOMAIN d.questions = 1..L
      /\ \A k \in DOMAIN d.questions : d.questions[k] \in Nat
      /\ \A k \in DOMAIN d.messages :
             d.messages[k].question \in Nat /\ d.messages[k].expected \in Nat
      /\ \A k \in DOMAIN d.evaluations : d.evaluations[k].version \in Nat
  BY RowTypes, Zenon
<1>5. L = 0 \/ L \in AcceptedQuestions(d)
  BY CountOfAccepted, Zenon
<1> HIDE DEF e, L
<1>6. Len(e.questions) <= RequiredQuestions
  BY <1>2, <1>3, Zenon
<1>7. \A k \in DOMAIN e.questions : e.questions[k] \in 1..e.version
  <2> SUFFICES ASSUME NEW k \in 1..(L + 1)
               PROVE  e.questions[k] \in 1..(d.version + 1)
    BY <1>3, Zenon
  <2>1. CASE k = L + 1
    BY <2>1, <1>3, <1>4
  <2>2. CASE k \in 1..L
    <3>1. d.questions[k] \in 1..d.version
      BY <2>2, <1>4, Zenon DEF EvidenceOK
    <3> QED
      BY <2>2, <3>1, <1>3, <1>4
  <2> QED
    BY <2>1, <2>2, <1>4
<1>8. \A k \in DOMAIN e.messages :
          /\ e.messages[k].question \in DOMAIN e.questions
          /\ e.messages[k].expected >= e.questions[e.messages[k].question]
          /\ e.messages[k].expected <= e.version
  <2> SUFFICES ASSUME NEW k \in DOMAIN d.messages
               PROVE  /\ d.messages[k].question \in 1..(L + 1)
                      /\ d.messages[k].expected >=
                             e.questions[d.messages[k].question]
                      /\ d.messages[k].expected <= d.version + 1
    BY <1>3, Zenon
  <2>1. /\ d.messages[k].question \in 1..L
        /\ d.messages[k].expected >= d.questions[d.messages[k].question]
        /\ d.messages[k].expected <= d.version
    BY <1>4, Zenon DEF EvidenceOK
  <2>2. e.questions[d.messages[k].question] =
            d.questions[d.messages[k].question]
    BY <1>3, <2>1, Zenon
  <2> QED
    BY <1>4, <2>1, <2>2
<1>9. \A k \in DOMAIN e.evaluations :
          /\ e.evaluations[k].message \in DOMAIN e.messages
          /\ e.evaluations[k].version >
                 e.messages[e.evaluations[k].message].expected + 1
          /\ e.evaluations[k].version <= e.version
  <2> SUFFICES ASSUME NEW k \in DOMAIN d.evaluations
               PROVE  /\ d.evaluations[k].message \in DOMAIN d.messages
                      /\ d.evaluations[k].version >
                             d.messages[d.evaluations[k].message].expected + 1
                      /\ d.evaluations[k].version <= d.version + 1
    BY <1>3, Zenon
  <2>1. /\ d.evaluations[k].message \in DOMAIN d.messages
        /\ d.evaluations[k].version >
               d.messages[d.evaluations[k].message].expected + 1
        /\ d.evaluations[k].version <= d.version
    BY Zenon DEF EvidenceOK
  <2> QED
    BY <1>4, <2>1
<1>10. \A k : Question(e, k) = Question(d, k)
  BY <1>3, Zenon DEF Question
<1>11. \A k, l \in DOMAIN e.evaluations : k < l =>
           /\ e.evaluations[k].message # e.evaluations[l].message
           /\ e.evaluations[k].accepted => Question(e, k) # Question(e, l)
  <2>1. \A k, l \in DOMAIN d.evaluations : k < l =>
            /\ d.evaluations[k].message # d.evaluations[l].message
            /\ d.evaluations[k].accepted => Question(d, k) # Question(d, l)
    BY Zenon DEF EvidenceOK
  <2> QED
    BY <1>3, <1>10, <2>1
<1>12. \A q \in DOMAIN e.questions : q < Len(e.questions) =>
           \E k \in DOMAIN e.evaluations :
               /\ e.evaluations[k].accepted
               /\ Question(e, k) = q
               /\ e.evaluations[k].version < e.questions[q + 1]
  <2> SUFFICES ASSUME NEW q \in 1..(L + 1), q < L + 1
               PROVE  \E k \in DOMAIN d.evaluations :
                          /\ d.evaluations[k].accepted
                          /\ Question(d, k) = q
                          /\ d.evaluations[k].version < e.questions[q + 1]
    BY <1>3, <1>10, ZenonT(30)
  <2>1. CASE q < L
    <3>1. q \in 1..L /\ q + 1 \in 1..L
      BY <2>1, <1>4
    <3>2. e.questions[q + 1] = d.questions[q + 1]
      BY <3>1, <1>3, Zenon
    <3> QED
      BY <2>1, <3>1, <3>2, <1>4, Zenon DEF EvidenceOK, L
  <2>2. CASE q = L
    <3>1. q \in AcceptedQuestions(d)
      BY <2>2, <1>4, <1>5
    <3>2. PICK k \in DOMAIN d.evaluations :
              d.evaluations[k].accepted /\ Question(d, k) = q
      BY <3>1, Zenon DEF AcceptedQuestions
    <3>3. d.evaluations[k].version <= d.version
      BY Zenon DEF EvidenceOK
    <3>4. d.evaluations[k].version < e.questions[q + 1]
      BY <2>2, <3>3, <1>3, <1>4
    <3> QED
      BY <3>2, <3>4, Zenon
  <2> QED
    BY <2>1, <2>2, <1>4
<1> QED
  BY <1>6, <1>7, <1>8, <1>9, <1>11, <1>12, Zenon DEF EvidenceOK, e

(* Evaluating keeps the evidence valid when the last answer is to the last *)
(* question, neither it nor its question has been accepted or evaluated.   *)
LEMMA EvaluationFits ==
    ASSUME NEW d \in Dialogue, EvidenceOK(d),
           NEW m \in DOMAIN d.messages, NEW b \in BOOLEAN,
           d.messages[m].question = Len(d.questions),
           d.messages[m].expected < d.version,
           AcceptedCount(d) # Len(d.questions),
           \A k \in DOMAIN d.evaluations : d.evaluations[k].message # m
    PROVE  EvidenceOK(Evaluate(d, m, b))
<1> DEFINE e == Evaluate(d, m, b)
           K == Len(d.evaluations)
<1>1. /\ K \in Nat /\ DOMAIN d.evaluations = 1..K /\ m \in Nat
      /\ d.version \in Nat /\ DOMAIN d.questions = 1..Len(d.questions)
      /\ Len(d.questions) \in Nat
      /\ \A k \in DOMAIN d.questions : d.questions[k] \in Nat
      /\ \A k \in DOMAIN d.messages :
             d.messages[k].question \in Nat /\ d.messages[k].expected \in Nat
      /\ \A k \in DOMAIN d.evaluations : d.evaluations[k].version \in Nat
  <2>1. DOMAIN d.messages = 1..Len(d.messages) /\ Len(d.messages) \in Nat
    BY RowTypes, Zenon
  <2>2. m \in Nat
    BY <2>1, SMTT(30)
  <2> QED
    BY <2>2, RowTypes, Zenon
<1>2. /\ e.version = d.version + 1
      /\ e.questions = d.questions /\ e.messages = d.messages
      /\ DOMAIN e.evaluations = 1..(K + 1)
      /\ \A k \in 1..K : e.evaluations[k] = d.evaluations[k]
      /\ e.evaluations[K + 1].message = m
      /\ e.evaluations[K + 1].accepted = b
      /\ e.evaluations[K + 1].version = d.version + 1
  <2>1. m \in Nat
    BY <1>1, Zenon
  <2> QED
    BY <2>1, EvaluateRows
<1>3. Len(d.questions) \notin AcceptedQuestions(d)
  BY CountOfAccepted, Zenon
<1> HIDE DEF e, K
<1>4. /\ \A k \in 1..K : Question(e, k) = Question(d, k)
      /\ Question(e, K + 1) = Len(d.questions)
  BY <1>2, Zenon DEF Question
<1>5. Len(e.questions) <= RequiredQuestions
  BY <1>2, Zenon DEF EvidenceOK
<1>6. \A k \in DOMAIN e.questions : e.questions[k] \in 1..e.version
  <2>1. \A k \in DOMAIN d.questions : d.questions[k] \in 1..d.version
    BY Zenon DEF EvidenceOK
  <2>2. 1..d.version \subseteq 1..(d.version + 1)
    BY <1>1, SMTT(30)
  <2> QED
    BY <1>2, <2>1, <2>2, Zenon
<1>7. \A k \in DOMAIN e.messages :
          /\ e.messages[k].question \in DOMAIN e.questions
          /\ e.messages[k].expected >= e.questions[e.messages[k].question]
          /\ e.messages[k].expected <= e.version
  <2> SUFFICES ASSUME NEW k \in DOMAIN d.messages
               PROVE  /\ d.messages[k].question \in DOMAIN d.questions
                      /\ d.messages[k].expected >=
                             d.questions[d.messages[k].question]
                      /\ d.messages[k].expected <= d.version + 1
    BY <1>2, Zenon
  <2>1. /\ d.messages[k].question \in DOMAIN d.questions
        /\ d.messages[k].expected >= d.questions[d.messages[k].question]
        /\ d.messages[k].expected <= d.version
    BY Zenon DEF EvidenceOK
  <2> QED
    BY <1>1, <2>1
<1>8. \A k \in DOMAIN e.evaluations :
          /\ e.evaluations[k].message \in DOMAIN e.messages
          /\ e.evaluations[k].version >
                 e.messages[e.evaluations[k].message].expected + 1
          /\ e.evaluations[k].version <= e.version
  <2> SUFFICES ASSUME NEW k \in 1..(K + 1)
               PROVE  /\ e.evaluations[k].message \in DOMAIN d.messages
                      /\ e.evaluations[k].version >
                             d.messages[e.evaluations[k].message].expected + 1
                      /\ e.evaluations[k].version <= d.version + 1
    BY <1>2, Zenon
  <2>1. CASE k = K + 1
    BY <2>1, <1>1, <1>2
  <2>2. CASE k \in 1..K
    <3>1. /\ d.evaluations[k].message \in DOMAIN d.messages
          /\ d.evaluations[k].version >
                 d.messages[d.evaluations[k].message].expected + 1
          /\ d.evaluations[k].version <= d.version
      BY <2>2, <1>1, Zenon DEF EvidenceOK
    <3>2. e.evaluations[k] = d.evaluations[k]
      BY <2>2, <1>2, Zenon
    <3>3. d.evaluations[k].version \in Nat
      BY <2>2, <1>1, Zenon
    <3>4. d.evaluations[k].version <= d.version + 1
      BY <3>1, <3>3, <1>1, SMTT(30)
    <3> QED
      BY <3>1, <3>2, <3>4, Zenon
  <2> QED
    BY <2>1, <2>2, <1>1
<1>9. \A k, l \in DOMAIN e.evaluations : k < l =>
          /\ e.evaluations[k].message # e.evaluations[l].message
          /\ e.evaluations[k].accepted => Question(e, k) # Question(e, l)
  <2> SUFFICES ASSUME NEW k \in 1..(K + 1), NEW l \in 1..(K + 1), k < l
               PROVE  /\ e.evaluations[k].message # e.evaluations[l].message
                      /\ e.evaluations[k].accepted =>
                             Question(e, k) # Question(e, l)
    BY <1>2, ZenonT(30)
  <2>1. k \in 1..K
    BY <1>1
  <2>2. /\ e.evaluations[k] = d.evaluations[k]
        /\ Question(e, k) = Question(d, k)
    BY <2>1, <1>2, <1>4, Zenon
  <2>3. CASE l = K + 1
    <3>1. d.evaluations[k].message # m
      BY <2>1, <1>1, Zenon
    <3>2. d.evaluations[k].accepted => Question(d, k) \in AcceptedQuestions(d)
      BY <2>1, <1>1, Zenon DEF AcceptedQuestions
    <3> QED
      BY <2>2, <2>3, <3>1, <3>2, <1>2, <1>3, <1>4, Zenon
  <2>4. CASE l \in 1..K
    <3>1. \A i, j \in DOMAIN d.evaluations : i < j =>
              /\ d.evaluations[i].message # d.evaluations[j].message
              /\ d.evaluations[i].accepted => Question(d, i) # Question(d, j)
      BY Zenon DEF EvidenceOK
    <3>2. /\ e.evaluations[l] = d.evaluations[l]
          /\ Question(e, l) = Question(d, l)
      BY <2>4, <1>2, <1>4, Zenon
    <3>3. /\ d.evaluations[k].message # d.evaluations[l].message
          /\ d.evaluations[k].accepted => Question(d, k) # Question(d, l)
      BY <2>1, <2>4, <3>1, <1>1, Zenon
    <3> QED
      BY <2>2, <3>2, <3>3, Zenon
  <2> QED
    BY <2>3, <2>4, <1>1
<1>10. \A q \in DOMAIN e.questions : q < Len(e.questions) =>
           \E k \in DOMAIN e.evaluations :
               /\ e.evaluations[k].accepted
               /\ Question(e, k) = q
               /\ e.evaluations[k].version < e.questions[q + 1]
  <2> SUFFICES ASSUME NEW q \in DOMAIN d.questions, q < Len(d.questions)
               PROVE  \E k \in 1..(K + 1) :
                          /\ e.evaluations[k].accepted
                          /\ Question(e, k) = q
                          /\ e.evaluations[k].version < d.questions[q + 1]
    BY <1>2, Zenon
  <2>1. PICK k \in 1..K : /\ d.evaluations[k].accepted
                          /\ Question(d, k) = q
                          /\ d.evaluations[k].version < d.questions[q + 1]
    BY <1>1, Zenon DEF EvidenceOK
  <2>2. k \in 1..(K + 1)
    BY <1>1
  <2> QED
    BY <2>1, <2>2, <1>2, <1>4, Zenon
<1> QED
  BY <1>5, <1>6, <1>7, <1>8, <1>9, <1>10, Zenon DEF EvidenceOK, e

(* An answer to the last question keeps the evidence valid. *)
LEMMA AnswerFits ==
    ASSUME NEW d \in Dialogue, EvidenceOK(d), Len(d.questions) # 0
    PROVE  EvidenceOK(Answer(d))
<1> DEFINE L == Len(d.questions)
           M == Len(d.messages)
           e == Answer(d)
<1>1. /\ e.version = d.version + 1
      /\ e.questions = d.questions /\ e.evaluations = d.evaluations
      /\ DOMAIN e.messages = 1..(M + 1)
      /\ \A k \in 1..M : e.messages[k] = d.messages[k]
      /\ e.messages[M + 1].question = L
      /\ e.messages[M + 1].expected = d.version
  BY AnswerRows, Zenon
<1>2. /\ L \in Nat /\ M \in Nat /\ d.version \in Nat
      /\ DOMAIN d.questions = 1..L /\ DOMAIN d.messages = 1..M
      /\ \A k \in DOMAIN d.questions : d.questions[k] \in Nat
      /\ \A k \in DOMAIN d.messages :
             d.messages[k].question \in Nat /\ d.messages[k].expected \in Nat
      /\ \A k \in DOMAIN d.evaluations : d.evaluations[k].version \in Nat
  BY RowTypes, Zenon
<1>3. L # 0
  BY Zenon
<1>4. 1..M \subseteq 1..(M + 1)
  BY <1>2
<1> HIDE DEF e, L, M
<1>5. Len(e.questions) <= RequiredQuestions
  BY <1>1, Zenon DEF EvidenceOK
<1>6. \A k \in DOMAIN d.questions : d.questions[k] \in 1..d.version
  BY Zenon DEF EvidenceOK
<1>7. \A k \in DOMAIN e.questions : e.questions[k] \in 1..e.version
  <2>1. 1..d.version \subseteq 1..(d.version + 1)
    BY <1>2
  <2> QED
    BY <1>1, <1>6, <2>1, Zenon
<1>8. \A k \in DOMAIN e.messages :
          /\ e.messages[k].question \in DOMAIN e.questions
          /\ e.messages[k].expected >= e.questions[e.messages[k].question]
          /\ e.messages[k].expected <= e.version
  <2> SUFFICES ASSUME NEW k \in 1..(M + 1)
               PROVE  /\ e.messages[k].question \in DOMAIN d.questions
                      /\ e.messages[k].expected >=
                             d.questions[e.messages[k].question]
                      /\ e.messages[k].expected <= d.version + 1
    BY <1>1, Zenon
  <2>1. CASE k = M + 1
    <3>1. L \in DOMAIN d.questions
      BY <1>2, <1>3
    <3>2. d.questions[L] \in 1..d.version
      BY <1>6, <3>1, Zenon
    <3>3. d.version >= d.questions[L] /\ d.version <= d.version + 1
      BY <1>2, <3>2
    <3> QED
      BY <1>1, <2>1, <3>1, <3>3, Zenon
  <2>2. CASE k \in 1..M
    <3>1. /\ d.messages[k].question \in DOMAIN d.questions
          /\ d.messages[k].expected >= d.questions[d.messages[k].question]
          /\ d.messages[k].expected <= d.version
          /\ d.messages[k].expected \in Nat
      BY <1>2, <2>2, Zenon DEF EvidenceOK
    <3>2. d.messages[k].expected <= d.version + 1
      BY <1>2, <3>1
    <3> QED
      BY <1>1, <2>2, <3>1, <3>2, Zenon
  <2> QED
    BY <1>2, <2>1, <2>2
<1>9. \A k \in DOMAIN d.evaluations :
          /\ d.evaluations[k].message \in 1..M
          /\ e.messages[d.evaluations[k].message] =
                 d.messages[d.evaluations[k].message]
  BY <1>1, <1>2, Zenon DEF EvidenceOK
<1>10. \A k \in DOMAIN e.evaluations :
           /\ e.evaluations[k].message \in DOMAIN e.messages
           /\ e.evaluations[k].version >
                  e.messages[e.evaluations[k].message].expected + 1
           /\ e.evaluations[k].version <= e.version
  <2> SUFFICES ASSUME NEW k \in DOMAIN d.evaluations
               PROVE  /\ d.evaluations[k].message \in 1..(M + 1)
                      /\ d.evaluations[k].version >
                             d.messages[d.evaluations[k].message].expected + 1
                      /\ d.evaluations[k].version <= d.version + 1
    BY <1>1, <1>9, Zenon
  <2>1. /\ d.evaluations[k].version >
               d.messages[d.evaluations[k].message].expected + 1
        /\ d.evaluations[k].version <= d.version
        /\ d.evaluations[k].version \in Nat
    BY <1>2, Zenon DEF EvidenceOK
  <2>2. d.evaluations[k].version <= d.version + 1
    BY <1>2, <2>1
  <2> QED
    BY <1>4, <1>9, <2>1, <2>2, Zenon
<1>11. \A k \in DOMAIN d.evaluations : Question(e, k) = Question(d, k)
  BY <1>1, <1>9, Zenon DEF Question
<1>12. \A k, l \in DOMAIN e.evaluations : k < l =>
           /\ e.evaluations[k].message # e.evaluations[l].message
           /\ e.evaluations[k].accepted => Question(e, k) # Question(e, l)
  <2>1. \A k, l \in DOMAIN d.evaluations : k < l =>
            /\ d.evaluations[k].message # d.evaluations[l].message
            /\ d.evaluations[k].accepted => Question(d, k) # Question(d, l)
    BY Zenon DEF EvidenceOK
  <2> QED
    BY <1>1, <1>11, <2>1
<1>13. \A q \in DOMAIN e.questions : q < Len(e.questions) =>
           \E k \in DOMAIN e.evaluations :
               /\ e.evaluations[k].accepted
               /\ Question(e, k) = q
               /\ e.evaluations[k].version < e.questions[q + 1]
  BY <1>1, <1>11, ZenonT(30) DEF EvidenceOK
<1> QED
  BY <1>5, <1>7, <1>8, <1>10, <1>12, <1>13, Zenon DEF EvidenceOK, e

(* An admitted answer leaves rows that take its evaluation. *)
LEMMA AnswerIsEvaluable ==
    ASSUME NEW d \in Dialogue, EvidenceOK(d), EvidenceOK(Answer(d)), ~Ready(d),
           d.questions # <<>>, AcceptedCount(d) # Len(d.questions)
    PROVE  TakesEvaluation(Answer(d), Len(d.messages) + 1)
<1> DEFINE e == Answer(d)
           m == Len(d.messages) + 1
<1>1. /\ e.version = d.version + 1
      /\ e.questions = d.questions /\ e.evaluations = d.evaluations
      /\ Len(e.messages) = m /\ DOMAIN e.messages = 1..m
      /\ \A k \in 1..Len(d.messages) : e.messages[k] = d.messages[k]
      /\ e.messages[m].question = Len(d.questions)
      /\ e.messages[m].expected = d.version
  BY AnswerRows, Zenon
<1>2. /\ d.version \in Nat /\ Len(d.messages) \in Nat
      /\ DOMAIN d.messages = 1..Len(d.messages)
  BY RowTypes, Zenon
<1>3. e \in Dialogue
  BY DialogueType, Zenon
<1>4. \A k \in DOMAIN d.evaluations :
          d.evaluations[k].message \in 1..Len(d.messages)
  BY <1>2, Zenon DEF EvidenceOK
<1>5. EvidenceOK(e)
  BY Zenon
<1> HIDE DEF e
<1>6. \A k \in DOMAIN d.evaluations : Question(e, k) = Question(d, k)
  BY <1>1, <1>4, Zenon DEF Question
<1>7. AcceptedQuestions(e) = AcceptedQuestions(d)
  BY <1>1, <1>6, Zenon DEF AcceptedQuestions
<1>8. ~Ready(e) /\ AcceptedCount(e) # Len(e.questions)
  BY <1>1, <1>7, Zenon DEF Ready, AcceptedCount
<1>9. /\ m \in DOMAIN e.messages /\ e.messages # <<>>
      /\ e.messages[m].expected < e.version
      /\ \A k \in DOMAIN e.evaluations : e.evaluations[k].message # m
  <2>1. m \in DOMAIN e.messages /\ d.version < d.version + 1
    BY <1>1, <1>2
  <2>2. e.messages # <<>>
    <3>1. DOMAIN <<>> = {}
      OBVIOUS
    <3> QED
      BY <2>1, <3>1, Zenon
  <2>3. \A k \in 1..Len(d.messages) : k # m
    BY <1>2
  <2> QED
    BY <1>1, <1>4, <2>1, <2>2, <2>3, Zenon
<1>10. \A b \in BOOLEAN : EvidenceOK(Evaluate(e, m, b))
  BY <1>1, <1>3, <1>5, <1>8, <1>9, EvaluationFits, Zenon
<1> QED
  BY <1>1, <1>8, <1>9, <1>10, Zenon DEF TakesEvaluation, e

(* After an accepted answer every question is accepted, so unless that was *)
(* the last required one, the next question fits.                          *)
LEMMA AcceptedAnswerTakesQuestion ==
    ASSUME NEW d \in Dialogue, NEW m \in Nat, NEW e, e = Evaluate(d, m, TRUE),
           EvidenceOK(e), d.messages[m].question = Len(d.questions)
    PROVE  /\ Len(e.questions) = AcceptedCount(e)
           /\ ~Ready(e) => TakesQuestion(e)
<1> DEFINE K == Len(d.evaluations) + 1
<1>1. /\ e.questions = d.questions /\ e.messages = d.messages
      /\ DOMAIN e.evaluations = 1..K
      /\ e.evaluations[K].message = m /\ e.evaluations[K].accepted
  <2>1. e.questions = d.questions /\ e.messages = d.messages
    BY EvaluateRows, ZenonT(30)
  <2>2. DOMAIN e.evaluations = 1..K
    BY EvaluateRows, Zenon
  <2>3. e.evaluations[K].message = m
    BY EvaluateRows, ZenonT(30)
  <2>4. e.evaluations[K].accepted
    BY EvaluateRows, ZenonT(30)
  <2> QED
    BY <2>1, <2>2, <2>3, <2>4, Zenon
<1>2. K \in 1..K
  <2>1. Len(d.evaluations) \in Nat
    BY RowTypes, Zenon
  <2> QED
    BY <2>1
<1>3. e \in Dialogue
  BY DialogueType, Zenon
<1> HIDE DEF K
<1>4. Len(e.questions) \in AcceptedQuestions(e)
  <2>1. Question(e, K) = Len(e.questions)
    BY <1>1, Zenon DEF Question
  <2> QED
    BY <1>1, <1>2, <2>1, Zenon DEF AcceptedQuestions
<1>5. Len(e.questions) = AcceptedCount(e)
  BY <1>3, <1>4, CountOfAccepted, Zenon
<1>6. ~Ready(e) => TakesQuestion(e)
  BY <1>3, <1>5, NextQuestionFits, Zenon DEF TakesQuestion
<1> QED
  BY <1>5, <1>6, Zenon

(* The rows of an attempt nothing was written to are valid, and take the   *)
(* first question.                                                         *)
LEMMA FirstQuestionFits ==
    ASSUME NEW d \in Dialogue, d.questions = <<>>, d.messages = <<>>,
           d.evaluations = <<>>
    PROVE  EvidenceOK(d) /\ TakesQuestion(d)
<1>1. RequiredQuestions \in Nat \ {0}
  BY PolicyAssumption, Zenon
<1>2. Len(<<>>) = 0 /\ DOMAIN <<>> = {}
  OBVIOUS
<1>3. EvidenceOK(d)
  <2>1. 0 <= RequiredQuestions
    BY <1>1
  <2> QED
    BY <1>2, <2>1, Zenon DEF EvidenceOK
<1>4. Len(d.questions) = AcceptedCount(d)
  BY <1>2, <1>3, CountOfAccepted, Zenon
<1>5. ~Ready(d)
  BY <1>1, <1>2, <1>4, Zenon DEF Ready
<1> QED
  BY <1>3, <1>4, <1>5, NextQuestionFits, Zenon DEF TakesQuestion

-----------------------------------------------------------------------------
(* Counting answers *)

LEMMA CountsAreNumbers ==
    ASSUME NEW d \in Dialogue, NEW q
    PROVE  /\ IsFiniteSet(Answers(d, q)) /\ Cardinality(Answers(d, q)) \in Nat
           /\ IsFiniteSet(Evaluated(d, q))
           /\ Cardinality(Evaluated(d, q)) \in Nat
<1>1. /\ Len(d.messages) \in Nat /\ DOMAIN d.messages = 1..Len(d.messages)
      /\ Len(d.evaluations) \in Nat
      /\ DOMAIN d.evaluations = 1..Len(d.evaluations)
  BY RowTypes, Zenon
<1>2. \A k \in Nat : IsFiniteSet(1..k)
  <2>1. \A k \in Nat : 1 \in Int /\ k \in Int
    OBVIOUS
  <2> QED
    BY <2>1, FS_Interval, Zenon
<1>3. /\ Answers(d, q) \in SUBSET (1..Len(d.messages))
      /\ Evaluated(d, q) \in SUBSET (1..Len(d.evaluations))
  BY <1>1, Zenon DEF Answers, Evaluated
<1>4. IsFiniteSet(Answers(d, q)) /\ IsFiniteSet(Evaluated(d, q))
  BY <1>1, <1>2, <1>3, FS_Subset, Zenon
<1> QED
  BY <1>4, FS_CardinalityType, Zenon

LEMMA AskCounts ==
    ASSUME NEW d \in Dialogue, EvidenceOK(d)
    PROVE  LET e == Ask(d)
               q == Len(d.questions) + 1 IN
           /\ Cardinality(Answers(e, q)) = 0
           /\ Cardinality(Evaluated(e, q)) = 0
           /\ AcceptedQuestions(e) = AcceptedQuestions(d)
<1> DEFINE e == Ask(d)
           q == Len(d.questions) + 1
<1>1. e.messages = d.messages /\ e.evaluations = d.evaluations
  BY AskRows, Zenon
<1>2. Len(d.questions) \in Nat /\ DOMAIN d.questions = 1..Len(d.questions)
  BY RowTypes, Zenon
<1>3. q \notin DOMAIN d.questions
  BY <1>2
<1> HIDE DEF e, q
<1>4. \A k : Question(e, k) = Question(d, k)
  BY <1>1, Zenon DEF Question
<1>5. Answers(e, q) = {}
  <2>1. \A k \in DOMAIN d.messages :
            d.messages[k].question \in DOMAIN d.questions
    BY Zenon DEF EvidenceOK
  <2> QED
    BY <1>1, <1>3, <2>1, Zenon DEF Answers
<1>6. Evaluated(e, q) = {}
  <2>1. \A k \in DOMAIN d.evaluations : Question(d, k) \in DOMAIN d.questions
    BY Zenon DEF EvidenceOK, Question
  <2> QED
    BY <1>1, <1>3, <1>4, <2>1, Zenon DEF Evaluated
<1>7. AcceptedQuestions(e) = AcceptedQuestions(d)
  BY <1>1, <1>4, Zenon DEF AcceptedQuestions
<1> QED
  BY <1>5, <1>6, <1>7, FS_EmptySet, Zenon DEF e, q

LEMMA AnswerCounts ==
    ASSUME NEW d \in Dialogue, EvidenceOK(d)
    PROVE  LET e == Answer(d)
               q == Len(d.questions) IN
           /\ Cardinality(Answers(e, q)) = Cardinality(Answers(d, q)) + 1
           /\ Cardinality(Evaluated(e, q)) = Cardinality(Evaluated(d, q))
           /\ AcceptedQuestions(e) = AcceptedQuestions(d)
<1> DEFINE e == Answer(d)
           q == Len(d.questions)
           m == Len(d.messages) + 1
<1>1. /\ e.evaluations = d.evaluations /\ DOMAIN e.messages = 1..m
      /\ \A k \in 1..Len(d.messages) : e.messages[k] = d.messages[k]
      /\ e.messages[m].question = q
  BY AnswerRows, Zenon
<1>2. Len(d.messages) \in Nat /\ DOMAIN d.messages = 1..Len(d.messages)
  BY RowTypes, Zenon
<1>3. \A k \in DOMAIN d.evaluations :
          d.evaluations[k].message \in 1..Len(d.messages)
  BY <1>2, Zenon DEF EvidenceOK
<1> HIDE DEF e, q
<1>4. \A k \in DOMAIN d.evaluations : Question(e, k) = Question(d, k)
  BY <1>1, <1>3, Zenon DEF Question
<1>5. Evaluated(e, q) = Evaluated(d, q)
  BY <1>1, <1>4, Zenon DEF Evaluated
<1>6. AcceptedQuestions(e) = AcceptedQuestions(d)
  BY <1>1, <1>4, Zenon DEF AcceptedQuestions
<1>7. 1..m = 1..Len(d.messages) \cup {m} /\ m \notin 1..Len(d.messages)
  BY <1>2
<1> HIDE DEF m
<1>8. Answers(e, q) = Answers(d, q) \cup {m} /\ m \notin Answers(d, q)
  BY <1>1, <1>2, <1>7, Zenon DEF Answers
<1>9. IsFiniteSet(Answers(d, q))
  BY CountsAreNumbers, Zenon
<1>10. Cardinality(Answers(e, q)) = Cardinality(Answers(d, q)) + 1
  BY <1>8, <1>9, FS_AddElement, Zenon
<1> QED
  BY <1>5, <1>6, <1>10, Zenon DEF e, q

LEMMA EvaluateCounts ==
    ASSUME NEW d \in Dialogue, NEW m \in Nat, NEW b \in BOOLEAN,
           d.messages[m].question = Len(d.questions)
    PROVE  LET e == Evaluate(d, m, b)
               q == Len(d.questions) IN
           /\ Answers(e, q) = Answers(d, q)
           /\ Cardinality(Evaluated(e, q)) = Cardinality(Evaluated(d, q)) + 1
           /\ ~b => AcceptedQuestions(e) = AcceptedQuestions(d)
<1> DEFINE e == Evaluate(d, m, b)
           q == Len(d.questions)
           K == Len(d.evaluations) + 1
<1>1. /\ e.messages = d.messages /\ DOMAIN e.evaluations = 1..K
      /\ \A k \in 1..Len(d.evaluations) : e.evaluations[k] = d.evaluations[k]
      /\ e.evaluations[K].message = m /\ e.evaluations[K].accepted = b
  <2>1. e.messages = d.messages /\ DOMAIN e.evaluations = 1..K
    BY EvaluateRows, SMTT(30)
  <2>2. \A k \in 1..Len(d.evaluations) : e.evaluations[k] = d.evaluations[k]
    BY EvaluateRows, SMTT(30)
  <2>3. e.evaluations[K].message = m
    BY EvaluateRows, SMTT(30)
  <2>4. e.evaluations[K].accepted = b
    BY EvaluateRows, SMTT(30)
  <2> QED
    BY <2>1, <2>2, <2>3, <2>4, Zenon
<1>2. /\ Len(d.evaluations) \in Nat
      /\ DOMAIN d.evaluations = 1..Len(d.evaluations)
  BY RowTypes, Zenon
<1>3. q = Len(d.questions)
  BY Zenon
<1> HIDE DEF e, q
<1>4. /\ \A k \in 1..Len(d.evaluations) : Question(e, k) = Question(d, k)
      /\ Question(e, K) = q
  BY <1>1, <1>3, Zenon DEF Question
<1>5. Answers(e, q) = Answers(d, q)
  BY <1>1, Zenon DEF Answers
<1>6. /\ 1..K = 1..Len(d.evaluations) \cup {K}
      /\ K \notin 1..Len(d.evaluations)
  BY <1>2
<1> HIDE DEF K
<1>7. /\ Evaluated(e, q) = Evaluated(d, q) \cup {K}
      /\ K \notin Evaluated(d, q)
  BY <1>1, <1>2, <1>4, <1>6, Zenon DEF Evaluated
<1>8. IsFiniteSet(Evaluated(d, q))
  BY CountsAreNumbers, Zenon
<1>9. Cardinality(Evaluated(e, q)) = Cardinality(Evaluated(d, q)) + 1
  BY <1>7, <1>8, FS_AddElement, Zenon
<1>10. ASSUME ~b PROVE AcceptedQuestions(e) = AcceptedQuestions(d)
  <2>1. {k \in DOMAIN e.evaluations : e.evaluations[k].accepted} =
            {k \in DOMAIN d.evaluations : d.evaluations[k].accepted}
    BY <1>1, <1>2, <1>6, <1>10, Zenon
  <2>2. \A k \in DOMAIN d.evaluations : Question(e, k) = Question(d, k)
    BY <1>2, <1>4, Zenon
  <2> QED
    BY <2>1, <2>2, Zenon DEF AcceptedQuestions
<1> QED
  BY <1>5, <1>9, <1>10, Zenon DEF e, q

-----------------------------------------------------------------------------
(* The limits on answers *)

PerQuestion == 1 + AllowedFollowUps
(* Every question before the current one used up at most its share. *)
WithinTurns(d) ==
    LET q == Len(d.questions)
        a == Cardinality(Answers(d, q)) IN
    /\ a <= PerQuestion
    /\ q # 0 => Len(d.messages) <= (q - 1) * PerQuestion + a
(* The student's turn: the current question is open, what was answered is  *)
(* evaluated, and a follow-up is left.                                     *)
AwaitsAnswer(d) ==
    LET q == Len(d.questions)
        a == Cardinality(Answers(d, q)) IN
    /\ q # 0 /\ ~Ready(d) /\ AcceptedCount(d) # q
    /\ a = Cardinality(Evaluated(d, q)) /\ a < PerQuestion
(* The worker's turn: one answer to the current question is not evaluated. *)
AwaitsVerdict(d) ==
    LET q == Len(d.questions) IN
    /\ AcceptedCount(d) # q
    /\ Cardinality(Answers(d, q)) = Cardinality(Evaluated(d, q)) + 1

LEMMA PerQuestionType == PerQuestion \in Nat /\ PerQuestion >= 1
BY PolicyAssumption DEF PerQuestion

(* (q - 1) * c + c = q * c. *)
LEMMA NextShare ==
    ASSUME NEW q \in Nat, q # 0, NEW c \in Nat
    PROVE  /\ (q - 1) * c \in Nat /\ q * c \in Nat
           /\ (q - 1) * c + c = q * c
<1>1. PICK r \in Nat : q = r + 1
  <2>1. q - 1 \in Nat /\ q = (q - 1) + 1
    OBVIOUS
  <2> QED
    BY <2>1, Zenon
<1>2. r * c \in Nat /\ (r + 1) * c = r * c + c
  OBVIOUS
<1>3. q - 1 = r
  BY <1>1
<1>4. (q - 1) * c = r * c /\ q * c = r * c + c
  BY <1>1, <1>2, <1>3, Zenon
<1> QED
  BY <1>2, <1>4

LEMMA EmptyTurns ==
    ASSUME NEW d \in Dialogue, d.questions = <<>>, d.messages = <<>>
    PROVE  WithinTurns(d)
<1>1. Answers(d, Len(d.questions)) = {} /\ Len(d.questions) = 0
  <2>1. DOMAIN <<>> = {} /\ Len(<<>>) = 0
    OBVIOUS
  <2> QED
    BY <2>1, Zenon DEF Answers
<1>2. Cardinality({}) = 0
  BY FS_EmptySet
<1>3. 0 <= PerQuestion
  BY PerQuestionType
<1> QED
  BY <1>1, <1>2, <1>3, Zenon DEF WithinTurns

LEMMA AskTurns ==
    ASSUME NEW d \in Dialogue, EvidenceOK(d), WithinTurns(d), ~Ready(d),
           Len(d.questions) = AcceptedCount(d)
    PROVE  WithinTurns(Ask(d)) /\ AwaitsAnswer(Ask(d))
<1> DEFINE q == Len(d.questions)
           a == Cardinality(Answers(d, q))
           t == Len(d.messages)
           e == Ask(d)
<1>1. /\ Len(e.questions) = q + 1 /\ e.messages = d.messages
      /\ Cardinality(Answers(e, q + 1)) = 0
      /\ Cardinality(Evaluated(e, q + 1)) = 0
      /\ AcceptedQuestions(e) = AcceptedQuestions(d)
  BY AskRows, AskCounts, Zenon
<1>2. q \in Nat /\ t \in Nat /\ a \in Nat
  BY RowTypes, CountsAreNumbers, Zenon
<1>3. a <= PerQuestion /\ (q # 0 => t <= (q - 1) * PerQuestion + a)
  BY Zenon DEF WithinTurns
<1>4. q = 0 => t = 0
  <2>1. ASSUME q = 0 PROVE DOMAIN d.messages = {}
    <3>1. DOMAIN d.questions = {}
      <4>1. DOMAIN d.questions = 1..q
        BY RowTypes, Zenon
      <4> QED
        BY <2>1, <4>1
    <3> QED
      BY <3>1, Zenon DEF EvidenceOK
  <2>2. DOMAIN d.messages = 1..t
    BY RowTypes, Zenon
  <2> QED
    BY <1>2, <2>1, <2>2, SMTT(30)
<1>5. AcceptedCount(e) = q /\ ~Ready(e)
  BY <1>1, Zenon DEF Ready, AcceptedCount
<1> HIDE DEF q, a, t, e
<1>6. q * PerQuestion \in Nat /\ t <= q * PerQuestion
  <2>1. CASE q = 0
    BY <1>4, <2>1, PerQuestionType
  <2>2. CASE q # 0
    <3>1. /\ (q - 1) * PerQuestion \in Nat /\ q * PerQuestion \in Nat
          /\ (q - 1) * PerQuestion + PerQuestion = q * PerQuestion
      BY <1>2, <2>2, PerQuestionType, NextShare, Zenon
    <3>2. PICK x \in Nat, y \in Nat :
              /\ x = (q - 1) * PerQuestion /\ y = q * PerQuestion
              /\ x + PerQuestion = y /\ t <= x + a
      BY <1>3, <2>2, <3>1, Zenon
    <3>3. t <= y
      BY <1>2, <1>3, <3>2, PerQuestionType
    <3> QED
      BY <3>2, <3>3, Zenon
  <2> QED
    BY <2>1, <2>2, Zenon
<1>7. /\ q + 1 # 0 /\ (q + 1) - 1 = q /\ q # q + 1
      /\ 0 <= PerQuestion /\ 0 < PerQuestion
  BY <1>2, PerQuestionType
<1>8. Len(e.messages) <= ((q + 1) - 1) * PerQuestion + 0
  <2>1. t <= q * PerQuestion + 0
    BY <1>2, <1>6
  <2> QED
    BY <1>1, <1>7, <2>1, Zenon DEF t
<1>9. WithinTurns(e)
  BY <1>1, <1>7, <1>8, Zenon DEF WithinTurns
<1>10. AwaitsAnswer(e)
  BY <1>1, <1>5, <1>7, Zenon DEF AwaitsAnswer
<1> QED
  BY <1>9, <1>10, Zenon DEF e

LEMMA AnswerTurns ==
    ASSUME NEW d \in Dialogue, EvidenceOK(d), WithinTurns(d),
           d.questions # <<>>, AcceptedCount(d) # Len(d.questions),
           Cardinality(Answers(d, Len(d.questions))) =
               Cardinality(Evaluated(d, Len(d.questions))),
           ~OutOfAnswers(d, Len(d.questions))
    PROVE  WithinTurns(Answer(d)) /\ AwaitsVerdict(Answer(d))
<1> DEFINE q == Len(d.questions)
           a == Cardinality(Answers(d, q))
           t == Len(d.messages)
           e == Answer(d)
<1>1. /\ e.questions = d.questions /\ Len(e.messages) = t + 1
      /\ Cardinality(Answers(e, q)) = a + 1
      /\ Cardinality(Evaluated(e, q)) = Cardinality(Evaluated(d, q))
      /\ AcceptedQuestions(e) = AcceptedQuestions(d)
  BY AnswerRows, AnswerCounts, Zenon
<1>2. q \in Nat /\ t \in Nat /\ a \in Nat
  BY RowTypes, CountsAreNumbers, Zenon
<1>3. q # 0
  <2>1. d.questions \in Seq(Nat)
    BY RowTypes, Zenon
  <2> QED
    BY <2>1
<1>4. t <= (q - 1) * PerQuestion + a
  BY <1>3, Zenon DEF WithinTurns
<1>5. ~(a >= PerQuestion)
  BY Zenon DEF OutOfAnswers, PerQuestion
<1>6. AwaitsVerdict(e)
  BY <1>1, Zenon DEF AwaitsVerdict, AcceptedCount
<1> HIDE DEF q, a, t, e
<1>7. /\ a + 1 <= PerQuestion
      /\ t + 1 <= (q - 1) * PerQuestion + (a + 1)
  <2>1. PICK x \in Nat : x = (q - 1) * PerQuestion
    BY <1>2, <1>3, PerQuestionType, NextShare, Zenon
  <2>2. a + 1 <= PerQuestion /\ t + 1 <= x + (a + 1)
    BY <1>2, <1>4, <1>5, <2>1, PerQuestionType, SMTT(30)
  <2> QED
    BY <2>1, <2>2, Zenon
<1>8. WithinTurns(e)
  BY <1>1, <1>7, Zenon DEF WithinTurns, q
<1> QED
  BY <1>6, <1>8, Zenon DEF e

LEMMA EvaluateTurns ==
    ASSUME NEW d \in Dialogue, NEW m \in Nat, NEW b \in BOOLEAN,
           d.messages[m].question = Len(d.questions), WithinTurns(d)
    PROVE  /\ WithinTurns(Evaluate(d, m, b))
           /\ (/\ ~b /\ ~Ready(d) /\ d.questions # <<>> /\ AwaitsVerdict(d)
               /\ ~OutOfAnswers(d, Len(d.questions))) =>
                  AwaitsAnswer(Evaluate(d, m, b))
<1> DEFINE q == Len(d.questions)
           e == Evaluate(d, m, b)
<1>1. /\ e.questions = d.questions /\ e.messages = d.messages
      /\ Answers(e, q) = Answers(d, q)
      /\ Cardinality(Evaluated(e, q)) = Cardinality(Evaluated(d, q)) + 1
      /\ ~b => AcceptedQuestions(e) = AcceptedQuestions(d)
  <2>1. e.questions = d.questions /\ e.messages = d.messages
    BY EvaluateRows
  <2>2. /\ Answers(e, q) = Answers(d, q)
        /\ Cardinality(Evaluated(e, q)) = Cardinality(Evaluated(d, q)) + 1
        /\ ~b => AcceptedQuestions(e) = AcceptedQuestions(d)
    BY EvaluateCounts, Zenon
  <2> QED
    BY <2>1, <2>2, Zenon
<1>2. WithinTurns(e)
  BY <1>1, Zenon DEF WithinTurns
<1>3. ASSUME ~b, ~Ready(d), d.questions # <<>>, AwaitsVerdict(d),
             ~OutOfAnswers(d, q)
      PROVE  AwaitsAnswer(e)
  <2>1. q # 0
    <3>1. d.questions \in Seq(Nat)
      BY RowTypes, Zenon
    <3> QED
      BY <1>3, <3>1
  <2>2. ~Ready(e) /\ AcceptedCount(e) # q
    BY <1>1, <1>3, Zenon DEF Ready, AcceptedCount, AwaitsVerdict
  <2>3. Cardinality(Answers(e, q)) = Cardinality(Evaluated(e, q))
    BY <1>1, <1>3, Zenon DEF AwaitsVerdict
  <2>4. Cardinality(Answers(d, q)) < PerQuestion
    <3>1. Cardinality(Answers(d, q)) \in Nat
      BY CountsAreNumbers, Zenon
    <3>2. ~(Cardinality(Answers(d, q)) >= PerQuestion)
      BY <1>3, Zenon DEF OutOfAnswers, PerQuestion
    <3> QED
      BY <3>1, <3>2, PerQuestionType
  <2> QED
    BY <1>1, <2>1, <2>2, <2>3, <2>4, Zenon DEF AwaitsAnswer
<1> QED
  BY <1>2, <1>3, Zenon

(* In its turn the student is refused for the turn limit alone, and that   *)
(* limit is not reached before every question had its share.               *)
LEMMA TurnLimitOnly ==
    ASSUME NEW d \in Dialogue, EvidenceOK(d), WithinTurns(d), AwaitsAnswer(d)
    PROVE  /\ Len(d.messages) < Len(d.questions) * PerQuestion
           /\ d.questions # <<>>
           /\ OutOfAnswers(d, Len(d.questions)) =>
                  Len(d.messages) >= MaxTurns
           /\ EvidenceOK(Answer(d))
<1> DEFINE q == Len(d.questions)
           a == Cardinality(Answers(d, q))
           t == Len(d.messages)
<1>1. q \in Nat /\ t \in Nat /\ a \in Nat
  BY RowTypes, CountsAreNumbers, Zenon
<1>2. q # 0 /\ a < PerQuestion /\ t <= (q - 1) * PerQuestion + a
  BY Zenon DEF WithinTurns, AwaitsAnswer
<1>3. d.questions # <<>>
  <2>1. Len(<<>>) = 0
    BY Zenon
  <2> QED
    BY <1>2, <2>1, Zenon
<1>4. OutOfAnswers(d, q) => t >= MaxTurns
  <2>1. ~(a >= PerQuestion)
    BY <1>1, <1>2, PerQuestionType
  <2> QED
    BY <2>1, Zenon DEF OutOfAnswers, PerQuestion
<1>5. t < q * PerQuestion
  <2> HIDE DEF q, a, t
  <2>0. /\ (q - 1) * PerQuestion \in Nat /\ q * PerQuestion \in Nat
        /\ (q - 1) * PerQuestion + PerQuestion = q * PerQuestion
    BY <1>1, <1>2, PerQuestionType, NextShare, Zenon
  <2>1. PICK x \in Nat, y \in Nat :
            /\ x = (q - 1) * PerQuestion /\ y = q * PerQuestion
            /\ x + PerQuestion = y
    BY <2>0, Zenon
  <2>2. t < y
    BY <1>1, <1>2, <2>1, PerQuestionType, SMTT(30)
  <2> QED
    BY <2>1, <2>2, Zenon
<1>6. EvidenceOK(Answer(d))
  BY <1>2, AnswerFits, Zenon
<1> QED
  BY <1>3, <1>4, <1>5, <1>6, Zenon
=============================================================================
