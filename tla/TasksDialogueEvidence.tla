----------------------- MODULE TasksDialogueEvidence -----------------------
(***************************************************************************)
(* The evidence of a dialogue and the jobs that work on it: every job that *)
(* may still run fits its attempt, what a worker read under its lease is   *)
(* what it commits on, between jobs only the turn limit can keep the       *)
(* student from answering, and the dialogue as a whole is the interview in *)
(* strict turns of module Interview.  For any policy and any number of     *)
(* workers.                                                                *)
(***************************************************************************)
EXTENDS TasksDialogueProofs

-----------------------------------------------------------------------------
(* The inductive invariant *)

(* Attempts not begun have neither rows nor a job. *)
Unbegun(n) ==
    /\ n > last => ~dlg[n].bound
    /\ ~dlg[n].bound => dlg[n] = NoDialogue /\ job[n].status = "none"
(* The rows of the open attempt take the work of its job. *)
Fits(n) ==
    (Unsettled(n) /\ ~Superseded(n)) =>
        /\ dlg[n].bound /\ EvidenceOK(dlg[n])
        /\ job[n].stage = "question" => TakesQuestion(dlg[n])
        /\ job[n].stage = "evaluation" =>
               TakesEvaluation(dlg[n], job[n].message)
(* The answers of an open attempt, and whose turn it is. *)
Turns(n) ==
    (dlg[n].bound /\ ~Superseded(n)) =>
        /\ EvidenceOK(dlg[n]) /\ WithinTurns(dlg[n])
        /\ Unsettled(n) \/ AwaitsAnswer(dlg[n])
        /\ Unsettled(n) =>
               \/ job[n].stage = "question"
               \/ job[n].stage = "evaluation" /\ AwaitsVerdict(dlg[n])
(* A worker that owns the running job read what is still there, whatever   *)
(* happened to the lease, the deadline and the attempt since.              *)
Owns(p, n) == job[n].status = "running" /\ job[n].owner = p
ReadIsCurrent(p, n) ==
    (worker[p].pc = "thinking" /\ worker[p].attempt = n /\ Owns(p, n)) =>
        /\ worker[p].stage = job[n].stage
        /\ worker[p].ordinal = Len(dlg[n].questions) + 1
WorkInv ==
    /\ \A n \in Numbers : Unbegun(n) /\ Fits(n) /\ Turns(n)
    /\ \A p \in Workers, n \in Numbers : ReadIsCurrent(p, n)

LEMMA WorkInvSuffices ==
    ASSUME Inv, WorkInv
    PROVE  JobFitsEvidence /\ LeaseKeepsReadFresh /\ OnlyTurnsRunOut
<1>1. JobFitsEvidence
  <2> SUFFICES ASSUME NEW n \in Numbers, Unsettled(n), ~Superseded(n)
               PROVE  /\ Loadable(n) /\ decision[n] = "none"
                      /\ overrides[n] = <<>>
                      /\ job[n].stage = "question" => MayAsk(n, dlg[n])
                      /\ job[n].stage = "evaluation" =>
                             \A accepted \in BOOLEAN :
                                 MayEvaluate(n, dlg[n], job[n].message,
                                             accepted)
    BY Zenon DEF JobFitsEvidence
  <2>1. Fits(n) /\ AttemptRows(n) /\ n = last /\ ~Closed(n)
    BY Zenon DEF WorkInv, Inv, Rows, Superseded
  <2>2. decision[n] = "none" /\ overrides[n] = <<>>
    BY <2>1, Zenon DEF AttemptRows, Closed
  <2>3. Loadable(n)
    BY <2>1, Zenon DEF Fits, Loadable
  <2>4. job[n].stage = "question" => MayAsk(n, dlg[n])
    BY <2>1, Zenon DEF Fits, TakesQuestion, MayAsk
  <2>5. job[n].stage = "evaluation" =>
            \A accepted \in BOOLEAN :
                MayEvaluate(n, dlg[n], job[n].message, accepted)
    BY <2>1, Zenon DEF Fits, TakesEvaluation, MayEvaluate
  <2> QED
    BY <2>2, <2>3, <2>4, <2>5, Zenon
<1>2. LeaseKeepsReadFresh
  <2> SUFFICES ASSUME NEW p \in Workers, NEW n, n = worker[p].attempt,
                      worker[p].pc = "thinking", Leased(p)
               PROVE  /\ worker[p].stage = job[n].stage
                      /\ worker[p].ordinal = Len(dlg[n].questions) + 1
    BY Zenon DEF LeaseKeepsReadFresh
  <2>1. n \in Numbers
    BY Zenon DEF Inv, WorkerRefs
  <2>2. Owns(p, n) /\ ReadIsCurrent(p, n)
    BY <2>1, Zenon DEF Leased, Holds, Owns, WorkInv
  <2> QED
    BY <2>2, Zenon DEF ReadIsCurrent
<1>3. OnlyTurnsRunOut
  <2> SUFFICES ASSUME StudentsTurn, NEW d, d = dlg[last]
               PROVE  /\ MayAnswer(last, d) \/ Len(d.messages) >= MaxTurns
                      /\ Len(d.messages) <
                             Len(d.questions) * (1 + AllowedFollowUps)
    BY Zenon DEF OnlyTurnsRunOut
  <2>1. last \in Numbers
    BY DEF StudentsTurn, Inv, TypeOK, Numbers
  <2>2. Turns(last) /\ d \in Dialogue
    BY <2>1, Zenon DEF WorkInv, Inv, TypeOK
  <2>3. EvidenceOK(d) /\ WithinTurns(d) /\ AwaitsAnswer(d)
    BY <2>2, Zenon DEF Turns, StudentsTurn, Loadable, Superseded
  <2>4. /\ Len(d.messages) < Len(d.questions) * PerQuestion
        /\ d.questions # <<>> /\ EvidenceOK(Answer(d))
        /\ OutOfAnswers(d, Len(d.questions)) => Len(d.messages) >= MaxTurns
    BY <2>2, <2>3, TurnLimitOnly, Zenon
  <2>5. MayAnswer(last, d) \/ Len(d.messages) >= MaxTurns
    BY <2>3, <2>4, Zenon DEF MayAnswer, AwaitsAnswer, StudentsTurn
  <2> QED
    BY <2>4, <2>5, Zenon DEF PerQuestion
<1> QED
  BY <1>1, <1>2, <1>3

(* How most steps leave attempt n: its job does the same work on the same  *)
(* rows, or it is closed with the questions it has.                        *)
SameWork(n) ==
    /\ job'[n].stage = job[n].stage /\ job'[n].message = job[n].message
    /\ Unsettled(n)' <=> Unsettled(n)
    /\ job[n].status = "none" => job'[n].status = "none"
    /\ job'[n].status = "running" =>
           job[n].status = "running" /\ job'[n].owner = job[n].owner
Keeps(n) ==
    /\ SameWork(n) /\ dlg'[n] = dlg[n]
    /\ Superseded(n) => Superseded(n)'
Closes(n) ==
    /\ SameWork(n) /\ Superseded(n)'
    /\ dlg[n].bound /\ dlg'[n].bound /\ SameEvidence(dlg[n], dlg'[n])
Quiet(n) == Keeps(n) \/ Closes(n)
QuietRows == last' = last /\ \A n \in Numbers : Quiet(n)
SameReads == \A p \in Workers :
    worker'[p] = worker[p] \/ worker'[p].pc # "thinking"
QuietStep == QuietRows /\ SameReads

LEMMA UnbegunKept ==
    ASSUME Inv, last' \in Nat, last <= last', NEW n \in Numbers, Unbegun(n),
           \/ dlg'[n].bound /\ n <= last'
           \/ /\ dlg'[n] = dlg[n]
              /\ job[n].status = "none" => job'[n].status = "none"
    PROVE  Unbegun(n)'
<1>1. n > last' => n > last
  BY DEF Inv, TypeOK, Numbers
<1>2. n <= last' => ~(n > last')
  BY DEF Numbers
<1> QED
  BY <1>1, <1>2, Zenon DEF Unbegun

LEMMA QuietAttempt ==
    ASSUME Inv, last' = last, NEW n \in Numbers, Unbegun(n), Fits(n), Turns(n),
           Quiet(n)
    PROVE  Unbegun(n)' /\ Fits(n)' /\ Turns(n)'
<1>1. last \in Nat /\ last <= last
  BY DEF Inv, TypeOK
<1>2. dlg[n].bound => n <= last
  BY <1>1 DEF Unbegun, Numbers
<1>3. CASE Keeps(n)
  <2>1. Unbegun(n)'
    BY <1>1, <1>3, UnbegunKept, Zenon DEF Keeps, SameWork
  <2>2. Fits(n)'
    BY <1>3, Zenon DEF Keeps, SameWork, Fits
  <2>3. Turns(n)'
    BY <1>3, Zenon DEF Keeps, SameWork, Turns
  <2> QED
    BY <2>1, <2>2, <2>3
<1>4. CASE Closes(n)
  <2>1. Unbegun(n)'
    BY <1>1, <1>2, <1>4, UnbegunKept, Zenon DEF Closes
  <2>2. Fits(n)' /\ Turns(n)'
    BY <1>4, Zenon DEF Closes, Fits, Turns
  <2> QED
    BY <2>1, <2>2
<1> QED
  BY <1>3, <1>4, Zenon DEF Quiet

LEMMA QuietRead ==
    ASSUME NEW p \in Workers, NEW n \in Numbers, ReadIsCurrent(p, n), Quiet(n),
           worker'[p] = worker[p] \/ worker'[p].pc # "thinking"
    PROVE  ReadIsCurrent(p, n)'
<1>1. CASE Keeps(n)
  BY <1>1, Zenon DEF Keeps, SameWork, ReadIsCurrent, Owns
<1>2. CASE Closes(n)
  BY <1>2, Zenon DEF Closes, SameEvidence, SameWork, ReadIsCurrent, Owns
<1> QED
  BY <1>1, <1>2, Zenon DEF Quiet

LEMMA QuietWorks == ASSUME Inv, WorkInv, QuietStep PROVE WorkInv'
<1>1. \A n \in Numbers : Unbegun(n)' /\ Fits(n)' /\ Turns(n)'
  BY QuietAttempt, Zenon DEF WorkInv, QuietStep, QuietRows
<1>2. \A p \in Workers, n \in Numbers : ReadIsCurrent(p, n)'
  BY QuietRead, Zenon DEF WorkInv, QuietStep, QuietRows, SameReads
<1> QED
  BY <1>1, <1>2, Zenon DEF WorkInv
-----------------------------------------------------------------------------
(* Steps that are quiet for every attempt *)

LEMMA OtherAttempt ==
    ASSUME last' = last, NEW k \in Numbers, k # last,
           dlg'[k] = dlg[k], job'[k] = job[k]
    PROVE  Quiet(k)
BY Zenon DEF Quiet, Keeps, SameWork, Superseded, Unsettled

(* The parent's and the student's steps on other requirements, and the     *)
(* steps of a worker outside the database.                                 *)
LEMMA SameRows ==
    ASSUME UNCHANGED <<last, status, dlg, job>>,
           IsTerminal(occ) => IsTerminal(occ')
    PROVE  QuietRows
BY Zenon DEF QuietRows, Quiet, Keeps, SameWork, Superseded, Closed, Unsettled

LEMMA SameWorkers == ASSUME worker' = worker PROVE SameReads
BY Zenon DEF SameReads

LEMMA EndJobFields ==
    ASSUME NEW j \in Job, NEW s
    PROVE  /\ EndJob(j, s).status = s /\ EndJob(j, s).owner = None
           /\ EndJob(j, s).stage = j.stage /\ EndJob(j, s).message = j.message
BY Zenon DEF EndJob, Job

(* A move of one job in the queue. *)
LEMMA JobMoves ==
    ASSUME Inv, UNCHANGED <<requirementVars, evidenceVars>>,
           NEW n \in Numbers, NEW j, job' = [job EXCEPT ![n] = j],
           j.stage = job[n].stage, j.message = job[n].message,
           j.status \in {"queued", "running", "failed"} <=> Unsettled(n),
           job[n].status = "none" => j.status = "none",
           j.status = "running" =>
               job[n].status = "running" /\ j.owner = job[n].owner
    PROVE  QuietRows
<1>1. /\ last' = last /\ dlg' = dlg /\ status' = status /\ occ' = occ
  BY Zenon DEF requirementVars, evidenceVars
<1>2. \A k \in Numbers : job'[k] = IF k = n THEN j ELSE job[k]
  BY Zenon DEF Inv, TypeOK
<1>3. \A k \in Numbers : SameWork(k)
  <2> SUFFICES ASSUME NEW k \in Numbers PROVE SameWork(k)
    BY Zenon
  <2>1. CASE k = n
    <3>1. job'[k] = j
      BY <1>2, <2>1, Zenon
    <3> QED
      BY <2>1, <3>1, Zenon DEF SameWork, Unsettled
  <2>2. CASE k # n
    <3>1. job'[k] = job[k]
      BY <1>2, <2>2, Zenon
    <3> QED
      BY <3>1, Zenon DEF SameWork, Unsettled
  <2> QED
    BY <2>1, <2>2
<1> QED
  BY <1>1, <1>3, Zenon DEF QuietRows, Quiet, Keeps, Superseded, Closed

LEMMA SettlingIsQuiet ==
    ASSUME Inv, NEW n \in Numbers,
           \/ CleanUp(n) \/ Requeue(n) \/ (FailLeased(n) /\ Unsettled(n))
           \/ Exhaust(n)
    PROVE  QuietRows
<1>1. job[n] \in Job /\ dlg[n] \in Dialogue
  BY Zenon DEF Inv, TypeOK
<1>2. \A s : /\ EndJob(job[n], s).status = s
             /\ EndJob(job[n], s).stage = job[n].stage
             /\ EndJob(job[n], s).message = job[n].message
  BY <1>1, EndJobFields, Zenon
<1>3. ASSUME NEW s \in {"queued", "failed"}, Unsettled(n),
             job' = [job EXCEPT ![n] = EndJob(job[n], s)],
             UNCHANGED <<requirementVars, evidenceVars>>
      PROVE  QuietRows
  <2>1. PICK j : j = EndJob(job[n], s)
    BY Zenon
  <2>2. /\ j.status = s /\ j.stage = job[n].stage
        /\ j.message = job[n].message
    BY <1>2, <2>1, Zenon
  <2>3. /\ j.status \in {"queued", "running", "failed"}
        /\ j.status # "running" /\ job[n].status # "none"
    BY <1>3, <2>2, Zenon DEF Unsettled
  <2>4. job' = [job EXCEPT ![n] = j]
    BY <1>3, <2>1, Zenon
  <2> QED
    BY <1>3, <2>2, <2>3, <2>4, JobMoves, Zenon
<1>4. CASE CleanUp(n) \/ Requeue(n)
  BY <1>3, <1>4, Zenon DEF CleanUp, Requeue, Unsettled
<1>5. CASE FailLeased(n) /\ Unsettled(n)
  BY <1>3, <1>5, Zenon DEF FailLeased
<1>6. CASE Exhaust(n)
  <2>1. /\ last' = last /\ n = last /\ dlg[n].bound /\ Unsettled(n)
        /\ job' = [job EXCEPT ![n] = EndJob(job[n], "failed")]
        /\ status' = [status EXCEPT ![n] = "exhausted"]
        /\ dlg' = [dlg EXCEPT ![n].version = @ + 1]
    BY <1>6, Zenon DEF Exhaust, BudgetSpent, Loadable
  <2>2. \A k \in Numbers : k # n => job'[k] = job[k] /\ dlg'[k] = dlg[k]
    BY <2>1, Zenon DEF Inv, TypeOK
  <2>3. /\ job'[n] = EndJob(job[n], "failed") /\ status'[n] = "exhausted"
        /\ dlg'[n] = [dlg[n] EXCEPT !.version = @ + 1]
    BY <2>1, Zenon DEF Inv, TypeOK
  <2>4. dlg'[n].bound = dlg[n].bound /\ SameEvidence(dlg[n], dlg'[n])
    BY <1>1, <2>3, Zenon DEF Dialogue, SameEvidence
  <2>5. SameWork(n)
    <3>1. /\ job'[n].status = "failed" /\ job'[n].stage = job[n].stage
          /\ job'[n].message = job[n].message
      BY <1>2, <2>3, Zenon
    <3>2. job[n].status # "none"
      BY <2>1, Zenon DEF Unsettled
    <3>3. Unsettled(n)'
      BY <3>1, Zenon DEF Unsettled
    <3> QED
      BY <2>1, <3>1, <3>2, <3>3, Zenon DEF SameWork
  <2>6. Quiet(n)
    BY <2>1, <2>3, <2>4, <2>5, Zenon DEF Quiet, Closes, Superseded, Closed
  <2> QED
    BY <2>1, <2>2, <2>6, OtherAttempt, Zenon DEF QuietRows
<1> QED
  BY <1>4, <1>5, <1>6

-----------------------------------------------------------------------------
(* The student's requests *)

(* A start of what has begun changes nothing in the dialogue. *)
LEMMA StartAgain ==
    ASSUME Inv, WorkInv, NEW s \in Sessions, Start(s), Current.bound
    PROVE  QuietStep
<1>0. last # 0
  BY Zenon DEF Current, NoDialogue
<1>1. PICK n \in Numbers : n = last
  BY <1>0 DEF Inv, TypeOK, Numbers
<1>2. /\ last' = last /\ ~IsTerminal(occ) /\ status[n] = "open" /\ dlg[n].bound
      /\ status' = [status EXCEPT ![n] = "open"]
      /\ dlg' = [dlg EXCEPT ![n].bound = TRUE]
      /\ job' = job /\ worker' = worker
  BY <1>0, <1>1, Zenon DEF Start, Current
<1>3. dlg' = dlg
  <2>1. dlg \in [Numbers -> Dialogue] /\ dlg[n] \in Dialogue
    BY Zenon DEF Inv, TypeOK
  <2>2. [dlg[n] EXCEPT !.bound = TRUE] = dlg[n]
    BY <1>2, <2>1 DEF Dialogue
  <2>3. dlg' = [dlg EXCEPT ![n] = [dlg[n] EXCEPT !.bound = TRUE]]
    BY <1>2
  <2> QED
    BY <2>1, <2>2, <2>3
<1>4. status' = status
  BY <1>2, Zenon DEF Inv, TypeOK
<1>5. UNCHANGED <<last, status, dlg, job>>
  BY <1>2, <1>3, <1>4, Zenon
<1> QED
  BY <1>2, <1>5, SameRows, SameWorkers, Zenon DEF QuietStep

(* A first job is created with the dialogue row. *)
Begins(s) == Start(s) /\ ~Current.bound
LEMMA BeginsWhat ==
    ASSUME Inv, WorkInv, NEW s \in Sessions, Begins(s)
    PROVE  \E n \in Numbers :
               /\ n = IF last = 0 THEN 1 ELSE last
               /\ last <= n /\ last' = n
               /\ dlg[n] = NoDialogue /\ dlg[n] \in Dialogue
               /\ dlg'[n] = [NoDialogue EXCEPT !.bound = TRUE]
               /\ job'[n] = NewJob(0, "question", s)
               /\ \A k \in Numbers :
                      k # n => dlg'[k] = dlg[k] /\ job'[k] = job[k]
               /\ worker' = worker
<1>0. PICK n \in Numbers : n = IF last = 0 THEN 1 ELSE last
  BY PolicyAssumption DEF Inv, TypeOK, Numbers
<1>1. /\ last <= n /\ last' = n
      /\ dlg' = [dlg EXCEPT ![n].bound = TRUE]
      /\ job' = IF dlg[n].bound THEN job
                ELSE [job EXCEPT ![n] = NewJob(0, "question", s)]
      /\ worker' = worker
  BY <1>0 DEF Begins, Start, Inv, TypeOK, Numbers
<1>2. Unbegun(n) /\ dlg[n] \in Dialogue
  BY Zenon DEF WorkInv, Inv, TypeOK
<1>3. ~dlg[n].bound
  <2>1. CASE last = 0
    BY <1>0, <1>2, <2>1 DEF Unbegun
  <2>2. CASE last # 0
    BY <1>0, <2>2, Zenon DEF Begins, Current
  <2> QED
    BY <2>1, <2>2
<1>4. dlg[n] = NoDialogue
  BY <1>2, <1>3, Zenon DEF Unbegun
<1>5. /\ dlg'[n] = [NoDialogue EXCEPT !.bound = TRUE]
      /\ job'[n] = NewJob(0, "question", s)
      /\ \A k \in Numbers : k # n => dlg'[k] = dlg[k] /\ job'[k] = job[k]
  BY <1>1, <1>3, <1>4, Zenon DEF Inv, TypeOK
<1> QED
  BY <1>0, <1>1, <1>2, <1>4, <1>5, Zenon

LEMMA StartWorks ==
    ASSUME Inv, WorkInv, NEW s \in Sessions, Begins(s) PROVE WorkInv'
<1>1. PICK n \in Numbers :
          /\ last <= n /\ last' = n
          /\ dlg[n] = NoDialogue /\ dlg[n] \in Dialogue
          /\ dlg'[n] = [NoDialogue EXCEPT !.bound = TRUE]
          /\ job'[n] = NewJob(0, "question", s)
          /\ \A k \in Numbers :
                 k # n => dlg'[k] = dlg[k] /\ job'[k] = job[k]
          /\ worker' = worker
  BY BeginsWhat, Zenon
<1>2. n \in Nat /\ n <= n
  BY DEF Numbers
<1>3. /\ dlg'[n].bound /\ dlg'[n].questions = <<>>
      /\ dlg'[n].messages = <<>> /\ dlg'[n].evaluations = <<>>
  BY <1>1, Zenon DEF NoDialogue
<1>4. dlg'[n] \in Dialogue
  BY <1>1, DialogueType, Basics, Zenon
<1>5. EvidenceOK(dlg'[n]) /\ TakesQuestion(dlg'[n])
  BY <1>3, <1>4, FirstQuestionFits, Zenon
<1>6. job'[n].status = "queued" /\ job'[n].stage = "question"
  BY <1>1, Zenon DEF NewJob, NoJob
<1>7. \A k \in Numbers : Unbegun(k)'
  BY <1>1, <1>2, <1>3, UnbegunKept, Zenon DEF WorkInv
<1>8. Fits(n)'
  BY <1>3, <1>5, <1>6, Zenon DEF Fits
<1>9. \A k \in Numbers : k # n => Fits(k)' /\ Turns(k)'
  BY <1>1, Zenon DEF Fits, Turns, Superseded
<1>10. ASSUME NEW p \in Workers, NEW k \in Numbers PROVE ReadIsCurrent(p, k)'
  <2>1. CASE k = n
    BY <1>6, <2>1, Zenon DEF ReadIsCurrent, Owns
  <2>2. CASE k # n
    <3>1. ReadIsCurrent(p, k) /\ dlg'[k] = dlg[k] /\ job'[k] = job[k]
      BY <1>1, <2>2, Zenon DEF WorkInv
    <3> QED
      BY <1>1, <3>1, Zenon DEF ReadIsCurrent, Owns
  <2> QED
    BY <2>1, <2>2
<1>11. Turns(n)'
  <2>1. WithinTurns(dlg'[n])
    BY <1>3, <1>4, EmptyTurns, Zenon
  <2>2. Unsettled(n)'
    BY <1>6, Zenon DEF Unsettled
  <2> QED
    BY <1>5, <1>6, <2>1, <2>2, Zenon DEF Turns
<1> QED
  BY <1>7, <1>8, <1>9, <1>10, <1>11, Zenon DEF WorkInv

(* An answer and the job that evaluates it. *)
LEMMA AdmitWorks ==
    ASSUME Inv, WorkInv, NEW s \in Sessions, Admit(s) PROVE WorkInv'
<1>1. PICK n \in Numbers : n = last /\ n \in Nat /\ n <= n
  BY DEF Admit, Inv, TypeOK, Numbers
<1> DEFINE m == Len(dlg[n].messages) + 1
<1>2. /\ Loadable(n) /\ MayAnswer(n, dlg[n])
      /\ last' = n /\ worker' = worker
      /\ dlg' = [dlg EXCEPT ![n] = Answer(dlg[n])]
      /\ job' = [job EXCEPT ![n] = NewJob(m, "evaluation", s)]
  BY <1>1, Zenon DEF Admit, requirementVars
<1> HIDE DEF m
<1>3. /\ dlg[n] \in Dialogue
      /\ dlg'[n] = Answer(dlg[n]) /\ job'[n] = NewJob(m, "evaluation", s)
      /\ \A k \in Numbers : k # n => dlg'[k] = dlg[k] /\ job'[k] = job[k]
  BY <1>1, <1>2, Zenon DEF Inv, TypeOK
<1>4. dlg'[n].bound
  BY <1>2, <1>3, StaysBound, Basics, ZenonT(30) DEF Loadable
<1>5. EvidenceOK(dlg'[n]) /\ TakesEvaluation(dlg'[n], m)
  BY <1>2, <1>3, AnswerIsEvaluable, Zenon DEF Loadable, MayAnswer, m
<1>6. /\ job'[n].status = "queued" /\ job'[n].stage = "evaluation"
      /\ job'[n].message = m
  BY <1>3, Zenon DEF NewJob, NoJob
<1>7. \A k \in Numbers : Unbegun(k)'
  BY <1>1, <1>2, <1>3, <1>4, UnbegunKept, Zenon DEF WorkInv
<1>8. ASSUME NEW k \in Numbers PROVE Fits(k)' /\ Turns(k)'
  <2>1. CASE k = n
    <3>1. /\ dlg'[k].bound /\ EvidenceOK(dlg'[k])
          /\ TakesEvaluation(dlg'[k], job'[k].message)
          /\ job'[k].stage = "evaluation"
      BY <1>4, <1>5, <1>6, <2>1, Zenon
    <3>2. "evaluation" # "question"
      OBVIOUS
    <3>3. Fits(k)'
      BY <3>1, <3>2, Zenon DEF Fits
    <3>4. Turns(n)
      BY Zenon DEF WorkInv
    <3>5. WithinTurns(dlg'[n]) /\ AwaitsVerdict(dlg'[n])
      <4>1. EvidenceOK(dlg[n]) /\ WithinTurns(dlg[n])
        BY <1>1, <1>2, <3>4, Zenon DEF Turns, Loadable, Superseded, MayAnswer
      <4> QED
        BY <1>2, <1>3, <4>1, AnswerTurns, Zenon DEF MayAnswer
    <3>6. Unsettled(k)'
      BY <1>6, <2>1, Zenon DEF Unsettled
    <3>7. Turns(k)'
      BY <2>1, <3>1, <3>5, <3>6, Zenon DEF Turns
    <3> QED
      BY <3>3, <3>7
  <2>2. CASE k # n
    BY <1>1, <1>2, <2>2, Zenon DEF Fits, Turns, Superseded
  <2> QED
    BY <2>1, <2>2
<1>9. ASSUME NEW p \in Workers, NEW k \in Numbers
      PROVE  ReadIsCurrent(p, k)'
  <2>1. CASE k = n
    BY <1>6, <2>1, Zenon DEF ReadIsCurrent, Owns
  <2>2. CASE k # n
    <3>1. ReadIsCurrent(p, k) /\ dlg'[k] = dlg[k] /\ job'[k] = job[k]
      BY <1>3, <2>2, Zenon DEF WorkInv
    <3> QED
      BY <1>2, <3>1, Zenon DEF ReadIsCurrent, Owns
  <2> QED
    BY <2>1, <2>2
<1> QED
  BY <1>7, <1>8, <1>9, Zenon DEF WorkInv

LEMMA StudentKinds ==
    ASSUME Inv, WorkInv, StudentStep
    PROVE  QuietStep \/ \E s \in Sessions : Begins(s) \/ Admit(s)
<1>1. ASSUME NEW s \in Sessions, RetryJob(s) PROVE QuietStep
  <2> DEFINE j == [job[last] EXCEPT !.status = "queued"]
  <2>1. last \in Numbers
    BY <1>1, PolicyAssumption DEF RetryJob, Inv, TypeOK, Numbers
  <2>2. /\ UNCHANGED <<requirementVars, evidenceVars>> /\ worker' = worker
        /\ job[last].status = "failed" /\ job' = [job EXCEPT ![last] = j]
    BY <1>1, Zenon DEF RetryJob
  <2>3. job[last] \in Job
    BY <2>1, Zenon DEF Inv, TypeOK
  <2>4. /\ j.status = "queued" /\ j.stage = job[last].stage
        /\ j.message = job[last].message
    BY <2>3, Zenon DEF Job
  <2>5. PICK n \in Numbers : n = last
    BY <2>1, Zenon
  <2> HIDE DEF j
  <2>6. Unsettled(n) /\ job[n].status # "none"
    BY <2>2, <2>5, Zenon DEF Unsettled
  <2>7. QuietRows
    BY <2>2, <2>4, <2>5, <2>6, "queued" \in {"queued", "running", "failed"},
       JobMoves, Zenon
  <2> QED
    BY <2>2, <2>7, SameWorkers, Zenon DEF QuietStep
<1>2. ASSUME NEW s \in Sessions, Revoke(s) PROVE QuietStep
  <2>1. UNCHANGED <<last, status, dlg, job, occ>> /\ worker' = worker
    BY <1>2, Zenon DEF Revoke, requirementVars, evidenceVars
  <2> QED
    BY <2>1, SameRows, SameWorkers, Zenon DEF QuietStep
<1>3. ASSUME NEW m \in Manuals, ManualStart(m) \/ ManualSubmit(m)
      PROVE  QuietStep
  <2>1. UNCHANGED <<last, status, dlg, job>> /\ worker' = worker
    BY <1>3, Zenon DEF ManualStart, ManualSubmit, evidenceVars
  <2>2. ~IsTerminal(occ)
    BY <1>3, Zenon DEF ManualStart, ManualSubmit, IsTerminal
  <2> QED
    BY <2>1, <2>2, SameRows, SameWorkers, Zenon DEF QuietStep
<1> QED
  BY <1>1, <1>2, <1>3, StartAgain, Zenon DEF StudentStep, Begins
-----------------------------------------------------------------------------
(* The parent *)

LEMMA OverrideIsQuiet ==
    ASSUME Inv, NEW accepted \in BOOLEAN, Override(accepted)
    PROVE  QuietStep
<1>1. PICK n \in Numbers : n = last
  BY DEF Override, MayOverride, Inv, TypeOK, Numbers
<1>2. /\ last' = last /\ worker' = worker /\ dlg[n].bound
      /\ dlg' = [dlg EXCEPT ![n].version = @ + 1]
      /\ status' = [status EXCEPT ![n] = AttemptStatus(accepted)]
      /\ job' = IF job[n].status \in {"queued", "running"}
                THEN [job EXCEPT ![n] = EndJob(job[n], "failed")] ELSE job
  BY <1>1, Zenon DEF Override, MayOverride, Loadable
<1>3. job[n] \in Job /\ dlg[n] \in Dialogue
  BY Zenon DEF Inv, TypeOK
<1>4. \A k \in Numbers : k # n => job'[k] = job[k] /\ dlg'[k] = dlg[k]
  BY <1>2, Zenon DEF Inv, TypeOK
<1>5. /\ dlg'[n] = [dlg[n] EXCEPT !.version = @ + 1]
      /\ status'[n] = AttemptStatus(accepted)
      /\ job'[n] = IF job[n].status \in {"queued", "running"}
                   THEN EndJob(job[n], "failed") ELSE job[n]
  BY <1>2, Zenon DEF Inv, TypeOK
<1>6. dlg'[n].bound = dlg[n].bound /\ SameEvidence(dlg[n], dlg'[n])
  BY <1>3, <1>5, Zenon DEF Dialogue, SameEvidence
<1>7. Superseded(n)'
  BY <1>5, Zenon DEF AttemptStatus, Superseded, Closed
<1>8. SameWork(n)
  <2>1. CASE job[n].status \in {"queued", "running"}
    <3>0. job'[n] = EndJob(job[n], "failed")
      BY <1>5, <2>1, Zenon
    <3>1. /\ job'[n].status = "failed" /\ job'[n].stage = job[n].stage
          /\ job'[n].message = job[n].message
      <4>1. \A s : /\ EndJob(job[n], s).status = s
                   /\ EndJob(job[n], s).stage = job[n].stage
                   /\ EndJob(job[n], s).message = job[n].message
        BY <1>3, EndJobFields, Zenon
      <4> QED
        BY <3>0, <4>1, Zenon
    <3>2. Unsettled(n) /\ job[n].status # "none"
      BY <2>1, Zenon DEF Unsettled
    <3>3. Unsettled(n)'
      BY <3>1, Zenon DEF Unsettled
    <3> QED
      BY <3>1, <3>2, <3>3, Zenon DEF SameWork
  <2>2. CASE job[n].status \notin {"queued", "running"}
    <3>1. job'[n] = job[n]
      BY <1>5, <2>2, Zenon
    <3> QED
      BY <3>1, Zenon DEF SameWork, Unsettled
  <2> QED
    BY <2>1, <2>2
<1>9. Quiet(n)
  BY <1>2, <1>6, <1>7, <1>8, Zenon DEF Quiet, Closes
<1>10. QuietRows
  BY <1>1, <1>2, <1>4, <1>9, OtherAttempt, Zenon DEF QuietRows
<1> QED
  BY <1>2, <1>10, SameWorkers, Zenon DEF QuietStep

(* A retry opens an attempt nothing has worked on. *)
LEMMA RetryDialogueWorks ==
    ASSUME Inv, WorkInv, RetryDialogue PROVE WorkInv'
<1>1. /\ last' \in Nat /\ last <= last' /\ last' > last
      /\ dlg' = dlg /\ job' = job /\ worker' = worker
  BY DEF RetryDialogue, Inv, TypeOK, evidenceVars
<1>2. \A n \in Numbers : Unbegun(n)'
  BY <1>1, UnbegunKept, Zenon DEF WorkInv
<1>3. ASSUME NEW n \in Numbers PROVE Fits(n)' /\ Turns(n)'
  <2>1. CASE n = last'
    <3>1. Unbegun(n) /\ n > last
      BY <1>1, <2>1, Zenon DEF WorkInv
    <3>2. ~dlg'[n].bound
      BY <1>1, <3>1, Zenon DEF Unbegun
    <3>3. job'[n].status = "none"
      BY <1>1, <3>1, <3>2, Zenon DEF Unbegun
    <3> QED
      BY <3>2, <3>3, Zenon DEF Fits, Turns, Unsettled
  <2>2. CASE n # last'
    BY <2>2, Zenon DEF Fits, Turns, Superseded
  <2> QED
    BY <2>1, <2>2
<1>4. \A p \in Workers, n \in Numbers : ReadIsCurrent(p, n)'
  BY <1>1, Zenon DEF WorkInv, ReadIsCurrent, Owns
<1> QED
  BY <1>2, <1>3, <1>4, Zenon DEF WorkInv

LEMMA ParentKinds ==
    ASSUME Inv, ParentStep PROVE QuietStep \/ RetryDialogue
<1>1. ASSUME NEW m \in Manuals, NEW accepted \in BOOLEAN, Decide(m, accepted)
      PROVE  QuietStep
  <2>1. UNCHANGED <<last, status, dlg, job>> /\ worker' = worker
    BY <1>1, Zenon DEF Decide
  <2>2. ~IsTerminal(occ)
    BY <1>1, Zenon DEF Decide, IsTerminal
  <2> QED
    BY <2>1, <2>2, SameRows, SameWorkers, Zenon DEF QuietStep
<1>2. ASSUME NEW m \in Manuals, RetryManual(m) PROVE QuietStep
  <2>1. UNCHANGED <<last, status, dlg, job>> /\ worker' = worker
    BY <1>2, Zenon DEF RetryManual, evidenceVars
  <2>2. ~IsTerminal(occ)
    BY <1>2, Zenon DEF RetryManual, Retryable, IsTerminal
  <2> QED
    BY <2>1, <2>2, SameRows, SameWorkers, Zenon DEF QuietStep
<1>3. ASSUME NEW to \in {"canceled", "excused"}, SetStatus(to)
      PROVE  QuietStep
  <2>1. UNCHANGED <<last, status, dlg, job>> /\ worker' = worker
    BY <1>3, Zenon DEF SetStatus, evidenceVars
  <2>2. IsTerminal(occ')
    BY <1>3, Zenon DEF SetStatus, IsTerminal
  <2> QED
    BY <2>1, <2>2, SameRows, SameWorkers, Zenon DEF QuietStep
<1> QED
  BY <1>1, <1>2, <1>3, OverrideIsQuiet, Zenon DEF ParentStep

-----------------------------------------------------------------------------
(* The queue *)

(* A claim gives the job an owner that has not read anything yet. *)
LEMMA ClaimWorks ==
    ASSUME Inv, WorkInv, NEW p \in Workers, NEW n \in Numbers, Claim(p, n)
    PROVE  WorkInv'
<1> DEFINE j == [job[n] EXCEPT !.status = "running", !.owner = p,
                               !.leased = TRUE, !.attempts = @ + 1,
                               !.generation = @ + 1]
           w == [Idle EXCEPT !.pc = "claimed", !.attempt = n,
                             !.message = job[n].message,
                             !.generation = job[n].generation + 1]
<1>1. /\ last' = last /\ dlg' = dlg /\ status' = status /\ occ' = occ
      /\ job[n].status = "queued"
      /\ job' = [job EXCEPT ![n] = j] /\ worker' = [worker EXCEPT ![p] = w]
  BY Zenon DEF Claim, requirementVars, evidenceVars
<1>2. job[n] \in Job
  BY Zenon DEF Inv, TypeOK
<1>3. /\ j.status = "running" /\ j.owner = p
      /\ j.stage = job[n].stage /\ j.message = job[n].message
  BY <1>2, Zenon DEF Job
<1>4. w.pc = "claimed"
  BY Zenon DEF Idle
<1> HIDE DEF j, w
<1>5. /\ job'[n] = j /\ worker'[p] = w
      /\ \A k \in Numbers : k # n => job'[k] = job[k]
      /\ \A q \in Workers : q # p => worker'[q] = worker[q]
  BY <1>1, Zenon DEF Inv, TypeOK
<1>6. last' \in Nat /\ last <= last'
  BY <1>1 DEF Inv, TypeOK
<1>7. ASSUME NEW k \in Numbers PROVE Unbegun(k)' /\ Fits(k)' /\ Turns(k)'
  <2>1. Unbegun(k) /\ Fits(k) /\ Turns(k)
    BY Zenon DEF WorkInv
  <2>2. job[k].status = "none" => job'[k].status = "none"
    BY <1>1, <1>5, Zenon
  <2>3. Unbegun(k)'
    BY <1>1, <1>6, <2>1, <2>2, UnbegunKept, Zenon
  <2>4. /\ Unsettled(k)' <=> Unsettled(k)
        /\ job'[k].stage = job[k].stage /\ job'[k].message = job[k].message
    BY <1>1, <1>3, <1>5, Zenon DEF Unsettled
  <2>5. Superseded(k)' <=> Superseded(k)
    BY <1>1, Zenon DEF Superseded, Closed
  <2>6. Fits(k)'
    BY <1>1, <2>1, <2>4, <2>5, Zenon DEF Fits
  <2>7. Turns(k)'
    BY <1>1, <2>1, <2>4, <2>5, Zenon DEF Turns
  <2> QED
    BY <2>3, <2>6, <2>7
<1>8. ASSUME NEW q \in Workers, NEW k \in Numbers PROVE ReadIsCurrent(q, k)'
  <2>1. CASE q = p
    BY <1>4, <1>5, <2>1, Zenon DEF ReadIsCurrent
  <2>2. CASE q # p /\ k = n
    BY <1>3, <1>5, <2>2, Zenon DEF ReadIsCurrent, Owns
  <2>3. CASE q # p /\ k # n
    <3>1. ReadIsCurrent(q, k) /\ job'[k] = job[k] /\ worker'[q] = worker[q]
      BY <1>5, <2>3, Zenon DEF WorkInv
    <3> QED
      BY <1>1, <3>1, Zenon DEF ReadIsCurrent, Owns
  <2> QED
    BY <2>1, <2>2, <2>3
<1> QED
  BY <1>7, <1>8, Zenon DEF WorkInv

LEMMA JobKinds ==
    ASSUME Inv, JobStep
    PROVE  QuietStep \/ \E p \in Workers, n \in Numbers : Claim(p, n)
<1>1. ASSUME NEW n \in Numbers, Reconcile(n) PROVE QuietStep
  <2>1. worker' = worker
    BY <1>1, Zenon DEF Reconcile
  <2>2. QuietRows
    BY <1>1, SettlingIsQuiet, Zenon DEF Reconcile
  <2> QED
    BY <2>1, <2>2, SameWorkers, Zenon DEF QuietStep
<1>2. ASSUME NEW n \in Numbers, LeaseLapses(n) \/ DeadlinePasses(n)
      PROVE  QuietStep
  <2>1. job[n] \in Job
    BY Zenon DEF Inv, TypeOK
  <2>2. PICK j \in {[job[n] EXCEPT !.leased = FALSE],
                    [job[n] EXCEPT !.late = TRUE]} :
            job' = [job EXCEPT ![n] = j]
    BY <1>2, Zenon DEF LeaseLapses, DeadlinePasses
  <2>3. /\ j.status = job[n].status /\ j.owner = job[n].owner
        /\ j.stage = job[n].stage /\ j.message = job[n].message
    BY <2>1, Zenon DEF Job
  <2>4. UNCHANGED <<requirementVars, evidenceVars>> /\ worker' = worker
    BY <1>2, Zenon DEF LeaseLapses, DeadlinePasses
  <2>5. j.status \in {"queued", "running", "failed"} <=> Unsettled(n)
    BY <2>3, Zenon DEF Unsettled
  <2>6. QuietRows
    BY <2>2, <2>3, <2>4, <2>5, JobMoves, Zenon
  <2> QED
    BY <2>4, <2>6, SameWorkers, Zenon DEF QuietStep
<1> QED
  BY <1>1, <1>2, Zenon DEF JobStep
-----------------------------------------------------------------------------
(* The workers *)

(* What a worker reads is what is there. *)
LEMMA ReadStateWorks ==
    ASSUME Inv, WorkInv, NEW p \in Workers, ReadState(p) PROVE WorkInv'
<1>1. PICK n \in Numbers : n = worker[p].attempt
  BY Zenon DEF ReadState, Inv, WorkerRefs
<1> DEFINE w == [worker[p] EXCEPT !.pc = "thinking", !.stage = job[n].stage,
                                  !.ordinal = Len(dlg[n].questions) + 1]
<1>2. /\ UNCHANGED <<last, status, dlg, job>> /\ occ' = occ
      /\ worker' = [worker EXCEPT ![p] = w]
  BY <1>1, Zenon DEF ReadState, requirementVars, evidenceVars
<1>3. worker[p] \in WorkerRow
  BY Zenon DEF Inv, TypeOK
<1>4. /\ w.attempt = n /\ w.stage = job[n].stage
      /\ w.ordinal = Len(dlg[n].questions) + 1
  BY <1>1, <1>3, Zenon DEF WorkerRow
<1> HIDE DEF w
<1>5. /\ worker'[p] = w
      /\ \A q \in Workers : q # p => worker'[q] = worker[q]
  BY <1>2, Zenon DEF Inv, TypeOK
<1>6. last' = last /\ \A k \in Numbers : Quiet(k)
  BY <1>2, SameRows, Zenon DEF QuietRows
<1>7. \A k \in Numbers : Unbegun(k)' /\ Fits(k)' /\ Turns(k)'
  BY <1>6, QuietAttempt, Zenon DEF WorkInv
<1>8. ASSUME NEW q \in Workers, NEW k \in Numbers PROVE ReadIsCurrent(q, k)'
  <2>1. CASE q = p
    BY <1>2, <1>4, <1>5, <2>1, Zenon DEF ReadIsCurrent
  <2>2. CASE q # p
    <3>1. ReadIsCurrent(q, k) /\ worker'[q] = worker[q]
      BY <1>5, <2>2, Zenon DEF WorkInv
    <3> QED
      BY <1>6, <3>1, QuietRead, Zenon
  <2> QED
    BY <2>1, <2>2
<1> QED
  BY <1>7, <1>8, Zenon DEF WorkInv

(* A commit that ends its job. *)
LEMMA JobFinished ==
    ASSUME Inv, WorkInv, NEW p \in Workers, NEW n \in Numbers, Loadable(n),
           NEW d, dlg' = [dlg EXCEPT ![n] = d], d.bound = dlg[n].bound,
           last' = last, JobDone(n, p),
           Superseded(n)' \/ (/\ EvidenceOK(d) /\ WithinTurns(d)
                              /\ AwaitsAnswer(d))
    PROVE  WorkInv'
<1> DEFINE j == [EndJob(job[n], "succeeded") EXCEPT !.stage = "done"]
<1>1. job' = [job EXCEPT ![n] = j] /\ worker' = [worker EXCEPT ![p] = Idle]
  BY Zenon DEF JobDone
<1>2. job[n] \in Job
  BY Zenon DEF Inv, TypeOK
<1>3. j.status = "succeeded"
  BY <1>2, Zenon DEF EndJob, Job
<1> HIDE DEF j
<1>4. /\ job'[n] = j /\ dlg'[n] = d /\ worker'[p] = Idle
      /\ \A k \in Numbers : k # n => job'[k] = job[k] /\ dlg'[k] = dlg[k]
      /\ \A q \in Workers : q # p => worker'[q] = worker[q]
  BY <1>1, Zenon DEF Inv, TypeOK
<1>5. n = last /\ dlg'[n].bound /\ ~Unsettled(n)'
  BY <1>3, <1>4, Zenon DEF Loadable, Unsettled
<1>6. \A k \in Numbers : k # n => Quiet(k)
  BY <1>4, <1>5, OtherAttempt, Zenon
<1>7. ASSUME NEW k \in Numbers PROVE Unbegun(k)' /\ Fits(k)' /\ Turns(k)'
  <2>1. Unbegun(k) /\ Fits(k) /\ Turns(k)
    BY Zenon DEF WorkInv
  <2>2. CASE k # n
    BY <1>6, <2>1, <2>2, QuietAttempt, Zenon
  <2>3. CASE k = n
    <3>1. last' \in Nat /\ last <= last' /\ n <= last'
      BY <1>5 DEF Inv, TypeOK
    <3>2. Unbegun(k)'
      BY <1>5, <2>1, <2>3, <3>1, UnbegunKept, Zenon
    <3>3. Fits(k)'
      BY <1>5, <2>3, Zenon DEF Fits
    <3>4. Turns(n)'
      BY <1>4, <1>5, Zenon DEF Turns
    <3> QED
      BY <2>3, <3>2, <3>3, <3>4, Zenon
  <2> QED
    BY <2>2, <2>3
<1>8. ASSUME NEW q \in Workers, NEW k \in Numbers PROVE ReadIsCurrent(q, k)'
  <2>1. Idle.pc # "thinking"
    BY Zenon DEF Idle
  <2>2. CASE k = n
    BY <1>3, <1>4, <2>2, Zenon DEF ReadIsCurrent, Owns
  <2>3. CASE k # n
    BY <1>4, <1>6, <2>1, <2>3, QuietRead, Zenon DEF WorkInv
  <2> QED
    BY <2>2, <2>3
<1> QED
  BY <1>7, <1>8, Zenon DEF WorkInv

(* After an accepted answer the job goes on with the next question; its    *)
(* owner reads again before it asks.                                       *)
LEMMA AnswerAcceptedWorks ==
    ASSUME Inv, WorkInv, NEW p \in Workers, AnswerAccepted(p) PROVE WorkInv'
<1>1. PICK n \in Numbers : n = worker[p].attempt
  BY Zenon DEF AnswerAccepted, Evaluates, Inv, WorkerRefs
<1> DEFINE d == dlg[n]
           m == job[n].message
           e == Evaluate(d, m, TRUE)
<1>2. /\ Loadable(n) /\ MayEvaluate(n, d, m, TRUE) /\ Owns(p, n)
      /\ last' = last /\ dlg' = [dlg EXCEPT ![n] = e] /\ ~Ready(dlg'[n])
      /\ job' = [job EXCEPT ![n].stage = "question"]
      /\ worker' = [worker EXCEPT ![p].pc = "claimed"]
  BY <1>1, Zenon
  DEF AnswerAccepted, Evaluates, Leased, Holds, Owns, requirementVars
<1>3. d \in Dialogue /\ job[n] \in Job /\ worker[p] \in WorkerRow
  BY Zenon DEF Inv, TypeOK
<1>4. /\ dlg'[n] = e /\ job'[n] = [job[n] EXCEPT !.stage = "question"]
      /\ worker'[p] = [worker[p] EXCEPT !.pc = "claimed"]
      /\ \A k \in Numbers : k # n => job'[k] = job[k] /\ dlg'[k] = dlg[k]
      /\ \A q \in Workers : q # p => worker'[q] = worker[q]
  BY <1>2, Zenon DEF Inv, TypeOK
<1>5. m \in Nat /\ m \in DOMAIN d.messages
  <2>1. /\ m = Len(d.messages) /\ d.messages # <<>>
        /\ d.messages \in Seq(Message)
    BY <1>2, <1>3, RowTypes, Zenon DEF MayEvaluate
  <2> HIDE DEF m, d
  <2> QED
    BY <2>1
<1>6. TakesQuestion(e) /\ EvidenceOK(e)
  <2>1. /\ EvidenceOK(e) /\ ~Ready(e)
        /\ d.messages[m].question = Len(d.questions)
    BY <1>2, <1>4, Zenon DEF MayEvaluate
  <2> QED
    BY <1>3, <1>5, <2>1, AcceptedAnswerTakesQuestion, Zenon
<1>7. e.bound
  <2>1. e.bound = d.bound
    BY <1>3, <1>5, StaysBound, Basics, Zenon
  <2> QED
    BY <1>2, <2>1, Zenon DEF Loadable
<1>8. /\ job'[n].stage = "question" /\ job'[n].owner = p
      /\ worker'[p].pc = "claimed"
  <2>1. job'[n].stage = "question" /\ job'[n].owner = job[n].owner
    BY <1>3, <1>4, Zenon DEF Job
  <2>2. worker'[p].pc = "claimed"
    BY <1>3, <1>4, Zenon DEF WorkerRow
  <2> QED
    BY <1>2, <2>1, <2>2, Zenon DEF Owns
<1>9. n = last /\ last' \in Nat /\ last <= last' /\ n <= last'
  <2>1. n = last
    BY <1>2, Zenon DEF Loadable
  <2> QED
    BY <1>2, <2>1 DEF Inv, TypeOK
<1>10. WithinTurns(e) /\ Unsettled(n)'
  <2>1. Turns(n) /\ ~Superseded(n) /\ d.bound
    BY <1>2, Zenon DEF WorkInv, Superseded, Loadable, MayEvaluate
  <2>2. WithinTurns(d) /\ d.messages[m].question = Len(d.questions)
    BY <1>2, <2>1, Zenon DEF Turns, MayEvaluate
  <2>3. WithinTurns(e)
    BY <1>3, <1>5, <2>2, EvaluateTurns, Basics, Zenon
  <2>4. job'[n].status = "running"
    <3>1. job'[n].status = job[n].status
      BY <1>3, <1>4, Zenon DEF Job
    <3> QED
      BY <1>2, <3>1, Zenon DEF Owns
  <2> QED
    BY <2>3, <2>4, Zenon DEF Unsettled
<1> HIDE DEF e, m, d
<1>11. ASSUME NEW k \in Numbers PROVE Unbegun(k)' /\ Fits(k)' /\ Turns(k)'
  <2>1. Unbegun(k)
    BY Zenon DEF WorkInv
  <2>2. CASE k = n
    <3>1. Unbegun(k)'
      BY <1>4, <1>7, <1>9, <2>1, <2>2, UnbegunKept, Zenon
    <3>2. /\ dlg'[k].bound /\ EvidenceOK(dlg'[k]) /\ TakesQuestion(dlg'[k])
          /\ job'[k].stage # "evaluation"
      BY <1>4, <1>6, <1>7, <1>8, <2>2, Zenon
    <3>3. Fits(k)'
      BY <3>2, Zenon DEF Fits
    <3>4. Turns(k)'
      BY <1>4, <1>8, <1>10, <2>2, <3>2, Zenon DEF Turns
    <3> QED
      BY <3>1, <3>3, <3>4, SMTT(30)
  <2>3. CASE k # n
    <3>1. Unbegun(k)'
      BY <1>4, <1>9, <2>1, <2>3, UnbegunKept, Zenon
    <3>2. Fits(k)' /\ Turns(k)'
      BY <1>2, <1>9, <2>3, Zenon DEF Fits, Turns, Superseded
    <3> QED
      BY <3>1, <3>2
  <2> QED
    BY <2>2, <2>3
<1>12. ASSUME NEW q \in Workers, NEW k \in Numbers PROVE ReadIsCurrent(q, k)'
  <2>1. CASE q = p
    BY <1>8, <2>1, Zenon DEF ReadIsCurrent
  <2>2. CASE q # p /\ k = n
    BY <1>8, <2>2, Zenon DEF ReadIsCurrent, Owns
  <2>3. CASE q # p /\ k # n
    <3>1. /\ ReadIsCurrent(q, k) /\ job'[k] = job[k] /\ dlg'[k] = dlg[k]
          /\ worker'[q] = worker[q]
      BY <1>4, <2>3, Zenon DEF WorkInv
    <3> QED
      BY <3>1, Zenon DEF ReadIsCurrent, Owns
  <2> QED
    BY <2>1, <2>2, <2>3
<1> QED
  BY <1>11, <1>12, Zenon DEF WorkInv

LEMMA CommitWorks ==
    ASSUME Inv, WorkInv, NEW p \in Workers,
           CommitQuestion(p) \/ CommitEvaluation(p)
    PROVE  WorkInv'
<1>1. PICK n \in Numbers : n = worker[p].attempt
  BY Zenon DEF CommitQuestion, CommitEvaluation, AnswerAccepted,
               DialogueAccepted, AnswerRejected, Evaluates, Inv, WorkerRefs
<1> DEFINE d == dlg[n]
           m == job[n].message
<1>2. d \in Dialogue /\ m \in Nat
  <2>1. dlg[n] \in Dialogue /\ job[n] \in Job
    BY Zenon DEF Inv, TypeOK
  <2> QED
    BY <2>1, JobType, Zenon
<1>3. ASSUME Loadable(n), ~Closed(n)
      PROVE  /\ EvidenceOK(d) /\ WithinTurns(d)
             /\ (job[n].status = "running" /\ job[n].stage = "evaluation") =>
                    AwaitsVerdict(d)
  <2>1. Turns(n) /\ ~Superseded(n) /\ d.bound
    BY <1>3, Zenon DEF WorkInv, Superseded, Loadable
  <2> QED
    BY <2>1, Zenon DEF Turns, Unsettled
<1>4. CASE CommitQuestion(p)
  <2>1. /\ Loadable(n) /\ MayAsk(n, d) /\ dlg' = [dlg EXCEPT ![n] = Ask(d)]
        /\ last' = last /\ JobDone(n, p)
    BY <1>1, <1>4, Zenon DEF CommitQuestion, JobDone, requirementVars
  <2>2. Ask(d).bound = d.bound
    BY <1>2, StaysBound, Basics, Zenon
  <2>3. /\ EvidenceOK(Ask(d)) /\ WithinTurns(Ask(d))
        /\ AwaitsAnswer(Ask(d))
    BY <1>2, <1>3, <2>1, AskTurns, Zenon DEF MayAsk
  <2> HIDE DEF d
  <2> QED
    BY <2>1, <2>2, <2>3, JobFinished, Zenon DEF d
<1>5. CASE DialogueAccepted(p)
  <2> DEFINE e == Evaluate(d, m, TRUE)
  <2>1. /\ Loadable(n) /\ last' = last /\ JobDone(n, p)
        /\ dlg' = [dlg EXCEPT ![n] = e]
        /\ status' = [status EXCEPT ![n] = "accepted"]
    BY <1>1, <1>5, Zenon DEF DialogueAccepted, Evaluates
  <2>2. status'[n] = "accepted"
    BY <2>1, Zenon DEF Inv, TypeOK
  <2>3. Superseded(n)'
    BY <2>2, Zenon DEF Superseded, Closed
  <2>4. e.bound = dlg[n].bound
    BY <1>2, StaysBound, Basics, Zenon
  <2> HIDE DEF e
  <2> QED
    BY <2>1, <2>3, <2>4, JobFinished, Zenon
<1>6. CASE AnswerRejected(p)
  <2> DEFINE e == Evaluate(d, m, FALSE)
  <2>1. /\ Loadable(n) /\ last' = last /\ JobDone(n, p)
        /\ dlg' = [dlg EXCEPT ![n] = e] /\ MayEvaluate(n, d, m, FALSE)
        /\ job[n].status = "running" /\ job[n].stage = "evaluation"
    BY <1>1, <1>6, Zenon DEF AnswerRejected, Evaluates, Leased, Holds
  <2>2. e.bound = dlg[n].bound
    BY <1>2, StaysBound, Basics, Zenon
  <2>3. CASE OutOfAnswers(d, Len(d.questions))
    <3>1. status' = [status EXCEPT ![n] = "exhausted"]
      BY <1>1, <1>6, <2>3, Zenon DEF AnswerRejected
    <3>2. status'[n] = "exhausted"
      BY <3>1, Zenon DEF Inv, TypeOK
    <3>3. Superseded(n)'
      BY <3>2, Zenon DEF Superseded, Closed
    <3> HIDE DEF e
    <3> QED
      BY <2>1, <2>2, <3>3, JobFinished, Zenon
  <2>4. CASE ~OutOfAnswers(d, Len(d.questions))
    <3>1. /\ d.messages[m].question = Len(d.questions) /\ ~Ready(d)
          /\ d.questions # <<>> /\ EvidenceOK(e)
      BY <2>1, Zenon DEF MayEvaluate
    <3>2. WithinTurns(d) /\ AwaitsVerdict(d)
      BY <1>3, <2>1, Zenon DEF MayEvaluate
    <3>3. WithinTurns(e) /\ AwaitsAnswer(e)
      BY <1>2, <2>4, <3>1, <3>2, EvaluateTurns, Basics, Zenon
    <3> HIDE DEF e
    <3> QED
      BY <2>1, <2>2, <3>1, <3>3, JobFinished, Zenon
  <2> QED
    BY <2>3, <2>4
<1> QED
  BY <1>4, <1>5, <1>6, AnswerAcceptedWorks, Zenon DEF CommitEvaluation

LEMMA FailureIsQuiet ==
    ASSUME Inv, NEW p \in Workers,
           WorkerFails(p) \/ FailDialogue(p) \/ Crash(p)
    PROVE  QuietStep
<1>1. worker[p] \in WorkerRow
  BY Zenon DEF Inv, TypeOK
<1>2. PICK w : worker' = [worker EXCEPT ![p] = w] /\ w.pc # "thinking"
  <2>1. Idle.pc # "thinking"
    BY Zenon DEF Idle
  <2>2. [worker[p] EXCEPT !.pc = "failing"].pc # "thinking"
    BY <1>1, Zenon DEF WorkerRow
  <2> QED
    BY <2>1, <2>2, Zenon DEF WorkerFails, FailDialogue, Crash
<1>3. SameReads
  BY <1>2, Zenon DEF SameReads, Inv, TypeOK
<1>4. ASSUME UNCHANGED <<requirementVars, evidenceVars, job>> PROVE QuietStep
  <2>1. UNCHANGED <<last, status, dlg, job>> /\ occ' = occ
    BY <1>4, Zenon DEF requirementVars, evidenceVars
  <2>2. QuietRows
    BY <2>1, SameRows, Zenon
  <2> QED
    BY <1>3, <2>2, Zenon DEF QuietStep
<1>5. ASSUME FailDialogue(p),
             ~UNCHANGED <<requirementVars, evidenceVars, job>>
      PROVE  QuietStep
  <2>1. PICK n \in Numbers : n = worker[p].attempt
    BY <1>5, Zenon DEF FailDialogue, Inv, WorkerRefs
  <2>2. /\ CleanUp(n) \/ FailLeased(n) \/ Exhaust(n)
        /\ job[n].status = "running"
    BY <1>5, <2>1, Zenon DEF FailDialogue, Holds
  <2>3. Unsettled(n)
    BY <2>2, Zenon DEF Unsettled
  <2>4. QuietRows
    BY <2>2, <2>3, SettlingIsQuiet, Zenon
  <2> QED
    BY <1>3, <2>4, Zenon DEF QuietStep
<1> QED
  BY <1>4, <1>5, Zenon DEF WorkerFails, Crash

-----------------------------------------------------------------------------
(* Every behaviour *)

LEMMA InitWorks == ASSUME Init PROVE WorkInv
<1>1. \A n \in Numbers : dlg[n] = NoDialogue /\ job[n] = NoJob
  BY Zenon DEF Init
<1>2. \A p \in Workers : worker[p] = Idle
  BY Zenon DEF Init
<1>3. ~NoDialogue.bound /\ NoJob.status = "none" /\ Idle.pc = "idle"
  BY Zenon DEF NoDialogue, NoJob, Idle
<1>4. \A n \in Numbers : Unbegun(n)
  BY <1>1, <1>3, Zenon DEF Unbegun
<1>5. \A n \in Numbers : Fits(n) /\ Turns(n)
  BY <1>1, <1>3, Zenon DEF Fits, Turns, Unsettled
<1>6. \A p \in Workers, n \in Numbers : ReadIsCurrent(p, n)
  BY <1>2, <1>3, Zenon DEF ReadIsCurrent
<1> QED
  BY <1>4, <1>5, <1>6, Zenon DEF WorkInv

(* The steps of the talk itself; of all others, only a claim and a read    *)
(* move a worker closer to a commit.                                       *)
TalkStep ==
    \/ \E s \in Sessions : Begins(s) \/ Admit(s)
    \/ RetryDialogue
    \/ \E p \in Workers : CommitQuestion(p) \/ CommitEvaluation(p)
WorkStep ==
    \E p \in Workers : ReadState(p) \/ \E n \in Numbers : Claim(p, n)

LEMMA StepKinds ==
    ASSUME Inv, WorkInv, [Next]_vars PROVE QuietStep \/ WorkStep \/ TalkStep
<1>1. CASE UNCHANGED vars
  <2>1. UNCHANGED <<last, status, dlg, job>> /\ occ' = occ /\ worker' = worker
    BY <1>1, Zenon DEF vars, requirementVars, evidenceVars
  <2> QED
    BY <2>1, SameRows, SameWorkers, Zenon DEF QuietStep
<1>2. CASE StudentStep
  BY <1>2, StudentKinds, Zenon DEF TalkStep
<1>3. CASE ParentStep
  BY <1>3, ParentKinds, Zenon DEF TalkStep
<1>4. CASE JobStep
  BY <1>4, JobKinds, Zenon DEF WorkStep
<1>5. ASSUME NEW p \in Workers, WorkerStep(p) \/ Crash(p)
      PROVE  QuietStep \/ WorkStep \/ TalkStep
  BY <1>5, FailureIsQuiet, Zenon DEF WorkerStep, WorkStep, TalkStep
<1> QED
  BY <1>1, <1>2, <1>3, <1>4, <1>5, Zenon DEF Next

LEMMA StepWorks == ASSUME Inv, WorkInv, [Next]_vars PROVE WorkInv'
<1>1. CASE QuietStep
  BY <1>1, QuietWorks
<1>2. CASE WorkStep
  BY <1>2, ReadStateWorks, ClaimWorks, Zenon DEF WorkStep
<1>3. CASE TalkStep
  BY <1>3, StartWorks, AdmitWorks, RetryDialogueWorks, CommitWorks, Zenon
  DEF TalkStep
<1> QED
  BY <1>1, <1>2, <1>3, StepKinds, Zenon

LEMMA WorkInvHolds == Spec => [](Inv /\ WorkInv)
<1>1. Init => Inv /\ WorkInv
  BY InitInv, InitWorks
<1>2. Inv /\ WorkInv /\ [Next]_vars => Inv' /\ WorkInv'
  BY StepInv, StepWorks
<1> QED
  BY <1>1, <1>2, PTL DEF Spec

(* Whatever workers crash, leases lapse, deadlines pass and parents step   *)
(* in, a job of an open attempt that may still run finds rows it can       *)
(* commit on, and rows recovery can load and close.                        *)
THEOREM JobsFitEvidence == Spec => []JobFitsEvidence
<1>1. Inv /\ WorkInv => JobFitsEvidence
  BY WorkInvSuffices, SMTT(30)
<1> QED
  BY <1>1, WorkInvHolds, PTL

(* What a worker read before it asked the model is what its commit finds,  *)
(* for as long as its lease is the current one.                            *)
THEOREM ReadsStayFresh == Spec => []LeaseKeepsReadFresh
<1>1. Inv /\ WorkInv => LeaseKeepsReadFresh
  BY WorkInvSuffices, SMTT(30)
<1> QED
  BY <1>1, WorkInvHolds, PTL

(* Between jobs, an open dialogue refuses the student's answer for the     *)
(* turn limit alone, and only where that limit is below one answer and all *)
(* follow-ups for each question asked so far.                              *)
THEOREM OnlyTurnsStrand == Spec => []OnlyTurnsRunOut
<1>1. Inv /\ WorkInv => OnlyTurnsRunOut
  BY WorkInvSuffices
<1> QED
  BY <1>1, WorkInvHolds, PTL

(* One answer and all its follow-ups for each question.  A policy that     *)
(* DialogueConfig.Validate accepts may have fewer turns.                   *)
EnoughTurns == MaxTurns >= RequiredQuestions * (1 + AllowedFollowUps)

(* A policy with that many turns never leaves an open dialogue without an  *)
(* answer it would take; so the turn limit is the only way to the stranded *)
(* dialogue of TasksDialogue_turns.cfg, and this is what excludes it.      *)
THEOREM EnoughTurnsSuffice ==
    ASSUME EnoughTurns PROVE Spec => []OpenDialogueTakesAnswer
<1>1. ASSUME Inv, WorkInv PROVE OpenDialogueTakesAnswer
  <2> SUFFICES ASSUME StudentsTurn, NEW d, d = dlg[last]
               PROVE  MayAnswer(last, d)
    BY Zenon DEF OpenDialogueTakesAnswer
  <2>1. /\ MayAnswer(last, d) \/ Len(d.messages) >= MaxTurns
        /\ Len(d.messages) < Len(d.questions) * PerQuestion
        /\ Len(d.questions) <= RequiredQuestions
    BY <1>1, WorkInvSuffices, Zenon
    DEF OnlyTurnsRunOut, StudentsTurn, Loadable, EvidenceOK, PerQuestion
  <2>2. d \in Dialogue
    <3>1. last \in Numbers
      BY <1>1 DEF StudentsTurn, Inv, TypeOK, Numbers
    <3> QED
      BY <1>1, <3>1, Zenon DEF Inv, TypeOK
  <2>3. Len(d.messages) \in Nat /\ Len(d.questions) \in Nat
    BY <2>2, RowTypes, Zenon
  <2>4. Len(d.questions) * PerQuestion <= RequiredQuestions * PerQuestion
    BY <2>1, <2>3, PerQuestionType, PolicyAssumption, SMTT(30)
  <2>5. MaxTurns >= RequiredQuestions * PerQuestion
    BY Zenon DEF EnoughTurns, PerQuestion
  <2>6. /\ Len(d.questions) * PerQuestion \in Nat
        /\ RequiredQuestions * PerQuestion \in Nat /\ MaxTurns \in Nat
    BY <2>3, PerQuestionType, PolicyAssumption
  <2>7. ~(Len(d.messages) >= MaxTurns)
    BY <2>1, <2>3, <2>4, <2>5, <2>6, SMTT(30)
  <2> QED
    BY <2>1, <2>7, Zenon
<1>2. Inv /\ WorkInv => OpenDialogueTakesAnswer
  BY <1>1
<1> QED
  BY <1>2, WorkInvHolds, PTL
-----------------------------------------------------------------------------
(* The talk takes the turns of Interview *)

(* The abstract state read off one attempt. *)
Tries(d) == Cardinality(Answers(d, Len(d.questions)))
PhaseOf(n) ==
    IF Closed(n) THEN "over"
    ELSE IF ~dlg[n].bound THEN "none"
    ELSE IF ~Unsettled(n) THEN "answering"
    ELSE IF job[n].stage = "question" THEN "asking" ELSE "judging"

LEMMA PhaseNow ==
    ASSUME NEW n \in Numbers, n = last
    PROVE  Phase = PhaseOf(n) /\ Current = dlg[n]
<1>1. n # 0
  BY DEF Numbers
<1> QED
  BY <1>1, Zenon DEF Phase, PhaseOf, Over, Closed, Current, Unsettled

LEMMA PhaseNext ==
    ASSUME NEW n \in Numbers, n = last'
    PROVE  Phase' = PhaseOf(n)' /\ Current' = dlg'[n]
<1>1. n # 0
  BY DEF Numbers
<1> QED
  BY <1>1, Zenon DEF Phase, PhaseOf, Over, Closed, Current, Unsettled

LEMMA SameCounts ==
    ASSUME NEW d, NEW e, SameEvidence(d, e)
    PROVE  /\ Len(e.questions) = Len(d.questions)
           /\ Len(e.messages) = Len(d.messages)
           /\ AcceptedCount(e) = AcceptedCount(d) /\ Tries(e) = Tries(d)
<1>1. /\ d.questions = e.questions /\ d.messages = e.messages
      /\ d.evaluations = e.evaluations
  BY Zenon DEF SameEvidence
<1>2. \A k : Question(e, k) = Question(d, k)
  BY <1>1, Zenon DEF Question
<1>3. AcceptedQuestions(e) = AcceptedQuestions(d)
  BY <1>1, <1>2, Zenon DEF AcceptedQuestions
<1>4. \A q : Answers(e, q) = Answers(d, q)
  BY <1>1, Zenon DEF Answers
<1> QED
  BY <1>1, <1>3, <1>4, Zenon DEF AcceptedCount, Tries

LEMMA EmptyCounts ==
    ASSUME NEW d, d.questions = <<>>, d.messages = <<>>, d.evaluations = <<>>
    PROVE  /\ Len(d.questions) = 0 /\ Len(d.messages) = 0
           /\ AcceptedCount(d) = 0 /\ Tries(d) = 0
<1>1. Len(d.questions) = 0 /\ Len(d.messages) = 0
  OBVIOUS
<1>2. DOMAIN d.messages = {} /\ DOMAIN d.evaluations = {}
  OBVIOUS
<1>3. AcceptedQuestions(d) = {}
  BY <1>2, Zenon DEF AcceptedQuestions
<1>4. Answers(d, Len(d.questions)) = {}
  BY <1>2, Zenon DEF Answers
<1> QED
  BY <1>1, <1>3, <1>4, FS_EmptySet, Zenon DEF AcceptedCount, Tries

(* All questions but the current one are accepted. *)
LEMMA OneToAccept ==
    ASSUME NEW d \in Dialogue, EvidenceOK(d),
           AcceptedCount(d) # Len(d.questions)
    PROVE  Len(d.questions) = AcceptedCount(d) + 1
<1> DEFINE L == Len(d.questions)
           A == AcceptedQuestions(d)
<1>1. L \in Nat
  BY RowTypes, Zenon
<1>2. A \subseteq 1..L /\ \A q \in 1..L : q < L => q \in A
  BY AcceptedSoFar, Zenon
<1>3. L # 0 /\ L \notin A
  BY CountOfAccepted, Zenon
<1> HIDE DEF A, L
<1>4. A = 1..(L - 1)
  <2>1. \A q \in 1..L : q < L \/ q = L
    BY <1>1
  <2>2. \A q : q \in 1..(L - 1) <=> q \in 1..L /\ q < L
    BY <1>1
  <2>3. \A q \in 1..L : q \in A => q < L
    BY <1>3, <2>1, Zenon
  <2> QED
    BY <1>2, <2>2, <2>3, Zenon
<1>5. Cardinality(A) = L - 1
  <2>1. 1 \in Int /\ L - 1 \in Int /\ L - 1 \in Nat
    BY <1>1, <1>3
  <2>2. Cardinality(1..(L - 1)) = IF 1 > L - 1 THEN 0 ELSE (L - 1) - 1 + 1
    BY <2>1, FS_Interval
  <2> QED
    BY <1>1, <1>3, <1>4, <2>1, <2>2, SMTT(30)
<1> QED
  BY <1>1, <1>5 DEF AcceptedCount, A, L

LEMMA OnSameAttempt ==
    ASSUME NEW n \in Numbers, n = last, last' = last
    PROVE  /\ Phase = PhaseOf(n) /\ Current = dlg[n]
           /\ Phase' = PhaseOf(n)' /\ Current' = dlg'[n]
BY PhaseNow, PhaseNext, Zenon

(* A step that leaves the rows of the talk alone is a pause or a close. *)
LEMMA PauseOrClose ==
    ASSUME last' = last, SameEvidence(Current, Current'),
           Phase' = Phase \/ Phase' = "over"
    PROVE  Talk!Next \/ UNCHANGED Talk!vars
<1>1. /\ Len(Current'.questions) = Len(Current.questions)
      /\ Len(Current'.messages) = Len(Current.messages)
      /\ AcceptedCount(Current') = AcceptedCount(Current)
      /\ Tries(Current') = Tries(Current)
  BY SameCounts, Zenon
<1>2. CASE Phase' = Phase
  BY <1>1, <1>2, Zenon DEF Talk!vars, Tries
<1>3. CASE Phase' = "over"
  <2>1. Talk!Close
    BY <1>1, <1>3, Zenon DEF Talk!Close, Tries
  <2> QED
    BY <2>1, Zenon DEF Talk!Next
<1> QED
  BY <1>2, <1>3

LEMMA QuietTalk ==
    ASSUME Inv, QuietRows, IsTerminal(occ) => IsTerminal(occ')
    PROVE  Talk!Next \/ UNCHANGED Talk!vars
<1>1. CASE last = 0
  <2>1. last' = last /\ Current = NoDialogue /\ Current' = NoDialogue
    BY <1>1, Zenon DEF QuietRows, Current
  <2>2. ~NoDialogue.bound
    BY Zenon DEF NoDialogue
  <2>3. Phase' = Phase \/ Phase' = "over"
    BY <1>1, <2>1, <2>2, Zenon DEF Phase, Over
  <2> QED
    BY <2>1, <2>3, PauseOrClose, Zenon DEF SameEvidence
<1>2. CASE last # 0
  <2>1. PICK n \in Numbers : n = last
    BY <1>2 DEF Inv, TypeOK, Numbers
  <2>2. last' = last /\ Quiet(n)
    BY Zenon DEF QuietRows
  <2>3. /\ Phase = PhaseOf(n) /\ Current = dlg[n]
        /\ Phase' = PhaseOf(n)' /\ Current' = dlg'[n]
    BY <2>1, <2>2, OnSameAttempt, Zenon
  <2>4. SameEvidence(Current, Current')
    BY <2>2, <2>3, Zenon DEF Quiet, Keeps, Closes, SameEvidence
  <2>5. CASE Superseded(n)'
    <3>1. PhaseOf(n)' = "over"
      BY <2>1, <2>2, <2>5, Zenon DEF Superseded, PhaseOf
    <3> QED
      BY <2>2, <2>3, <2>4, <3>1, PauseOrClose, Zenon
  <2>6. CASE ~Superseded(n)'
    <3>1. Keeps(n) /\ ~Superseded(n)
      BY <2>2, <2>6, Zenon DEF Quiet, Keeps, Closes
    <3>2. PhaseOf(n)' = PhaseOf(n)
      BY <2>6, <3>1, Zenon DEF Keeps, SameWork, Superseded, PhaseOf
    <3> QED
      BY <2>2, <2>3, <2>4, <3>2, PauseOrClose, Zenon
  <2> QED
    BY <2>5, <2>6
<1> QED
  BY <1>1, <1>2

LEMMA ClaimPauses ==
    ASSUME Inv, NEW p \in Workers, NEW n \in Numbers, Claim(p, n)
    PROVE  UNCHANGED Talk!vars
<1> DEFINE j == [job[n] EXCEPT !.status = "running", !.owner = p,
                               !.leased = TRUE, !.attempts = @ + 1,
                               !.generation = @ + 1]
<1>1. /\ last' = last /\ dlg' = dlg /\ status' = status /\ occ' = occ
      /\ job[n].status = "queued" /\ job' = [job EXCEPT ![n] = j]
  BY Zenon DEF Claim, requirementVars, evidenceVars
<1>2. job[n] \in Job
  BY Zenon DEF Inv, TypeOK
<1>3. j.status = "running" /\ j.stage = job[n].stage
  BY <1>2, Zenon DEF Job
<1> HIDE DEF j
<1>4. \A k \in Numbers : job'[k] = IF k = n THEN j ELSE job[k]
  BY <1>1, Zenon DEF Inv, TypeOK
<1>5. \A k \in Numbers : /\ Unsettled(k)' <=> Unsettled(k)
                         /\ job'[k].stage = job[k].stage
  BY <1>1, <1>3, <1>4, Zenon DEF Unsettled
<1>6. Current' = Current
  BY <1>1, Zenon DEF Current
<1>7. Phase' = Phase
  <2>1. CASE last = 0
    <3>1. ~Current.bound
      BY <2>1, Zenon DEF Current, NoDialogue
    <3> QED
      BY <1>1, <1>6, <3>1, Zenon DEF Phase, Over
  <2>2. CASE last # 0
    <3>1. PICK k \in Numbers : k = last
      BY <2>2 DEF Inv, TypeOK, Numbers
    <3>2. PhaseOf(k)' = PhaseOf(k)
      BY <1>1, <1>5, Zenon DEF PhaseOf, Closed
    <3> QED
      BY <1>1, <3>1, <3>2, OnSameAttempt, Zenon
  <2> QED
    BY <2>1, <2>2
<1> QED
  BY <1>1, <1>6, <1>7, Zenon DEF Talk!vars

LEMMA BeginTalk ==
    ASSUME Inv, WorkInv, NEW s \in Sessions, Begins(s) PROVE Talk!Begin
<1>1. PICK n \in Numbers :
          /\ n = IF last = 0 THEN 1 ELSE last
          /\ last' = n /\ dlg[n] = NoDialogue
          /\ dlg'[n] = [NoDialogue EXCEPT !.bound = TRUE]
          /\ job'[n] = NewJob(0, "question", s)
  BY BeginsWhat, Zenon
<1>2. /\ ~IsTerminal(occ)
      /\ last = 0 \/ status[last] = "open"
      /\ status' = [status EXCEPT ![n] = "open"] /\ ~IsTerminal(occ')
  BY <1>1, Zenon DEF Begins, Start, IsTerminal
<1>3. Phase = "none"
  BY <1>2, Zenon DEF Begins, Phase, Over
<1>4. Current = NoDialogue
  BY <1>1, Zenon DEF Current
<1>5. Phase' = PhaseOf(n)' /\ Current' = dlg'[n]
  BY <1>1, PhaseNext, Zenon
<1>6. /\ dlg'[n].bound /\ Unsettled(n)' /\ job'[n].stage = "question"
  BY <1>1, Zenon DEF NoDialogue, NewJob, NoJob, Unsettled
<1>7. status'[n] = "open"
  BY <1>2, Zenon DEF Inv, TypeOK
<1>8. Phase' = "asking"
  BY <1>2, <1>5, <1>6, <1>7, Zenon DEF PhaseOf, Closed
<1>9. SameEvidence(Current, Current')
  BY <1>1, <1>4, <1>5, Zenon DEF SameEvidence, NoDialogue
<1>10. /\ Len(Current'.questions) = Len(Current.questions)
       /\ Len(Current'.messages) = Len(Current.messages)
       /\ AcceptedCount(Current') = AcceptedCount(Current)
       /\ Tries(Current') = Tries(Current)
  BY <1>9, SameCounts, Zenon
<1> QED
  BY <1>1, <1>3, <1>8, <1>10, Zenon DEF Talk!Begin, Tries

LEMMA AnswerTalk ==
    ASSUME Inv, WorkInv, NEW s \in Sessions, Admit(s) PROVE Talk!Answer
<1>1. PICK n \in Numbers : n = last
  BY DEF Admit, Inv, TypeOK, Numbers
<1> DEFINE d == dlg[n]
           m == Len(d.messages) + 1
<1>2. /\ Loadable(n) /\ MayAnswer(n, d) /\ ~Unsettled(n)
      /\ last' = last /\ status' = status /\ occ' = occ
      /\ dlg' = [dlg EXCEPT ![n] = Answer(d)]
      /\ job' = [job EXCEPT ![n] = NewJob(m, "evaluation", s)]
  BY <1>1, Zenon DEF Admit, requirementVars
<1>3. /\ d \in Dialogue /\ dlg'[n] = Answer(d)
      /\ job'[n] = NewJob(m, "evaluation", s)
  BY <1>2, Zenon DEF Inv, TypeOK
<1>4. /\ Phase = PhaseOf(n) /\ Current = d
      /\ Phase' = PhaseOf(n)' /\ Current' = Answer(d)
  BY <1>1, <1>2, <1>3, OnSameAttempt, Zenon
<1>5. d.bound /\ Answer(d).bound /\ EvidenceOK(d)
  BY <1>2, <1>3, StaysBound, Basics, Zenon DEF Loadable
<1>6. Phase = "answering"
  BY <1>2, <1>4, <1>5, Zenon DEF PhaseOf, MayAnswer
<1>7. job'[n].status = "queued" /\ job'[n].stage = "evaluation"
  BY <1>3, Zenon DEF NewJob, NoJob
<1>8. Phase' = "judging"
  <2>1. Unsettled(n)' /\ job'[n].stage # "question"
    BY <1>7, Zenon DEF Unsettled
  <2>2. ~Closed(n)'
    BY <1>2, Zenon DEF Closed, MayAnswer
  <2>3. dlg'[n].bound
    BY <1>3, <1>5, Zenon
  <2> QED
    BY <1>4, <2>1, <2>2, <2>3, Zenon DEF PhaseOf
<1>9. ~OutOfAnswers(d, Len(d.questions))
  BY <1>2, Zenon DEF MayAnswer
<1> HIDE DEF d, m
<1>10. Tries(d) < 1 + AllowedFollowUps /\ Len(d.messages) < MaxTurns
  <2>1. Tries(d) \in Nat /\ Len(d.messages) \in Nat
    BY <1>3, RowTypes, CountsAreNumbers, Zenon DEF Tries
  <2>2. ~(Tries(d) >= 1 + AllowedFollowUps) /\ ~(Len(d.messages) >= MaxTurns)
    BY <1>9, Zenon DEF OutOfAnswers, Tries
  <2> QED
    BY <2>1, <2>2, PolicyAssumption, SMTT(30)
<1>11. /\ Answer(d).questions = d.questions
       /\ Len(Answer(d).messages) = Len(d.messages) + 1
  BY <1>3, AnswerRows, Zenon
<1>12. /\ Cardinality(Answers(Answer(d), Len(d.questions))) = Tries(d) + 1
       /\ AcceptedQuestions(Answer(d)) = AcceptedQuestions(d)
  BY <1>3, <1>5, AnswerCounts, Zenon DEF Tries
<1>13. Tries(Answer(d)) = Tries(d) + 1
  BY <1>11, <1>12, Zenon DEF Tries
<1>14. AcceptedCount(Answer(d)) = AcceptedCount(d)
  BY <1>12, Zenon DEF AcceptedCount
<1> QED
  BY <1>2, <1>4, <1>6, <1>8, <1>10, <1>11, <1>13, <1>14, Zenon
  DEF Talk!Answer, Tries

LEMMA RetryTalk ==
    ASSUME Inv, WorkInv, RetryDialogue PROVE Talk!Retry
<1>1. PICK n \in Numbers : n = last
  BY DEF RetryDialogue, Inv, TypeOK, Numbers
<1>2. PICK k \in Numbers : k = last + 1 /\ k > last
  BY DEF RetryDialogue, AttemptsLeft, Inv, TypeOK, Numbers
<1>3. /\ last # 0 /\ last < MaxAttempts
  BY PolicyAssumption DEF RetryDialogue, AttemptsLeft, Inv, TypeOK
<1>4. /\ last' = k /\ status[n] # "open" /\ dlg' = dlg
      /\ status' = [status EXCEPT ![k] = "open"] /\ ~IsTerminal(occ')
  BY <1>1, <1>2, Zenon DEF RetryDialogue, evidenceVars, IsTerminal
<1>5. Phase = "over"
  BY <1>1, <1>4, PhaseNow, Zenon DEF PhaseOf, Closed
<1>6. dlg'[k] = NoDialogue
  BY <1>2, <1>4, Zenon DEF WorkInv, Unbegun
<1>7. Phase' = PhaseOf(k)' /\ Current' = NoDialogue
  BY <1>4, <1>6, PhaseNext, Zenon
<1>8. status'[k] = "open" /\ ~dlg'[k].bound
  <2>1. status'[k] = "open"
    BY <1>4, Zenon DEF Inv, TypeOK
  <2>2. ~NoDialogue.bound
    BY Zenon DEF NoDialogue
  <2> QED
    BY <1>6, <2>1, <2>2, Zenon
<1>9. Phase' = "none"
  BY <1>4, <1>7, <1>8, Zenon DEF PhaseOf, Closed
<1>10. /\ NoDialogue.questions = <<>> /\ NoDialogue.messages = <<>>
       /\ NoDialogue.evaluations = <<>>
  BY Zenon DEF NoDialogue
<1>11. /\ Len(NoDialogue.questions) = 0 /\ Len(NoDialogue.messages) = 0
       /\ AcceptedCount(NoDialogue) = 0 /\ Tries(NoDialogue) = 0
  BY <1>10, EmptyCounts, Zenon
<1> QED
  BY <1>2, <1>3, <1>4, <1>5, <1>7, <1>9, <1>11, Zenon DEF Talk!Retry, Tries

LEMMA JobDoneEnds ==
    ASSUME Inv, NEW n \in Numbers, NEW p, JobDone(n, p) PROVE ~Unsettled(n)'
<1> DEFINE j == [EndJob(job[n], "succeeded") EXCEPT !.stage = "done"]
<1>1. job[n] \in Job
  BY Zenon DEF Inv, TypeOK
<1>2. j.status = "succeeded"
  BY <1>1, Zenon DEF EndJob, Job
<1> HIDE DEF j
<1>3. job'[n] = j
  BY Zenon DEF JobDone, Inv, TypeOK, j
<1> QED
  BY <1>2, <1>3, Zenon DEF Unsettled

LEMMA AskTalk ==
    ASSUME Inv, WorkInv, NEW p \in Workers, CommitQuestion(p) PROVE Talk!Ask
<1>1. PICK n \in Numbers : n = worker[p].attempt
  BY Zenon DEF CommitQuestion, Inv, WorkerRefs
<1> DEFINE d == dlg[n]
<1>2. /\ Loadable(n) /\ MayAsk(n, d) /\ Len(d.questions) < RequiredQuestions
      /\ job[n].status = "running" /\ job[n].stage = "question"
      /\ last' = last /\ status' = status /\ occ' = occ /\ JobDone(n, p)
      /\ dlg' = [dlg EXCEPT ![n] = Ask(d)]
  BY <1>1, Zenon
  DEF CommitQuestion, Leased, Holds, JobDone, requirementVars
<1>3. d \in Dialogue /\ dlg'[n] = Ask(d) /\ n = last
  BY <1>2, Zenon DEF Inv, TypeOK, Loadable
<1>4. /\ Phase = PhaseOf(n) /\ Current = d
      /\ Phase' = PhaseOf(n)' /\ Current' = Ask(d)
  BY <1>2, <1>3, OnSameAttempt, Zenon
<1>5. d.bound /\ Ask(d).bound /\ EvidenceOK(d)
  BY <1>2, <1>3, StaysBound, Basics, Zenon DEF Loadable
<1>6. ~Closed(n) /\ ~Closed(n)' /\ Len(d.questions) = AcceptedCount(d)
  BY <1>2, Zenon DEF MayAsk, Closed
<1>7. Phase = "asking"
  <2>1. Unsettled(n)
    BY <1>2, Zenon DEF Unsettled
  <2> QED
    BY <1>2, <1>4, <1>5, <1>6, <2>1, Zenon DEF PhaseOf
<1>8. Phase' = "answering"
  <2>1. ~Unsettled(n)' /\ dlg'[n].bound
    BY <1>2, <1>3, <1>5, JobDoneEnds, Zenon
  <2> QED
    BY <1>4, <1>6, <2>1, Zenon DEF PhaseOf
<1> HIDE DEF d
<1>9. /\ Len(Ask(d).questions) = Len(d.questions) + 1
      /\ Ask(d).messages = d.messages
  BY <1>3, AskRows, Zenon
<1>10. /\ Cardinality(Answers(Ask(d), Len(d.questions) + 1)) = 0
       /\ AcceptedQuestions(Ask(d)) = AcceptedQuestions(d)
  BY <1>3, <1>5, AskCounts, Zenon
<1>11. Tries(Ask(d)) = 0 /\ AcceptedCount(Ask(d)) = AcceptedCount(d)
  BY <1>9, <1>10, Zenon DEF Tries, AcceptedCount
<1> QED
  BY <1>2, <1>4, <1>6, <1>7, <1>8, <1>9, <1>11, Zenon DEF Talk!Ask, Tries

(* What an evaluation of attempt n finds and leaves. *)
Judged(n, d, e, b) ==
    /\ Phase = "judging" /\ Current = d /\ ~Closed(n)
    /\ Phase' = PhaseOf(n)' /\ Current' = e
    /\ dlg'[n] = e /\ e.bound
    /\ Len(d.questions) = AcceptedCount(d) + 1
    /\ Len(e.questions) = Len(d.questions)
    /\ Len(e.messages) = Len(d.messages) /\ Tries(e) = Tries(d)
    /\ b => AcceptedCount(e) = Len(d.questions)
    /\ ~b => AcceptedCount(e) = AcceptedCount(d)
LEMMA Verdicts ==
    ASSUME Inv, WorkInv, NEW p \in Workers, NEW b \in BOOLEAN,
           Evaluates(p, b), last' = last,
           NEW n \in Numbers, n = worker[p].attempt,
           NEW d, d = dlg[n], NEW e, e = Evaluate(d, job[n].message, b)
    PROVE  Judged(n, d, e, b)
<1> DEFINE m == job[n].message
<1>1. /\ Loadable(n) /\ MayEvaluate(n, d, m, b)
      /\ job[n].status = "running" /\ job[n].stage = "evaluation"
      /\ dlg' = [dlg EXCEPT ![n] = e]
  BY Zenon DEF Evaluates, Leased, Holds
<1>2. d \in Dialogue /\ dlg'[n] = e /\ n = last /\ job[n] \in Job
  BY <1>1, Zenon DEF Inv, TypeOK, Loadable
<1>3. m \in Nat
  BY <1>2, JobType, Zenon
<1>4. /\ Phase = PhaseOf(n) /\ Current = d
      /\ Phase' = PhaseOf(n)' /\ Current' = e
  BY <1>2, OnSameAttempt, Zenon
<1>5. d.bound /\ EvidenceOK(d) /\ EvidenceOK(e) /\ ~Closed(n)
  BY <1>1, Zenon DEF Loadable, MayEvaluate
<1>6. e.bound
  BY <1>2, <1>3, <1>5, StaysBound, Zenon
<1>7. Unsettled(n) /\ ~Superseded(n)
  BY <1>1, <1>2, <1>5, Zenon DEF Unsettled, Superseded
<1>8. Phase = "judging"
  BY <1>1, <1>4, <1>5, <1>7, Zenon DEF PhaseOf
<1>9. AcceptedCount(d) # Len(d.questions)
  <2>1. Turns(n)
    BY Zenon DEF WorkInv
  <2> QED
    BY <1>1, <1>5, <1>7, <2>1, Zenon DEF Turns, AwaitsVerdict
<1>10. Len(d.questions) = AcceptedCount(d) + 1
  BY <1>2, <1>5, <1>9, OneToAccept, Zenon
<1>11. d.messages[m].question = Len(d.questions)
  BY <1>1, Zenon DEF MayEvaluate
<1> HIDE DEF m
<1>12. e = Evaluate(d, m, b)
  BY Zenon DEF m
<1>13. e.questions = d.questions /\ e.messages = d.messages
  BY <1>2, <1>12, Zenon DEF Evaluate, Dialogue
<1>14. /\ Answers(e, Len(d.questions)) = Answers(d, Len(d.questions))
       /\ ~b => AcceptedQuestions(e) = AcceptedQuestions(d)
  BY <1>2, <1>3, <1>11, <1>12, EvaluateCounts, SMTT(30)
<1>15. Tries(e) = Tries(d) /\ (~b => AcceptedCount(e) = AcceptedCount(d))
  BY <1>13, <1>14, Zenon DEF Tries, AcceptedCount
<1>16. ASSUME b PROVE AcceptedCount(e) = Len(d.questions)
  <2>1. e = Evaluate(d, m, TRUE)
    <3>1. b = TRUE
      BY <1>16, Zenon
    <3> QED
      BY <1>12, <3>1, Zenon
  <2> QED
    BY <1>2, <1>3, <1>5, <1>11, <1>13, <2>1, AcceptedAnswerTakesQuestion, Zenon
<1> QED
  BY <1>2, <1>4, <1>5, <1>6, <1>8, <1>10, <1>13, <1>15, <1>16, Zenon
  DEF Judged

LEMMA VerdictTalk ==
    ASSUME Inv, WorkInv, NEW p \in Workers, CommitEvaluation(p)
    PROVE  Talk!Accept \/ Talk!Reject
<1>1. PICK n \in Numbers : n = worker[p].attempt
  BY Zenon DEF CommitEvaluation, AnswerAccepted, DialogueAccepted,
               AnswerRejected, Evaluates, Inv, WorkerRefs
<1>2. PICK d : d = dlg[n]
  BY Zenon
<1>3. last' = last
  BY Zenon DEF CommitEvaluation, AnswerAccepted, DialogueAccepted,
               AnswerRejected, requirementVars
<1>4. \A b \in BOOLEAN : Evaluates(p, b) =>
          Judged(n, d, Evaluate(d, job[n].message, b), b)
  BY <1>1, <1>2, <1>3, Verdicts, Zenon
<1>5. CASE AnswerAccepted(p)
  <2>1. PICK e : e = Evaluate(d, job[n].message, TRUE)
    BY Zenon
  <2>2. /\ Evaluates(p, TRUE) /\ ~Ready(dlg'[n])
        /\ job[n].status = "running"
        /\ job' = [job EXCEPT ![n].stage = "question"]
        /\ status' = status /\ occ' = occ
    BY <1>1, <1>5, Zenon
    DEF AnswerAccepted, Evaluates, Leased, Holds, requirementVars
  <2>3. /\ ~Closed(n)
        /\ Phase = "judging" /\ Current = d
        /\ Phase' = PhaseOf(n)' /\ Current' = e
        /\ dlg'[n] = e /\ e.bound
        /\ Len(d.questions) = AcceptedCount(d) + 1
        /\ Len(e.questions) = Len(d.questions)
        /\ Len(e.messages) = Len(d.messages) /\ Tries(e) = Tries(d)
        /\ AcceptedCount(e) = Len(d.questions)
    <3>1. Judged(n, d, e, TRUE)
      BY <1>4, <2>1, <2>2, Basics, Zenon
    <3> QED
      BY <3>1, Zenon DEF Judged
  <2>4. Unsettled(n)' /\ job'[n].stage = "question"
    <3>1. job[n] \in Job /\ job'[n] = [job[n] EXCEPT !.stage = "question"]
      BY <2>2, Zenon DEF Inv, TypeOK
    <3>2. job'[n].status = job[n].status /\ job'[n].stage = "question"
      BY <3>1, Zenon DEF Job
    <3> QED
      BY <2>2, <3>2, Zenon DEF Unsettled
  <2>5. Phase' = "asking"
    BY <2>2, <2>3, <2>4, Zenon DEF PhaseOf, Closed
  <2>6. AcceptedCount(e) # RequiredQuestions
    BY <2>2, <2>3, Zenon DEF Ready
  <2>7. Talk!Accept
    BY <1>3, <2>3, <2>5, <2>6, Zenon DEF Talk!Accept, Tries
  <2> QED
    BY <2>7
<1>6. CASE DialogueAccepted(p)
  <2>1. PICK e : e = Evaluate(d, job[n].message, TRUE)
    BY Zenon
  <2>2. /\ Evaluates(p, TRUE) /\ Ready(dlg'[n])
        /\ status' = [status EXCEPT ![n] = "accepted"]
    BY <1>1, <1>6, Zenon DEF DialogueAccepted
  <2>3. /\ Phase = "judging" /\ Current = d
        /\ Phase' = PhaseOf(n)' /\ Current' = e /\ dlg'[n] = e
        /\ Len(d.questions) = AcceptedCount(d) + 1
        /\ Len(e.questions) = Len(d.questions)
        /\ Len(e.messages) = Len(d.messages) /\ Tries(e) = Tries(d)
        /\ AcceptedCount(e) = Len(d.questions)
    <3>1. Judged(n, d, e, TRUE)
      BY <1>4, <2>1, <2>2, Basics, Zenon
    <3> QED
      BY <3>1, Zenon DEF Judged
  <2>4. status'[n] = "accepted"
    BY <2>2, Zenon DEF Inv, TypeOK
  <2>5. Phase' = "over"
    BY <2>3, <2>4, Zenon DEF PhaseOf, Closed
  <2>6. AcceptedCount(e) = RequiredQuestions
    BY <2>2, <2>3, Zenon DEF Ready
  <2>7. Talk!Accept
    BY <1>3, <2>3, <2>5, <2>6, Zenon DEF Talk!Accept, Tries
  <2> QED
    BY <2>7
<1>7. CASE AnswerRejected(p)
  <2>1. PICK e : e = Evaluate(d, job[n].message, FALSE)
    BY Zenon
  <2>2. Evaluates(p, FALSE) /\ JobDone(n, p)
    BY <1>1, <1>7, Zenon DEF AnswerRejected
  <2>3. /\ ~Closed(n)
        /\ Phase = "judging" /\ Current = d
        /\ Phase' = PhaseOf(n)' /\ Current' = e
        /\ dlg'[n] = e /\ e.bound
        /\ Len(e.questions) = Len(d.questions)
        /\ Len(e.messages) = Len(d.messages) /\ Tries(e) = Tries(d)
        /\ AcceptedCount(e) = AcceptedCount(d)
    <3>1. Judged(n, d, e, FALSE)
      BY <1>4, <2>1, <2>2, Basics, Zenon
    <3> QED
      BY <3>1, Zenon DEF Judged
  <2>4. Talk!UsedUp <=> OutOfAnswers(d, Len(d.questions))
    BY <2>3, Zenon DEF Talk!UsedUp, OutOfAnswers
  <2>5. CASE OutOfAnswers(d, Len(d.questions))
    <3>1. status' = [status EXCEPT ![n] = "exhausted"]
      BY <1>1, <1>2, <1>7, <2>5, Zenon DEF AnswerRejected
    <3>2. status'[n] = "exhausted"
      BY <3>1, Zenon DEF Inv, TypeOK
    <3>3. Phase' = "over"
      BY <2>3, <3>2, Zenon DEF PhaseOf, Closed
    <3>4. Talk!Reject
      BY <1>3, <2>3, <2>4, <2>5, <3>3, Zenon DEF Talk!Reject, Tries
    <3> QED
      BY <3>4
  <2>6. CASE ~OutOfAnswers(d, Len(d.questions))
    <3>1. status' = status /\ occ' = occ
      BY <1>1, <1>2, <1>7, <2>6, Zenon DEF AnswerRejected
    <3>2. ~Unsettled(n)'
      BY <2>2, JobDoneEnds, Zenon
    <3>3. Phase' = "answering"
      BY <2>3, <3>1, <3>2, Zenon DEF PhaseOf, Closed
    <3>4. Talk!Reject
      BY <1>3, <2>3, <2>4, <2>6, <3>3, Zenon DEF Talk!Reject, Tries
    <3> QED
      BY <3>4
  <2> QED
    BY <2>5, <2>6
<1> QED
  BY <1>5, <1>6, <1>7, Zenon DEF CommitEvaluation

LEMMA TerminalStays ==
    ASSUME Inv, [Next]_vars PROVE IsTerminal(occ) => IsTerminal(occ')
<1>1. CASE UNCHANGED vars
  BY <1>1, Zenon DEF vars, requirementVars
<1>2. CASE Next
  <2>1. HistoryStep
    BY <1>2, StudentKeeps, ParentKeeps, JobKeeps, WorkerKeeps, Zenon DEF Next
  <2> QED
    BY <2>1, Zenon DEF HistoryStep
<1> QED
  BY <1>1, <1>2

LEMMA StepTalks ==
    ASSUME Inv, WorkInv, [Next]_vars PROVE Talk!Next \/ UNCHANGED Talk!vars
<1>1. CASE QuietStep
  BY <1>1, TerminalStays, QuietTalk, Zenon DEF QuietStep
<1>2. CASE WorkStep
  <2>1. ASSUME NEW p \in Workers, ReadState(p) PROVE QuietRows
    <3>1. UNCHANGED <<last, status, dlg, job>> /\ occ' = occ
      BY <2>1, Zenon DEF ReadState, requirementVars, evidenceVars
    <3> QED
      BY <3>1, SameRows, Zenon
  <2> QED
    BY <1>2, <2>1, TerminalStays, QuietTalk, ClaimPauses, Zenon DEF WorkStep
<1>3. CASE TalkStep
  BY <1>3, BeginTalk, AnswerTalk, RetryTalk, AskTalk, VerdictTalk, Zenon
  DEF TalkStep, Talk!Next
<1> QED
  BY <1>1, <1>2, <1>3, StepKinds, Zenon

(* Crashed and late workers, lost leases, requeued and retried jobs,       *)
(* deadlines, overrides and resent requests leave no trace in the talk: it *)
(* is an interview in strict turns, for every policy and every number of   *)
(* workers, sessions and attempts.                                         *)
THEOREM TalkTakesTurns == Spec => TakesTurns
<1>1. Init => Talk!Init
  <2> SUFFICES ASSUME Init PROVE Talk!Init
    OBVIOUS
  <2>1. last = 0 /\ Current = NoDialogue /\ ~IsTerminal(occ)
    BY Zenon DEF Init, Current, IsTerminal
  <2>2. /\ NoDialogue.questions = <<>> /\ NoDialogue.messages = <<>>
        /\ NoDialogue.evaluations = <<>> /\ ~NoDialogue.bound
    BY Zenon DEF NoDialogue
  <2>3. Phase = "none"
    BY <2>1, <2>2, Zenon DEF Phase, Over
  <2>4. /\ Len(NoDialogue.questions) = 0 /\ Len(NoDialogue.messages) = 0
        /\ AcceptedCount(NoDialogue) = 0 /\ Tries(NoDialogue) = 0
    BY <2>2, EmptyCounts, Zenon
  <2> QED
    BY <2>1, <2>3, <2>4, Zenon DEF Talk!Init, Tries
<1>2. Inv /\ WorkInv /\ [Next]_vars => [Talk!Next]_(Talk!vars)
  BY StepTalks, Zenon
<1> QED
  BY <1>1, <1>2, WorkInvHolds, PTL DEF Spec, TakesTurns, Talk!Spec
=============================================================================
