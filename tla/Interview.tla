----------------------------- MODULE Interview -----------------------------
(***************************************************************************)
(* What Primer Tasks promises of a dialogue verification, without jobs,    *)
(* leases, workers, models or restarts: an interview in strict turns.  A   *)
(* question is asked when all before it are accepted, the student answers, *)
(* the answer is judged once, and a rejected answer gives the same         *)
(* question back while follow-ups and turns last.  The attempt is over     *)
(* when all required questions are accepted, when the answers are used up, *)
(* or when it is closed from outside (a parent decides, the work on it     *)
(* fails for good, the task ends), and what is over stays as it is; a      *)
(* retry is a new interview.                                               *)
(***************************************************************************)
EXTENDS Naturals

CONSTANTS MaxAttempts, RequiredQuestions, AllowedFollowUps, MaxTurns

VARIABLES attempt,    \* number of the current attempt, 0 before the first
          phase,      \* whose turn it is
          asked,      \* questions asked in this attempt
          accepted,   \* questions accepted
          tries,      \* answers to the current question
          turns       \* answers in all

vars == <<attempt, phase, asked, accepted, tries, turns>>

Init ==
    /\ attempt = 0 /\ phase = "none"
    /\ asked = 0 /\ accepted = 0 /\ tries = 0 /\ turns = 0

(* The first attempt, or the one a retry created. *)
Begin ==
    /\ phase = "none"
    /\ attempt' = IF attempt = 0 THEN 1 ELSE attempt
    /\ phase' = "asking"
    /\ UNCHANGED <<asked, accepted, tries, turns>>

Ask ==
    /\ phase = "asking" /\ accepted = asked /\ asked < RequiredQuestions
    /\ phase' = "answering"
    /\ asked' = asked + 1 /\ tries' = 0
    /\ UNCHANGED <<attempt, accepted, turns>>

Answer ==
    /\ phase = "answering"
    /\ tries < 1 + AllowedFollowUps /\ turns < MaxTurns
    /\ phase' = "judging"
    /\ tries' = tries + 1 /\ turns' = turns + 1
    /\ UNCHANGED <<attempt, asked, accepted>>

(* The last accepted question ends the interview. *)
Accept ==
    /\ phase = "judging" /\ asked = accepted + 1
    /\ accepted' = asked
    /\ phase' = IF accepted' = RequiredQuestions THEN "over" ELSE "asking"
    /\ UNCHANGED <<attempt, asked, tries, turns>>

UsedUp == tries >= 1 + AllowedFollowUps \/ turns >= MaxTurns
Reject ==
    /\ phase = "judging"
    /\ phase' = IF UsedUp THEN "over" ELSE "answering"
    /\ UNCHANGED <<attempt, asked, accepted, tries, turns>>

Close ==
    /\ phase' = "over"
    /\ UNCHANGED <<attempt, asked, accepted, tries, turns>>

Retry ==
    /\ phase = "over" /\ attempt # 0 /\ attempt < MaxAttempts
    /\ attempt' = attempt + 1 /\ phase' = "none"
    /\ asked' = 0 /\ accepted' = 0 /\ tries' = 0 /\ turns' = 0

Next == Begin \/ Ask \/ Answer \/ Accept \/ Reject \/ Close \/ Retry

Spec == Init /\ [][Next]_vars
=============================================================================
