--------------------------- MODULE WebhookPromise ---------------------------
(***************************************************************************)
(* What Curriculum Studio promises a webhook subscriber, delivery by       *)
(* delivery (one delivery per endpoint and event), without leases, owners, *)
(* workers or restarts: once an event is owed it is tried at most          *)
(* MaxAttempts times, it counts as delivered only after the receiver       *)
(* accepted a try, it is given up only when every try is spent, and        *)
(* neither verdict is taken back. How often the receiver sees one try is   *)
(* not promised: net/http may send a request again when a connection       *)
(* breaks, and the Idempotency-Key is the receiver's to compare.           *)
(***************************************************************************)
EXTENDS Naturals

CONSTANTS Deliveries, MaxAttempts

VARIABLES phase,     \* delivery -> where it stands
          tries,     \* delivery -> attempts begun
          accepted   \* delivery -> the attempts the receiver accepted,
                     \* once or more often

vars == <<phase, tries, accepted>>

Init ==
    /\ phase = [d \in Deliveries |-> "none"]
    /\ tries = [d \in Deliveries |-> 0]
    /\ accepted = [d \in Deliveries |-> {}]

(* A published event is owed to the endpoints that subscribe to it. *)
Owe(D) ==
    /\ \A d \in D : phase[d] = "none"
    /\ phase' = [d \in Deliveries |-> IF d \in D THEN "owed" ELSE phase[d]]
    /\ UNCHANGED <<tries, accepted>>

Try(d) ==
    /\ phase[d] = "owed" /\ tries[d] < MaxAttempts
    /\ tries' = [tries EXCEPT ![d] = @ + 1]
    /\ UNCHANGED <<phase, accepted>>

(* The receiver may accept a try long after it began, even one that has *)
(* been overtaken by a later try.                                       *)
Accept(d, a) ==
    /\ a \in 1..tries[d]
    /\ accepted' = [accepted EXCEPT ![d] = @ \cup {a}]
    /\ UNCHANGED <<phase, tries>>

Settle(d) ==
    /\ phase[d] = "owed" /\ accepted[d] # {}
    /\ phase' = [phase EXCEPT ![d] = "delivered"]
    /\ UNCHANGED <<tries, accepted>>

GiveUp(d) ==
    /\ phase[d] = "owed" /\ tries[d] = MaxAttempts
    /\ phase' = [phase EXCEPT ![d] = "dead"]
    /\ UNCHANGED <<tries, accepted>>

(* The endpoint is deleted, or old deliveries are purged. *)
Drop(D) ==
    /\ \A d \in D : phase[d] # "none"
    /\ phase' = [d \in Deliveries |-> IF d \in D THEN "removed" ELSE phase[d]]
    /\ UNCHANGED <<tries, accepted>>

Next ==
    \/ \E D \in SUBSET Deliveries : Owe(D) \/ Drop(D)
    \/ \E d \in Deliveries :
           \/ Try(d) \/ Settle(d) \/ GiveUp(d)
           \/ \E a \in 1..MaxAttempts : Accept(d, a)

Spec == Init /\ [][Next]_vars
=============================================================================
