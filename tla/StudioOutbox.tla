---------------------------- MODULE StudioOutbox ----------------------------
(***************************************************************************)
(* Curriculum Studio's transactional outbox and webhook delivery:          *)
(* curriculum-studio/internal/outbox/worker.go over the rows of            *)
(* internal/repo/events.go, the endpoint operations of internal/api/       *)
(* webhooks.go and the purge of internal/repo/retention.go.                *)
(*                                                                         *)
(* Several server processes share the tables; each runs one Worker, whose  *)
(* Tick publishes at most one event and attempts at most one delivery.     *)
(* Processes stop and restart, statements fail, leases lapse while a       *)
(* request is in flight, the receiver's answer is lost, and endpoints are  *)
(* paused, retargeted and deleted under the workers.                       *)
(***************************************************************************)
EXTENDS Naturals, FiniteSets

CONSTANTS Events, Endpoints,
          Types,         \* event types
          TypeOf,        \* event -> its type
          Workers,       \* the server processes
          Owners,        \* lease owner names
          Naming,        \* the ways the processes may be named
          MaxAttempts,   \* Config.MaxAttempts
          None

ASSUME OutboxAssumption ==
    /\ MaxAttempts \in Nat \ {0}
    /\ TypeOf \in [Events -> Types]
    /\ Naming \subseteq [Workers -> Owners]
    /\ None \notin Owners /\ None \notin Endpoints \X Events

Deliveries == Endpoints \X Events

VARIABLES event,     \* outbox_events: event -> published or not
          endpoint,  \* webhook_endpoints: endpoint -> status, event_types
          delivery,  \* webhook_deliveries: (endpoint, event) -> row
          worker,    \* process -> where its Tick stands and what it claimed
          name,      \* process -> Worker.owner
          accepted   \* delivery -> attempts the receiver answered by a 2xx,
                     \* once or more often

vars == <<event, endpoint, delivery, worker, name, accepted>>

(* A row that is removed keeps its attempt count only to relate it to what *)
(* the receiver saw; no action reads it.                                   *)
Row == [status : {"none", "pending", "failed", "delivered", "removed"},
        attempts : 0..MaxAttempts, owner : Owners \cup {None},
        leased : BOOLEAN]

Endpoint == [status : {"none", "active", "paused", "gone"},
             types : SUBSET Types]

Stage == {"fanout", "deliver", "claimed", "sending", "refused", "accepted"}

Hand == [pc : Stage, at : Deliveries \cup {None}, attempt : 0..MaxAttempts]

(* Between two deliveries a Worker holds nothing. *)
Free(pc) == [pc |-> pc, at |-> None, attempt |-> 0]

(* NewWorker: the owner is "studio-server-" and the listen address, so it   *)
(* survives a restart, and replicas that listen on the same address share   *)
(* it.                                                                      *)
Init ==
    /\ event = [e \in Events |-> "none"]
    /\ endpoint = [p \in Endpoints |-> [status |-> "none", types |-> {}]]
    /\ delivery = [d \in Deliveries |->
                      [status |-> "none", attempts |-> 0, owner |-> None,
                       leased |-> FALSE]]
    /\ worker = [w \in Workers |-> Free("fanout")]
    /\ name \in Naming
    /\ accepted = [d \in Deliveries |-> {}]

---------------------------------------------------------------------------
(* Producers, endpoint operations and retention.                           *)

(* OutboxRepo.Enqueue, inside the transaction of the change it reports. *)
Enqueue(e) ==
    /\ event[e] = "none"
    /\ event' = [event EXCEPT ![e] = "queued"]
    /\ UNCHANGED <<endpoint, delivery, worker, name, accepted>>

(* createWebhookEndpoint and updateWebhookEndpoint: status and event types *)
(* are replaced together.                                                  *)
CreateEndpoint(p, s, T) ==
    /\ endpoint[p].status = "none"
    /\ endpoint' = [endpoint EXCEPT ![p] = [status |-> s, types |-> T]]
    /\ UNCHANGED <<event, delivery, worker, name, accepted>>

UpdateEndpoint(p, s, T) ==
    /\ endpoint[p].status \in {"active", "paused"}
    /\ endpoint' = [endpoint EXCEPT ![p] = [status |-> s, types |-> T]]
    /\ UNCHANGED <<event, delivery, worker, name, accepted>>

Scheduled(d) == delivery[d].status \in {"pending", "failed", "delivered"}

Removed(r) == [r EXCEPT !.status = "removed", !.owner = None, !.leased = FALSE]

RemoveRows(D) ==
    delivery' = [d \in Deliveries |->
                    IF d \in D THEN Removed(delivery[d]) ELSE delivery[d]]

(* deleteWebhookEndpoint: the rows of the endpoint go with it (ON DELETE *)
(* CASCADE).                                                             *)
DeleteEndpoint(p) ==
    /\ endpoint[p].status \in {"active", "paused"}
    /\ endpoint' = [endpoint EXCEPT ![p] = [status |-> "gone", types |-> {}]]
    /\ RemoveRows({d \in Deliveries : d[1] = p /\ Scheduled(d)})
    /\ UNCHANGED <<event, worker, name, accepted>>

(* RetentionRepo.Retain: the delivered and failed rows that are old enough, *)
(* a leased or still retryable failed row included.                         *)
Purge(D) ==
    /\ D # {}
    /\ \A d \in D : delivery[d].status \in {"delivered", "failed"}
    /\ RemoveRows(D)
    /\ UNCHANGED <<event, endpoint, worker, name, accepted>>

---------------------------------------------------------------------------
(* Tick, first half: fanoutOne.                                            *)

(* ListActiveForEvent; no event types means all of them. *)
Subscribed(p, e) ==
    /\ endpoint[p].status = "active"
    /\ endpoint[p].types = {} \/ TypeOf[e] \in endpoint[p].types

(* Schedule inserts a pending row, or keeps the one that is there. *)
Schedule(e) ==
    delivery' = [d \in Deliveries |->
                    IF /\ d[2] = e /\ Subscribed(d[1], e)
                       /\ delivery[d].status = "none"
                    THEN [delivery[d] EXCEPT !.status = "pending"]
                    ELSE delivery[d]]

(* Variant: an event nobody subscribes to is left unpublished. *)
MarkPublishedIfOwed(e) ==
    event' = IF \E p \in Endpoints : Subscribed(p, e)
             THEN [event EXCEPT ![e] = "published"] ELSE event

MarkPublished(e) == event' = [event EXCEPT ![e] = "published"]

(* One transaction schedules the deliveries and marks the event. SKIP      *)
(* LOCKED passes over an event another process is publishing, so the event *)
(* taken need not be the oldest.                                           *)
Fanout(w) ==
    /\ worker[w].pc = "fanout"
    /\ \/ \E e \in Events :
              /\ event[e] = "queued"
              /\ Schedule(e)
              /\ MarkPublished(e)
       \/ /\ \A e \in Events : event[e] # "queued"
          /\ UNCHANGED <<event, delivery>>
    /\ worker' = [worker EXCEPT ![w] = Free("deliver")]
    /\ UNCHANGED <<endpoint, name, accepted>>

---------------------------------------------------------------------------
(* Tick, second half: deliverOne.                                          *)

(* Variant: the attempt limit is not part of the query. *)
DueWithoutLimit(d) ==
    delivery[d].status \in {"pending", "failed"} /\ ~delivery[d].leased

(* Variant: only rows nobody owns are due, as if every claim were released. *)
DueUnowned(d) ==
    /\ delivery[d].status \in {"pending", "failed"}
    /\ ~delivery[d].leased /\ delivery[d].owner = None
    /\ delivery[d].attempts < MaxAttempts

(* ClaimRetryable's condition; a lease that is null or in the past is free. *)
Due(d) ==
    /\ delivery[d].status \in {"pending", "failed"}
    /\ ~delivery[d].leased
    /\ delivery[d].attempts < MaxAttempts

(* Variant: the attempt is left for its outcome to count. *)
CountedLater(d) == delivery[d].attempts

Counted(d) == delivery[d].attempts + 1

Claim(w) ==
    /\ worker[w].pc = "deliver"
    /\ \/ \E d \in Deliveries :
              /\ Due(d)
              /\ delivery' = [delivery EXCEPT ![d] =
                                 [delivery[d] EXCEPT
                                     !.owner = name[w], !.leased = TRUE,
                                     !.attempts = Counted(d)]]
              /\ worker' = [worker EXCEPT ![w] =
                               [pc |-> "claimed", at |-> d,
                                attempt |-> Counted(d)]]
       \/ /\ \A d \in Deliveries : ~Due(d)
          /\ worker' = [worker EXCEPT ![w] = Free("fanout")]
          /\ UNCHANGED delivery
    /\ UNCHANGED <<event, endpoint, name, accepted>>

Move(w, pc) == worker' = [worker EXCEPT ![w] = [worker[w] EXCEPT !.pc = pc]]

(* postClaimed reads the event, the endpoint and the secret before it      *)
(* sends: any of the reads may fail, and an endpoint that is not active    *)
(* (or gone) is refused.                                                   *)
Load(w) ==
    /\ worker[w].pc = "claimed"
    /\ \/ Move(w, "refused")
       \/ /\ endpoint[worker[w].at[1]].status = "active"
          /\ Move(w, "sending")
    /\ UNCHANGED <<event, endpoint, delivery, name, accepted>>

Accepts(w) ==
    accepted' = [accepted EXCEPT ![worker[w].at] = @ \cup {worker[w].attempt}]

(* The POST: answered by a 2xx, answered by a 2xx that is lost on the way, *)
(* or not accepted (another status, no answer in time). net/http may send  *)
(* it again on a broken connection, its body being replayable and its      *)
(* Idempotency-Key set: that is part of the same POST, and the attempt is  *)
(* accepted when any of the copies is.                                     *)
Post(w) ==
    /\ worker[w].pc = "sending"
    /\ \/ Accepts(w) /\ Move(w, "accepted")
       \/ Accepts(w) /\ Move(w, "refused")
       \/ UNCHANGED accepted /\ Move(w, "refused")
    /\ UNCHANGED <<event, endpoint, delivery, name>>

(* Variant: the outcome is written by row id alone. *)
HoldsById(w) == Scheduled(worker[w].at)

(* Variant: any live lease passes, whoever owns it. *)
HoldsAnyLease(w) == delivery[worker[w].at].leased

(* The fence of ReleaseForRetry and finishDelivery: lease_owner is this     *)
(* worker's name and lease_expires_at is in the future.                     *)
Holds(w) ==
    LET r == delivery[worker[w].at] IN
    r.leased /\ r.owner = name[w]

(* MarkDelivered and MarkFailed: finishDelivery. *)
Finished(r, s) == [r EXCEPT !.status = s, !.owner = None, !.leased = FALSE]

(* ReleaseForRetry: failed, and leased to nobody until the backoff is over. *)
Released(r) == [r EXCEPT !.status = "failed", !.owner = None]

(* What deliverOne writes after the answer. *)
Outcome(w) ==
    LET r == delivery[worker[w].at] IN
    IF worker[w].pc = "accepted" THEN Finished(r, "delivered")
    ELSE IF worker[w].attempt >= MaxAttempts THEN Finished(r, "failed")
    ELSE Released(r)

(* The outcome is stored if the lease is still this worker's; a lost lease *)
(* (deliveryNoLongerOwned) is not an error and changes nothing.            *)
Record(w) ==
    /\ worker[w].pc \in {"refused", "accepted"}
    /\ delivery' = IF Holds(w)
                   THEN [delivery EXCEPT ![worker[w].at] = Outcome(w)]
                   ELSE delivery
    /\ worker' = [worker EXCEPT ![w] = Free("fanout")]
    /\ UNCHANGED <<event, endpoint, name, accepted>>

(* The process stops, or the statement fails, between the claim and the     *)
(* record: the row stays leased. Before a claim a process holds nothing and *)
(* starting over is no step of the system.                                  *)
Abandon(w) ==
    /\ worker[w].at # None
    /\ worker' = [worker EXCEPT ![w] = Free("fanout")]
    /\ UNCHANGED <<event, endpoint, delivery, name, accepted>>

(* lease_expires_at passes: the 30 s of a claim or the backoff. *)
LeaseLapses(d) ==
    /\ delivery[d].leased
    /\ delivery' = [delivery EXCEPT ![d] =
                       [delivery[d] EXCEPT !.leased = FALSE]]
    /\ UNCHANGED <<event, endpoint, worker, name, accepted>>

---------------------------------------------------------------------------
Tick(w) == Fanout(w) \/ Claim(w) \/ Load(w) \/ Post(w) \/ Record(w)

Operate ==
    \/ \E e \in Events : Enqueue(e)
    \/ \E p \in Endpoints, s \in {"active", "paused"}, T \in SUBSET Types :
           CreateEndpoint(p, s, T) \/ UpdateEndpoint(p, s, T)
    \/ \E p \in Endpoints : DeleteEndpoint(p)
    \/ \E D \in SUBSET Deliveries : Purge(D)

Next ==
    \/ Operate
    \/ \E w \in Workers : Tick(w) \/ Abandon(w)
    \/ \E d \in Deliveries : LeaseLapses(d)

(* Worker.Run ticks for as long as the process lives, and time passes. *)
Fairness ==
    /\ \A w \in Workers : WF_vars(Tick(w))
    /\ \A d \in Deliveries : WF_vars(LeaseLapses(d))

Spec == Init /\ [][Next]_vars /\ Fairness

---------------------------------------------------------------------------
TypeOK ==
    /\ event \in [Events -> {"none", "queued", "published"}]
    /\ endpoint \in [Endpoints -> Endpoint]
    /\ delivery \in [Deliveries -> Row]
    /\ worker \in [Workers -> Hand]
    /\ name \in Naming
    /\ accepted \in [Deliveries -> SUBSET (1..MaxAttempts)]

(* The promise to subscribers, StudioOutbox without its machinery. A row   *)
(* whose attempts are spent is still owed while the last one is leased.    *)
Phase(d) ==
    LET r == delivery[d] IN
    IF r.status \notin {"pending", "failed"} THEN r.status
    ELSE IF r.attempts = MaxAttempts /\ ~r.leased THEN "dead"
    ELSE "owed"

Promise == INSTANCE WebhookPromise WITH
    Deliveries <- Deliveries,
    MaxAttempts <- MaxAttempts,
    phase <- [d \in Deliveries |-> Phase(d)],
    tries <- [d \in Deliveries |-> delivery[d].attempts],
    accepted <- accepted

(* Leases that lapse in flight, late workers, restarts, lost answers and   *)
(* deleted endpoints never break the promise of WebhookPromise: at most    *)
(* MaxAttempts attempts, delivered only after a 2xx, given up only when    *)
(* the attempts are spent, and no verdict taken back.                      *)
PromiseKept == Promise!Spec

(* While processes have names of their own, the worker of the newest       *)
(* attempt keeps its row until its lease lapses or the row is removed: a   *)
(* late worker of an older attempt cannot release or finish it, so an      *)
(* acceptance that comes in time is recorded.                              *)
NamesDiffer == \A v, w \in Workers : name[v] = name[w] => v = w
LeaseProtects ==
    NamesDiffer => \A w \in Workers : \A d \in Deliveries :
        (/\ worker[w].at = d /\ delivery[d].leased
         /\ delivery[d].attempts = worker[w].attempt) =>
            delivery[d].owner = name[w]

(* ClaimRetryable counts an attempt before it is made, so an attempt is    *)
(* one worker's and one call of client.Do: workers on the same delivery,   *)
(* after leases that lapsed in flight or under a shared name, are in       *)
(* different attempts, and what is still to be posted was not accepted.    *)
ToPost(w) == worker[w].pc \in {"claimed", "sending"}
OnePostPerAttempt ==
    /\ \A v, w \in Workers :
           (/\ worker[v].at = worker[w].at /\ worker[v].at # None
            /\ worker[v].attempt = worker[w].attempt) => v = w
    /\ \A w \in Workers :
           ToPost(w) => worker[w].attempt \notin accepted[worker[w].at]

(* Unpublished events are never dropped (Worker.Run): an event that is     *)
(* enqueued is fanned out in the end, whatever stops in between.           *)
EventsArePublished ==
    \A e \in Events : event[e] = "queued" ~> event[e] = "published"

(* A restarted worker continues pending, failed and lease-expired rows: a  *)
(* delivery that is owed ends delivered, with its attempts spent, or       *)
(* removed; none waits for ever behind a lease of a process that is gone.  *)
DeliveriesSettle ==
    \A d \in Deliveries : Phase(d) = "owed" ~> Phase(d) # "owed"
=============================================================================
