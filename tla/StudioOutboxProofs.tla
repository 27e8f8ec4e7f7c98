------------------------- MODULE StudioOutboxProofs -------------------------
(***************************************************************************)
(* StudioOutbox is type correct, its leases protect the newest attempt and *)
(* it implements WebhookPromise, for any events, endpoints, processes and  *)
(* names, and any number of attempts.                                      *)
(***************************************************************************)
EXTENDS StudioOutbox, TLAPS

(* Of a row: only a pending or failed row is leased, a row that is not     *)
(* scheduled has no attempts, and the receiver accepted begun attempts.    *)
RowOK(d) ==
    /\ delivery[d].leased => delivery[d].status \in {"pending", "failed"}
    /\ delivery[d].status = "none" => delivery[d].attempts = 0
    /\ \A a \in accepted[d] : a <= delivery[d].attempts

(* Of a process: what it holds is an attempt that was begun on a row that  *)
(* exists or existed, not yet accepted before it is sent, and accepted     *)
(* when it says so.                                                        *)
Grips(w) ==
    /\ worker[w].at \in Deliveries
    /\ worker[w].pc \in {"claimed", "sending", "refused", "accepted"}
    /\ worker[w].attempt >= 1
    /\ worker[w].attempt <= delivery[worker[w].at].attempts
    /\ delivery[worker[w].at].status # "none"
    /\ worker[w].pc \in {"claimed", "sending"} =>
           worker[w].attempt \notin accepted[worker[w].at]
    /\ worker[w].pc = "accepted" =>
           worker[w].attempt \in accepted[worker[w].at]

HandOK(w) ==
    \/ worker[w].at = None /\ worker[w].pc \in {"fanout", "deliver"}
    \/ Grips(w)

(* Two processes on one row are in different attempts. *)
Apart(v, w) ==
    (v # w /\ worker[v].at = worker[w].at /\ worker[v].at # None) =>
        worker[v].attempt # worker[w].attempt

Core ==
    /\ TypeOK
    /\ \A d \in Deliveries : RowOK(d)
    /\ \A w \in Workers : HandOK(w)
    /\ \A v, w \in Workers : Apart(v, w)

Inv == Core /\ LeaseProtects

---------------------------------------------------------------------------
(* Rows and hands.                                                         *)

LEMMA HandType ==
    ASSUME NEW h \in Hand, NEW pc \in Stage
    PROVE  /\ h.attempt \in 0..MaxAttempts
           /\ h.at \in Deliveries \cup {None} /\ h.pc \in Stage
           /\ [h EXCEPT !.pc = pc] \in Hand
           /\ [h EXCEPT !.pc = pc].pc = pc
           /\ [h EXCEPT !.pc = pc].at = h.at
           /\ [h EXCEPT !.pc = pc].attempt = h.attempt
           /\ Free(pc) \in Hand /\ Free(pc).at = None /\ Free(pc).pc = pc
BY OutboxAssumption DEF Hand, Free

(* A step that begins no attempt leaves a row's count and its existence    *)
(* alone, and leases no row.                                               *)
Tame(r, s) ==
    /\ s \in Row /\ s.attempts = r.attempts
    /\ s.status # "none" \/ s.status = r.status
    /\ s.leased => r.leased /\ s.status \in {"pending", "failed"}

LEMMA CoreTame ==
    ASSUME Core, UNCHANGED <<name, accepted>>,
           event' \in [Events -> {"none", "queued", "published"}],
           endpoint' \in [Endpoints -> Endpoint],
           delivery' \in [Deliveries -> Row],
           worker' \in [Workers -> Hand],
           \A d \in Deliveries : Tame(delivery[d], delivery'[d]),
           \A d \in Deliveries : delivery'[d].status = "none" =>
                                     delivery[d].status = "none",
           \A w \in Workers :
               \/ worker'[w] = worker[w]
               \/ worker'[w] = Free("fanout")
               \/ worker'[w] = Free("deliver")
    PROVE  Core'
<1>1. TypeOK'
  BY Zenon DEF Core, TypeOK
<1>2. ASSUME NEW d \in Deliveries PROVE RowOK(d)'
  BY <1>2, Zenon DEF Core, RowOK, Tame
<1>3. ASSUME NEW w \in Workers PROVE HandOK(w)'
  <2>1. CASE worker'[w] = worker[w]
    BY <2>1 DEF Core, HandOK, Grips, Tame
  <2>2. CASE worker'[w] = Free("fanout") \/ worker'[w] = Free("deliver")
    BY <2>2 DEF HandOK, Free
  <2> QED
    BY <2>1, <2>2
<1>4. ASSUME NEW v \in Workers, NEW w \in Workers PROVE Apart(v, w)'
  BY <1>4 DEF Core, Apart, Free
<1> QED
  BY <1>1, <1>2, <1>3, <1>4, Zenon DEF Core

(* Leases are protected when no lease changes hands. *)
LEMMA ProtectsTame ==
    ASSUME Inv, name' = name,
           \A w \in Workers : worker'[w].at # None =>
               /\ worker'[w].at = worker[w].at
               /\ worker'[w].attempt = worker[w].attempt,
           \A d \in Deliveries :
               /\ delivery'[d].attempts = delivery[d].attempts
               /\ delivery'[d].leased => /\ delivery[d].leased
                                         /\ delivery'[d].owner = delivery[d].owner
    PROVE  LeaseProtects'
<1>1. None \notin Deliveries
  BY OutboxAssumption, Zenon DEF Deliveries
<1> QED
  BY <1>1 DEF Inv, LeaseProtects, NamesDiffer

---------------------------------------------------------------------------
(* Every step preserves the invariant.                                     *)

LEMMA ProducerTypes ==
    ASSUME Inv, Operate
    PROVE  /\ event' \in [Events -> {"none", "queued", "published"}]
           /\ endpoint' \in [Endpoints -> Endpoint]
<1> USE DEF Inv, Core, TypeOK
<1>1. CASE \E e \in Events : Enqueue(e)
  BY <1>1, Zenon DEF Enqueue
<1>2. CASE \E p \in Endpoints, t \in {"active", "paused"}, T \in SUBSET Types :
              CreateEndpoint(p, t, T) \/ UpdateEndpoint(p, t, T)
  <2>1. PICK p \in Endpoints, t \in {"active", "paused"}, T \in SUBSET Types :
            CreateEndpoint(p, t, T) \/ UpdateEndpoint(p, t, T)
    BY <1>2
  <2>2. [status |-> t, types |-> T] \in Endpoint
    BY Zenon DEF Endpoint
  <2> QED
    BY <2>1, <2>2, Zenon DEF CreateEndpoint, UpdateEndpoint
<1>3. CASE \E p \in Endpoints : DeleteEndpoint(p)
  <2>1. [status |-> "gone", types |-> {}] \in Endpoint
    BY Zenon DEF Endpoint
  <2> QED
    BY <1>3, <2>1, Zenon DEF DeleteEndpoint
<1>4. CASE \E D \in SUBSET Deliveries : Purge(D)
  BY <1>4, Zenon DEF Purge
<1> QED
  BY <1>1, <1>2, <1>3, <1>4, Zenon DEF Operate

LEMMA OperateStep == ASSUME Inv, Operate PROVE Inv'
<1> USE DEF Tame
<1>1. CASE UNCHANGED <<delivery, worker, name, accepted>>
  <2>1. /\ event' \in [Events -> {"none", "queued", "published"}]
        /\ endpoint' \in [Endpoints -> Endpoint]
    BY ProducerTypes
  <2>2. Core'
    BY <1>1, <2>1, CoreTame, Zenon DEF Inv, Core, TypeOK, RowOK
  <2>3. LeaseProtects'
    BY <1>1, ProtectsTame
  <2> QED
    BY <2>2, <2>3, Zenon DEF Inv
<1>2. ASSUME NEW D \in SUBSET Deliveries, RemoveRows(D),
             UNCHANGED <<event, worker, name, accepted>>,
             endpoint' \in [Endpoints -> Endpoint]
      PROVE  Inv'
  <2>1. ASSUME NEW d \in Deliveries
        PROVE  /\ delivery[d] \in Row
               /\ delivery'[d] = delivery[d] \/ delivery'[d] = Removed(delivery[d])
    BY <1>2, Zenon DEF RemoveRows, Inv, Core, TypeOK
  <2>2. ASSUME NEW d \in Deliveries
        PROVE  /\ delivery'[d] \in Row
               /\ Tame(delivery[d], delivery'[d])
               /\ delivery'[d].status = "none" => delivery[d].status = "none"
               /\ delivery'[d].leased => delivery[d].leased
                                         /\ delivery'[d].owner = delivery[d].owner
    <3>1. CASE delivery'[d] = delivery[d]
      BY <2>1, <3>1, Zenon DEF Inv, Core, RowOK
    <3>2. CASE delivery'[d] = Removed(delivery[d])
      BY <2>1, <3>2, Zenon DEF Removed, Row
    <3> QED
      BY <2>1, <3>1, <3>2
  <2>3. delivery' \in [Deliveries -> Row]
    BY <1>2, <2>2, Zenon DEF RemoveRows
  <2>4. /\ event' \in [Events -> {"none", "queued", "published"}]
        /\ worker' \in [Workers -> Hand]
    BY <1>2, Zenon DEF Inv, Core, TypeOK
  <2>5. Core'
    BY <1>2, <2>2, <2>3, <2>4, CoreTame, Zenon DEF Inv
  <2>6. LeaseProtects'
    BY <1>2, <2>2, ProtectsTame
  <2> QED
    BY <2>5, <2>6, Zenon DEF Inv
<1>3. CASE \E p \in Endpoints : DeleteEndpoint(p)
  <2>1. PICK p \in Endpoints : DeleteEndpoint(p)
    BY <1>3
  <2>2. endpoint' \in [Endpoints -> Endpoint]
    BY <2>1, Zenon DEF DeleteEndpoint, Inv, Core, TypeOK, Endpoint
  <2> DEFINE D == {d \in Deliveries : d[1] = p /\ Scheduled(d)}
  <2>3. D \in SUBSET Deliveries /\ RemoveRows(D)
    BY <2>1, Zenon DEF DeleteEndpoint
  <2> HIDE DEF D
  <2> QED
    BY <1>2, <2>1, <2>2, <2>3, Zenon DEF DeleteEndpoint
<1>4. CASE \E D \in SUBSET Deliveries : Purge(D)
  BY <1>2, <1>4, Zenon DEF Purge, Inv, Core, TypeOK
<1>5. \/ UNCHANGED <<delivery, worker, name, accepted>>
      \/ \E p \in Endpoints : DeleteEndpoint(p)
      \/ \E D \in SUBSET Deliveries : Purge(D)
  BY Zenon DEF Operate, Enqueue, CreateEndpoint, UpdateEndpoint
<1> QED
  BY <1>1, <1>3, <1>4, <1>5

LEMMA FanoutStep == ASSUME Inv, NEW w \in Workers, Fanout(w) PROVE Inv'
<1> USE DEF Tame
<1>1. ASSUME NEW d \in Deliveries
      PROVE  /\ delivery[d] \in Row
             /\ \/ delivery'[d] = delivery[d]
                \/ delivery'[d] = [delivery[d] EXCEPT !.status = "pending"]
  BY <1>1, Zenon DEF Fanout, Schedule, Inv, Core, TypeOK
<1>2. ASSUME NEW d \in Deliveries
      PROVE  /\ delivery'[d] \in Row
             /\ Tame(delivery[d], delivery'[d])
             /\ delivery'[d].status = "none" => delivery[d].status = "none"
             /\ delivery'[d].leased => delivery[d].leased
                                       /\ delivery'[d].owner = delivery[d].owner
  <2>1. CASE delivery'[d] = delivery[d]
    BY <1>1, <2>1, Zenon DEF Inv, Core, RowOK
  <2>2. CASE delivery'[d] = [delivery[d] EXCEPT !.status = "pending"]
    BY <1>1, <2>2 DEF Row
  <2> QED
    BY <1>1, <2>1, <2>2
<1>3. delivery' \in [Deliveries -> Row]
  BY <1>2, Zenon DEF Fanout, Schedule, Inv, Core, TypeOK
<1>4. event' \in [Events -> {"none", "queued", "published"}]
  BY Zenon DEF Fanout, MarkPublished, Inv, Core, TypeOK
<1>5. /\ worker' \in [Workers -> Hand]
      /\ \A v \in Workers : worker'[v] = worker[v] \/ worker'[v] = Free("deliver")
  <2>1. Free("deliver") \in Hand
    BY OutboxAssumption DEF Free, Hand, Stage
  <2> QED
    BY <2>1, Zenon DEF Fanout, Inv, Core, TypeOK
<1>6. Core'
  BY <1>2, <1>3, <1>4, <1>5, CoreTame, Zenon DEF Fanout, Inv, Core, TypeOK
<1>7. LeaseProtects'
  BY <1>2, <1>5, ProtectsTame, Zenon DEF Fanout, Free
<1> QED
  BY <1>6, <1>7, Zenon DEF Inv

(* The steps that put the hands down and leave the rows alone. *)
LEMMA LetGo ==
    ASSUME Inv, NEW w \in Workers,
           worker' = [worker EXCEPT ![w] = Free("fanout")],
           UNCHANGED <<event, endpoint, delivery, name, accepted>>
    PROVE  Inv'
<1>1. /\ worker' \in [Workers -> Hand]
      /\ \A v \in Workers : worker'[v] = worker[v] \/ worker'[v] = Free("fanout")
  <2>1. Free("fanout") \in Hand
    BY OutboxAssumption DEF Free, Hand, Stage
  <2> QED
    BY <2>1, Zenon DEF Inv, Core, TypeOK
<1>2. Core'
  BY <1>1, CoreTame, Zenon DEF Inv, Core, TypeOK, RowOK, Tame
<1>3. LeaseProtects'
  BY <1>1, ProtectsTame, Zenon DEF Free
<1> QED
  BY <1>2, <1>3, Zenon DEF Inv

LEMMA LapseStep == ASSUME Inv, NEW d \in Deliveries, LeaseLapses(d) PROVE Inv'
<1> USE DEF Tame
<1>1. ASSUME NEW c \in Deliveries
      PROVE  /\ delivery[c] \in Row
             /\ \/ delivery'[c] = delivery[c]
                \/ delivery'[c] = [delivery[c] EXCEPT !.leased = FALSE]
  BY Zenon DEF LeaseLapses, Inv, Core, TypeOK
<1>2. ASSUME NEW c \in Deliveries
      PROVE  /\ delivery'[c] \in Row
             /\ Tame(delivery[c], delivery'[c])
             /\ delivery'[c].status = "none" => delivery[c].status = "none"
             /\ delivery'[c].leased => delivery[c].leased
                                       /\ delivery'[c].owner = delivery[c].owner
  <2>1. CASE delivery'[c] = delivery[c]
    BY <1>1, <2>1, Zenon DEF Inv, Core, RowOK
  <2>2. CASE delivery'[c] = [delivery[c] EXCEPT !.leased = FALSE]
    BY <1>1, <2>2, Zenon DEF Row
  <2> QED
    BY <1>1, <2>1, <2>2
<1>3. delivery' \in [Deliveries -> Row]
  BY <1>2, Zenon DEF LeaseLapses, Inv, Core, TypeOK
<1>4. Core'
  BY <1>2, <1>3, CoreTame, Zenon DEF LeaseLapses, Inv, Core, TypeOK
<1>5. LeaseProtects'
  BY <1>2, ProtectsTame, Zenon DEF LeaseLapses
<1> QED
  BY <1>4, <1>5, Zenon DEF Inv

(* The newest attempt of a row is the claimer's, and no other is as new. *)
LEMMA ClaimStep ==
    ASSUME Inv, NEW w \in Workers, NEW d \in Deliveries, Claim(w), Due(d),
           delivery' = [delivery EXCEPT ![d] =
                           [delivery[d] EXCEPT
                               !.owner = name[w], !.leased = TRUE,
                               !.attempts = delivery[d].attempts + 1]],
           worker' = [worker EXCEPT ![w] =
                         [pc |-> "claimed", at |-> d,
                          attempt |-> delivery[d].attempts + 1]]
    PROVE  Inv'
<1> USE OutboxAssumption
<1> DEFINE n == delivery[d].attempts + 1
           r == [delivery[d] EXCEPT !.owner = name[w], !.leased = TRUE,
                                    !.attempts = n]
           h == [pc |-> "claimed", at |-> d, attempt |-> n]
<1>1. /\ delivery[d] \in Row /\ delivery[d].attempts \in 0..MaxAttempts
      /\ delivery[d].attempts < MaxAttempts
  BY Zenon DEF Due, Inv, Core, TypeOK, Row
<1>2. n \in 1..MaxAttempts /\ n \in 0..MaxAttempts
  BY <1>1
<1>3. name[w] \in Owners
  BY Zenon DEF Inv, Core, TypeOK
<1>4. /\ r \in Row /\ r.owner = name[w] /\ r.leased
      /\ r.status = delivery[d].status /\ r.attempts = n
  <2> HIDE DEF n
  <2> QED
    BY <1>1, <1>2, <1>3, Zenon DEF Row
<1>5. h \in Hand /\ h.pc = "claimed" /\ h.at = d /\ h.attempt = n
  BY <1>2, Zenon DEF Hand, Stage
<1>6. /\ delivery' = [delivery EXCEPT ![d] = r] /\ delivery'[d] = r
      /\ \A c \in Deliveries : c # d => delivery'[c] = delivery[c]
      /\ worker' = [worker EXCEPT ![w] = h] /\ worker'[w] = h
      /\ \A v \in Workers : v # w => worker'[v] = worker[v]
      /\ UNCHANGED <<event, endpoint, name, accepted>>
  BY ZenonT(30) DEF Claim, Inv, Core, TypeOK
<1>7. /\ delivery[d].status \in {"pending", "failed"}
      /\ \A a \in accepted[d] : a <= delivery[d].attempts /\ a \in Nat
  BY DEF Due, Inv, Core, RowOK, TypeOK
<1>8. n = delivery[d].attempts + 1 /\ n > delivery[d].attempts /\ n \in Nat
      /\ delivery[d].attempts \in Nat
  BY <1>1
<1> HIDE DEF r, h, n
<1>9. TypeOK'
  <2>1. delivery' \in [Deliveries -> Row]
    BY <1>4, <1>6, Zenon DEF Inv, Core, TypeOK
  <2>2. worker' \in [Workers -> Hand]
    BY <1>5, <1>6, Zenon DEF Inv, Core, TypeOK
  <2> QED
    BY <1>6, <2>1, <2>2, Zenon DEF Inv, Core, TypeOK
<1>10. ASSUME NEW c \in Deliveries PROVE RowOK(c)'
  <2>1. CASE c # d
    BY <1>6, <2>1, Zenon DEF Inv, Core, RowOK
  <2>2. CASE c = d
    <3>1. \A a \in accepted[d] : a <= n
      BY <1>7, <1>8
    <3>2. r.status \in {"pending", "failed"} /\ r.attempts = n
      BY <1>4, <1>7
    <3> QED
      BY <1>6, <2>2, <3>1, <3>2, Zenon DEF RowOK
  <2> QED
    BY <2>1, <2>2
<1>11. ASSUME NEW v \in Workers PROVE HandOK(v)'
  <2>1. CASE v = w
    <3>1. n \notin accepted[d] /\ n >= 1 /\ n <= n
      BY <1>2, <1>7, <1>8
    <3>2. /\ worker'[v] = h /\ delivery'[d] = r /\ accepted' = accepted
          /\ r.status # "none"
      BY <1>4, <1>6, <1>7, <2>1
    <3> QED
      BY <1>4, <1>5, <3>1, <3>2, Zenon DEF HandOK, Grips
  <2>2. CASE v # w /\ worker[v].at = d
    <3>1. /\ worker'[v] = worker[v] /\ HandOK(v) /\ worker[v].at \in Deliveries
          /\ None \notin Deliveries
      BY <1>6, <2>2, Zenon DEF Inv, Core, Deliveries
    <3>2. Grips(v) /\ worker[v].attempt \in Nat
      BY <3>1 DEF HandOK, Inv, Core, TypeOK, Hand
    <3>3. worker[v].attempt <= n
      BY <1>8, <2>2, <3>2 DEF Grips
    <3>4. r.status # "none"
      BY <1>4, <1>7
    <3> QED
      BY <1>4, <1>6, <2>2, <3>1, <3>2, <3>3, <3>4, Zenon DEF HandOK, Grips
  <2>3. CASE v # w /\ worker[v].at # d
    BY <1>6, <2>3 DEF Inv, Core, HandOK, Grips
  <2> QED
    BY <2>1, <2>2, <2>3
<1>12. ASSUME NEW v \in Workers, v # w, worker[v].at = d
       PROVE  worker[v].attempt # n
  <2>1. Grips(v) /\ worker[v].attempt \in Nat
    BY <1>12 DEF Inv, Core, HandOK, Deliveries, TypeOK, Hand
  <2> QED
    BY <1>8, <1>12, <2>1 DEF Grips
<1>13. ASSUME NEW u \in Workers, NEW v \in Workers PROVE Apart(u, v)'
  BY <1>5, <1>6, <1>12 DEF Inv, Core, Apart
<1>14. LeaseProtects'
  <2> SUFFICES ASSUME NamesDiffer', NEW v \in Workers, NEW c \in Deliveries,
                      worker'[v].at = c, delivery'[c].leased,
                      delivery'[c].attempts = worker'[v].attempt
               PROVE  delivery'[c].owner = name'[v]
    BY Zenon DEF LeaseProtects
  <2>1. CASE v = w
    BY <1>4, <1>5, <1>6, <2>1
  <2>2. CASE v # w /\ c = d
    BY <1>4, <1>6, <1>12, <2>2, ZenonT(30)
  <2>3. CASE v # w /\ c # d
    BY <1>6, <2>3 DEF Inv, LeaseProtects, NamesDiffer
  <2> QED
    BY <2>1, <2>2, <2>3
<1> QED
  BY <1>9, <1>10, <1>11, <1>13, <1>14, Zenon DEF Inv, Core

(* postClaimed moves the hand along and, at most, has the receiver accept *)
(* the attempt it holds.                                                  *)
LEMMA MoveStep ==
    ASSUME Inv, NEW w \in Workers, worker[w].pc \in {"claimed", "sending"},
           NEW pc \in {"sending", "refused", "accepted"}, Move(w, pc),
           UNCHANGED <<event, endpoint, delivery, name>>,
           \/ Accepts(w) /\ pc # "sending"
           \/ UNCHANGED accepted /\ pc # "accepted"
    PROVE  Inv'
<1> USE OutboxAssumption
<1> DEFINE d == worker[w].at
           h == [worker[w] EXCEPT !.pc = pc]
<1>1. worker[w] \in Hand /\ pc \in Stage
  BY Zenon DEF Inv, Core, TypeOK, Stage
<1>2. /\ h \in Hand /\ h.pc = pc /\ h.at = d
      /\ h.attempt = worker[w].attempt
  BY <1>1, HandType
<1>3. Grips(w) /\ d \in Deliveries
  BY Zenon DEF Inv, Core, HandOK, Grips
<1>4. worker[w].attempt \in 1..MaxAttempts
  <2>1. worker[w].attempt \in 0..MaxAttempts
    BY <1>1, Zenon DEF Hand
  <2> QED
    BY <1>3, <2>1 DEF Grips
<1>5. /\ worker' = [worker EXCEPT ![w] = h] /\ worker'[w] = h
      /\ \A v \in Workers : v # w => worker'[v] = worker[v]
  BY Zenon DEF Move, Inv, Core, TypeOK
<1>6. /\ accepted' \in [Deliveries -> SUBSET (1..MaxAttempts)]
      /\ \A c \in Deliveries : c # d => accepted'[c] = accepted[c]
      /\ \/ accepted'[d] = accepted[d] \cup {worker[w].attempt} /\ pc # "sending"
         \/ accepted'[d] = accepted[d] /\ pc # "accepted"
  BY <1>3, <1>4 DEF Accepts, Inv, Core, TypeOK
<1>7. None \notin Deliveries
  BY Zenon DEF Deliveries
<1> HIDE DEF h
<1>8. TypeOK'
  <2>1. worker' \in [Workers -> Hand]
    BY <1>2, <1>5, Zenon DEF Inv, Core, TypeOK
  <2> QED
    BY <1>6, <2>1, Zenon DEF Inv, Core, TypeOK
<1>9. ASSUME NEW c \in Deliveries PROVE RowOK(c)'
  BY <1>3, <1>6 DEF Inv, Core, RowOK, Grips
<1>10. ASSUME NEW v \in Workers PROVE HandOK(v)'
  <2>1. CASE v = w
    <3>1. pc = "accepted" => worker[w].attempt \in accepted'[d]
      BY <1>6
    <3>2. pc = "sending" => worker[w].attempt \notin accepted'[d]
      BY <1>3, <1>6, Zenon DEF Grips
    <3> QED
      BY <1>2, <1>3, <1>5, <2>1, <3>1, <3>2 DEF HandOK, Grips
  <2>2. CASE v # w /\ worker[v].at = d
    <3>1. Grips(v) /\ worker[v].attempt # worker[w].attempt
      BY <1>3, <1>7, <2>2, Zenon DEF Inv, Core, HandOK, Apart
    <3>2. worker[v].attempt \in accepted'[d] <=> worker[v].attempt \in accepted[d]
      BY <1>6, <3>1
    <3> QED
      BY <1>5, <2>2, <3>1, <3>2, Zenon DEF HandOK, Grips
  <2>3. CASE v # w /\ worker[v].at # d
    BY <1>5, <1>6, <2>3 DEF Inv, Core, HandOK, Grips
  <2> QED
    BY <2>1, <2>2, <2>3
<1>11. ASSUME NEW u \in Workers, NEW v \in Workers PROVE Apart(u, v)'
  BY <1>2, <1>5 DEF Inv, Core, Apart
<1>12. LeaseProtects'
  <2>1. \A v \in Workers : worker'[v].at = worker[v].at
                           /\ worker'[v].attempt = worker[v].attempt
    BY <1>2, <1>5
  <2> QED
    BY <2>1, ProtectsTame
<1> QED
  BY <1>8, <1>9, <1>10, <1>11, <1>12, Zenon DEF Inv, Core

(* A worker that holds its row is, if names differ, the one of the newest *)
(* attempt; so recording takes the row from nobody else.                  *)
LEMMA RecordStep == ASSUME Inv, NEW w \in Workers, Record(w) PROVE Inv'
<1> USE OutboxAssumption
<1> DEFINE d == worker[w].at
           r == Outcome(w)
<1>1. CASE ~Holds(w)
  BY <1>1, LetGo, Zenon DEF Record
<1>2. CASE Holds(w)
  <2>1. Grips(w) /\ d \in Deliveries /\ delivery[d] \in Row
    BY Zenon DEF Record, Inv, Core, TypeOK, HandOK, Grips
  <2>2. \/ r = Finished(delivery[d], "delivered")
        \/ r = Finished(delivery[d], "failed")
        \/ r = Released(delivery[d])
    BY Zenon DEF Outcome
  <2>3. delivery[d].leased /\ delivery[d].owner = name[w]
    BY <1>2, Zenon DEF Holds
  <2>4. /\ r \in Row /\ r.attempts = delivery[d].attempts
        /\ r.status \in {"delivered", "failed"}
        /\ r.leased => r.status = "failed"
    BY <2>1, <2>2, Zenon DEF Finished, Released, Row
  <2>5. /\ delivery' = [delivery EXCEPT ![d] = r]
        /\ worker' = [worker EXCEPT ![w] = Free("fanout")]
        /\ UNCHANGED <<event, endpoint, name, accepted>>
    BY <1>2, Zenon DEF Record
  <2> HIDE DEF r
  <2>6. /\ delivery' \in [Deliveries -> Row] /\ delivery'[d] = r
        /\ \A c \in Deliveries : c # d => delivery'[c] = delivery[c]
    BY <2>1, <2>4, <2>5, Zenon DEF Inv, Core, TypeOK
  <2>7. /\ worker' \in [Workers -> Hand]
        /\ \A v \in Workers : v # w => worker'[v] = worker[v]
        /\ worker'[w] = Free("fanout")
    <3>1. Free("fanout") \in Hand
      BY DEF Free, Hand, Stage
    <3> QED
      BY <2>5, <3>1, Zenon DEF Inv, Core, TypeOK
  <2>8. ASSUME NEW c \in Deliveries
        PROVE  /\ Tame(delivery[c], delivery'[c])
               /\ delivery'[c].status = "none" => delivery[c].status = "none"
    <3>1. CASE c = d
      BY <2>3, <2>4, <2>6, <3>1, Zenon DEF Tame
    <3>2. CASE c # d
      BY <2>6, <3>2, Zenon DEF Tame, Inv, Core, TypeOK, RowOK
    <3> QED
      BY <3>1, <3>2
  <2>9. Core'
    BY <2>5, <2>6, <2>7, <2>8, CoreTame, Zenon DEF Inv, Core, TypeOK
  <2>10. LeaseProtects'
    <3> SUFFICES ASSUME NamesDiffer', NEW v \in Workers, NEW c \in Deliveries,
                        worker'[v].at = c, delivery'[c].leased,
                        delivery'[c].attempts = worker'[v].attempt
                 PROVE  delivery'[c].owner = name'[v]
      BY Zenon DEF LeaseProtects
    <3>1. v # w /\ worker'[v] = worker[v] /\ NamesDiffer
      BY <2>5, <2>7, Zenon DEF Free, Deliveries, NamesDiffer
    <3>2. c # d
      <4> SUFFICES ASSUME c = d PROVE FALSE
        OBVIOUS
      <4>1. delivery[d].owner = name[v]
        BY <2>3, <2>4, <2>6, <3>1 DEF Inv, LeaseProtects
      <4> QED
        BY <2>3, <3>1, <4>1, Zenon DEF NamesDiffer
    <3> QED
      BY <2>5, <2>6, <3>1, <3>2 DEF Inv, LeaseProtects
  <2> QED
    BY <2>9, <2>10, Zenon DEF Inv
<1> QED
  BY <1>1, <1>2

LEMMA InitInv == Init => Inv
<1> SUFFICES ASSUME Init PROVE Inv
  OBVIOUS
<1> USE OutboxAssumption
<1>1. TypeOK
  <2>1. [status |-> "none", types |-> {}] \in Endpoint
    BY Zenon DEF Endpoint
  <2>2. [status |-> "none", attempts |-> 0, owner |-> None, leased |-> FALSE]
            \in Row
    BY DEF Row
  <2>3. Free("fanout") \in Hand
    BY DEF Free, Hand, Stage
  <2> QED
    BY <2>1, <2>2, <2>3, Zenon DEF Init, TypeOK
<1>2. ASSUME NEW d \in Deliveries PROVE RowOK(d)
  BY Zenon DEF Init, RowOK
<1>3. ASSUME NEW w \in Workers PROVE worker[w].at = None /\ worker[w].pc = "fanout"
  BY Zenon DEF Init, Free
<1>4. None \notin Deliveries
  BY Zenon DEF Deliveries
<1> QED
  BY <1>1, <1>2, <1>3, <1>4, Zenon DEF Inv, Core, HandOK, Apart, LeaseProtects

LEMMA ClaimsStep == ASSUME Inv, NEW w \in Workers, Claim(w) PROVE Inv'
<1>1. CASE worker' = [worker EXCEPT ![w] = Free("fanout")] /\ UNCHANGED delivery
  BY <1>1, LetGo, Zenon DEF Claim
<1>2. CASE \E d \in Deliveries :
              /\ Due(d)
              /\ delivery' = [delivery EXCEPT ![d] =
                                 [delivery[d] EXCEPT
                                     !.owner = name[w], !.leased = TRUE,
                                     !.attempts = delivery[d].attempts + 1]]
              /\ worker' = [worker EXCEPT ![w] =
                               [pc |-> "claimed", at |-> d,
                                attempt |-> delivery[d].attempts + 1]]
  BY <1>2, ClaimStep
<1> QED
  BY <1>1, <1>2, Zenon DEF Claim, Counted

LEMMA PostedSteps ==
    ASSUME Inv, NEW w \in Workers, Load(w) \/ Post(w) PROVE Inv'
<1>1. CASE Load(w)
  <2>1. PICK pc \in {"sending", "refused"} : Move(w, pc)
    BY <1>1, Zenon DEF Load
  <2> QED
    BY <1>1, <2>1, MoveStep, Zenon DEF Load
<1>2. CASE Post(w)
  <2>1. CASE Accepts(w) /\ (Move(w, "accepted") \/ Move(w, "refused"))
    BY <1>2, <2>1, MoveStep, Zenon DEF Post
  <2>2. CASE UNCHANGED accepted /\ Move(w, "refused")
    BY <1>2, <2>2, MoveStep, Zenon DEF Post
  <2> QED
    BY <1>2, <2>1, <2>2, Zenon DEF Post
<1> QED
  BY <1>1, <1>2

LEMMA StepInv == Inv /\ [Next]_vars => Inv'
<1> SUFFICES ASSUME Inv, [Next]_vars PROVE Inv'
  OBVIOUS
<1>1. CASE Operate
  BY <1>1, OperateStep
<1>2. CASE \E w \in Workers : Tick(w) \/ Abandon(w)
  <2>1. PICK w \in Workers : Tick(w) \/ Abandon(w)
    BY <1>2
  <2>2. CASE Fanout(w)
    BY <2>2, FanoutStep
  <2>3. CASE Claim(w)
    BY <2>3, ClaimsStep
  <2>4. CASE Load(w) \/ Post(w)
    BY <2>4, PostedSteps
  <2>5. CASE Record(w)
    BY <2>5, RecordStep
  <2>6. CASE Abandon(w)
    BY <2>6, LetGo, Zenon DEF Abandon
  <2> QED
    BY <2>1, <2>2, <2>3, <2>4, <2>5, <2>6, Zenon DEF Tick
<1>3. CASE \E d \in Deliveries : LeaseLapses(d)
  BY <1>3, LapseStep
<1>4. CASE UNCHANGED vars
  BY <1>4, Zenon DEF vars, Inv, Core, TypeOK, RowOK, HandOK, Grips, Apart,
              LeaseProtects, NamesDiffer
<1> QED
  BY <1>1, <1>2, <1>3, <1>4, Zenon DEF Next

(* The inductive invariant: the tables, the attempts the processes hold and *)
(* what the receiver accepted fit together at every step.                  *)
THEOREM InvariantHolds == Spec => []Inv
BY InitInv, StepInv, PTL DEF Spec

(* The tables and the workers stay well formed; in particular no row ever *)
(* counts more than MaxAttempts attempts.                                 *)
THEOREM OutboxTyped == Spec => []TypeOK
<1>1. Inv => TypeOK
  BY Zenon DEF Inv, Core
<1> QED
  BY <1>1, InvariantHolds, PTL

(* With processes named apart, a late worker never takes a row from the    *)
(* worker of its newest attempt, for any number of processes and attempts. *)
THEOREM LeasesProtect == Spec => []LeaseProtects
<1>1. Inv => LeaseProtects
  BY Zenon DEF Inv
<1> QED
  BY <1>1, InvariantHolds, PTL

(* Whatever lapses, stops or shares a name, an attempt is one worker's and *)
(* is not posted once it was accepted, for any number of processes.        *)
THEOREM AttemptsArePostedOnce == Spec => []OnePostPerAttempt
<1>1. ASSUME Inv PROVE OnePostPerAttempt
  <2>1. ASSUME NEW v \in Workers, NEW w \in Workers,
               worker[v].at = worker[w].at, worker[v].at # None,
               worker[v].attempt = worker[w].attempt
        PROVE  v = w
    BY <1>1, <2>1, Zenon DEF Inv, Core, Apart
  <2>2. ASSUME NEW w \in Workers, ToPost(w)
        PROVE  worker[w].attempt \notin accepted[worker[w].at]
    BY <1>1, <2>2, Zenon DEF Inv, Core, HandOK, Grips, ToPost
  <2> QED
    BY <2>1, <2>2, Zenon DEF OnePostPerAttempt
<1> QED
  BY <1>1, InvariantHolds, PTL

---------------------------------------------------------------------------
(* StudioOutbox implements WebhookPromise.                                 *)

(* What the phase of a row is, read off its columns. *)
LEMMA PhaseOf ==
    ASSUME NEW d \in Deliveries
    PROVE  /\ delivery[d].status \notin {"pending", "failed"} =>
                  Phase(d) = delivery[d].status
           /\ (/\ delivery[d].status \in {"pending", "failed"}
               /\ delivery[d].attempts # MaxAttempts \/ delivery[d].leased) =>
                  Phase(d) = "owed"
           /\ (/\ delivery[d].status \in {"pending", "failed"}
               /\ delivery[d].attempts = MaxAttempts /\ ~delivery[d].leased) =>
                  Phase(d) = "dead"
BY Zenon DEF Phase

LEMMA PhaseOfNext ==
    ASSUME NEW d \in Deliveries
    PROVE  /\ delivery'[d] = delivery[d] => Phase(d)' = Phase(d)
           /\ delivery'[d].status \notin {"pending", "failed"} =>
                  Phase(d)' = delivery'[d].status
           /\ (/\ delivery'[d].status \in {"pending", "failed"}
               /\ \/ delivery'[d].attempts # MaxAttempts
                  \/ delivery'[d].leased) => Phase(d)' = "owed"
           /\ (/\ delivery'[d].status \in {"pending", "failed"}
               /\ delivery'[d].attempts = MaxAttempts
               /\ ~delivery'[d].leased) => Phase(d)' = "dead"
BY Zenon DEF Phase

LEMMA PromiseStutters ==
    ASSUME \A d \in Deliveries :
               /\ Phase(d)' = Phase(d)
               /\ delivery'[d].attempts = delivery[d].attempts,
           accepted' = accepted
    PROVE  UNCHANGED Promise!vars
BY Zenon DEF Promise!vars

LEMMA RowsKept ==
    ASSUME UNCHANGED <<delivery, accepted>>
    PROVE  UNCHANGED Promise!vars
BY PhaseOfNext, PromiseStutters

(* A verdict on one row: Settle and GiveUp change that row's phase only. *)
LEMMA Verdict ==
    ASSUME Inv, NEW d \in Deliveries, NEW r \in Row,
           delivery' = [delivery EXCEPT ![d] = r],
           r.attempts = delivery[d].attempts, accepted' = accepted
    PROVE  /\ [c \in Deliveries |-> Phase(c)]' =
                  [[c \in Deliveries |-> Phase(c)] EXCEPT ![d] = Phase(d)']
           /\ [c \in Deliveries |-> delivery[c].attempts]' =
                  [c \in Deliveries |-> delivery[c].attempts]
           /\ delivery'[d] = r
<1>1. /\ delivery'[d] = r
      /\ \A c \in Deliveries : c # d => delivery'[c] = delivery[c]
  BY Zenon DEF Inv, Core, TypeOK
<1>2. \A c \in Deliveries : c # d => Phase(c)' = Phase(c)
  BY <1>1, PhaseOfNext
<1>3. \A c \in Deliveries : delivery'[c].attempts = delivery[c].attempts
  BY <1>1
<1> QED
  BY <1>1, <1>2, <1>3, Zenon

LEMMA RemovalDrops ==
    ASSUME Inv, NEW D \in SUBSET Deliveries, RemoveRows(D),
           \A d \in D : Scheduled(d), accepted' = accepted
    PROVE  Promise!Drop(D)
<1>1. ASSUME NEW d \in D PROVE Phase(d) # "none"
  BY <1>1, PhaseOf, Zenon DEF Scheduled
<1>2. ASSUME NEW d \in Deliveries
      PROVE  /\ Phase(d)' = IF d \in D THEN "removed" ELSE Phase(d)
             /\ delivery'[d].attempts = delivery[d].attempts
  <2>1. delivery[d] \in Row
    BY Zenon DEF Inv, Core, TypeOK
  <2>2. CASE d \in D
    <3>1. delivery'[d] = Removed(delivery[d])
      BY <2>2, Zenon DEF RemoveRows
    <3>2. /\ delivery'[d].status = "removed"
          /\ delivery'[d].attempts = delivery[d].attempts
      BY <2>1, <3>1, Zenon DEF Removed, Row
    <3> QED
      BY <2>2, <3>2, PhaseOfNext
  <2>3. CASE d \notin D
    <3>1. delivery'[d] = delivery[d]
      BY <2>3, Zenon DEF RemoveRows
    <3> QED
      BY <2>3, <3>1, PhaseOfNext
  <2> QED
    BY <2>2, <2>3
<1> QED
  BY <1>1, <1>2, Zenon DEF Promise!Drop

LEMMA FanoutOwes ==
    ASSUME Inv, NEW e \in Events, Schedule(e), accepted' = accepted
    PROVE  \E D \in SUBSET Deliveries : Promise!Owe(D)
<1> DEFINE D == {d \in Deliveries : /\ d[2] = e /\ Subscribed(d[1], e)
                                    /\ delivery[d].status = "none"}
<1>1. ASSUME NEW d \in D PROVE Phase(d) = "none"
  BY <1>1, PhaseOf
<1>2. ASSUME NEW d \in Deliveries
      PROVE  /\ Phase(d)' = IF d \in D THEN "owed" ELSE Phase(d)
             /\ delivery'[d].attempts = delivery[d].attempts
  <2>1. delivery[d] \in Row /\ RowOK(d)
    BY Zenon DEF Inv, Core, TypeOK
  <2>2. CASE d \in D
    <3>1. delivery'[d] = [delivery[d] EXCEPT !.status = "pending"]
      BY <2>2, Zenon DEF Schedule
    <3>2. /\ delivery'[d].status = "pending"
          /\ delivery'[d].attempts = delivery[d].attempts
          /\ delivery[d].attempts = 0
      BY <2>1, <2>2, <3>1, Zenon DEF Row, RowOK
    <3>3. delivery'[d].attempts # MaxAttempts
      BY <3>2, OutboxAssumption
    <3> QED
      BY <2>2, <3>2, <3>3, PhaseOfNext
  <2>3. CASE d \notin D
    <3>1. delivery'[d] = delivery[d]
      BY <2>3, Zenon DEF Schedule
    <3> QED
      BY <2>3, <3>1, PhaseOfNext
  <2> QED
    BY <2>2, <2>3
<1>3. D \in SUBSET Deliveries
  OBVIOUS
<1> HIDE DEF D
<1>4. Promise!Owe(D)
  BY <1>1, <1>2, <1>3, Zenon DEF Promise!Owe
<1> QED
  BY <1>3, <1>4

LEMMA ClaimTries ==
    ASSUME Inv, NEW w \in Workers, NEW d \in Deliveries, Due(d),
           delivery' = [delivery EXCEPT ![d] =
                           [delivery[d] EXCEPT
                               !.owner = name[w], !.leased = TRUE,
                               !.attempts = delivery[d].attempts + 1]],
           accepted' = accepted
    PROVE  Promise!Try(d)
<1>1. /\ delivery[d] \in Row /\ delivery[d].attempts \in Nat
      /\ delivery[d].attempts < MaxAttempts
      /\ delivery[d].status \in {"pending", "failed"}
  BY OutboxAssumption DEF Due, Inv, Core, TypeOK, Row
<1>2. /\ delivery'[d] = [delivery[d] EXCEPT
                            !.owner = name[w], !.leased = TRUE,
                            !.attempts = delivery[d].attempts + 1]
      /\ \A c \in Deliveries : c # d => delivery'[c] = delivery[c]
  BY Zenon DEF Inv, Core, TypeOK
<1>3. /\ delivery'[d].status = delivery[d].status /\ delivery'[d].leased
      /\ delivery'[d].attempts = delivery[d].attempts + 1
  <2>1. PICK n \in 0..MaxAttempts : n = delivery[d].attempts + 1
    BY <1>1, OutboxAssumption
  <2> PICK o \in Owners : o = name[w]
    BY OutboxAssumption, Zenon DEF Inv, Core, TypeOK
  <2> PICK r \in Row : r = delivery[d]
    BY <1>1
  <2> PICK q : q = [r EXCEPT !.owner = o, !.leased = TRUE, !.attempts = n]
    OBVIOUS
  <2>2. q.status = r.status /\ q.leased /\ q.attempts = n
    BY <2>1, ZenonT(30) DEF Row
  <2>3. delivery'[d] = q
    BY <1>2, <2>1
  <2> QED
    BY <2>1, <2>2, <2>3, Zenon
<1>4. Phase(d) = "owed" /\ Phase(d)' = "owed"
  BY <1>1, <1>3, PhaseOf, PhaseOfNext, OutboxAssumption
<1>5. \A c \in Deliveries : Phase(c)' = Phase(c)
  BY <1>2, <1>4, PhaseOfNext
<1>6. [c \in Deliveries |-> delivery'[c].attempts] =
          [[c \in Deliveries |-> delivery[c].attempts] EXCEPT ![d] = @ + 1]
  <2>1. \A c \in Deliveries : c # d => delivery'[c].attempts = delivery[c].attempts
    BY <1>2
  <2> QED
    BY <1>3, <2>1, Zenon
<1> QED
  BY <1>1, <1>4, <1>5, <1>6, Zenon DEF Promise!Try

LEMMA PostAccepts ==
    ASSUME Inv, NEW w \in Workers, worker[w].pc = "sending", Accepts(w),
           delivery' = delivery
    PROVE  Promise!Next
<1> DEFINE d == worker[w].at
           a == worker[w].attempt
<1>1. /\ Grips(w) /\ d \in Deliveries /\ delivery[d] \in Row
      /\ a \in 0..MaxAttempts
  BY Zenon DEF Inv, Core, TypeOK, HandOK, Grips, Hand
<1>2. a \in 1..delivery[d].attempts /\ a \in 1..MaxAttempts
  <2>1. delivery[d].attempts \in 0..MaxAttempts
    BY <1>1, Zenon DEF Row
  <2> QED
    BY <1>1, <2>1, OutboxAssumption DEF Grips
<1>3. \A c \in Deliveries : Phase(c)' = Phase(c)
  BY PhaseOfNext
<1>4. accepted' = [accepted EXCEPT ![d] = @ \cup {a}]
  BY Zenon DEF Accepts
<1> HIDE DEF d, a
<1>5. Promise!Accept(d, a)
  BY <1>1, <1>2, <1>3, <1>4, Zenon DEF Promise!Accept
<1> QED
  BY <1>1, <1>2, <1>5, Zenon DEF Promise!Next

(* Recording is the verdict on the row, or leaves its phase alone. *)
LEMMA RecordSettles ==
    ASSUME Inv, NEW w \in Workers, Record(w)
    PROVE  Promise!Next \/ UNCHANGED Promise!vars
<1>1. CASE ~Holds(w)
  BY <1>1, RowsKept, Zenon DEF Record
<1>2. CASE Holds(w)
  <2>0. Grips(w) /\ worker[w].at \in Deliveries
    BY Zenon DEF Record, Inv, Core, TypeOK, HandOK, Grips
  <2> PICK d \in Deliveries : d = worker[w].at
    BY <2>0
  <2> PICK r : r = Outcome(w)
    OBVIOUS
  <2>1. Grips(w) /\ d \in Deliveries /\ delivery[d] \in Row
    BY <2>0, Zenon DEF Inv, Core, TypeOK
  <2>2. /\ delivery[d].leased /\ delivery[d].status \in {"pending", "failed"}
        /\ delivery[d].attempts \in 0..MaxAttempts
    BY <1>2, <2>1, Zenon DEF Holds, Inv, Core, RowOK, Row
  <2>3. Phase(d) = "owed"
    BY <2>1, <2>2, PhaseOf
  <2>4. delivery' = [delivery EXCEPT ![d] = r] /\ accepted' = accepted
    BY <1>2, Zenon DEF Record
  <2>5. CASE worker[w].pc = "accepted"
    <3>1. /\ r \in Row /\ r.attempts = delivery[d].attempts
          /\ r.status = "delivered"
      BY <2>1, <2>5, Zenon DEF Outcome, Finished, Row
    <3>2. Phase(d)' = "delivered"
      BY <2>1, <2>4, <3>1, Verdict, PhaseOfNext, Zenon
    <3>3. accepted[d] # {}
      BY <2>1, <2>5, Zenon DEF Grips
    <3>4. Promise!Settle(d)
      BY <2>1, <2>3, <2>4, <3>1, <3>2, <3>3, Verdict, Zenon DEF Promise!Settle
    <3> QED
      BY <2>1, <3>4, Zenon DEF Promise!Next
  <2>6. CASE worker[w].pc # "accepted" /\ worker[w].attempt >= MaxAttempts
    <3>1. /\ r \in Row /\ r.attempts = delivery[d].attempts
          /\ r.status = "failed" /\ ~r.leased
      BY <2>1, <2>6, Zenon DEF Outcome, Finished, Row
    <3>2. delivery[d].attempts = MaxAttempts
      <4>1. worker[w].attempt \in Nat
        BY DEF Inv, Core, TypeOK, Hand
      <4> QED
        BY <2>1, <2>2, <2>6, <4>1, OutboxAssumption DEF Grips
    <3>3. Phase(d)' = "dead"
      BY <2>1, <2>4, <3>1, <3>2, Verdict, PhaseOfNext, Zenon
    <3>4. Promise!GiveUp(d)
      BY <2>1, <2>3, <2>4, <3>1, <3>2, <3>3, Verdict, Zenon DEF Promise!GiveUp
    <3> QED
      BY <2>1, <3>4, Zenon DEF Promise!Next
  <2>7. CASE worker[w].pc # "accepted" /\ ~(worker[w].attempt >= MaxAttempts)
    <3>1. /\ r \in Row /\ r.attempts = delivery[d].attempts
          /\ r.status = "failed" /\ r.leased
      BY <2>1, <2>2, <2>7, Zenon DEF Outcome, Released, Row
    <3>2. Phase(d)' = Phase(d)
      BY <2>1, <2>3, <2>4, <3>1, Verdict, PhaseOfNext
    <3>3. \A c \in Deliveries :
              c # d => delivery'[c] = delivery[c] /\ Phase(c)' = Phase(c)
      BY <2>4, PhaseOfNext, Zenon DEF Inv, Core, TypeOK
    <3>4. delivery'[d].attempts = delivery[d].attempts
      BY <2>1, <2>4, <3>1, Verdict
    <3> QED
      BY <2>4, <3>2, <3>3, <3>4, PromiseStutters
  <2> QED
    BY <2>5, <2>6, <2>7
<1> QED
  BY <1>1, <1>2

LEMMA LapseGivesUp ==
    ASSUME Inv, NEW d \in Deliveries, LeaseLapses(d)
    PROVE  Promise!Next \/ UNCHANGED Promise!vars
<1> DEFINE r == [delivery[d] EXCEPT !.leased = FALSE]
<1>1. /\ delivery[d] \in Row /\ delivery[d].leased
      /\ delivery[d].status \in {"pending", "failed"}
  BY Zenon DEF LeaseLapses, Inv, Core, TypeOK, RowOK
<1>2. /\ r \in Row /\ r.attempts = delivery[d].attempts /\ ~r.leased
      /\ r.status = delivery[d].status
  BY <1>1, Zenon DEF Row
<1>3. delivery' = [delivery EXCEPT ![d] = r] /\ accepted' = accepted
  BY Zenon DEF LeaseLapses
<1> HIDE DEF r
<1>4. Phase(d) = "owed"
  BY <1>1, PhaseOf
<1>5. CASE delivery[d].attempts = MaxAttempts
  <2>1. Phase(d)' = "dead"
    BY <1>1, <1>2, <1>3, <1>5, Verdict, PhaseOfNext, Zenon
  <2>2. Promise!GiveUp(d)
    BY <1>2, <1>3, <1>4, <1>5, <2>1, Verdict, Zenon DEF Promise!GiveUp
  <2> QED
    BY <2>2, Zenon DEF Promise!Next
<1>6. CASE delivery[d].attempts # MaxAttempts
  <2>1. Phase(d)' = Phase(d)
    BY <1>1, <1>2, <1>3, <1>4, <1>6, Verdict, PhaseOfNext
  <2>2. \A c \in Deliveries :
            c # d => delivery'[c] = delivery[c] /\ Phase(c)' = Phase(c)
    BY <1>3, PhaseOfNext, Zenon DEF Inv, Core, TypeOK
  <2>3. delivery'[d].attempts = delivery[d].attempts
    BY <1>2, <1>3, Verdict
  <2> QED
    BY <1>3, <2>1, <2>2, <2>3, PromiseStutters
<1> QED
  BY <1>5, <1>6

(* Late workers, restarts, lost answers and deleted endpoints never break *)
(* the promise to subscribers: StudioOutbox implements WebhookPromise.    *)
THEOREM PromiseIsKept == Spec => PromiseKept
<1>1. Init => Promise!Init
  <2> SUFFICES ASSUME Init PROVE Promise!Init
    OBVIOUS
  <2>1. \A d \in Deliveries : /\ delivery[d].status = "none"
                              /\ delivery[d].attempts = 0
    BY Zenon DEF Init
  <2>2. \A d \in Deliveries : Phase(d) = "none"
    BY <2>1, PhaseOf
  <2>3. /\ [d \in Deliveries |-> Phase(d)] = [d \in Deliveries |-> "none"]
        /\ [d \in Deliveries |-> delivery[d].attempts] =
               [d \in Deliveries |-> 0]
    BY <2>1, <2>2
  <2> QED
    BY <2>3, Zenon DEF Init, Promise!Init
<1>2. Inv /\ [Next]_vars => [Promise!Next]_(Promise!vars)
  <2> SUFFICES ASSUME Inv, [Next]_vars
               PROVE  Promise!Next \/ UNCHANGED Promise!vars
    OBVIOUS
  <2>1. CASE UNCHANGED <<delivery, accepted>>
    BY <2>1, RowsKept
  <2>2. CASE \E p \in Endpoints : DeleteEndpoint(p)
    <3>1. PICK p \in Endpoints : DeleteEndpoint(p)
      BY <2>2
    <3> DEFINE D == {d \in Deliveries : d[1] = p /\ Scheduled(d)}
    <3>2. /\ D \in SUBSET Deliveries /\ RemoveRows(D)
          /\ \A d \in D : Scheduled(d)
          /\ accepted' = accepted
      BY <3>1, Zenon DEF DeleteEndpoint
    <3> HIDE DEF D
    <3> QED
      BY <3>2, RemovalDrops, Zenon DEF Promise!Next
  <2>3. CASE \E D \in SUBSET Deliveries : Purge(D)
    BY <2>3, RemovalDrops, Zenon DEF Purge, Scheduled, Promise!Next
  <2>4. CASE \E w \in Workers : Fanout(w)
    <3>1. CASE \E e \in Events : Schedule(e)
      BY <2>4, <3>1, FanoutOwes, Zenon DEF Fanout, Promise!Next
    <3>2. CASE UNCHANGED delivery
      BY <2>4, <3>2, RowsKept, Zenon DEF Fanout
    <3> QED
      BY <2>4, <3>1, <3>2, Zenon DEF Fanout
  <2>5. CASE \E w \in Workers : Claim(w)
    <3>1. CASE UNCHANGED delivery
      BY <2>5, <3>1, RowsKept, Zenon DEF Claim
    <3>2. CASE delivery' # delivery
      <4>1. PICK w \in Workers, d \in Deliveries :
                /\ Due(d) /\ accepted' = accepted
                /\ delivery' = [delivery EXCEPT ![d] =
                                   [delivery[d] EXCEPT
                                       !.owner = name[w], !.leased = TRUE,
                                       !.attempts = delivery[d].attempts + 1]]
        BY <2>5, <3>2, Zenon DEF Claim, Counted
      <4>2. Promise!Try(d)
        BY <4>1, ClaimTries
      <4> QED
        BY <4>2, SMTT(30) DEF Promise!Next
    <3> QED
      BY <3>1, <3>2, SMTT(30)
  <2>6. CASE \E w \in Workers : Post(w)
    BY <2>6, PostAccepts, RowsKept, Zenon DEF Post
  <2>7. CASE \E w \in Workers : Record(w)
    BY <2>7, RecordSettles, Zenon
  <2>8. CASE \E d \in Deliveries : LeaseLapses(d)
    BY <2>8, LapseGivesUp, Zenon
  <2>9. CASE \E w \in Workers : Load(w) \/ Abandon(w)
    BY <2>9, RowsKept, Zenon DEF Load, Abandon
  <2>10. CASE \/ \E e \in Events : Enqueue(e)
             \/ \E p \in Endpoints, t \in {"active", "paused"},
                    T \in SUBSET Types :
                    CreateEndpoint(p, t, T) \/ UpdateEndpoint(p, t, T)
    BY <2>10, RowsKept, Zenon DEF Enqueue, CreateEndpoint, UpdateEndpoint
  <2>11. CASE UNCHANGED vars
    BY <2>11, RowsKept, Zenon DEF vars
  <2> QED
    BY <2>2, <2>3, <2>4, <2>5, <2>6, <2>7, <2>8, <2>9, <2>10, <2>11, Zenon
       DEF Next, Operate, Tick
<1> QED
  BY <1>1, <1>2, InvariantHolds, PTL DEF Spec, PromiseKept, Promise!Spec
=============================================================================
