----------------------- MODULE IdentitySessionsProofs -----------------------
(***************************************************************************)
(* The safety properties of IdentitySessions for any number of logins,     *)
(* grants, families and calls, any limits and any bounds.                  *)
(***************************************************************************)
EXTENDS IdentitySessionsInvariant

(* The steps that change no family, and the whole step.                    *)

LEMMA OneRequestMoves ==
    ASSUME Inv, NEW r \in Handlers,
           UNCHANGED <<grant, code, family, token, clock>>,
           request' \in [Handlers -> Request],
           \A q \in Handlers \ {r} : request'[q] = request[q],
           RequestOK(r)',
           request'[r].answer # "ok",
           request'[r].now \in {0, clock},
           request'[r].answer = "none" =>
               request'[r].op = "none" \/ request'[r].now = clock
    PROVE  Sessions'
<1>1. ASSUME NEW q \in Handlers \ {r} PROVE RequestOK(q)'
  <2>1. request'[q] = request[q] /\ RequestOK(q)
    BY Zenon DEF Inv, Sessions
  <2> QED
    BY <2>1, Zenon DEF RequestOK
<1>2. \A q \in Handlers : RequestOK(q)'
  BY <1>1, Zenon
<1>3. OneWinner'
  BY ZenonT(30) DEF Inv, Sessions, OneWinner
<1>4. 0 <= clock /\ clock <= clock
  BY DEF Inv, TypeOK
<1>5. \A q \in Handlers : request'[q].now <= clock'
  BY <1>4, Zenon DEF Inv, Sessions, IssuedInTime
<1>6. \A f \in Families : \A s \in Seqs :
          token'[f][s].state = "live" => token'[f][s].issued <= clock'
  BY Zenon DEF Inv, Sessions, IssuedInTime
<1>7. ASSUME NEW q \in Handlers,
             request'[q].op \in {"refresh", "revoke"}, request'[q].answer = "none",
             token'[request'[q].on][request'[q].seq].state = "live"
      PROVE  token'[request'[q].on][request'[q].seq].issued <= request'[q].now
  <2>1. CASE q # r
    BY <1>7, <2>1, Zenon DEF Inv, Sessions, IssuedInTime
  <2>2. CASE q = r
    <3>1. /\ request'[r].on \in Families /\ request'[r].seq \in Seqs
          /\ request'[r].now = clock
      BY <1>7, <2>2, Zenon DEF RequestOK, Request
    <3> QED
      BY <1>6, <1>7, <2>2, <3>1, Zenon
  <2> QED
    BY <2>1, <2>2, Zenon
<1>8. IssuedInTime'
  BY <1>5, <1>6, <1>7, Zenon DEF IssuedInTime
<1> QED
  BY <1>2, <1>3, <1>8, RowsSame, Zenon DEF Inv, Sessions

LEMMA CloseKeeps ==
    ASSUME Inv, NEW r \in Handlers, Close(r),
           UNCHANGED <<login, callback, grant, code, family, token, clock>>
    PROVE  Inv'
<1>1. /\ request' \in [Handlers -> Request]
      /\ request'[r].op = "none" /\ request'[r].answer = "none"
      /\ request'[r].now = 0
      /\ \A q \in Handlers \ {r} : request'[q] = request[q]
  BY Closed, Zenon DEF Inv
<1>2. TypeOK' /\ Owned' /\ Coded'
  BY <1>1, OwnedSame, Zenon DEF Inv, TypeOK, Coded
<1>3. RequestOK(r)'
  BY <1>1, Zenon DEF RequestOK
<1>4. Sessions'
  BY <1>1, <1>3, OneRequestMoves, Zenon
<1> QED
  BY <1>2, <1>4, Zenon DEF Inv

LEMMA ReceiveKeeps ==
    ASSUME Inv, NEW r \in Handlers, NEW op \in {"code", "refresh", "revoke"},
           NEW x \in Logins \cup Families, NEW s \in Seqs, Receive(r, op, x, s)
    PROVE  Inv'
<1>1. /\ request' \in [Handlers -> Request]
      /\ request'[r].op = op /\ request'[r].on = x /\ request'[r].seq = s
      /\ request'[r].now = clock /\ request'[r].answer = "none"
      /\ \A q \in Handlers \ {r} : request'[q] = request[q]
  BY Zenon DEF Inv, TypeOK, Receive, Request
<1>2. /\ op = "code" => x \in Logins
      /\ op # "code" => x \in Families /\ token[x][s].state # "none"
      /\ UNCHANGED <<login, callback, grant, code, family, token, clock>>
  BY Zenon DEF Receive
<1>3. TypeOK' /\ Owned' /\ Coded'
  BY <1>1, <1>2, OwnedSame, Zenon DEF Inv, TypeOK, Coded
<1>4. RequestOK(r)'
  BY <1>1, <1>2, Zenon DEF RequestOK
<1>5. Sessions'
  BY <1>1, <1>2, <1>4, OneRequestMoves, Zenon
<1> QED
  BY <1>3, <1>5, Zenon DEF Inv

LEMMA RedeemEndedKeeps ==
    ASSUME Inv, NEW r \in Handlers, RedeemEnded(r)
    PROVE  Inv'
<1> DEFINE f == request[r].on
           s == request[r].seq
<1>1. /\ request[r].op = "refresh" /\ request[r].answer = "none"
      /\ ~Spent(f, s) /\ ~Standing(f)
      /\ UNCHANGED <<login, callback, grant, code, family, token, clock>>
  BY Zenon DEF RedeemEnded, Pending
<1>2. /\ request' \in [Handlers -> Request]
      /\ request'[r].op = "refresh" /\ request'[r].on = f
      /\ request'[r].seq = s /\ request'[r].answer = "invalid_grant"
      /\ request'[r].now = 0
      /\ \A q \in Handlers \ {r} : request'[q] = request[q]
  BY <1>1, Answered, Zenon DEF RedeemEnded, Inv
<1>3. /\ f \in Families /\ s \in Seqs /\ token[f][s].state = "live"
      /\ family[f].grant \in Grants
      /\ grant[family[f].grant].status # "none"
  BY <1>1, PresentedType, Zenon DEF Spent
<1>4. family[f].status = "active"
  BY <1>3, Zenon DEF Inv, Sessions, FamilyLifecycle
<1>5. grant[family[f].grant].status \in {"revoked", "expired"}
  BY <1>1, <1>3, <1>4, Zenon DEF Standing, Inv, TypeOK, Grant
<1> HIDE DEF f, s
<1>6. TypeOK' /\ Owned' /\ Coded'
  BY <1>1, <1>2, OwnedSame, Zenon DEF Inv, TypeOK, Coded
<1>7. RequestOK(r)'
  BY <1>1, <1>2, <1>3, <1>5, Zenon DEF RequestOK
<1>8. Sessions'
  BY <1>1, <1>2, <1>7, OneRequestMoves, Zenon
<1> QED
  BY <1>6, <1>8, Zenon DEF Inv

LEMMA RedeemUnknownKeeps ==
    ASSUME Inv, NEW r \in Handlers, RedeemUnknown(r)
    PROVE  Inv'
<1> DEFINE u == [NoRequest EXCEPT !.op = "refresh", !.answer = "invalid_grant"]
<1>0. 0 \in Nat /\ 0 \in Seqs
  BY SessionAssumption DEF Seqs
<1>u. /\ u \in Request /\ u.op = "refresh" /\ u.on = None
      /\ u.answer = "invalid_grant" /\ u.now = 0
  BY <1>0, Zenon DEF NoRequest, Request
<1>r. request' = [request EXCEPT ![r] = u] /\ request \in [Handlers -> Request]
  BY Zenon DEF RedeemUnknown, Inv, TypeOK
<1> HIDE DEF u
<1>1. /\ request' \in [Handlers -> Request]
      /\ request'[r].op = "refresh" /\ request'[r].on = None
      /\ request'[r].answer = "invalid_grant" /\ request'[r].now = 0
      /\ \A q \in Handlers \ {r} : request'[q] = request[q]
  BY <1>u, <1>r, Zenon
<1>2. UNCHANGED <<login, callback, grant, code, family, token, clock>>
  BY Zenon DEF RedeemUnknown
<1>3. TypeOK' /\ Owned' /\ Coded'
  BY <1>1, <1>2, OwnedSame, Zenon DEF Inv, TypeOK, Coded
<1>4. RequestOK(r)'
  BY <1>1, Zenon DEF RequestOK
<1>5. Sessions'
  BY <1>1, <1>2, <1>4, OneRequestMoves, Zenon
<1> QED
  BY <1>3, <1>5, Zenon DEF Inv

LEMMA PassKeeps ==
    ASSUME Inv, Pass
    PROVE  Inv'
<1>1. /\ clock \in Nat /\ clock' = clock + 1
      /\ UNCHANGED <<login, callback, grant, code, family, token, request>>
  BY Zenon DEF Inv, TypeOK, Pass
<1>2. clock' \in Nat /\ \A n \in Nat : n <= clock => n <= clock'
  BY <1>1
<1>3. TypeOK' /\ Owned' /\ Coded'
  BY <1>1, <1>2, OwnedSame, Zenon DEF Inv, TypeOK, Coded
<1>4. IssuedInTime'
  <2>1. /\ \A r \in Handlers : request[r].now \in Nat
        /\ \A f \in Families : \A s \in Seqs : token[f][s].issued \in Nat
    BY Zenon DEF Inv, TypeOK, Token, Request
  <2> QED
    BY <1>1, <1>2, <2>1, Zenon DEF Inv, Sessions, IssuedInTime
<1>5. (\A q \in Handlers : RequestOK(q)') /\ OneWinner'
  BY <1>1, Zenon DEF Inv, Sessions, RequestOK, OneWinner
<1> QED
  BY <1>1, <1>3, <1>4, <1>5, RowsSame, Zenon DEF Inv, Sessions

LEMMA InvInit == Init => Inv
<1> SUFFICES ASSUME Init PROVE Inv
  BY Zenon
<1>1. 0 \in Nat /\ 0 \in Seqs /\ 0 <= 0
  BY SessionAssumption DEF Seqs
<1>2. TypeOK
  <2>1. login \in [Logins -> Login] /\ callback \in [Handlers -> Binding]
    BY <1>1 DEF Init, Login, Binding, NoBinding
  <2>2. grant \in [Grants -> Grant] /\ code \in [Logins -> Code]
    BY <1>1 DEF Init, Grant, Code, NoCode
  <2>3. family \in [Families -> Family] /\ token \in [Families -> [Seqs -> Token]]
    BY <1>1 DEF Init, Family, Token, Dead
  <2>4. request \in [Handlers -> Request] /\ clock \in Nat
    BY <1>1 DEF Init, Request, NoRequest
  <2> QED
    BY <2>1, <2>2, <2>3, <2>4, Zenon DEF TypeOK
<1>3. Owned /\ Coded
  BY Zenon DEF Init, Owned, Working, CallbackOwnsLogin, NoBinding, Coded, NoCode
<1>4. /\ \A l \in Logins : CodeOK(l)
      /\ \A f \in Families : FamilyOK(f)
      /\ OneFamily
  BY Zenon DEF Init, CodeOK, FamilyOK, OneFamily, NoCode, Dead, Ended
<1>5. FamilyLifecycle /\ WithinLimits
  BY Zenon DEF Init, FamilyLifecycle, WithinLimits, Dead
<1>6. /\ \A r \in Handlers : /\ request[r].op = "none" /\ request[r].now = 0
                              /\ request[r].answer = "none"
      /\ \A f \in Families : \A s \in Seqs : token[f][s].state = "none"
      /\ clock = 0
  BY Zenon DEF Init, NoRequest, Dead
<1>7. IssuedInTime /\ OneWinner /\ \A r \in Handlers : RequestOK(r)
  BY <1>1, <1>6, Zenon DEF IssuedInTime, OneWinner, RequestOK
<1> QED
  BY <1>2, <1>3, <1>4, <1>5, <1>7, Zenon DEF Inv, Sessions

LEMMA CallbackKeeps ==
    ASSUME Inv,
           \/ \E l \in Logins : Authorize(l)
           \/ \E b \in Handlers :
                 \/ \E l \in Logins : LoadLiveBinding(b, l)
                 \/ Advance(b) \/ Authenticated(b) \/ Abandon(b)
                 \/ \E s \in {"provider_started", "denied"} : GiveBack(b, s)
    PROVE  Inv'
<1>1. UNCHANGED <<grant, code, family, token, request, clock>>
  BY Zenon DEF Authorize, LoadLiveBinding, Advance, Authenticated, Abandon, GiveBack
<1>2. TypeOK' /\ Owned'
  BY OwnedAuthorize, OwnedLoad, OwnedAdvance, OwnedAuthenticated,
     OwnedAbandon, OwnedGiveBack, Zenon DEF Inv
<1>3. Coded'
  BY <1>1, CodedCallback, Zenon DEF Inv
<1>4. Sessions'
  BY <1>1, SessionsSame, Zenon DEF Inv
<1> QED
  BY <1>2, <1>3, <1>4, Zenon DEF Inv

LEMMA InvNext == Inv /\ [Next]_vars => Inv'
<1> SUFFICES ASSUME Inv, [Next]_vars PROVE Inv'
  BY Zenon
<1>1. CASE UNCHANGED vars
  <2>1. /\ UNCHANGED <<login, callback>>
        /\ UNCHANGED <<grant, code, family, token, request, clock>>
    BY <1>1, Zenon DEF vars
  <2> QED
    BY <2>1, OwnedSame, SessionsSame, Zenon DEF Inv, TypeOK, Coded
<1>2. ASSUME NEW l \in Logins, Authorize(l) PROVE Inv'
  BY <1>2, CallbackKeeps
<1>3. ASSUME NEW b \in Handlers, CallbackStep(b) PROVE Inv'
  BY <1>3, CallbackKeeps, IssueKeeps, Zenon DEF CallbackStep
<1>4. ASSUME NEW r \in Handlers, RequestStep(r) PROVE Inv'
  <2>1. CASE \E op \in {"code", "refresh", "revoke"},
               x \in Logins \cup Families, s \in Seqs : Receive(r, op, x, s)
    BY <2>1, ReceiveKeeps
  <2>2. CASE Fail(r) \/ Finish(r)
    BY <2>2, CloseKeeps, Zenon DEF Fail, Finish
  <2>3. CASE \E f \in Families : ExchangeCode(r, f)
    BY <2>3, ExchangeKeeps
  <2>4. CASE Rotate(r)
    BY <2>4, RotateKeeps
  <2>5. CASE RedeemSpent(r) \/ RedeemOverdue(r) \/ Revoke(r)
    BY <2>5, RedeemEndsKeep
  <2>6. CASE RedeemEnded(r)
    BY <2>6, RedeemEndedKeeps
  <2>7. CASE RedeemUnknown(r)
    BY <2>7, RedeemUnknownKeeps
  <2> QED
    BY <1>4, <2>1, <2>2, <2>3, <2>4, <2>5, <2>6, <2>7, Zenon DEF RequestStep
<1> QED
  BY <1>1, <1>2, <1>3, <1>4, PassKeeps, Zenon DEF Next

(* The inductive invariant: who owns a login, what families, codes and     *)
(* requests are bound to, and when tokens were issued.                     *)
THEOREM InvariantHolds == Spec => []Inv
BY InvInit, InvNext, PTL DEF Spec

(* The rows keep their types. *)
THEOREM SessionsTyped == Spec => []TypeOK
<1>1. Inv => TypeOK
  BY Zenon DEF Inv
<1> QED
  BY <1>1, InvariantHolds, PTL

(* One callback at a time drives a login through the provider, whatever    *)
(* was abandoned and retried before.                                       *)
THEOREM LoginsAreOwned == Spec => []CallbackOwnsLogin
<1>1. Inv => CallbackOwnsLogin
  BY Zenon DEF Inv, Owned
<1> QED
  BY <1>1, InvariantHolds, PTL

(* What the trigger identity_refresh_family_lifecycle demands of a family  *)
(* at commit always holds.                                                 *)
THEOREM FamiliesAreWhole == Spec => []FamilyLifecycle
<1>1. Inv => FamilyLifecycle
  BY Zenon DEF Inv, Sessions
<1> QED
  BY <1>1, InvariantHolds, PTL

(* A code and a refresh token have one winner. *)
THEOREM WinnersAreSingle == Spec => []SingleWinner
<1>1. Inv => SingleWinner
  BY Zenon DEF Inv, Sessions, OneFamily, OneWinner, SingleWinner
<1> QED
  BY <1>1, InvariantHolds, PTL

(* A refresh whose token is found and that is answered invalid_grant has   *)
(* closed its grant for good.                                              *)
THEOREM RefusalsAreFinal == Spec => []RefusalIsFinal
<1>1. Inv => RefusalIsFinal
  BY Zenon DEF Inv, Sessions, RequestOK, RefusalIsFinal
<1> QED
  BY <1>1, InvariantHolds, PTL

(* A live token expires within the idle limit, the absolute limit and the  *)
(* grant, whatever the times of the requests that rotated it.              *)
THEOREM LimitsHold == Spec => []WithinLimits
<1>1. Inv => WithinLimits
  BY Zenon DEF Inv, Sessions
<1> QED
  BY <1>1, InvariantHolds, PTL

(* What each step that touches grants, families or tokens may do to them.  *)
LEMMA EndingStep ==
    ASSUME Inv, NEW r \in Handlers,
           RedeemSpent(r) \/ RedeemOverdue(r) \/ Revoke(r)
    PROVE  \E f \in Families, fs \in Ended, gs \in {"revoked", "expired"} :
               /\ family[f].grant \in Grants /\ family[f].status # "none"
               /\ End(f, fs, gs)
<1>1. /\ request[r].on \in Families
      /\ family[request[r].on].grant \in Grants
      /\ family[request[r].on].status # "none"
  <2>1. request[r].op \in {"refresh", "revoke"} /\ request[r].answer = "none"
    BY Zenon DEF RedeemSpent, RedeemOverdue, Revoke, Pending
  <2> QED
    BY <2>1, PresentedType, Zenon
<1>2. /\ "reuse_detected" \in Ended
      /\ IfActive(request[r].on, "expired") \in Ended
      /\ IfActive(request[r].on, "revoked") \in Ended
  BY <1>1, IfActiveEnds, Zenon DEF Ended
<1>3. \/ End(request[r].on, "reuse_detected", "revoked")
      \/ End(request[r].on, IfActive(request[r].on, "expired"), "expired")
      \/ End(request[r].on, IfActive(request[r].on, "revoked"), "revoked")
  BY Zenon DEF RedeemSpent, RedeemOverdue, Revoke, MarkRefreshReuse,
         MarkRefreshExpired
<1> QED
  BY <1>1, <1>2, <1>3, Zenon

LEMMA Touches ==
    ASSUME Inv, [Next]_vars
    PROVE  \/ UNCHANGED <<grant, family, token>>
           \/ \E b \in Handlers, g \in Grants, life \in Lives :
                  IssueCallbackArtifacts(b, g, life)
           \/ \E r \in Handlers, f \in Families : ExchangeCode(r, f)
           \/ \E r \in Handlers : Rotate(r)
           \/ \E f \in Families, fs \in Ended, gs \in {"revoked", "expired"} :
                  /\ family[f].grant \in Grants /\ family[f].status # "none"
                  /\ End(f, fs, gs)
<1>1. CASE UNCHANGED vars
  BY <1>1, Zenon DEF vars
<1>2. CASE Pass \/ \E l \in Logins : Authorize(l)
  BY <1>2, Zenon DEF Pass, Authorize
<1>3. ASSUME NEW b \in Handlers, CallbackStep(b)
      PROVE  \/ UNCHANGED <<grant, family, token>>
             \/ \E g \in Grants, life \in Lives :
                    IssueCallbackArtifacts(b, g, life)
  BY <1>3, Zenon DEF CallbackStep, LoadLiveBinding, Advance, Authenticated, Abandon,
              GiveBack
<1>4. ASSUME NEW r \in Handlers, RequestStep(r)
      PROVE  \/ UNCHANGED <<grant, family, token>>
             \/ \E f \in Families : ExchangeCode(r, f)
             \/ Rotate(r)
             \/ RedeemSpent(r) \/ RedeemOverdue(r) \/ Revoke(r)
  BY <1>4, Zenon DEF RequestStep, Receive, Fail, Finish, RedeemEnded,
                     RedeemUnknown
<1>5. CASE \E b \in Handlers : CallbackStep(b)
  BY <1>3, <1>5, Zenon
<1>6. CASE \E r \in Handlers : RequestStep(r)
  <2>1. PICK r \in Handlers : RequestStep(r)
    BY <1>6
  <2>2. CASE UNCHANGED <<grant, family, token>>
    BY <2>2
  <2>3. CASE (\E f \in Families : ExchangeCode(r, f)) \/ Rotate(r)
    BY <2>3
  <2>4. CASE RedeemSpent(r) \/ RedeemOverdue(r) \/ Revoke(r)
    BY <2>4, EndingStep
  <2> QED
    BY <2>1, <2>2, <2>3, <2>4, <1>4, Zenon
<1> QED
  BY <1>1, <1>2, <1>5, <1>6, Zenon DEF Next

LEMMA ExchangeEffect ==
    ASSUME Inv, NEW r \in Handlers, NEW f \in Families, ExchangeCode(r, f)
    PROVE  /\ family[f].status = "none" /\ UNCHANGED grant
           /\ grant[family'[f].grant].status = "active"
           /\ \A e \in Families \ {f} : /\ family'[e] = family[e]
                                        /\ token'[e] = token[e]
<1>1. /\ family'[f].grant = code[request[r].on].grant
      /\ \A e \in Families \ {f} : family'[e] = family[e] /\ token'[e] = token[e]
  BY Zenon DEF ExchangeCode, Inv, TypeOK
<1> QED
  BY <1>1, Zenon DEF ExchangeCode, Claimable

LEMMA EndsAreFinal == Inv /\ [Next]_vars => EndIsFinal
<1> SUFFICES ASSUME Inv, [Next]_vars PROVE EndIsFinal
  OBVIOUS
<1>1. CASE UNCHANGED <<grant, family, token>>
  BY <1>1, Zenon DEF EndIsFinal
<1>2. ASSUME NEW b \in Handlers, NEW g \in Grants, NEW life \in Lives,
             IssueCallbackArtifacts(b, g, life)
      PROVE  EndIsFinal
  <2>1. callback[b].now \in Nat
    BY Zenon DEF Inv, TypeOK, Binding
  <2>2. \A h \in Grants : grant[h].status \in Ended =>
                              grant'[h].status = grant[h].status
    BY <1>2, <2>1, GrantIssue, Zenon DEF IssueCallbackArtifacts, Inv
  <2> QED
    BY <1>2, <2>2, Zenon DEF EndIsFinal, IssueCallbackArtifacts
<1>3. ASSUME NEW r \in Handlers, NEW f \in Families, ExchangeCode(r, f)
      PROVE  EndIsFinal
  <2>1. "none" \notin Ended
    BY Zenon DEF Ended
  <2>2. /\ family[f].status = "none" /\ UNCHANGED grant
        /\ grant[family'[f].grant].status = "active"
        /\ \A e \in Families \ {f} : family'[e] = family[e] /\ token'[e] = token[e]
    BY <1>3, ExchangeEffect, Zenon
  <2> QED
    BY <2>1, <2>2, Zenon DEF EndIsFinal
<1>4. ASSUME NEW r \in Handlers, Rotate(r)
      PROVE  EndIsFinal
  <2>1. PICK f \in Families : f = request[r].on
    BY <1>4, RotateEffect, Zenon
  <2>2. /\ family[f].status = "active"
        /\ grant[family[f].grant].status = "active"
        /\ \A e \in Families \ {f} : token'[e] = token[e]
    BY <1>4, <2>1, RotateEffect, Zenon
  <2>3. /\ UNCHANGED grant /\ family'[f].grant = family[f].grant
        /\ \A e \in Families \ {f} : family'[e] = family[e]
    BY <1>4, <2>1, Zenon DEF Rotate, Inv, TypeOK, Family
  <2>4. "active" \notin Ended
    BY Zenon DEF Ended
  <2> QED
    BY <2>2, <2>3, <2>4, Zenon DEF EndIsFinal
<1>5. ASSUME NEW f \in Families, NEW fs \in Ended,
             NEW gs \in {"revoked", "expired"}, family[f].grant \in Grants,
             End(f, fs, gs)
      PROVE  EndIsFinal
  <2>1. \A h \in Grants : grant[h].status # "active" =>
                              grant'[h].status = grant[h].status
    BY <1>5, EndGrant, Zenon DEF Inv
  <2>2. /\ \A e \in Families \ {f} : family'[e] = family[e]
        /\ family'[f].status \in Ended
    BY <1>5, EndFamily, Zenon DEF Inv
  <2>3. /\ \A e \in Families \ {f} : token'[e] = token[e]
        /\ \A s \in Seqs : token[f][s].state = "none" => token'[f][s].state = "none"
    BY <1>5, EndTokens, Zenon DEF Inv
  <2>4. "active" \notin Ended
    BY Zenon DEF Ended
  <2> QED
    BY <2>1, <2>2, <2>3, <2>4, Zenon DEF EndIsFinal
<1> QED
  BY <1>1, <1>2, <1>3, <1>4, <1>5, Touches

(* No terminal family or grant comes back, and a refresh token appears     *)
(* only under an active grant.                                             *)
THEOREM EndsStay == Spec => TerminalIsFinal
BY InvariantHolds, EndsAreFinal, PTL DEF Spec, TerminalIsFinal

(* A token that some request may not use at its time becomes usable at     *)
(* that time by no step: a rotation uses up the only token that can, an    *)
(* end closes the grant, and no grant is opened again.                     *)
LEMMA UsableStep ==
    ASSUME Inv, [Next]_vars, NEW f \in Families, NEW s \in Seqs, NEW now \in Nat,
           token[f][s].state # "none", Usable(f, s, now)'
    PROVE  Usable(f, s, now)
<1>0. /\ family[f].status # "none" /\ family[f].grant \in Grants
      /\ grant[family[f].grant].status # "none"
  BY Zenon DEF Inv, Sessions, FamilyOK
<1>1. CASE UNCHANGED <<grant, family, token>>
  BY <1>1, Zenon DEF Usable, Standing, Spent, Overdue
<1>2. ASSUME NEW b \in Handlers, NEW g \in Grants, NEW life \in Lives,
             IssueCallbackArtifacts(b, g, life)
      PROVE  Usable(f, s, now)
  <2>1. callback[b].now \in Nat
    BY Zenon DEF Inv, TypeOK, Binding
  <2>2. grant'[family[f].grant].status = "active" =>
            grant[family[f].grant].status = "active"
    BY <1>0, <1>2, <2>1, GrantIssue, Zenon DEF IssueCallbackArtifacts, Inv
  <2>3. UNCHANGED <<family, token>>
    BY <1>2, Zenon DEF IssueCallbackArtifacts
  <2> QED
    BY <2>2, <2>3, Zenon DEF Usable, Standing, Spent, Overdue
<1>3. ASSUME NEW r \in Handlers, NEW e \in Families, ExchangeCode(r, e)
      PROVE  Usable(f, s, now)
  <2>1. e # f
    BY <1>0, <1>3, ExchangeEffect, Zenon
  <2>2. /\ UNCHANGED grant
        /\ \A k \in Families \ {e} : family'[k] = family[k] /\ token'[k] = token[k]
    BY <1>3, ExchangeEffect, Zenon
  <2>3. UNCHANGED grant /\ family'[f] = family[f] /\ token'[f] = token[f]
    BY <2>1, <2>2, Zenon
  <2> QED
    BY <2>3, Zenon DEF Usable, Standing, Spent, Overdue
<1>4. ASSUME NEW r \in Handlers, Rotate(r)
      PROVE  Usable(f, s, now)
  <2>1. PICK e \in Families, n \in Seqs : e = request[r].on /\ n = request[r].seq
    BY <1>4, RotateEffect, Zenon
  <2>2. /\ token[e][n].state = "live" /\ token'[e][n].state = "consumed"
        /\ \A k \in Families \ {e} : token'[k] = token[k]
        /\ n + 1 \in Seqs /\ \A m \in Seqs : m > n => token[e][m].state = "none"
        /\ \A m \in Seqs : m < n => token[e][m].state = "consumed"
        /\ \A m \in Seqs \ {n, n + 1} : token'[e][m] = token[e][m]
    BY <1>4, <2>1, RotateEffect, ZenonT(60)
  <2>3. UNCHANGED grant /\ \A k \in Families \ {e} : family'[k] = family[k]
    BY <1>4, <2>1, Zenon DEF Rotate, Inv, TypeOK
  <2>4. ~Spent(f, s)'
    BY Zenon DEF Usable
  <2>5. e # f
    <3> SUFFICES ASSUME e = f PROVE FALSE
      BY Zenon
    <3>1. s # n
      BY <2>2, <2>4, Zenon DEF Spent
    <3>2. s < n \/ s > n
      BY <3>1, SessionAssumption DEF Seqs
    <3>3. s < n
      BY <2>2, <3>2
    <3>4. s \in Seqs \ {n, n + 1} /\ token[e][s].state = "consumed"
      BY <2>2, <3>1, <3>3, SessionAssumption DEF Seqs
    <3>5. token'[f][s].state = "consumed"
      BY <2>2, <3>4, Zenon
    <3> QED
      BY <2>4, <3>5, Zenon DEF Spent
  <2> QED
    BY <2>2, <2>3, <2>5, ZenonT(30) DEF Usable, Standing, Spent, Overdue
<1>5. ASSUME NEW e \in Families, NEW fs \in Ended,
             NEW gs \in {"revoked", "expired"}, family[e].grant \in Grants,
             End(e, fs, gs)
      PROVE  Usable(f, s, now)
  <2>f. /\ \A k \in Families \ {e} : family'[k] = family[k]
        /\ family'[e].status \in Ended
    BY <1>5, EndFamily, Zenon DEF Inv
  <2>t. \A k \in Families \ {e} : token'[k] = token[k]
    BY <1>5, EndTokens, Zenon DEF Inv
  <2>g. /\ \A h \in Grants \ {family[e].grant} : grant'[h] = grant[h]
        /\ grant'[family[e].grant].status # "active"
    <3>1. PICK g \in Grants : g = family[e].grant
      BY <1>5, Zenon
    <3>2. /\ \A h \in Grants \ {g} : grant'[h] = grant[h]
          /\ \/ grant[g].status = "active" /\ grant'[g].status = gs
             \/ grant[g].status # "active" /\ grant'[g].status = grant[g].status
      <4>1. TypeOK /\ End(e, fs, gs)
        BY <1>5, Zenon DEF Inv
      <4> QED
        BY <1>5, <3>1, <4>1, EndGrant
    <3>3. gs # "active"
      BY <1>5, Zenon
    <3> QED
      BY <3>1, <3>2, <3>3, Zenon
  <2>1. /\ \A k \in Families \ {e} : family'[k] = family[k] /\ token'[k] = token[k]
        /\ family'[e].status \in Ended
        /\ \A h \in Grants \ {family[e].grant} : grant'[h] = grant[h]
        /\ grant'[family[e].grant].status # "active"
    BY <2>f, <2>t, <2>g, Zenon
  <2>2. Standing(f)'
    BY Zenon DEF Usable
  <2>3. e # f
    BY <2>1, <2>2, Zenon DEF Standing, Ended
  <2>4. family[f].grant # family[e].grant
    BY <2>1, <2>2, <2>3, Zenon DEF Standing
  <2> QED
    BY <1>0, <2>1, <2>3, <2>4, Zenon DEF Usable, Standing, Spent, Overdue
<1> QED
  BY <1>1, <1>2, <1>3, <1>4, <1>5, Touches, Zenon

(* A refusal that was rolled back is still right when the transaction is   *)
(* tried again.                                                            *)
THEOREM RefusalsAreStable == Spec => RefusalIsStable
<1>1. ASSUME Inv, [Next]_vars, NEW r \in Handlers, Refused(r),
             request'[r] = request[r]
      PROVE  Refused(r)'
  <2>1. /\ request[r].op = "refresh" /\ request[r].answer = "none"
        /\ Pending(r, "refresh")'
    BY <1>1, Zenon DEF Refused, Pending
  <2>2. PICK f \in Families, s \in Seqs, now \in Nat :
            f = request[r].on /\ s = request[r].seq /\ now = request[r].now
    BY <1>1, <2>1, PresentedType, Zenon
  <2>3. token[f][s].state # "none"
    BY <1>1, <2>1, <2>2, PresentedType, Zenon
  <2>4. ~Usable(f, s, now)
    BY <1>1, <2>2, Zenon DEF Refused
  <2>5. ~Usable(f, s, now)'
    BY <1>1, <2>3, <2>4, UsableStep, Zenon
  <2> QED
    BY <1>1, <2>1, <2>2, <2>5, Zenon DEF Refused, Usable, Standing, Spent, Overdue
<1>2. Inv /\ [Next]_vars =>
          [\A r \in Handlers :
              Refused(r) /\ request'[r] = request[r] => Refused(r)']_vars
  BY <1>1
<1> QED
  BY <1>2, InvariantHolds, PTL DEF Spec, RefusalIsStable
=============================================================================
