---------------------- MODULE IdentitySessionsInvariant ---------------------
(***************************************************************************)
(* The inductive invariant of IdentitySessions, kept by the callbacks, by  *)
(* the three ends of a family and by the steps that issue and rotate its   *)
(* refresh tokens.                                                         *)
(***************************************************************************)
EXTENDS IdentitySessions, TLAPS

(* A callback that may call the provider, or has its answer, is the one    *)
(* the login's row names by its version.                                   *)
Owned ==
    /\ \A b \in Handlers :
           callback[b].status # "idle" => callback[b].login \in Logins
    /\ \A b \in Handlers : Working(b) => Current(b, "provider_validating")
    /\ CallbackOwnsLogin

(* What a family is bound to exists, its code is used up, and its grant    *)
(* ends with it or before it.                                              *)
FamilyOK(f) ==
    /\ family[f].status = "none" =>
           \A s \in Seqs : token[f][s].state = "none"
    /\ family[f].status # "none" =>
           /\ family[f].grant \in Grants /\ family[f].login \in Logins
           /\ grant[family[f].grant].status # "none"
           /\ code[family[f].login].status = "consumed"
    /\ family[f].status \in Ended =>
           grant[family[f].grant].status \in {"revoked", "expired"}

CodeOK(l) ==
    code[l].status = "issued" =>
        code[l].grant \in Grants /\ grant[code[l].grant].status # "none"

OneFamily ==
    \A e, f \in Families :
        family[e].status # "none" /\ family[f].status # "none"
            /\ family[e].login = family[f].login => e = f

(* A request read the clock in the past; a live token was issued in the    *)
(* past, and before any request that presents it: this is what keeps its   *)
(* expiry within the limits.                                               *)
IssuedInTime ==
    /\ \A r \in Handlers : request[r].now <= clock
    /\ \A f \in Families : \A s \in Seqs :
           token[f][s].state = "live" => token[f][s].issued <= clock
    /\ \A r \in Handlers :
           LET q == request[r] IN
           /\ q.op \in {"refresh", "revoke"} /\ q.answer = "none"
           /\ token[q.on][q.seq].state = "live"
           => token[q.on][q.seq].issued <= q.now

(* What a request presents was issued, unless it was refused as unknown; a *)
(* winner has used it up.                                                  *)
RequestOK(r) ==
    LET q == request[r] IN
    /\ q.op = "code" =>
           q.on \in Logins /\ (q.answer = "ok" => code[q.on].status = "consumed")
    /\ q.op \in {"refresh", "revoke"} =>
           \/ q.on \in Families /\ token[q.on][q.seq].state # "none"
           \/ q.on = None /\ q.answer = "invalid_grant"
    /\ q.op = "refresh" /\ q.answer = "ok" =>
           token[q.on][q.seq].state = "consumed"
    /\ q.op = "refresh" /\ q.on # None /\ q.answer = "invalid_grant" =>
           grant[family[q.on].grant].status \in {"revoked", "expired"}

OneWinner ==
    \A q, r \in Handlers :
        (/\ request[q].op \in {"code", "refresh"}
         /\ request[q].answer = "ok" /\ request[r].answer = "ok"
         /\ request[q].op = request[r].op /\ request[q].on = request[r].on
         /\ request[q].seq = request[r].seq) => q = r

Sessions ==
    /\ \A l \in Logins : CodeOK(l)
    /\ \A f \in Families : FamilyOK(f)
    /\ OneFamily /\ FamilyLifecycle /\ WithinLimits /\ IssuedInTime
    /\ \A r \in Handlers : RequestOK(r)
    /\ OneWinner

(* A login gets its code when it is authorized, and that is its end. *)
Coded ==
    \A l \in Logins : code[l].status # "none" => login[l].status = "authorized"

Inv == TypeOK /\ Owned /\ Coded /\ Sessions

---------------------------------------------------------------------------
(* The callbacks.                                                          *)

(* A step that moves no login but one none works on, and gives no callback *)
(* work but on a login that is being taken.                                *)
LEMMA OwnedSame ==
    ASSUME Owned, UNCHANGED <<login, callback>>
    PROVE  Owned'
BY Zenon DEF Owned, Working, Current, CallbackOwnsLogin

LEMMA OwnedAuthorize ==
    ASSUME TypeOK, Owned, NEW l \in Logins, Authorize(l)
    PROVE  TypeOK' /\ Owned'
<1>1. login' \in [Logins -> Login]
  BY Zenon DEF TypeOK, Authorize, Login, Live
<1>2. \A k \in Logins : login[k].status = "provider_validating" =>
                            login'[k] = login[k]
  BY Zenon DEF TypeOK, Authorize
<1>3. \A b \in Handlers : Working(b) => callback[b].login \in Logins
  BY Zenon DEF Owned, Working
<1>4. Owned'
  BY <1>2, <1>3 DEF Owned, Working, Current, CallbackOwnsLogin, Authorize
<1> QED
  BY <1>1, <1>4, Zenon DEF TypeOK, Authorize

LEMMA OwnedLoad ==
    ASSUME TypeOK, Owned, NEW b \in Handlers, NEW l \in Logins,
           LoadLiveBinding(b, l)
    PROVE  TypeOK' /\ Owned'
<1>1. /\ callback' \in [Handlers -> Binding]
      /\ callback'[b].login = l /\ callback'[b].status \in Live
      /\ \A a \in Handlers \ {b} : callback'[a] = callback[a]
  BY Zenon DEF TypeOK, LoadLiveBinding, Binding, Login, Live, Open, Final
<1>2. ~Working(b)'
  BY <1>1, Zenon DEF Working, Live
<1>3. Owned'
  BY <1>1, <1>2, Zenon
     DEF Owned, Working, Current, CallbackOwnsLogin, LoadLiveBinding
<1> QED
  BY <1>1, <1>3, Zenon DEF TypeOK, LoadLiveBinding

(* Whoever drops its binding owns nothing any more. *)
LEMMA OwnedDrop ==
    ASSUME TypeOK, Owned, NEW b \in Handlers, Drop(b),
           callback[b].status # "idle",
           \A l \in Logins \ {callback[b].login} : login'[l] = login[l],
           login' = login \/ Working(b)
    PROVE  callback' \in [Handlers -> Binding] /\ Owned'
<1>1. /\ callback' \in [Handlers -> Binding]
      /\ callback'[b].status = "idle"
      /\ \A a \in Handlers \ {b} : callback'[a] = callback[a]
  BY SessionAssumption, Zenon DEF TypeOK, Drop, NoBinding, Binding
<1>2. ~Working(b)'
  BY <1>1, Zenon DEF Working
<1>3. ASSUME NEW a \in Handlers, Working(a)'
      PROVE  Current(a, "provider_validating")'
  <2>1. a # b /\ callback'[a] = callback[a] /\ Working(a)
    BY <1>1, <1>2, <1>3, Zenon DEF Working
  <2>2. callback[a].login \in Logins /\ Current(a, "provider_validating")
    BY <2>1, Zenon DEF Owned, Working
  <2>3. login'[callback[a].login] = login[callback[a].login]
    BY <2>1, <2>2, Zenon DEF Owned, CallbackOwnsLogin
  <2> QED
    BY <2>1, <2>2, <2>3, Zenon DEF Current
<1> QED
  BY <1>1, <1>2, <1>3, ZenonT(30) DEF Owned, Working, CallbackOwnsLogin

LEMMA OwnedAdvance ==
    ASSUME TypeOK, Owned, NEW b \in Handlers, Advance(b)
    PROVE  TypeOK' /\ Owned'
<1>0. callback[b].login \in Logins /\ callback[b].status \in Live
      /\ callback[b].version \in Nat /\ callback[b].status # "idle"
      /\ ~Working(b)
  BY Zenon DEF Owned, Advance, Live, TypeOK, Binding, Working
<1>1. CASE ~Current(b, callback[b].status) /\ Drop(b) /\ UNCHANGED login
  <2>1. callback' \in [Handlers -> Binding] /\ Owned'
    BY <1>0, <1>1, OwnedDrop, Zenon
  <2> QED
    BY <1>1, <2>1, Zenon DEF TypeOK, Advance
<1>2. CASE /\ Current(b, callback[b].status)
           /\ SetLogin(b, After(callback[b].status))
           /\ callback' = [callback EXCEPT ![b] =
                 [callback[b] EXCEPT !.status = After(callback[b].status),
                                     !.version = callback[b].version + 1]]
  <2> DEFINE k == callback[b].login
             t == After(callback[b].status)
  <2>1. t \in {"provider_started", "provider_validating"} /\ t \notin Final
    BY <1>0, Zenon DEF After, Live, Final
  <2> HIDE DEF t
  <2>2. /\ callback' \in [Handlers -> Binding]
        /\ callback'[b].login = k /\ callback'[b].status = t
        /\ callback'[b].version = callback[b].version + 1
        /\ \A a \in Handlers \ {b} : callback'[a] = callback[a]
    <3>1. callback[b] \in Binding /\ callback[b].version + 1 \in Nat
      BY <1>0 DEF TypeOK
    <3>2. [callback[b] EXCEPT !.status = t, !.version = callback[b].version + 1]
              \in Binding
      BY <2>1, <3>1, Zenon DEF Binding, Live
    <3> QED
      BY <1>2, <3>1, <3>2, Zenon DEF TypeOK, Binding, t
  <2>3. /\ login' \in [Logins -> Login]
        /\ login'[k].status = t /\ login'[k].version = callback[b].version + 1
        /\ \A l \in Logins \ {k} : login'[l] = login[l]
    BY <1>0, <1>2, <2>1 DEF TypeOK, Login, SetLogin, Live, t
  <2>4. login[k].status \in Live
    BY <1>0, <1>2, Zenon DEF Current
  <2>5. \A a \in Handlers : Working(a) => callback[a].login # k
    BY <2>4, Zenon DEF Owned, Current, Live
  <2>6. \A a \in Handlers \ {b} : Working(a)' <=> Working(a)
    BY <2>2, Zenon DEF Working
  <2>7. \A a \in Handlers : Working(a)' => Current(a, "provider_validating")'
    <3> TAKE a \in Handlers
    <3> HAVE Working(a)'
    <3>1. CASE a = b
      BY <3>1, <2>1, <2>2, <2>3, Zenon DEF Working, Current
    <3>2. CASE a # b
      <4>1. Working(a) /\ callback'[a] = callback[a]
        BY <3>2, <2>2, <2>6
      <4>2. callback[a].login \in Logins \ {k}
        BY <4>1, <2>5, Zenon DEF Owned, Working
      <4> QED
        BY <4>1, <4>2, <2>3, Zenon DEF Owned, Current
    <3> QED
      BY <3>1, <3>2
  <2>8. CallbackOwnsLogin'
    BY <2>2, <2>5, <2>6, Zenon DEF Owned, CallbackOwnsLogin
  <2>9. \A a \in Handlers : callback'[a].status # "idle" =>
                                callback'[a].login \in Logins
    BY <1>0, <2>2, Zenon DEF Owned
  <2> QED
    BY <2>2, <2>3, <2>7, <2>8, <2>9, Zenon DEF TypeOK, Advance, Owned
<1> QED
  BY <1>1, <1>2, Zenon DEF Advance

LEMMA OwnedGiveBack ==
    ASSUME TypeOK, Owned, NEW b \in Handlers,
           NEW s \in {"provider_started", "denied"}, GiveBack(b, s)
    PROVE  TypeOK' /\ Owned'
<1>1. /\ Working(b) /\ callback[b].login \in Logins
      /\ callback[b].version \in Nat /\ callback[b].status # "idle"
  BY Zenon DEF Owned, GiveBack, Working, TypeOK, Binding
<1>2. /\ login' \in [Logins -> Login]
      /\ \A l \in Logins \ {callback[b].login} : login'[l] = login[l]
  BY <1>1 DEF TypeOK, GiveBack, SetLogin, Login, Live, Final
<1>3. callback' \in [Handlers -> Binding] /\ Owned'
  BY <1>1, <1>2, OwnedDrop, Zenon DEF GiveBack
<1> QED
  BY <1>2, <1>3, Zenon DEF TypeOK, GiveBack

LEMMA OwnedAuthenticated ==
    ASSUME TypeOK, Owned, NEW b \in Handlers, Authenticated(b)
    PROVE  TypeOK' /\ Owned'
<1>1. /\ callback' \in [Handlers -> Binding]
      /\ Working(b) /\ callback'[b].status = "issuing"
      /\ callback'[b].login = callback[b].login
      /\ callback'[b].version = callback[b].version
      /\ \A a \in Handlers \ {b} : callback'[a] = callback[a]
  BY Zenon DEF TypeOK, Authenticated, Binding, Working
<1>2. \A a \in Handlers : /\ Working(a)' <=> Working(a)
                          /\ callback'[a].login = callback[a].login
                          /\ callback'[a].version = callback[a].version
  BY <1>1, Zenon DEF Working
<1>3. Owned'
  BY <1>1, <1>2 DEF Owned, Working, Current, CallbackOwnsLogin, Authenticated
<1> QED
  BY <1>1, <1>3, Zenon DEF TypeOK, Authenticated

LEMMA OwnedAbandon ==
    ASSUME TypeOK, Owned, NEW b \in Handlers, Abandon(b)
    PROVE  TypeOK' /\ Owned'
<1>1. callback' \in [Handlers -> Binding] /\ Owned'
  BY OwnedDrop, Zenon DEF Abandon
<1> QED
  BY <1>1, Zenon DEF TypeOK, Abandon

(* No callback step takes an authorized login anywhere. *)
LEMMA CodedCallback ==
    ASSUME TypeOK, Owned, Coded, UNCHANGED code,
           \/ \E l \in Logins : Authorize(l)
           \/ \E b \in Handlers :
                 \/ \E l \in Logins : LoadLiveBinding(b, l)
                 \/ Advance(b) \/ Authenticated(b) \/ Abandon(b)
                 \/ \E s \in {"provider_started", "denied"} : GiveBack(b, s)
    PROVE  Coded'
<1> SUFFICES ASSUME NEW l \in Logins, login[l].status = "authorized"
             PROVE  login'[l] = login[l]
  BY Zenon DEF Coded
<1>1. ASSUME NEW k \in Logins, Authorize(k) PROVE login'[l] = login[l]
  BY <1>1, Zenon DEF Authorize, TypeOK
<1>2. ASSUME NEW b \in Handlers, Advance(b) PROVE login'[l] = login[l]
  BY <1>2, Zenon DEF Advance, SetLogin, Current, Live, TypeOK
<1>3. ASSUME NEW b \in Handlers, NEW s, GiveBack(b, s)
      PROVE  login'[l] = login[l]
  BY <1>3, ZenonT(30) DEF GiveBack, SetLogin, Current, TypeOK
<1> QED
  BY <1>1, <1>2, <1>3, Zenon DEF LoadLiveBinding, Authenticated, Abandon

---------------------------------------------------------------------------
(* The sessions.                                                           *)

(* Steps that leave grants, codes, families and tokens alone. *)
LEMMA RowsSame ==
    ASSUME Sessions, UNCHANGED <<grant, code, family, token>>
    PROVE  /\ \A l \in Logins : CodeOK(l)'
           /\ \A f \in Families : FamilyOK(f)'
           /\ OneFamily' /\ FamilyLifecycle' /\ WithinLimits'
<1>1. \A l \in Logins : CodeOK(l)'
  BY Zenon DEF Sessions, CodeOK
<1>2. \A f \in Families : FamilyOK(f)'
  BY Zenon DEF Sessions, FamilyOK
<1>3. OneFamily'
  BY Zenon DEF Sessions, OneFamily
<1>4. FamilyLifecycle'
  BY Zenon DEF Sessions, FamilyLifecycle, EndOfChain
<1>5. WithinLimits'
  BY Zenon DEF Sessions, WithinLimits
<1> QED
  BY <1>1, <1>2, <1>3, <1>4, <1>5, Zenon

LEMMA SessionsSame ==
    ASSUME Sessions, UNCHANGED <<grant, code, family, token, request, clock>>
    PROVE  Sessions'
<1>1. IssuedInTime'
  BY Zenon DEF Sessions, IssuedInTime
<1>2. \A r \in Handlers : RequestOK(r)'
  BY Zenon DEF Sessions, RequestOK
<1>3. OneWinner'
  BY Zenon DEF Sessions, OneWinner
<1> QED
  BY <1>1, <1>2, <1>3, RowsSame, Zenon DEF Sessions

(* What a login does to the grants: what ended stays ended, and a grant    *)
(* that exists keeps its limit.                                            *)
LEMMA GrantIssue ==
    ASSUME TypeOK, NEW g \in Grants, NEW now \in Nat, NEW life \in Lives,
           ReuseOrCreateGrant(g, now, life)
    PROVE  /\ grant' \in [Grants -> Grant] /\ grant'[g].status = "active"
           /\ \A h \in Grants : grant[h].status # "none" =>
                  /\ grant'[h].status # "none"
                  /\ grant'[h].notAfter = grant[h].notAfter
           /\ \A h \in Grants : grant[h].status \in Ended =>
                  grant'[h].status = grant[h].status
           /\ \A h \in Grants :
                  grant[h].status # "none" /\ grant'[h].status = "active" =>
                      grant[h].status = "active"
<1>1. /\ Expired(now) \in [Grants -> Grant]
      /\ \A h \in Grants :
             /\ Expired(now)[h].notAfter = grant[h].notAfter
             /\ \/ Expired(now)[h].status = grant[h].status
                \/ /\ grant[h].status = "active" /\ grant[h].notAfter <= now
                   /\ Expired(now)[h].status = "expired"
  BY Zenon DEF TypeOK, Expired, Grant
<1> HIDE DEF Expired
<1>2. CASE Reusable(g, now) /\ grant' = Expired(now)
  <2>1. Expired(now)[g].status = "active"
    BY <1>1, <1>2 DEF Reusable, TypeOK, Grant
  <2> QED
    BY <1>1, <1>2, <2>1, Zenon DEF Ended
<1>3. CASE /\ grant[g].status = "none"
           /\ grant' = [Expired(now) EXCEPT ![g] =
                           [status |-> "active", notAfter |-> now + life]]
  <2>1. /\ grant' \in [Grants -> Grant] /\ grant'[g].status = "active"
        /\ \A h \in Grants \ {g} : grant'[h] = Expired(now)[h]
    BY <1>1, <1>3, SessionAssumption DEF Grant
  <2> QED
    BY <1>1, <1>3, <2>1, Zenon DEF Ended
<1> QED
  BY <1>2, <1>3, Zenon DEF ReuseOrCreateGrant

LEMMA IssueKeeps ==
    ASSUME Inv, NEW b \in Handlers, NEW g \in Grants, NEW life \in Lives,
           IssueCallbackArtifacts(b, g, life)
    PROVE  Inv'
<1> DEFINE k == callback[b].login
<1>1. /\ Working(b) /\ k \in Logins /\ callback[b].version \in Nat
      /\ callback[b].status # "idle" /\ callback[b].now \in Nat
      /\ login[k].status = "provider_validating"
  BY Zenon DEF Inv, Owned, IssueCallbackArtifacts, Working, Current, TypeOK, Binding
<1>2. /\ login' \in [Logins -> Login] /\ login'[k].status = "authorized"
      /\ \A l \in Logins \ {k} : login'[l] = login[l]
  BY <1>1, Zenon DEF Inv, TypeOK, IssueCallbackArtifacts, SetLogin, Login, Final
<1>3. callback' \in [Handlers -> Binding] /\ Owned'
  BY <1>1, <1>2, OwnedDrop, Zenon DEF IssueCallbackArtifacts, Inv
<1>4. /\ grant' \in [Grants -> Grant] /\ grant'[g].status = "active"
      /\ \A h \in Grants : grant[h].status # "none" =>
             /\ grant'[h].status # "none"
             /\ grant'[h].notAfter = grant[h].notAfter
      /\ \A h \in Grants : grant[h].status \in Ended =>
             grant'[h].status = grant[h].status
  BY <1>1, GrantIssue, Zenon DEF Inv, IssueCallbackArtifacts
<1>5. /\ code' \in [Logins -> Code]
      /\ code'[k].status = "issued" /\ code'[k].grant = g
      /\ \A l \in Logins \ {k} : code'[l] = code[l]
  <2>1. callback[b].now + Least(CodeTTL, life) \in Nat
    BY <1>1, SessionAssumption DEF Least
  <2> HIDE DEF Least
  <2> QED
    BY <1>1, <2>1, Zenon DEF Inv, TypeOK, IssueCallbackArtifacts, Code
<1>6. code[k].status = "none"
  BY <1>1, Zenon DEF Inv, Coded
<1>7. UNCHANGED <<family, token, request, clock>>
  BY Zenon DEF IssueCallbackArtifacts
<1>8. TypeOK' /\ Coded'
  BY <1>2, <1>3, <1>4, <1>5, <1>7, ZenonT(60) DEF Inv, TypeOK, Coded
<1>9. \A l \in Logins : CodeOK(l)'
  BY <1>4, <1>5, ZenonT(30) DEF Inv, Sessions, CodeOK
<1>10. \A f \in Families : FamilyOK(f)'
  BY <1>4, <1>5, <1>6, <1>7 DEF Inv, Sessions, FamilyOK, Ended
<1>11. OneFamily' /\ FamilyLifecycle' /\ IssuedInTime' /\ OneWinner'
  BY <1>7, ZenonT(60) DEF Inv, Sessions, OneFamily, FamilyLifecycle, EndOfChain,
              IssuedInTime, OneWinner
<1>12. WithinLimits'
  <2> SUFFICES ASSUME NEW f \in Families, NEW s \in Seqs,
                      token[f][s].state = "live"
               PROVE  grant'[family[f].grant].notAfter
                          = grant[family[f].grant].notAfter
    BY <1>7, Zenon DEF Inv, Sessions, WithinLimits
  <2>1. family[f].status # "none"
    BY Zenon DEF Inv, Sessions, FamilyOK
  <2> QED
    BY <2>1, <1>4, Zenon DEF Inv, Sessions, FamilyOK
<1>13. ASSUME NEW r \in Handlers PROVE RequestOK(r)'
  <2>1. request[r].op = "refresh" /\ request[r].on # None =>
            family[request[r].on].grant \in Grants
    BY Zenon DEF Inv, Sessions, RequestOK, FamilyOK, TypeOK, Request
  <2> QED
    BY <2>1, <1>4, <1>5, <1>6, <1>7, Zenon DEF Inv, Sessions, RequestOK, Ended
<1> QED
  BY <1>3, <1>8, <1>9, <1>10, <1>11, <1>12, <1>13, Zenon DEF Inv, Sessions

LEMMA LeastBounds ==
    ASSUME NEW a \in Nat, NEW b \in Nat, NEW c \in Nat, a <= c
    PROVE  /\ Least(a, b) \in Nat /\ Least(c, b) \in Nat
           /\ Least(a, b) <= a /\ Least(a, b) <= Least(c, b)
           /\ Least(c, b) <= b /\ Least(a, b) \in {a, b}
BY DEF Least

(* The two ways a request goes on: it is closed, or it has an answer. *)
LEMMA Closed ==
    ASSUME TypeOK, NEW r \in Handlers, Close(r)
    PROVE  /\ request' \in [Handlers -> Request]
           /\ request'[r].op = "none" /\ request'[r].answer = "none"
           /\ request'[r].now = 0
           /\ \A q \in Handlers \ {r} : request'[q] = request[q]
BY SessionAssumption DEF TypeOK, Close, NoRequest, Request, Seqs

LEMMA Answered ==
    ASSUME TypeOK, NEW r \in Handlers, NEW a \in {"ok", "invalid_grant"},
           Answer(r, a)
    PROVE  /\ request' \in [Handlers -> Request]
           /\ request'[r].op = request[r].op /\ request'[r].on = request[r].on
           /\ request'[r].seq = request[r].seq /\ request'[r].answer = a
           /\ request'[r].now = 0
           /\ \A q \in Handlers \ {r} : request'[q] = request[q]
BY Zenon DEF TypeOK, Answer, Request

LEMMA PresentedType ==
    ASSUME Inv, NEW r \in Handlers, request[r].op \in {"refresh", "revoke"},
           request[r].on # None \/ request[r].answer = "none"
    PROVE  LET f == request[r].on
               s == request[r].seq IN
           /\ f \in Families /\ s \in Seqs /\ request[r].now \in Nat
           /\ token[f][s].state \in {"live", "consumed", "revoked"}
           /\ token[f][s].issued \in Nat /\ token[f][s].expires \in Nat
           /\ family[f].status # "none" /\ family[f].grant \in Grants
           /\ grant[family[f].grant].status # "none"
           /\ family[f].idle \in Nat /\ family[f].absolute \in Nat
<1>1. /\ request[r].on \in Families /\ request[r].seq \in Seqs
      /\ request[r].now \in Nat
      /\ token[request[r].on][request[r].seq].state # "none"
  BY Zenon DEF Inv, Sessions, RequestOK, TypeOK, Request
<1>2. token[request[r].on][request[r].seq] \in Token
  BY <1>1, Zenon DEF Inv, TypeOK
<1>3. family[request[r].on] \in Family
  BY <1>1, Zenon DEF Inv, TypeOK
<1>4. FamilyOK(request[r].on)
  BY <1>1, Zenon DEF Inv, Sessions
<1> QED
  BY <1>1, <1>2, <1>3, <1>4, Zenon DEF Token, Family, FamilyOK

(* A request that was refused as unknown depends on no row. *)
LEMMA UnknownStays ==
    ASSUME NEW r \in Handlers, RequestOK(r), request'[r] = request[r],
           request[r].op \in {"refresh", "revoke"}, request[r].on = None
    PROVE  RequestOK(r)'
<1>1. request'[r].answer = "invalid_grant"
  BY SessionAssumption, Zenon DEF RequestOK
<1> QED
  BY <1>1, Zenon DEF RequestOK

(* What the end of a family does to the rows. *)
LEMMA EndTokens ==
    ASSUME TypeOK, NEW f \in Families, NEW fs, NEW gs, End(f, fs, gs)
    PROVE  /\ token' \in [Families -> [Seqs -> Token]]
           /\ \A e \in Families \ {f} : token'[e] = token[e]
           /\ \A s \in Seqs :
                  \/ token[f][s].state # "live" /\ token'[f][s] = token[f][s]
                  \/ token[f][s].state = "live" /\ token'[f][s].state = "revoked"
<1>1. Dead("revoked") \in Token /\ Dead("revoked").state = "revoked"
  BY Zenon DEF Dead, Token
<1>2. /\ token' \in [Families -> [Seqs -> Token]]
      /\ \A e \in Families \ {f} : token'[e] = token[e]
      /\ \A s \in Seqs : token'[f][s] = IF token[f][s].state = "live"
                                        THEN Dead("revoked") ELSE token[f][s]
  BY <1>1, Zenon DEF TypeOK, End
<1>3. ASSUME NEW s \in Seqs
      PROVE  \/ token[f][s].state # "live" /\ token'[f][s] = token[f][s]
             \/ token[f][s].state = "live" /\ token'[f][s].state = "revoked"
  <2>1. CASE token[f][s].state = "live"
    <3>1. token'[f][s] = Dead("revoked")
      BY <1>2, <2>1, Zenon
    <3> QED
      BY <1>1, <2>1, <3>1, Zenon
  <2>2. CASE token[f][s].state # "live"
    BY <1>2, <2>2, Zenon
  <2> QED
    BY <2>1, <2>2, Zenon
<1> QED
  BY <1>2, <1>3, Zenon

LEMMA EndFamily ==
    ASSUME TypeOK, NEW f \in Families, NEW fs \in Ended, NEW gs, End(f, fs, gs)
    PROVE  /\ family' \in [Families -> Family]
           /\ \A e \in Families \ {f} : family'[e] = family[e]
           /\ family'[f].status = fs /\ family'[f].grant = family[f].grant
           /\ family'[f].login = family[f].login
<1>1. /\ family[f] \in Family /\ [family[f] EXCEPT !.status = fs] \in Family
      /\ [family[f] EXCEPT !.status = fs].status = fs
      /\ [family[f] EXCEPT !.status = fs].grant = family[f].grant
      /\ [family[f] EXCEPT !.status = fs].login = family[f].login
  BY Zenon DEF TypeOK, Family, Ended
<1> QED
  BY <1>1, Zenon DEF TypeOK, End

LEMMA EndGrant ==
    ASSUME TypeOK, NEW f \in Families, NEW fs, NEW gs \in {"revoked", "expired"},
           NEW g \in Grants, g = family[f].grant, End(f, fs, gs)
    PROVE  /\ grant' \in [Grants -> Grant]
           /\ \A h \in Grants \ {g} : grant'[h] = grant[h]
           /\ grant'[g].notAfter = grant[g].notAfter
           /\ \/ grant[g].status = "active" /\ grant'[g].status = gs
              \/ grant[g].status # "active" /\ grant'[g].status = grant[g].status
<1> DEFINE st == IF grant[g].status = "active" THEN gs ELSE grant[g].status
<1>1. /\ grant' \in [Grants -> Grant]
      /\ \A h \in Grants \ {g} : grant'[h] = grant[h]
      /\ grant'[g].notAfter = grant[g].notAfter /\ grant'[g].status = st
  BY Zenon DEF TypeOK, End, Grant
<1> QED
  BY <1>1, Zenon

LEMMA EndKeeps ==
    ASSUME Inv, NEW r \in Handlers, request[r].op \in {"refresh", "revoke"},
           request[r].answer = "none",
           NEW fs \in Ended, NEW gs \in {"revoked", "expired"},
           End(request[r].on, fs, gs),
           Close(r) \/ (request[r].op = "refresh" /\ Answer(r, "invalid_grant")),
           UNCHANGED <<login, callback, code, clock>>
    PROVE  Inv'
<1> DEFINE f == request[r].on
           g == family[f].grant
<1>1. /\ f \in Families /\ family[f].status # "none" /\ g \in Grants
      /\ grant[g].status # "none"
  BY PresentedType, Zenon
<1>2. f = request[r].on
  OBVIOUS
<1> HIDE DEF f
<1>3. /\ token' \in [Families -> [Seqs -> Token]]
      /\ \A e \in Families \ {f} : token'[e] = token[e]
      /\ \A s \in Seqs :
             \/ token[f][s].state # "live" /\ token'[f][s] = token[f][s]
             \/ token[f][s].state = "live" /\ token'[f][s].state = "revoked"
      /\ family' \in [Families -> Family]
      /\ \A e \in Families \ {f} : family'[e] = family[e]
      /\ family'[f].status = fs /\ family'[f].grant = g
      /\ family'[f].login = family[f].login
      /\ grant' \in [Grants -> Grant]
      /\ \A h \in Grants \ {g} : grant'[h] = grant[h]
      /\ grant'[g].notAfter = grant[g].notAfter
      /\ \/ grant[g].status = "active" /\ grant'[g].status = gs
         \/ grant[g].status # "active" /\ grant'[g].status = grant[g].status
  <2>1. TypeOK /\ End(f, fs, gs) /\ family[f].grant \in Grants
    BY <1>1, <1>2, Zenon DEF Inv
  <2>2. /\ token' \in [Families -> [Seqs -> Token]]
        /\ \A e \in Families \ {f} : token'[e] = token[e]
        /\ \A s \in Seqs :
               \/ token[f][s].state # "live" /\ token'[f][s] = token[f][s]
               \/ token[f][s].state = "live" /\ token'[f][s].state = "revoked"
    BY <1>1, <2>1, EndTokens, Zenon
  <2>3. /\ family' \in [Families -> Family]
        /\ \A e \in Families \ {f} : family'[e] = family[e]
        /\ family'[f].status = fs /\ family'[f].grant = g
        /\ family'[f].login = family[f].login
    BY <1>1, <2>1, EndFamily, Zenon
  <2>4. /\ grant' \in [Grants -> Grant]
        /\ \A h \in Grants \ {g} : grant'[h] = grant[h]
        /\ grant'[g].notAfter = grant[g].notAfter
        /\ \/ grant[g].status = "active" /\ grant'[g].status = gs
           \/ grant[g].status # "active" /\ grant'[g].status = grant[g].status
    BY <1>1, <2>1, EndGrant, ZenonT(60)
  <2> QED
    BY <2>2, <2>3, <2>4, Zenon
<1>4. grant'[g].status \in {"revoked", "expired"}
  BY <1>1, <1>3, ZenonT(30) DEF Inv, TypeOK, Grant
<1>5. \A h \in Grants : /\ grant[h].status # "none" => grant'[h].status # "none"
                        /\ grant[h].status \in {"revoked", "expired"} =>
                               grant'[h].status \in {"revoked", "expired"}
                        /\ grant'[h].notAfter = grant[h].notAfter
  BY <1>3, <1>4, Zenon
<1>6. /\ request' \in [Handlers -> Request]
      /\ \A q \in Handlers \ {r} : request'[q] = request[q]
      /\ request'[r].now = 0
      /\ \/ request'[r].op = "none" /\ request'[r].answer = "none"
         \/ /\ request'[r].op = "refresh" /\ request'[r].on = f
            /\ request'[r].seq = request[r].seq
            /\ request'[r].answer = "invalid_grant"
  BY <1>2, Closed, Answered, Zenon DEF Inv
<1> HIDE DEF g
<1>7. TypeOK' /\ Owned' /\ Coded'
  BY <1>3, <1>6, OwnedSame, Zenon DEF Inv, TypeOK, Coded
<1>8. \A l \in Logins : CodeOK(l)'
  BY <1>5, Zenon DEF Inv, Sessions, CodeOK
<1>9. ASSUME NEW e \in Families PROVE FamilyOK(e)'
  <2>1. CASE e = f
    BY <2>1, <1>1, <1>3, <1>4, ZenonT(90) DEF Inv, Sessions, FamilyOK, Ended, g
  <2>2. CASE e # f
    BY <2>2, <1>3, <1>5 DEF Inv, Sessions, FamilyOK, Ended, TypeOK
  <2> QED
    BY <2>1, <2>2
<1>10. OneFamily'
  BY <1>1, <1>3 DEF Inv, Sessions, OneFamily
<1>11. FamilyLifecycle'
  <2>1. fs # "active" /\ \A s \in Seqs : token'[f][s].state # "live"
    BY <1>3, Zenon DEF Ended
  <2>2. \A e \in Families \ {f} :
            /\ token'[e] = token[e] /\ family'[e].status = family[e].status
    BY <1>3, Zenon
  <2>3. FamilyLifecycle
    BY Zenon DEF Inv, Sessions
  <2> SUFFICES ASSUME NEW e \in Families
               PROVE  /\ family'[e].status = "active" =>
                             \E s \in Seqs : /\ token'[e][s].state = "live"
                                             /\ EndOfChain(e, s)'
                      /\ family'[e].status # "active" =>
                             \A s \in Seqs : token'[e][s].state # "live"
    BY Zenon DEF FamilyLifecycle
  <2>4. CASE e = f
    BY <2>1, <2>4, <1>3, Zenon
  <2>5. CASE e # f
    <3>1. \A s \in Seqs : EndOfChain(e, s)' <=> EndOfChain(e, s)
      BY <2>2, <2>5, Zenon DEF EndOfChain
    <3> QED
      BY <2>2, <2>3, <2>5, <3>1, Zenon DEF FamilyLifecycle
  <2> QED
    BY <2>4, <2>5
<1>12. \A e \in Families : \A s \in Seqs :
           token'[e][s].state = "live" => e # f /\ token[e][s].state = "live"
  BY <1>3
<1>13. WithinLimits'
  <2> SUFFICES ASSUME NEW e \in Families, NEW s \in Seqs,
                      token'[e][s].state = "live"
               PROVE  /\ token'[e][s].expires <= family'[e].idle
                      /\ family'[e].idle <= token'[e][s].issued + Idle
                      /\ family'[e].idle <= family'[e].absolute
                      /\ family'[e].absolute <= grant'[family'[e].grant].notAfter
    BY Zenon DEF WithinLimits
  <2>1. /\ e # f /\ token[e][s].state = "live" /\ token'[e] = token[e]
        /\ family'[e] = family[e]
    BY <1>3, <1>12
  <2>2. family[e].grant \in Grants
    BY <2>1, Zenon DEF Inv, Sessions, FamilyOK
  <2> QED
    BY <2>1, <2>2, <1>5, Zenon DEF Inv, Sessions, WithinLimits
<1>14. IssuedInTime'
  <2>1. ASSUME NEW q \in Handlers,
               request'[q].op \in {"refresh", "revoke"},
               request'[q].answer = "none",
               token'[request'[q].on][request'[q].seq].state = "live"
        PROVE  token'[request'[q].on][request'[q].seq].issued
                   <= request'[q].now
    <3>1. q # r /\ request'[q] = request[q]
      BY <2>1, <1>6, SMTT(30)
    <3>2. request[q].on \in Families /\ request[q].seq \in Seqs
      BY <2>1, <3>1, PresentedType, Zenon
    <3>3. /\ request[q].on # f
          /\ token[request[q].on][request[q].seq].state = "live"
          /\ token'[request[q].on] = token[request[q].on]
      <4>1. token'[request[q].on][request[q].seq].state = "live"
        BY <2>1, <3>1, Zenon
      <4>2. /\ request[q].on # f
            /\ token[request[q].on][request[q].seq].state = "live"
        BY <3>2, <4>1, <1>12, Zenon
      <4> QED
        BY <3>2, <4>2, <1>3, Zenon
    <3>4. /\ request[q].op \in {"refresh", "revoke"}
          /\ request[q].answer = "none"
      BY <2>1, <3>1, Zenon
    <3>5. token[request[q].on][request[q].seq].issued <= request[q].now
      BY <3>3, <3>4, Zenon DEF Inv, Sessions, IssuedInTime
    <3> QED
      BY <3>1, <3>3, <3>5, Zenon
  <2>2. \A e \in Families : \A s \in Seqs :
            token'[e][s].state = "live" => token'[e][s].issued <= clock'
    BY <1>3, <1>12 DEF Inv, Sessions, IssuedInTime
  <2>3. \A q \in Handlers : request'[q].now <= clock'
    BY <1>6 DEF Inv, Sessions, IssuedInTime, TypeOK
  <2> QED
    BY <2>1, <2>2, <2>3, Zenon DEF IssuedInTime
<1>15. ASSUME NEW q \in Handlers PROVE RequestOK(q)'
  <2>1. CASE q = r
    <3>1. request'[r].op = "refresh" =>
              token'[request[r].on][request[r].seq].state # "none"
      BY <1>2, <1>3, PresentedType, Zenon
    <3> QED
      BY <2>1, <3>1, <1>1, <1>2, <1>3, <1>4, <1>6, Zenon DEF RequestOK
  <2>2. CASE q # r
    <3>1. request'[q] = request[q] /\ RequestOK(q)
      BY <2>2, <1>6, Zenon DEF Inv, Sessions
    <3>2. CASE request[q].op \in {"refresh", "revoke"} /\ request[q].on # None
      <4> DEFINE e == request[q].on
                 s == request[q].seq
      <4>1. /\ e \in Families /\ s \in Seqs /\ token[e][s].state # "none"
            /\ family[e].grant \in Grants
        BY <3>2, PresentedType, ZenonT(30)
      <4>2. /\ token'[e][s].state # "none"
            /\ token[e][s].state = "consumed" => token'[e][s].state = "consumed"
            /\ family'[e].grant = family[e].grant
        <5>1. CASE e = f
          BY <4>1, <5>1, <1>3, Zenon DEF g
        <5>2. CASE e # f
          BY <4>1, <5>2, <1>3, ZenonT(30)
        <5> QED
          BY <5>1, <5>2, Zenon
      <4>3. grant[family[e].grant].status \in {"revoked", "expired"} =>
                grant'[family'[e].grant].status \in {"revoked", "expired"}
        BY <4>1, <4>2, <1>5, Zenon
      <4> QED
        BY <3>1, <3>2, <4>1, <4>2, <4>3, Zenon DEF RequestOK
    <3>3. CASE request[q].op \notin {"refresh", "revoke"}
      BY <3>1, <3>3, Zenon DEF RequestOK
    <3>4. CASE request[q].op \in {"refresh", "revoke"} /\ request[q].on = None
      BY <3>1, <3>4, UnknownStays, Zenon
    <3> QED
      BY <3>2, <3>3, <3>4
  <2> QED
    BY <2>1, <2>2
<1>16. OneWinner'
  BY <1>6 DEF Inv, Sessions, OneWinner
<1> QED
  BY <1>7, <1>8, <1>9, <1>10, <1>11, <1>13, <1>14, <1>15, <1>16, Zenon
     DEF Inv, Sessions

(* The three ends. *)
LEMMA IfActiveEnds ==
    ASSUME Inv, NEW f \in Families, family[f].status # "none", NEW fs \in Ended
    PROVE  IfActive(f, fs) \in Ended
BY Zenon DEF Inv, TypeOK, Family, IfActive, Ended

LEMMA RedeemEndsKeep ==
    ASSUME Inv, NEW r \in Handlers,
           RedeemSpent(r) \/ RedeemOverdue(r) \/ Revoke(r)
    PROVE  Inv'
<1>1. ASSUME RedeemSpent(r) PROVE Inv'
  <2>1. /\ "reuse_detected" \in Ended
        /\ request[r].op = "refresh" /\ request[r].answer = "none"
    BY <1>1, Zenon DEF Ended, RedeemSpent, Pending
  <2> QED
    BY <1>1, <2>1, EndKeeps, Zenon DEF RedeemSpent, MarkRefreshReuse
<1>2. ASSUME RedeemOverdue(r) PROVE Inv'
  <2>1. request[r].op = "refresh" /\ request[r].answer = "none"
    BY <1>2, Zenon DEF RedeemOverdue, Pending
  <2>2. IfActive(request[r].on, "expired") \in Ended
    BY <2>1, PresentedType, IfActiveEnds, Zenon DEF Ended
  <2> QED
    BY <1>2, <2>1, <2>2, EndKeeps, Zenon DEF RedeemOverdue, MarkRefreshExpired
<1>3. ASSUME Revoke(r) PROVE Inv'
  <2>1. request[r].op = "revoke" /\ request[r].answer = "none"
    BY <1>3, Zenon DEF Revoke, Pending
  <2>2. IfActive(request[r].on, "revoked") \in Ended
    BY <2>1, PresentedType, IfActiveEnds, Zenon DEF Ended
  <2>3. /\ End(request[r].on, IfActive(request[r].on, "revoked"), "revoked")
        /\ Close(r) /\ UNCHANGED <<login, callback, code, clock>>
    BY <1>3, Zenon DEF Revoke
  <2>4. /\ request[r].op \in {"refresh", "revoke"} /\ request[r].answer = "none"
        /\ "revoked" \in {"revoked", "expired"}
        /\ Close(r) \/ (request[r].op = "refresh" /\ Answer(r, "invalid_grant"))
    BY <2>1, <2>3, Zenon
  <2> QED
    BY <2>2, <2>3, <2>4, EndKeeps, Zenon
<1> QED
  BY <1>1, <1>2, <1>3

-----------------------------------------------------------------------------
(* The two steps that issue a refresh token: the exchange of a code and a  *)
(* rotation.                                                               *)

(* The first token of a family. *)
LEMMA ExchangeKeeps ==
    ASSUME Inv, NEW r \in Handlers, NEW f \in Families, ExchangeCode(r, f)
    PROVE  Inv'
<1> DEFINE l == request[r].on
           now == request[r].now
           g == code[l].grant
           idle == Least(now + Idle, grant[g].notAfter)
           absolute == Least(now + Absolute, grant[g].notAfter)
<1>1. /\ request[r].op = "code" /\ l \in Logins /\ now \in Nat
      /\ code[l].status = "issued" /\ family[f].status = "none"
  BY Zenon DEF ExchangeCode, Pending, Claimable, Inv, Sessions, RequestOK, TypeOK,
         Request
<1>2. /\ g \in Grants /\ grant[g].status = "active"
      /\ grant[g].notAfter \in Nat /\ now <= clock
  BY <1>1, Zenon DEF ExchangeCode, Claimable, Inv, Sessions, CodeOK, TypeOK, Grant,
              IssuedInTime
<1>3. /\ idle \in Nat /\ absolute \in Nat /\ idle <= absolute
      /\ idle <= now + Idle /\ absolute <= grant[g].notAfter
  <2>1. /\ now + Idle \in Nat /\ now + Absolute \in Nat
        /\ now + Idle <= now + Absolute
    BY <1>1, SessionAssumption
  <2>2. PICK a \in Nat, c \in Nat, n \in Nat :
            /\ a = now + Idle /\ c = now + Absolute
            /\ n = grant[g].notAfter /\ a <= c
    BY <1>2, <2>1, Zenon
  <2>3. /\ Least(a, n) \in Nat /\ Least(c, n) \in Nat /\ Least(a, n) <= a
        /\ Least(a, n) <= Least(c, n) /\ Least(c, n) <= n
    <3>1. a <= c
      BY <2>2, Zenon
    <3> QED
      BY <3>1, LeastBounds, Zenon
  <2> QED
    BY <2>2, <2>3, Zenon
<1>4. /\ code' = [code EXCEPT ![l] = NoCode("consumed")]
      /\ family' = [family EXCEPT ![f] =
                       [status |-> "active", grant |-> g, login |-> l,
                        idle |-> idle, absolute |-> absolute]]
      /\ token' = [token EXCEPT ![f] = [token[f] EXCEPT ![0] =
                      [state |-> "live", issued |-> now, expires |-> idle]]]
      /\ Answer(r, "ok") /\ UNCHANGED <<login, callback, grant, clock>>
  BY Zenon DEF ExchangeCode, Consumed
<1>5. l = request[r].on /\ now = request[r].now /\ g = code[l].grant
  OBVIOUS
<1> HIDE DEF l, now, g, idle, absolute
<1>6. /\ code' \in [Logins -> Code] /\ code'[l].status = "consumed"
      /\ \A k \in Logins \ {l} : code'[k] = code[k]
  BY <1>1, <1>4, SessionAssumption, Zenon DEF Inv, TypeOK, Code, NoCode
<1>7. /\ family' \in [Families -> Family]
      /\ family'[f].status = "active" /\ family'[f].grant = g
      /\ family'[f].login = l /\ family'[f].idle = idle
      /\ family'[f].absolute = absolute
      /\ \A e \in Families \ {f} : family'[e] = family[e]
  BY <1>1, <1>2, <1>3, <1>4, Zenon DEF Inv, TypeOK, Family
<1>8. /\ token' \in [Families -> [Seqs -> Token]] /\ 0 \in Seqs
      /\ token'[f][0].state = "live" /\ token'[f][0].issued = now
      /\ token'[f][0].expires = idle
      /\ \A n \in Seqs \ {0} : token'[f][n] = token[f][n]
      /\ \A e \in Families \ {f} : token'[e] = token[e]
  <2>1. [state |-> "live", issued |-> now, expires |-> idle] \in Token
    BY <1>1, <1>3, Zenon DEF Token
  <2>2. 0 \in Seqs
    BY SessionAssumption DEF Seqs
  <2> QED
    BY <1>4, <2>1, <2>2, Zenon DEF Inv, TypeOK
<1>9. /\ request' \in [Handlers -> Request]
      /\ request'[r].op = "code" /\ request'[r].on = l
      /\ request'[r].seq = request[r].seq /\ request'[r].answer = "ok"
      /\ request'[r].now = 0
      /\ \A q \in Handlers \ {r} : request'[q] = request[q]
  BY <1>1, <1>4, <1>5, Answered, Zenon DEF Inv
<1>10. \A n \in Seqs : token[f][n].state = "none"
  BY <1>1, Zenon DEF Inv, Sessions, FamilyOK
<1>11. UNCHANGED <<login, callback, grant, clock>>
  BY <1>4
<1>12. TypeOK' /\ Owned' /\ Coded'
  BY <1>1, <1>6, <1>7, <1>8, <1>9, <1>11, OwnedSame, Zenon DEF Inv, TypeOK, Coded
<1>13. \A k \in Logins : CodeOK(k)'
  BY <1>6, <1>11, Zenon DEF Inv, Sessions, CodeOK
<1>14. ASSUME NEW e \in Families PROVE FamilyOK(e)'
  <2>1. CASE e = f
    BY <2>1, <1>1, <1>2, <1>6, <1>7, <1>11, Zenon DEF FamilyOK, Ended
  <2>2. CASE e # f
    <3>1. family'[e] = family[e] /\ token'[e] = token[e] /\ FamilyOK(e)
      BY <2>2, <1>7, <1>8, Zenon DEF Inv, Sessions
    <3> QED
      BY <3>1, <1>1, <1>6, <1>11, Zenon DEF FamilyOK
  <2> QED
    BY <2>1, <2>2
<1>15. OneFamily'
  <2>1. \A e \in Families : family[e].status # "none" => family[e].login # l
    BY <1>1, Zenon DEF Inv, Sessions, FamilyOK
  <2> QED
    BY <2>1, <1>7, ZenonT(90) DEF Inv, Sessions, OneFamily
<1>16. FamilyLifecycle'
  <2> SUFFICES ASSUME NEW e \in Families
               PROVE  /\ family'[e].status = "active" =>
                             \E s \in Seqs : /\ token'[e][s].state = "live"
                                             /\ EndOfChain(e, s)'
                      /\ family'[e].status # "active" =>
                             \A s \in Seqs : token'[e][s].state # "live"
    BY Zenon DEF FamilyLifecycle
  <2>1. CASE e = f
    <3>1. EndOfChain(f, 0)'
      BY <1>8, <1>10 DEF EndOfChain, Seqs
    <3> QED
      BY <2>1, <3>1, <1>7, <1>8
  <2>2. CASE e # f
    <3>1. family'[e] = family[e] /\ token'[e] = token[e]
      BY <2>2, <1>7, <1>8
    <3>2. \A s \in Seqs : EndOfChain(e, s)' <=> EndOfChain(e, s)
      BY <3>1, Zenon DEF EndOfChain
    <3> QED
      BY <3>1, <3>2, Zenon DEF Inv, Sessions, FamilyLifecycle
  <2> QED
    BY <2>1, <2>2
<1>17. \A e \in Families : \A s \in Seqs : token'[e][s].state = "live" =>
           (e = f /\ s = 0) \/ (e # f /\ token[e][s].state = "live")
  BY <1>8, <1>10
<1>18. WithinLimits'
  <2> SUFFICES ASSUME NEW e \in Families, NEW s \in Seqs,
                      token'[e][s].state = "live"
               PROVE  /\ token'[e][s].expires <= family'[e].idle
                      /\ family'[e].idle <= token'[e][s].issued + Idle
                      /\ family'[e].idle <= family'[e].absolute
                      /\ family'[e].absolute
                             <= grant'[family'[e].grant].notAfter
    BY Zenon DEF WithinLimits
  <2>1. CASE e = f
    BY <2>1, <1>3, <1>7, <1>8, <1>11, <1>17
  <2>2. CASE e # f
    <3>1. /\ family'[e] = family[e] /\ token'[e] = token[e]
          /\ token[e][s].state = "live"
      BY <2>2, <1>7, <1>8, Zenon
    <3> QED
      BY <3>1, <1>11, Zenon DEF Inv, Sessions, WithinLimits
  <2> QED
    BY <2>1, <2>2
<1>19. ASSUME NEW q \in Handlers, request[q].op \in {"refresh", "revoke"},
              request[q].on # None \/ request[q].answer = "none"
       PROVE  /\ q # r /\ request'[q] = request[q]
              /\ request[q].on \in Families \ {f}
  BY <1>1, <1>9, <1>10, <1>19, PresentedType, Zenon
<1>20. IssuedInTime'
  <2>1. \A q \in Handlers : request'[q].now <= clock'
    BY <1>9, <1>11 DEF Inv, Sessions, IssuedInTime, TypeOK
  <2>2. \A e \in Families : \A s \in Seqs :
            token'[e][s].state = "live" => token'[e][s].issued <= clock'
    BY <1>2, <1>8, <1>11, <1>17, Zenon DEF Inv, Sessions, IssuedInTime
  <2>3. ASSUME NEW q \in Handlers,
               request'[q].op \in {"refresh", "revoke"},
               request'[q].answer = "none",
               token'[request'[q].on][request'[q].seq].state = "live"
        PROVE  token'[request'[q].on][request'[q].seq].issued
                   <= request'[q].now
    <3>1. request[q].op \in {"refresh", "revoke"} /\ request'[q] = request[q]
      BY <2>3, <1>9
    <3> QED
      BY <2>3, <3>1, <1>8, <1>19, ZenonT(90) DEF Inv, Sessions, IssuedInTime
  <2> QED
    BY <2>1, <2>2, <2>3, Zenon DEF IssuedInTime
<1>21. ASSUME NEW q \in Handlers PROVE RequestOK(q)'
  <2>1. CASE q = r
    BY <2>1, <1>1, <1>6, <1>9, Zenon DEF RequestOK
  <2>2. CASE q # r
    <3>1. request'[q] = request[q] /\ RequestOK(q)
      BY <2>2, <1>9, Zenon DEF Inv, Sessions
    <3>2. CASE request[q].op \in {"refresh", "revoke"} /\ request[q].on # None
      <4>1. /\ token'[request[q].on] = token[request[q].on]
            /\ family'[request[q].on] = family[request[q].on]
        BY <3>2, <1>7, <1>8, <1>19, Zenon
      <4> QED
        BY <3>1, <3>2, <4>1, <1>11, Zenon DEF RequestOK
    <3>3. CASE request[q].op \notin {"refresh", "revoke"}
      BY <3>1, <3>3, <1>6, Zenon DEF RequestOK
    <3>4. CASE request[q].op \in {"refresh", "revoke"} /\ request[q].on = None
      BY <3>1, <3>4, UnknownStays, Zenon
    <3> QED
      BY <3>2, <3>3, <3>4
  <2> QED
    BY <2>1, <2>2
<1>22. OneWinner'
  <2>1. \A q \in Handlers : request[q].op = "code" /\ request[q].answer = "ok"
                                => request[q].on # l
    BY <1>1, Zenon DEF Inv, Sessions, RequestOK
  <2> QED
    BY <2>1, <1>9 DEF Inv, Sessions, OneWinner
<1> QED
  BY <1>12, <1>13, <1>14, <1>15, <1>16, <1>18, <1>20, <1>21, <1>22, Zenon
     DEF Inv, Sessions

(* The live token of a family is its last. *)
LEMMA LiveIsLast ==
    ASSUME Inv, NEW f \in Families, NEW s \in Seqs, token[f][s].state = "live"
    PROVE  family[f].status = "active" /\ EndOfChain(f, s)
<1>1. family[f].status = "active"
  BY Zenon DEF Inv, Sessions, FamilyLifecycle
<1>2. PICK n \in Seqs : token[f][n].state = "live" /\ EndOfChain(f, n)
  BY <1>1, Zenon DEF Inv, Sessions, FamilyLifecycle
<1>3. s = n
  BY <1>2, SessionAssumption DEF EndOfChain, Seqs
<1> QED
  BY <1>1, <1>2, <1>3

(* The rotation: what it does to the tokens of its family. *)
LEMMA RotateEffect ==
    ASSUME Inv, NEW r \in Handlers, Rotate(r)
    PROVE  LET f == request[r].on
               s == request[r].seq
               now == request[r].now IN
           /\ f \in Families /\ s \in Seqs /\ s + 1 \in Seqs /\ now \in Nat
           /\ token[f][s].state = "live" /\ token[f][s].issued <= now
           /\ family[f].status = "active"
           /\ grant[family[f].grant].status = "active"
           /\ \A n \in Seqs : n < s => token[f][n].state = "consumed"
           /\ \A n \in Seqs : n > s => token[f][n].state = "none"
           /\ token' \in [Families -> [Seqs -> Token]]
           /\ token'[f][s].state = "consumed"
           /\ token'[f][s + 1].state = "live" /\ token'[f][s + 1].issued = now
           /\ token'[f][s + 1].expires = family[f].idle
           /\ \A n \in Seqs \ {s, s + 1} : token'[f][n] = token[f][n]
           /\ \A e \in Families \ {f} : token'[e] = token[e]
<1> DEFINE f == request[r].on
           s == request[r].seq
           now == request[r].now
<1>1. /\ request[r].op = "refresh" /\ request[r].answer = "none"
      /\ Standing(f) /\ ~Spent(f, s) /\ s < MaxSeq
      /\ token' = [token EXCEPT ![f] =
                      [token[f] EXCEPT ![s] = Dead("consumed"),
                                       ![s + 1] = Successor(f, now)]]
  BY Zenon DEF Rotate, Pending, Usable, Predecessor
<1>2. /\ f \in Families /\ s \in Seqs /\ now \in Nat
      /\ token[f][s].state = "live" /\ family[f].idle \in Nat
  BY <1>1, PresentedType, Zenon DEF Spent
<1>3. token[f][s].issued <= now
  BY <1>1, <1>2, Zenon DEF Inv, Sessions, IssuedInTime
<1>4. s + 1 \in Seqs /\ s \in Nat
  BY <1>1, <1>2, SessionAssumption DEF Seqs
<1>5. EndOfChain(f, s)
  BY <1>2, LiveIsLast
<1>6. /\ Dead("consumed") \in Token /\ Dead("consumed").state = "consumed"
      /\ Successor(f, now) \in Token /\ Successor(f, now).state = "live"
      /\ Successor(f, now).issued = now
      /\ Successor(f, now).expires = family[f].idle
  BY <1>2, Zenon DEF Dead, Successor, Token
<1> HIDE DEF f, s, now
<1>7. /\ token' \in [Families -> [Seqs -> Token]]
      /\ token'[f][s] = Dead("consumed")
      /\ token'[f][s + 1] = Successor(f, now)
      /\ \A n \in Seqs \ {s, s + 1} : token'[f][n] = token[f][n]
      /\ \A e \in Families \ {f} : token'[e] = token[e]
  BY <1>1, <1>2, <1>4, <1>6 DEF Inv, TypeOK
<1>8. /\ \A n \in Seqs : n < s => token[f][n].state = "consumed"
      /\ \A n \in Seqs : n > s => token[f][n].state = "none"
  BY <1>5, Zenon DEF EndOfChain
<1> QED
  BY <1>1, <1>2, <1>3, <1>4, <1>6, <1>7, <1>8, Zenon DEF f, s, now, Standing

LEMMA RotateKeeps ==
    ASSUME Inv, NEW r \in Handlers, Rotate(r)
    PROVE  Inv'
<1> DEFINE f == request[r].on
           s == request[r].seq
           now == request[r].now
           idle == Least(now + Idle, family[f].absolute)
<1>1. /\ f \in Families /\ s \in Seqs /\ s + 1 \in Seqs /\ now \in Nat
      /\ token[f][s].state = "live" /\ token[f][s].issued <= now
      /\ family[f].status = "active"
      /\ grant[family[f].grant].status = "active"
  BY RotateEffect, ZenonT(30)
<1>2. /\ \A n \in Seqs : n < s => token[f][n].state = "consumed"
      /\ \A n \in Seqs : n > s => token[f][n].state = "none"
      /\ token' \in [Families -> [Seqs -> Token]]
      /\ token'[f][s].state = "consumed"
      /\ token'[f][s + 1].state = "live" /\ token'[f][s + 1].issued = now
      /\ token'[f][s + 1].expires = family[f].idle
      /\ \A n \in Seqs \ {s, s + 1} : token'[f][n] = token[f][n]
      /\ \A e \in Families \ {f} : token'[e] = token[e]
  BY RotateEffect, Zenon
<1>3. /\ request[r].op = "refresh" /\ request[r].answer = "none"
      /\ family' = [family EXCEPT ![f] = [family[f] EXCEPT !.idle = idle]]
      /\ Answer(r, "ok")
      /\ UNCHANGED <<login, callback, grant, code, clock>>
  BY Zenon DEF Rotate, Pending
<1>4. /\ family[f].idle \in Nat /\ family[f].absolute \in Nat
      /\ token[f][s].issued \in Nat /\ s \in Nat
  <2>1. family[f] \in Family /\ token[f][s] \in Token
    BY <1>1, Zenon DEF Inv, TypeOK
  <2>2. s \in Nat
    BY <1>1, SessionAssumption DEF Seqs
  <2> QED
    BY <2>1, <2>2, Zenon DEF Family, Token
<1>5. /\ idle \in Nat /\ idle <= now + Idle /\ idle <= family[f].absolute
      /\ family[f].idle <= idle
  <2>1. /\ family[f].idle <= token[f][s].issued + Idle
        /\ family[f].idle <= family[f].absolute
    BY <1>1, Zenon DEF Inv, Sessions, WithinLimits
  <2>2. now + Idle \in Nat /\ family[f].idle <= now + Idle
    BY <1>1, <1>4, <2>1, SessionAssumption
  <2>3. PICK a \in Nat, n \in Nat : a = now + Idle /\ n = family[f].absolute
    BY <1>4, <2>2
  <2>4. /\ Least(a, n) \in Nat /\ Least(a, n) <= a /\ Least(a, n) <= n
        /\ Least(a, n) \in {a, n}
    BY LeastBounds
  <2> QED
    BY <2>1, <2>2, <2>3, <2>4, Zenon
<1>6. f = request[r].on /\ s = request[r].seq /\ now = request[r].now
  OBVIOUS
<1> HIDE DEF f, s, now, idle
<1>7. /\ family' \in [Families -> Family]
      /\ family'[f].status = "active" /\ family'[f].grant = family[f].grant
      /\ family'[f].login = family[f].login /\ family'[f].idle = idle
      /\ family'[f].absolute = family[f].absolute
      /\ \A e \in Families \ {f} : family'[e] = family[e]
  BY <1>1, <1>3, <1>5, Zenon DEF Inv, TypeOK, Family
<1>8. /\ request' \in [Handlers -> Request]
      /\ request'[r].op = "refresh" /\ request'[r].on = f
      /\ request'[r].seq = s /\ request'[r].answer = "ok"
      /\ request'[r].now = 0
      /\ \A q \in Handlers \ {r} : request'[q] = request[q]
  BY <1>3, <1>6, Answered, Zenon DEF Inv
<1>9. UNCHANGED <<login, callback, grant, code, clock>>
  BY <1>3
<1>10. TypeOK' /\ Owned' /\ Coded'
  BY <1>2, <1>7, <1>8, <1>9, OwnedSame, Zenon DEF Inv, TypeOK, Coded
<1>11. \A l \in Logins : CodeOK(l)'
  BY <1>9, Zenon DEF Inv, Sessions, CodeOK
<1>12. ASSUME NEW e \in Families PROVE FamilyOK(e)'
  <2>1. CASE e = f
    BY <2>1, <1>1, <1>7, <1>9, Zenon DEF Inv, Sessions, FamilyOK, Ended
  <2>2. CASE e # f
    <3>1. family'[e] = family[e] /\ token'[e] = token[e] /\ FamilyOK(e)
      BY <2>2, <1>2, <1>7, Zenon DEF Inv, Sessions
    <3> QED
      BY <3>1, <1>9, Zenon DEF FamilyOK
  <2> QED
    BY <2>1, <2>2
<1>13. OneFamily'
  BY <1>1, <1>7 DEF Inv, Sessions, OneFamily
<1>14. \A n \in Seqs : /\ n < s + 1 => token'[f][n].state = "consumed"
                       /\ n > s + 1 => token'[f][n].state = "none"
                       /\ token'[f][n].state = "live" => n = s + 1
  <2>1. \A n \in Seqs : \/ n < s \/ n = s \/ n = s + 1
                        \/ n > s + 1 /\ n > s /\ n # s
    BY <1>4, SessionAssumption DEF Seqs
  <2>2. \A n \in Seqs : n < s \/ n > s + 1 => token'[f][n] = token[f][n]
    BY <1>2, <1>4, SessionAssumption DEF Seqs
  <2>3. \A n \in Seqs : n < s => ~(n > s + 1) /\ n # s + 1
    BY <1>4, SessionAssumption DEF Seqs
  <2> QED
    BY <2>1, <2>2, <2>3, <1>2, <1>4, SessionAssumption, SMTT(30) DEF Seqs
<1>15. FamilyLifecycle'
  <2> SUFFICES ASSUME NEW e \in Families
               PROVE  /\ family'[e].status = "active" =>
                             \E n \in Seqs : /\ token'[e][n].state = "live"
                                             /\ EndOfChain(e, n)'
                      /\ family'[e].status # "active" =>
                             \A n \in Seqs : token'[e][n].state # "live"
    BY Zenon DEF FamilyLifecycle
  <2>1. CASE e = f
    <3>1. PICK m \in Seqs : m = s + 1
      BY <1>1
    <3>2. EndOfChain(e, m)'
      BY <2>1, <3>1, <1>14, Zenon DEF EndOfChain
    <3> QED
      BY <2>1, <3>1, <3>2, <1>2, <1>7, Zenon
  <2>2. CASE e # f
    <3>1. family'[e] = family[e] /\ token'[e] = token[e]
      BY <2>2, <1>2, <1>7, Zenon
    <3>2. \A n \in Seqs : EndOfChain(e, n)' <=> EndOfChain(e, n)
      BY <3>1, Zenon DEF EndOfChain
    <3> QED
      BY <3>1, <3>2, Zenon DEF Inv, Sessions, FamilyLifecycle
  <2> QED
    BY <2>1, <2>2
<1>16. WithinLimits'
  <2> SUFFICES ASSUME NEW e \in Families, NEW n \in Seqs,
                      token'[e][n].state = "live"
               PROVE  /\ token'[e][n].expires <= family'[e].idle
                      /\ family'[e].idle <= token'[e][n].issued + Idle
                      /\ family'[e].idle <= family'[e].absolute
                      /\ family'[e].absolute
                             <= grant'[family'[e].grant].notAfter
    BY Zenon DEF WithinLimits
  <2>1. CASE e = f
    <3>1. n = s + 1
      BY <2>1, <1>14
    <3>2. family[f].absolute <= grant[family[f].grant].notAfter
      BY <1>1, Zenon DEF Inv, Sessions, WithinLimits
    <3> QED
      BY <2>1, <3>1, <3>2, <1>2, <1>5, <1>7, <1>9, Zenon
  <2>2. CASE e # f
    <3>1. /\ family'[e] = family[e] /\ token'[e] = token[e]
          /\ token[e][n].state = "live"
      BY <2>2, <1>2, <1>7, Zenon
    <3> QED
      BY <3>1, <1>9, Zenon DEF Inv, Sessions, WithinLimits
  <2> QED
    BY <2>1, <2>2, Zenon
<1>17. ASSUME NEW q \in Handlers, request[q].op \in {"refresh", "revoke"},
              request[q].on # None \/ request[q].answer = "none"
       PROVE  LET e == request[q].on
                  n == request[q].seq IN
              /\ e \in Families /\ n \in Seqs
              /\ \/ token'[e][n] = token[e][n]
                 \/ /\ e = f /\ n = s /\ token[e][n].state = "live"
                    /\ token'[e][n].state = "consumed"
  <2>1. /\ request[q].on \in Families /\ request[q].seq \in Seqs
        /\ token[request[q].on][request[q].seq].state # "none"
    BY <1>17, PresentedType, Zenon
  <2>2. token[f][s + 1].state = "none"
    BY <1>1, <1>2, <1>4
  <2> QED
    BY <2>1, <2>2, <1>1, <1>2, Zenon
<1>18. IssuedInTime'
  <2>1. \A q \in Handlers : request'[q].now <= clock'
    BY <1>8, <1>9 DEF Inv, Sessions, IssuedInTime, TypeOK
  <2>2. now <= clock
    BY <1>6, Zenon DEF Inv, Sessions, IssuedInTime
  <2>3. ASSUME NEW e \in Families, NEW n \in Seqs, token'[e][n].state = "live"
        PROVE  token'[e][n].issued <= clock'
    <3>1. CASE e = f
      BY <2>2, <2>3, <3>1, <1>2, <1>9, <1>14, Zenon
    <3>2. CASE e # f
      BY <2>3, <3>2, <1>2, <1>9, Zenon DEF Inv, Sessions, IssuedInTime
    <3> QED
      BY <3>1, <3>2
  <2>4. ASSUME NEW q \in Handlers,
               request'[q].op \in {"refresh", "revoke"},
               request'[q].answer = "none",
               token'[request'[q].on][request'[q].seq].state = "live"
        PROVE  token'[request'[q].on][request'[q].seq].issued
                   <= request'[q].now
    <3>1. q # r /\ request'[q] = request[q]
      BY <2>4, <1>8, Zenon
    <3>2. token'[request[q].on][request[q].seq]
              = token[request[q].on][request[q].seq]
      BY <2>4, <3>1, <1>17, Zenon
    <3> QED
      BY <2>4, <3>1, <3>2, Zenon DEF Inv, Sessions, IssuedInTime
  <2> QED
    BY <2>1, <2>3, <2>4, Zenon DEF IssuedInTime
<1>19. ASSUME NEW q \in Handlers PROVE RequestOK(q)'
  <2>1. CASE q = r
    BY <2>1, <1>1, <1>2, <1>8, Zenon DEF RequestOK
  <2>2. CASE q # r
    <3>1. request'[q] = request[q] /\ RequestOK(q)
      BY <2>2, <1>8, Zenon DEF Inv, Sessions
    <3>2. CASE request[q].op \in {"refresh", "revoke"} /\ request[q].on # None
      <4>1. family'[request[q].on].grant = family[request[q].on].grant
        BY <3>2, <1>7, <1>17, Zenon
      <4> QED
        BY <3>1, <3>2, <4>1, <1>9, <1>17, Zenon DEF RequestOK
    <3>3. CASE request[q].op \notin {"refresh", "revoke"}
      BY <3>1, <3>3, <1>9, Zenon DEF RequestOK
    <3>4. CASE request[q].op \in {"refresh", "revoke"} /\ request[q].on = None
      BY <3>1, <3>4, UnknownStays, Zenon
    <3> QED
      BY <3>2, <3>3, <3>4
  <2> QED
    BY <2>1, <2>2
<1>20. OneWinner'
  <2>1. \A q \in Handlers :
            request[q].op = "refresh" /\ request[q].answer = "ok" =>
                ~(request[q].on = f /\ request[q].seq = s)
    BY <1>1, Zenon DEF Inv, Sessions, RequestOK
  <2> QED
    BY <2>1, <1>8 DEF Inv, Sessions, OneWinner
<1> QED
  BY <1>10, <1>11, <1>12, <1>13, <1>15, <1>16, <1>18, <1>19, <1>20, Zenon
     DEF Inv, Sessions
=============================================================================
