-------------------------- MODULE IdentitySessions --------------------------
(***************************************************************************)
(* Primer Identity from the provider's callback to the end of a session:   *)
(* the broker callback of primer-identity/internal/broker/service.go, the  *)
(* grants and codes of internal/repo/oauth_broker.go, the token endpoint   *)
(* and revocation of internal/oauth/service.go, and the refresh families   *)
(* of internal/repo/oauth_token.go and internal/repo/refresh.go.           *)
(*                                                                         *)
(* One person signs in with one client, perhaps several times: the logins  *)
(* share a grant while it is active. Callbacks and token requests overlap, *)
(* each with the time it read before its transaction. Every transaction is *)
(* serializable (WithSerializableRetry), so it is one step; it may be      *)
(* rolled back, and the answer of one that committed may be lost.          *)
(***************************************************************************)
EXTENDS Naturals

CONSTANTS Logins,     \* broker transactions, each with at most one code
          Grants, Families,
          Handlers,   \* calls the servers handle at a time
          Idle,       \* domain.MaxRefreshIdle
          Absolute,   \* domain.MaxRefreshAbsolute
          CodeTTL,    \* broker.AuthorizationCodeTTL
          Lives,      \* what may be left of the provider session
          MaxVersion, MaxSeq, MaxClock,  \* bounds
          None

ASSUME SessionAssumption ==
    /\ Idle \in Nat \ {0} /\ Absolute \in Nat /\ Idle <= Absolute
    /\ CodeTTL \in Nat \ {0} /\ Lives \subseteq Nat \ {0}
    /\ MaxVersion \in Nat /\ MaxSeq \in Nat /\ MaxClock \in Nat
    /\ None \notin Logins /\ None \notin Grants /\ None \notin Families
    /\ Logins \cap Families = {}

VARIABLES login,     \* broker_transactions
          callback,  \* handler -> its liveBinding, of a provider callback
          grant,     \* oauth_grants
          code,      \* oauth_authorization_codes, by login
          family,    \* oauth_refresh_families
          token,     \* oauth_refresh_tokens: family -> sequence -> row
          request,   \* handler -> what its token request presents, its answer
          clock      \* the servers' clock

vars == <<login, callback, grant, code, family, token, request, clock>>

Seqs == 0..MaxSeq

Least(a, b) == IF a <= b THEN a ELSE b

Live == {"pending", "provider_started"}

Final == {"authorized", "denied"}

(* The version of a login that ended is never compared, and the model  *)
(* forgets it. "denied" stands for failed as well.                     *)
Login == [status : {"none", "provider_validating"} \cup Live \cup Final,
          version : Nat]

(* "issuing": the provider has authenticated and issuedAt is read. *)
Binding == [login : Logins \cup {None},
            status : {"idle", "provider_validating", "issuing"} \cup Live,
            version : Nat, now : Nat]

Grant == [status : {"none", "active", "revoked", "expired"}, notAfter : Nat]

(* What a consumed code was bound to is never read, and forgotten. *)
Code == [status : {"none", "issued", "consumed"}, grant : Grants \cup {None},
         expires : Nat]

Family == [status : {"none", "active", "revoked", "expired",
                     "reuse_detected"},
           grant : Grants \cup {None}, login : Logins \cup {None},
           idle : Nat, absolute : Nat]

(* oauth_refresh_tokens_state_ck: live, consumed or revoked. The times of a *)
(* token that is not live are never read, and the model forgets them.       *)
Token == [state : {"none", "live", "consumed", "revoked"},
          issued : Nat, expires : Nat]

(* A refresh on None: the lookup by hash, client and resource found no row. *)
Request == [op : {"none", "code", "refresh", "revoke"},
            on : Logins \cup Families \cup {None}, seq : Seqs, now : Nat,
            answer : {"none", "ok", "invalid_grant"}]

NoBinding == [login |-> None, status |-> "idle", version |-> 0, now |-> 0]

NoCode(status) == [status |-> status, grant |-> None, expires |-> 0]

Dead(state) == [state |-> state, issued |-> 0, expires |-> 0]

NoRequest == [op |-> "none", on |-> None, seq |-> 0, now |-> 0,
              answer |-> "none"]

Init ==
    /\ login = [l \in Logins |-> [status |-> "none", version |-> 0]]
    /\ callback = [b \in Handlers |-> NoBinding]
    /\ grant = [g \in Grants |-> [status |-> "none", notAfter |-> 0]]
    /\ code = [l \in Logins |-> NoCode("none")]
    /\ family = [f \in Families |->
                    [status |-> "none", grant |-> None, login |-> None,
                     idle |-> 0, absolute |-> 0]]
    /\ token = [f \in Families |-> [s \in Seqs |-> Dead("none")]]
    /\ request = [r \in Handlers |-> NoRequest]
    /\ clock = 0

Free(h) == callback[h].status = "idle" /\ request[h].op = "none"

---------------------------------------------------------------------------
(* The broker callback.                                                    *)

(* Authorize: a browser starts a login. *)
Authorize(l) ==
    /\ login[l].status = "none"
    /\ login' = [login EXCEPT ![l] = [status |-> "pending", version |-> 0]]
    /\ UNCHANGED <<callback, grant, code, family, token, request, clock>>

(* Variant: a login another callback is validating is taken up as well. *)
OpenOrValidating(l) == login[l].status \in Live \cup {"provider_validating"}

(* loadLiveBinding and the first test of advanceToValidating: a login that *)
(* is being validated belongs to another callback. *)
Open(l) == login[l].status \in Live

LoadLiveBinding(b, l) ==
    /\ Free(b)
    /\ Open(l)
    /\ callback' = [callback EXCEPT ![b] =
                       [login |-> l, status |-> login[l].status,
                        version |-> login[l].version, now |-> 0]]
    /\ UNCHANGED <<login, grant, code, family, token, request, clock>>

Drop(b) == callback' = [callback EXCEPT ![b] = NoBinding]

(* TransitionBrokerTransaction: UPDATE ... WHERE version AND status. *)
Current(b, s) ==
    LET c == callback[b] IN
    login[c.login].status = s /\ login[c.login].version = c.version

SetLogin(b, s) ==
    login' = [login EXCEPT ![callback[b].login] =
                 [status |-> s,
                  version |-> IF s \in Final THEN 0
                              ELSE callback[b].version + 1]]

After(s) == IF s = "pending" THEN "provider_started" ELSE "provider_validating"

(* One hop of advanceToValidating; a lost hop ends the callback. *)
Advance(b) ==
    LET c == callback[b] IN
    /\ c.status \in Live
    /\ \/ /\ Current(b, c.status)
          /\ SetLogin(b, After(c.status))
          /\ callback' = [callback EXCEPT ![b] =
                             [c EXCEPT !.status = After(c.status),
                                       !.version = c.version + 1]]
       \/ ~Current(b, c.status) /\ Drop(b) /\ UNCHANGED login
    /\ UNCHANGED <<grant, code, family, token, request, clock>>

(* The provider is unavailable or asks for another factor, and the login   *)
(* is handed back (releaseValidating), or it denies and the login ends     *)
(* (terminalize, to denied or failed). A lost update has no effect.        *)
GiveBack(b, s) ==
    /\ callback[b].status = "provider_validating"
    /\ s = "provider_started" => callback[b].version < MaxVersion
    /\ IF Current(b, "provider_validating")
       THEN SetLogin(b, s) ELSE UNCHANGED login
    /\ Drop(b)
    /\ UNCHANGED <<grant, code, family, token, request, clock>>

(* The provider authenticates; issuedAt is read before the transaction. *)
Authenticated(b) ==
    /\ callback[b].status = "provider_validating"
    /\ callback' = [callback EXCEPT ![b] =
                       [callback[b] EXCEPT !.status = "issuing",
                                           !.now = clock]]
    /\ UNCHANGED <<login, grant, code, family, token, request, clock>>

(* expireActiveHumanGrants *)
Expired(now) ==
    [g \in Grants |->
        IF grant[g].status = "active" /\ grant[g].notAfter <= now
        THEN [grant[g] EXCEPT !.status = "expired"] ELSE grant[g]]

Reusable(g, now) == grant[g].status = "active" /\ grant[g].notAfter > now

(* reuseOrCreateActiveHumanGrant: g is the active grant, or a new one. *)
ReuseOrCreateGrant(g, now, life) ==
    \/ /\ Reusable(g, now)
       /\ grant' = Expired(now)
    \/ /\ \A h \in Grants : ~Reusable(h, now)
       /\ grant[g].status = "none"
       /\ grant' = [Expired(now) EXCEPT ![g] =
                       [status |-> "active", notAfter |-> now + life]]

(* IssueCallbackArtifacts: the version is checked again under a lock; the  *)
(* grant, the code and the login change together. A code lives as long as  *)
(* the provider session at most (capGrantAndCode).                         *)
IssueCallbackArtifacts(b, g, life) ==
    LET c == callback[b] IN
    /\ c.status = "issuing"
    /\ Current(b, "provider_validating")
    /\ ReuseOrCreateGrant(g, c.now, life)
    /\ code' = [code EXCEPT ![c.login] =
                   [status |-> "issued", grant |-> g,
                    expires |-> c.now + Least(CodeTTL, life)]]
    /\ SetLogin(b, "authorized")
    /\ Drop(b)
    /\ UNCHANGED <<family, token, request, clock>>

(* The process stops, or a step fails: the binding is gone and the login   *)
(* stays where it is.                                                      *)
Abandon(b) ==
    /\ callback[b].status # "idle"
    /\ Drop(b)
    /\ UNCHANGED <<login, grant, code, family, token, request, clock>>

---------------------------------------------------------------------------
(* The token endpoint.                                                     *)

(* A request arrives with a code or a refresh token that was issued, and   *)
(* its time is read. A client that never got an answer presents what it    *)
(* presented before, so anything issued may come.                          *)
Receive(r, op, x, s) ==
    /\ Free(r)
    /\ \/ /\ op = "code" /\ x \in Logins /\ s = 0
          /\ code[x].status # "none"
       \/ /\ op \in {"refresh", "revoke"} /\ x \in Families
          /\ token[x][s].state # "none"
    /\ request' = [request EXCEPT ![r] = [op |-> op, on |-> x, seq |-> s,
                                          now |-> clock, answer |-> "none"]]
    /\ UNCHANGED <<login, callback, grant, code, family, token, clock>>

Pending(r, op) == request[r].op = op /\ request[r].answer = "none"

Close(r) == request' = [request EXCEPT ![r] = NoRequest]

(* The answer; the time of the request is not read any more. *)
Answer(r, a) ==
    request' = [request EXCEPT ![r] = [request[r] EXCEPT !.answer = a,
                                                         !.now = 0]]

(* The transaction changes nothing: client authentication, the signer, the *)
(* audit or the database fails, the scope is wider than the grant's        *)
(* (validateRefreshScope), the code is not claimable, another client than  *)
(* the family's asks to revoke, or a CHECK of the schema refuses the       *)
(* update (Revocable below).                                               *)
Fail(r) ==
    /\ request[r].op # "none" /\ request[r].answer = "none"
    /\ Close(r)
    /\ UNCHANGED <<login, callback, grant, code, family, token, clock>>

(* The client has its answer, or will never have it: the response is lost, *)
(* or the commit was not acknowledged and was answered as unavailable.     *)
Finish(r) ==
    /\ request[r].answer # "none"
    /\ Close(r)
    /\ UNCHANGED <<login, callback, grant, code, family, token, clock>>

(* ClaimAuthorizationCode with ValidateConsumeBindings. *)
Claimable(l, now) ==
    /\ code[l].status = "issued"
    /\ code[l].expires >= now
    /\ grant[code[l].grant].status = "active"
    /\ grant[code[l].grant].notAfter > now

(* Variant: the code is left as it is. *)
CodeKept(l) == code[l]

Consumed(l) == NoCode("consumed")

(* Exchange: the code buys a family with its first token; idle and absolute *)
(* limits are capped by the grant.                                          *)
ExchangeCode(r, f) ==
    LET l == request[r].on
        now == request[r].now
        g == code[l].grant
        idle == Least(now + Idle, grant[g].notAfter) IN
    /\ Pending(r, "code")
    /\ Claimable(l, now)
    /\ family[f].status = "none"
    /\ code' = [code EXCEPT ![l] = Consumed(l)]
    /\ family' = [family EXCEPT ![f] =
                     [status |-> "active", grant |-> g, login |-> l,
                      idle |-> idle,
                      absolute |-> Least(now + Absolute, grant[g].notAfter)]]
    /\ token' = [token EXCEPT ![f] = [token[f] EXCEPT ![0] =
                    [state |-> "live", issued |-> now, expires |-> idle]]]
    /\ Answer(r, "ok")
    /\ UNCHANGED <<login, callback, grant, clock>>

Spent(f, s) == token[f][s].state \in {"consumed", "revoked"}

Overdue(f, s, now) ==
    \/ token[f][s].expires <= now
    \/ family[f].idle <= now
    \/ family[f].absolute <= now

Standing(f) ==
    grant[family[f].grant].status = "active" /\ family[f].status = "active"

(* Variant: the state of the grant is not looked at. *)
UsableWithoutGrant(f, s, now) ==
    family[f].status = "active" /\ ~Spent(f, s) /\ ~Overdue(f, s, now)

(* The test RedeemRefreshToken starts with. *)
Usable(f, s, now) == Standing(f) /\ ~Spent(f, s) /\ ~Overdue(f, s, now)

(* Variant: the token that is presented is prolonged. *)
Prolonged(f, s, now) ==
    [token[f][s] EXCEPT !.expires = Least(now + Idle, family[f].absolute)]

Predecessor(f, s, now) == Dead("consumed")

(* Variant: the successor stays as it was seeded, revoked. *)
SeededSuccessor(f, now) ==
    [Dead("revoked") EXCEPT !.issued = now, !.expires = family[f].idle]

(* Variant: the successor gets a full idle period of its own. *)
UncappedSuccessor(f, now) ==
    [state |-> "live", issued |-> now, expires |-> now + Idle]

(* The successor expires at the idle limit the family has so far. *)
Successor(f, now) ==
    [state |-> "live", issued |-> now, expires |-> family[f].idle]

(* RedeemRefreshToken, the rotation. *)
Rotate(r) ==
    LET f == request[r].on
        s == request[r].seq
        now == request[r].now IN
    /\ Pending(r, "refresh")
    /\ Usable(f, s, now)
    /\ s < MaxSeq
    /\ token' = [token EXCEPT ![f] =
                    [token[f] EXCEPT ![s] = Predecessor(f, s, now),
                                     ![s + 1] = Successor(f, now)]]
    /\ family' = [family EXCEPT ![f] =
                     [family[f] EXCEPT
                         !.idle = Least(now + Idle, family[f].absolute)]]
    /\ Answer(r, "ok")
    /\ UNCHANGED <<login, callback, grant, code, clock>>

(* oauth_refresh_tokens_time_ck: a token is not revoked before its issue. *)
(* A request that was received before a rotation and runs after it fails.  *)
Revocable(f, now) ==
    \A s \in Seqs : token[f][s].state = "live" => token[f][s].issued <= now

(* The statements every end of a family shares: revoke what is live, move  *)
(* the family, and the grant if it is active.                              *)
End(f, fs, gs) ==
    LET g == family[f].grant IN
    /\ token' = [token EXCEPT ![f] =
                    [s \in Seqs |->
                        IF token[f][s].state = "live"
                        THEN Dead("revoked") ELSE token[f][s]]]
    /\ family' = [family EXCEPT ![f] = [family[f] EXCEPT !.status = fs]]
    /\ grant' = [grant EXCEPT ![g] =
                    [grant[g] EXCEPT
                        !.status = IF grant[g].status = "active"
                                   THEN gs ELSE grant[g].status]]

IfActive(f, fs) == IF family[f].status = "active" THEN fs ELSE family[f].status

(* Variant: the reuse is reported and rolled back. *)
ReportReuse(f) == UNCHANGED <<token, family, grant>>

(* Variant: the grant is given the status of the family. *)
MarkGrantReused(f) == End(f, "reuse_detected", "reuse_detected")

(* markRefreshReuse, whatever the family's status; an expired family keeps *)
(* expired_at, which oauth_refresh_families_state_ck refuses.              *)
MarkRefreshReuse(f) == End(f, "reuse_detected", "revoked")

MarkRefreshExpired(f) == End(f, IfActive(f, "expired"), "expired")

(* RedeemRefreshToken, the refusals. *)
RedeemSpent(r) ==
    LET f == request[r].on IN
    /\ Pending(r, "refresh")
    /\ Spent(f, request[r].seq)
    /\ family[f].status # "expired" /\ Revocable(f, request[r].now)
    /\ MarkRefreshReuse(f)
    /\ Answer(r, "invalid_grant")
    /\ UNCHANGED <<login, callback, code, clock>>

RedeemOverdue(r) ==
    LET f == request[r].on IN
    /\ Pending(r, "refresh")
    /\ ~Spent(f, request[r].seq) /\ Overdue(f, request[r].seq, request[r].now)
    /\ MarkRefreshExpired(f)
    /\ Answer(r, "invalid_grant")
    /\ UNCHANGED <<login, callback, code, clock>>

RedeemEnded(r) ==
    LET f == request[r].on IN
    /\ Pending(r, "refresh")
    /\ ~Spent(f, request[r].seq) /\ ~Overdue(f, request[r].seq, request[r].now)
    /\ ~Standing(f)
    /\ Answer(r, "invalid_grant")
    /\ UNCHANGED <<login, callback, grant, code, family, token, clock>>

(* A refresh token, live perhaps, comes with another client or resource    *)
(* than its family's, or hashed with a pepper the server no longer has.    *)
(* The lookup finds no row (ErrNotFound): the client gets the answer of a  *)
(* session that is over, and the session goes on. Nothing that the lookup  *)
(* compares ever changes, so the request arrives and is refused in one     *)
(* step. A code or a revocation that does not match is a Fail.             *)
RedeemUnknown(r) ==
    /\ Free(r)
    /\ request' = [request EXCEPT ![r] = [NoRequest EXCEPT
                       !.op = "refresh", !.answer = "invalid_grant"]]
    /\ UNCHANGED <<login, callback, grant, code, family, token, clock>>

(* RevokeOwnedInitialRefresh: any token of the family ends it. *)
Revoke(r) ==
    LET f == request[r].on IN
    /\ Pending(r, "revoke")
    /\ Revocable(f, request[r].now)
    /\ End(f, IfActive(f, "revoked"), "revoked")
    /\ Close(r)
    /\ UNCHANGED <<login, callback, code, clock>>

Pass ==
    /\ clock < MaxClock
    /\ clock' = clock + 1
    /\ UNCHANGED <<login, callback, grant, code, family, token, request>>

---------------------------------------------------------------------------
CallbackStep(b) ==
    \/ \E l \in Logins : LoadLiveBinding(b, l)
    \/ Advance(b) \/ Authenticated(b) \/ Abandon(b)
    \/ \E s \in {"provider_started", "denied"} : GiveBack(b, s)
    \/ \E g \in Grants, life \in Lives : IssueCallbackArtifacts(b, g, life)

RequestStep(r) ==
    \/ \E op \in {"code", "refresh", "revoke"}, x \in Logins \cup Families,
          s \in Seqs : Receive(r, op, x, s)
    \/ Fail(r) \/ Finish(r)
    \/ \E f \in Families : ExchangeCode(r, f)
    \/ Rotate(r) \/ RedeemSpent(r) \/ RedeemOverdue(r) \/ RedeemEnded(r)
    \/ RedeemUnknown(r) \/ Revoke(r)

Next ==
    \/ \E l \in Logins : Authorize(l)
    \/ \E b \in Handlers : CallbackStep(b)
    \/ \E r \in Handlers : RequestStep(r)
    \/ Pass

Spec == Init /\ [][Next]_vars

---------------------------------------------------------------------------
TypeOK ==
    /\ login \in [Logins -> Login]
    /\ callback \in [Handlers -> Binding]
    /\ grant \in [Grants -> Grant]
    /\ code \in [Logins -> Code]
    /\ family \in [Families -> Family]
    /\ token \in [Families -> [Seqs -> Token]]
    /\ request \in [Handlers -> Request]
    /\ clock \in Nat

(* advanceToValidating gives a login to one callback at a time: whatever   *)
(* crashes and is retried, no two callbacks that may call the provider, or *)
(* have its answer, work on the same login.                                *)
Working(b) == callback[b].status \in {"provider_validating", "issuing"}
CallbackOwnsLogin ==
    \A a, b \in Handlers :
        Working(a) /\ Working(b) /\ callback[a].login = callback[b].login
            => a = b

(* What identity_refresh_family_lifecycle demands at commit holds by the   *)
(* code alone: an active family has one live token, its last, every        *)
(* earlier one consumed and none after it; a family that ended has none.   *)
EndOfChain(f, s) ==
    \A n \in Seqs : /\ n < s => token[f][n].state = "consumed"
                    /\ n > s => token[f][n].state = "none"
FamilyLifecycle ==
    \A f \in Families :
        /\ family[f].status = "active" =>
               \E s \in Seqs : token[f][s].state = "live" /\ EndOfChain(f, s)
        /\ family[f].status # "active" =>
               \A s \in Seqs : token[f][s].state # "live"

(* Of the requests that present the same code or the same refresh token,   *)
(* one gets tokens; a code buys one family.                                *)
SingleWinner ==
    /\ \A e, f \in Families :
           family[e].status # "none" /\ family[f].status # "none"
               /\ family[e].login = family[f].login => e = f
    /\ \A q, r \in Handlers :
           (/\ request[q].op \in {"code", "refresh"}
            /\ request[q].answer = "ok" /\ request[r].answer = "ok"
            /\ request[q].op = request[r].op /\ request[q].on = request[r].on
            /\ request[q].seq = request[r].seq) => q = r

(* A refresh token that RedeemRefreshToken finds and answers invalid_grant *)
(* has ended the session: the grant is closed, so no token of the family   *)
(* and no token of another family of the grant is rotated again. The same  *)
(* answer to a token presented with another client or resource             *)
(* (RedeemUnknown) says nothing of the session.                            *)
RefusalIsFinal ==
    \A r \in Handlers :
        (/\ request[r].op = "refresh" /\ request[r].on # None
         /\ request[r].answer = "invalid_grant") =>
            grant[family[request[r].on].grant].status
                \in {"revoked", "expired"}

(* exchangeRefreshToken keeps the refusal of an attempt that was rolled back *)
(* (terminalErr) across WithSerializableRetry, where another attempt might   *)
(* rotate and commit. It cannot: what a request presents, once refused at    *)
(* the request's time, is refused for as long as the request is tried.       *)
Refused(r) ==
    /\ Pending(r, "refresh")
    /\ ~Usable(request[r].on, request[r].seq, request[r].now)
RefusalIsStable ==
    [][\A r \in Handlers :
          Refused(r) /\ request'[r] = request[r] => Refused(r)']_vars

(* However often a family is rotated, by requests with times of their own, *)
(* its live token expires within the family's idle limit, which lies       *)
(* within Idle of the last rotation, within the absolute limit and within  *)
(* the grant.                                                              *)
WithinLimits ==
    \A f \in Families : \A s \in Seqs :
        token[f][s].state = "live" =>
            /\ token[f][s].expires <= family[f].idle
            /\ family[f].idle <= token[f][s].issued + Idle
            /\ family[f].idle <= family[f].absolute
            /\ family[f].absolute <= grant[family[f].grant].notAfter

(* No terminal family or grant comes back, and none issues: a refresh token *)
(* only ever appears under a grant that is active.                          *)
Ended == {"revoked", "expired", "reuse_detected"}
EndIsFinal ==
    /\ \A g \in Grants :
           grant[g].status \in Ended => grant'[g].status = grant[g].status
    /\ \A f \in Families :
           family[f].status \in Ended => family'[f].status \in Ended
    /\ \A f \in Families : \A s \in Seqs :
           token[f][s].state = "none" /\ token'[f][s].state # "none" =>
               grant[family'[f].grant].status = "active"
TerminalIsFinal == [][EndIsFinal]_vars
=============================================================================
