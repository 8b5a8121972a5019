------------------------------ MODULE AdminLogin ------------------------------
(***************************************************************************)
(* Sign-in to the admin server: POST /login with TOTP, the pairing of an   *)
(* authenticator, refresh-token rotation and logout                        *)
(* (src/admin_server/fastapi/server.py, security.py), with Redis that may  *)
(* be down, a database write that may fail, and restarts of the server.    *)
(*                                                                         *)
(* The server is one asyncio process: a handler runs without interruption  *)
(* from one await to the next, and only calls of the database are awaited. *)
(* Time passes in TOTP steps of 30 seconds; what expires carries the       *)
(* number of steps it still lives.  All clients have one IP address.       *)
(***************************************************************************)
EXTENDS Integers, Sequences, FiniteSets

CONSTANTS
    Handlers,      \* handlers of requests, each serves one at a time
    Admin, Others, \* VALID_ADMIN_USERS: admin, and operator and auditor
    None,
    Require2FA,    \* REQUIRE_2FA
    FailClosed,    \* AUTH_FAIL_CLOSED
    RateLimit, RateTtl,       \* requests in a window of RateTtl steps
    FailedLimit, FailedTtl,   \* failed attempts before an IP is blocked, and for how long
    PendingTtl,               \* life of a secret that is not confirmed
    ReplayTtl,                \* life of the record that a code was used
    MaxSecrets, MaxPairs, MaxCalls, MaxFaults, MaxDbFaults, MaxRestarts   \* bounds

Users == {Admin} \union Others
Secrets == 1 .. MaxSecrets
Steps == -1 .. 1                   \* steps a code may be off: valid_window = 1
Counters == {"login", "pair"}
NoTtl == -1                        \* a key without expiry

ASSUME LoginAssumption ==
    /\ Admin \notin Others /\ None \notin Secrets
    /\ RateLimit \in Nat \ {0} /\ FailedLimit \in Nat \ {0}
    /\ MaxSecrets \in Nat /\ MaxPairs \in Nat
    /\ \A n \in {RateTtl, FailedTtl, PendingTtl} : n \in Nat \ {0}
    /\ ReplayTtl \in Nat /\ ReplayTtl > 2      \* 90 s: as long as the steps of a code

VARIABLES
    redis,       \* Redis answers
    setting,     \* settings.ADMIN_TOTP_SECRET of the process
    stored,      \* stored[u]: the secret of u in table system_settings
    pending,     \* pending[u]: secret and life of auth:2fa_pending:u in Redis
    pendingMem,  \* ... and of _pending_totp_cache
    enrolled,    \* users with auth:totp_enrolled in Redis
    audited,     \* users with AUTH_LOGIN_SUCCESS or AUTH_2FA_ONBOARDED_PERSISTED in the log
    rate,        \* rate[k]: ratelimit:login and 2fa_pair in Redis
    rateMem,     \* rateMem[k]: the lives of the requests in _in_memory_rate_limits
    failed,      \* failed[k]: ratelimit:login_failed and failed_logins in Redis
    used,        \* totp_used in Redis
    usedMem,     \* ... and _in_memory_totp_replays
    pc, req,     \* pc[h], req[h]: the step and the locals of handler h
    pairs,       \* token pairs issued so far
    blacklist,   \* the refresh and access tokens in Redis
    calls, faults, dbFaults, restarts, issued   \* counted for the bounds

server == <<setting, pendingMem, rateMem, usedMem>>
tables == <<stored, audited>>
tokens == <<pairs, blacklist>>
bounds == <<calls, faults, dbFaults, restarts, issued>>

VARIABLES      \* history
    accepted,    \* codes a login was accepted with, while they are valid
    replayed,    \* a login was accepted with a code of that user for the second time
    confirmed,   \* confirmed[u]: the secret u confirmed last
    lax,         \* a session was opened without a code after admin had confirmed a secret
    wronged,     \* users refused with a fresh code of the secret they confirmed
    crossed,     \* two secrets of admin were being confirmed at once
    rotated,     \* rotated[k]: how often refresh token k was exchanged
    loggedOut    \* pairs a logout was answered for

history == <<accepted, replayed, confirmed, lax, wronged, crossed, rotated, loggedOut>>
vars == <<redis, setting, stored, pending, pendingMem, enrolled, audited, rate, rateMem, failed,
          used, usedMem, pc, req, tokens, bounds, history>>

NoPending == [secret |-> None, life |-> 0]
NoKey == [n |-> 0, ttl |-> 0]
NoReq == [user |-> None, secret |-> None, enrolled |-> FALSE, token |-> FALSE]

Init ==
    /\ redis = TRUE /\ setting = None
    /\ stored = [u \in Users |-> None]
    /\ pending = [u \in Users |-> NoPending] /\ pendingMem = pending
    /\ enrolled = {} /\ audited = {}
    /\ rate = [k \in Counters |-> NoKey] /\ failed = rate
    /\ rateMem = [k \in Counters |-> << >>]
    /\ used = {} /\ usedMem = {}
    /\ pc = [h \in Handlers |-> "idle"] /\ req = [h \in Handlers |-> NoReq]
    /\ pairs = 0 /\ blacklist = {}
    /\ calls = 0 /\ faults = 0 /\ dbFaults = 0 /\ restarts = 0 /\ issued = 0
    /\ accepted = {} /\ replayed = FALSE /\ confirmed = [u \in Users |-> None]
    /\ lax = FALSE /\ wronged = {} /\ crossed = FALSE
    /\ rotated = [k \in 1 .. MaxPairs |-> 0] /\ loggedOut = {}

-----------------------------------------------------------------------------
(* Counters and one-time codes: in Redis, or in memory when it does not answer. *)

\* INCR, and EXPIRE when the key is new; lost: EXPIRE fails, which is only logged.
Incr(key, ttl, lost) ==
    [n |-> key.n + 1,
     ttl |-> IF key.n > 0 THEN key.ttl ELSE IF lost THEN NoTtl ELSE ttl]

\* check_rate_limit gives a key without expiry one at the next request.
IncrRate(key, lost) ==
    IF key.n > 0 /\ key.ttl = NoTtl THEN [n |-> key.n + 1, ttl |-> RateTtl]
                                    ELSE Incr(key, RateTtl, lost)

\* lost: the EXPIRE of a new key fails, the request is counted in memory as well.
RateInRedis(k, lost) == redis /\ ~(lost /\ rate[k].n = 0)
WithinRate(k, lost) ==
    IF RateInRedis(k, lost) THEN rate[k].n < RateLimit ELSE Len(rateMem[k]) < RateLimit
CountRequest(k, lost) ==
    /\ rate' = IF redis THEN [rate EXCEPT ![k] = IncrRate(@, lost)] ELSE rate
    /\ rateMem' = IF ~RateInRedis(k, lost) /\ WithinRate(k, lost)
                    THEN [rateMem EXCEPT ![k] = Append(@, RateTtl)] ELSE rateMem

Blocked(k) == redis /\ failed[k].n >= FailedLimit
FailedOnce(k, lost) ==
    failed' = IF redis THEN [failed EXCEPT ![k] = Incr(@, FailedTtl, lost)] ELSE failed
Cleared(k) == IF redis THEN [failed EXCEPT ![k] = NoKey] ELSE failed

\* Mutant: no code counts as used.
UnusedAlways(u, code) == TRUE
\* check_and_record_totp_replay
Unused(u, code) ==
    \A r \in IF redis THEN used ELSE usedMem :
        ~(r.user = u /\ r.secret = code.secret /\ r.step = code.step)
RecordUse(u, code) ==
    LET r == [user |-> u, secret |-> code.secret, step |-> code.step, life |-> ReplayTtl] IN
    /\ used' = IF redis THEN used \union {r} ELSE used
    /\ usedMem' = IF redis THEN usedMem ELSE usedMem \union {r}

\* get_pending_totp_secret: Redis first, then the memory of the process.
Pending(u) == IF redis /\ pending[u].secret # None THEN pending[u].secret
                                                    ELSE pendingMem[u].secret

-----------------------------------------------------------------------------
(* POST /login *)

Required == setting # None \/ Require2FA
Target(u) == IF setting # None THEN setting ELSE Pending(u)

\* The request is counted against the bounds of the model.
Arrives(h, lost) ==
    /\ pc[h] = "idle" /\ calls < MaxCalls
    /\ calls' = calls + 1
    /\ lost => redis /\ faults < MaxFaults
    /\ faults' = IF lost THEN faults + 1 ELSE faults
    /\ UNCHANGED <<redis, stored, audited, pending, pendingMem, setting, tokens, dbFaults, restarts>>

\* The limits refuse the request (429).
LoginLimited(h) ==
    \E lost \in BOOLEAN :
        /\ Arrives(h, lost)
        /\ CountRequest("login", lost)
        /\ ~WithinRate("login", lost) \/ Blocked("login")
        /\ UNCHANGED <<failed, used, usedMem, enrolled, pc, req, issued, history>>

\* Unknown user or wrong password (400).
LoginDenied(h) ==
    \E lost \in BOOLEAN :
        /\ Arrives(h, lost)
        /\ CountRequest("login", FALSE)
        /\ WithinRate("login", FALSE) /\ ~Blocked("login")
        /\ FailedOnce("login", lost)
        /\ UNCHANGED <<used, usedMem, enrolled, pc, req, issued, history>>

\* The password is right; what comes next is the second factor.
PasswordRight(h) ==
    /\ Arrives(h, FALSE)
    /\ CountRequest("login", FALSE)
    /\ WithinRate("login", FALSE) /\ ~Blocked("login")

\* A code is required and none was sent (401).
CodeMissing(h) ==
    /\ PasswordRight(h) /\ Required
    /\ UNCHANGED <<failed, used, usedMem, enrolled, pc, req, issued, history>>

\* No code is required: the session is on its way.
PasswordOnly(h, u) ==
    /\ PasswordRight(h) /\ ~Required
    /\ failed' = Cleared("login")
    /\ pc' = [pc EXCEPT ![h] = "granted"]
    /\ req' = [req EXCEPT ![h] = [NoReq EXCEPT !.user = u]]
    /\ lax' = (lax \/ confirmed[Admin] # None)
    /\ UNCHANGED <<used, usedMem, enrolled, issued, accepted, replayed, confirmed, wronged, crossed,
                   rotated, loggedOut>>

\* The code is not of the secret the server compares it with (401).
CodeWrong(h, u, code) ==
    \E lost \in BOOLEAN :
        /\ Arrives(h, lost)
        /\ CountRequest("login", FALSE)
        /\ WithinRate("login", FALSE) /\ ~Blocked("login")
        /\ code.secret # Target(u)
        /\ FailedOnce("login", lost)
        /\ wronged' = IF code.secret = confirmed[u] THEN wronged \union {u} ELSE wronged
        /\ UNCHANGED <<used, usedMem, enrolled, pc, req, issued, accepted, replayed, confirmed,
                       lax, crossed, rotated, loggedOut>>

\* The code was used before (401).
CodeReplayed(h, u, code) ==
    /\ PasswordRight(h)
    /\ code.secret = Target(u) /\ ~Unused(u, code)
    /\ UNCHANGED <<failed, used, usedMem, enrolled, pc, req, issued, history>>

Onboards(u) == Pending(u) # None /\ (setting = None \/ Target(u) = Pending(u))

Confirming(u) == {g \in Handlers : pc[g] \in {"save", "onboard"} /\ req[g].user = u}

\* The code is right: a pending secret is confirmed first.
CodeRight(h, u, code) ==
    /\ PasswordRight(h)
    /\ code.secret = Target(u) /\ Unused(u, code)
    /\ RecordUse(u, code)
    /\ req' = [req EXCEPT ![h] = [NoReq EXCEPT !.user = u, !.secret = Pending(u)]]
    /\ IF Onboards(u)
         THEN /\ pc' = [pc EXCEPT ![h] = "save"]
              /\ UNCHANGED <<enrolled, failed>>
         ELSE /\ pc' = [pc EXCEPT ![h] = "granted"]
              /\ enrolled' = IF redis THEN enrolled \union {u} ELSE enrolled
              /\ failed' = Cleared("login")
    /\ LET known == [user |-> u, secret |-> code.secret, step |-> code.step] IN
        /\ accepted' = accepted \union {known}
        /\ replayed' = (replayed \/ known \in accepted)
    /\ crossed' = (crossed \/ (u = Admin /\ Onboards(u)
                               /\ \E g \in Confirming(u) : req[g].secret # Pending(u)))
    /\ UNCHANGED <<issued, confirmed, lax, wronged, rotated, loggedOut>>

Saved(u, s) == [stored EXCEPT ![u] = s]

\* crud.set_system_setting; a failure is only logged.
SaveSecret(h) ==
    /\ pc[h] = "save"
    /\ \/ stored' = Saved(req[h].user, req[h].secret) /\ UNCHANGED dbFaults
       \/ dbFaults < MaxDbFaults /\ dbFaults' = dbFaults + 1 /\ UNCHANGED stored
    /\ pc' = [pc EXCEPT ![h] = "onboard"]
    /\ UNCHANGED <<redis, server, audited, pending, enrolled, rate, failed, used, req, tokens,
                   calls, faults, restarts, issued, history>>

\* Only the secret of admin becomes the one of the process.
Onboard(h) ==
    LET u == req[h].user IN
    /\ pc[h] = "onboard"
    /\ setting' = IF u = Admin THEN req[h].secret ELSE setting
    /\ pending' = IF redis THEN [pending EXCEPT ![u] = NoPending] ELSE pending
    /\ pendingMem' = [pendingMem EXCEPT ![u] = NoPending]
    /\ confirmed' = [confirmed EXCEPT ![u] = req[h].secret]
    /\ pc' = [pc EXCEPT ![h] = "onboarded"]
    /\ UNCHANGED <<redis, tables, rateMem, usedMem, enrolled, rate, failed, used, req, tokens,
                   bounds, accepted, replayed, lax, wronged, crossed, rotated, loggedOut>>

\* The audit record of the onboarding, then the flag and the counter.
AuditOnboarding(h) ==
    LET u == req[h].user IN
    /\ pc[h] = "onboarded"
    /\ audited' = audited \union {u}
    /\ enrolled' = IF redis THEN enrolled \union {u} ELSE enrolled
    /\ failed' = Cleared("login")
    /\ pc' = [pc EXCEPT ![h] = "granted"]
    /\ UNCHANGED <<redis, server, stored, pending, rate, used, req, tokens, bounds, history>>

\* The audit record of the login, and the answer with the tokens.
Grant(h) ==
    /\ pc[h] = "granted" /\ pairs < MaxPairs
    /\ audited' = audited \union {req[h].user}
    /\ pairs' = pairs + 1
    /\ pc' = [pc EXCEPT ![h] = "idle"]
    /\ req' = [req EXCEPT ![h] = NoReq]
    /\ UNCHANGED <<redis, server, stored, pending, enrolled, rate, failed, used, blacklist,
                   bounds, history>>

\* An audit record that cannot be stored raises: the answer is 500, what was done stays.
AuditFails(h) ==
    /\ pc[h] \in {"onboarded", "granted"} /\ dbFaults < MaxDbFaults
    /\ dbFaults' = dbFaults + 1
    /\ pc' = [pc EXCEPT ![h] = "idle"]
    /\ req' = [req EXCEPT ![h] = NoReq]
    /\ UNCHANGED <<redis, server, tables, pending, enrolled, rate, failed, used, tokens, calls,
                   faults, restarts, issued, history>>

-----------------------------------------------------------------------------
(* POST /api/auth/2fa/pair *)

PairLimited(h) ==
    \E lost \in BOOLEAN :
        /\ Arrives(h, lost)
        /\ CountRequest("pair", lost)
        /\ ~WithinRate("pair", lost) \/ Blocked("pair")
        /\ UNCHANGED <<failed, used, usedMem, enrolled, pc, req, issued, history>>

PairDenied(h) ==
    \E lost \in BOOLEAN :
        /\ Arrives(h, lost)
        /\ CountRequest("pair", FALSE)
        /\ WithinRate("pair", FALSE) /\ ~Blocked("pair")
        /\ FailedOnce("pair", lost)
        /\ UNCHANGED <<used, usedMem, enrolled, pc, req, issued, history>>

\* A secret for u: that of the process for admin, else a new one, pending until it is confirmed.
Provision(u) ==
    /\ failed' = Cleared("pair")
    /\ IF setting # None /\ u = Admin
         THEN UNCHANGED <<pending, pendingMem, issued>>
         ELSE /\ issued < MaxSecrets
              /\ issued' = issued + 1
              /\ LET p == [secret |-> issued + 1, life |-> PendingTtl] IN
                  /\ pending' = IF redis THEN [pending EXCEPT ![u] = p] ELSE pending
                  /\ pendingMem' = [pendingMem EXCEPT ![u] = p]

\* The password is right; token: the setup token was sent.  When the flag in Redis answers,
\* nothing is awaited, and an enrolled user without the token is refused (403) at once.
PairStart(h, u, token) ==
    /\ pc[h] = "idle" /\ calls < MaxCalls
    /\ calls' = calls + 1
    /\ CountRequest("pair", FALSE)
    /\ WithinRate("pair", FALSE) /\ ~Blocked("pair")
    /\ IF redis /\ u \in enrolled
         THEN /\ IF token THEN Provision(u)
                          ELSE UNCHANGED <<failed, pending, pendingMem, issued>>
              /\ UNCHANGED <<pc, req>>
         ELSE /\ pc' = [pc EXCEPT ![h] = "lookup"]
              /\ req' = [req EXCEPT ![h] = [NoReq EXCEPT !.user = u, !.token = token]]
              /\ UNCHANGED <<failed, pending, pendingMem, issued>>
    /\ UNCHANGED <<redis, setting, tables, enrolled, used, usedMem, tokens, faults, dbFaults,
                   restarts, history>>

\* check_totp_enrolled: the setting is looked up under ADMIN_TOTP_SECRET_<USER>, which login
\* never writes for the others; for admin, any successful login in the audit log counts.
InDatabase(u) == u = Admin /\ (stored[Admin] # None \/ audited # {})

PairLookup(h) ==
    LET u == req[h].user IN
    /\ pc[h] = "lookup"
    /\ req' = [req EXCEPT ![h].enrolled = InDatabase(u)]
    /\ enrolled' = IF redis /\ InDatabase(u) THEN enrolled \union {u} ELSE enrolled
    /\ pc' = [pc EXCEPT ![h] = "provision"]
    /\ UNCHANGED <<redis, server, tables, pending, rate, failed, used, tokens, bounds, history>>

PairProvision(h) ==
    /\ pc[h] = "provision"
    /\ IF req[h].enrolled /\ ~req[h].token
         THEN UNCHANGED <<failed, pending, pendingMem, issued>>
         ELSE Provision(req[h].user)
    /\ pc' = [pc EXCEPT ![h] = "idle"]
    /\ req' = [req EXCEPT ![h] = NoReq]
    /\ UNCHANGED <<redis, setting, tables, enrolled, rate, rateMem, used, usedMem, tokens, calls,
                   faults, dbFaults, restarts, history>>

-----------------------------------------------------------------------------
(* Tokens.  Pair k is an access and a refresh token. *)

Listed(kind, k) == <<kind, k>> \in blacklist
\* get_current_admin; a Redis that does not answer is let pass unless AUTH_FAIL_CLOSED.
Accepts(k) == IF redis THEN ~Listed("access", k) ELSE ~FailClosed

\* Mutant: the old token stays valid.
BlacklistedNot(S) == blacklist
Blacklisted(S) == IF redis THEN blacklist \union S ELSE blacklist

\* verify_and_rotate_refresh_token: a new pair for a refresh token not listed, which then is.
Refresh(k) ==
    /\ k \in 1 .. pairs /\ pairs < MaxPairs /\ calls < MaxCalls
    /\ IF redis THEN ~Listed("refresh", k) ELSE ~FailClosed
    /\ blacklist' = Blacklisted({<<"refresh", k>>})
    /\ pairs' = pairs + 1 /\ calls' = calls + 1
    /\ rotated' = [rotated EXCEPT ![k] = @ + 1]
    /\ UNCHANGED <<redis, server, tables, pending, enrolled, rate, failed, used, pc, req, faults,
                   dbFaults, restarts, issued, accepted, replayed, confirmed, lax, wronged,
                   crossed, loggedOut>>

\* The answer is the same whether Redis took the tokens or not.
Logout(k) ==
    /\ k \in 1 .. pairs /\ calls < MaxCalls
    /\ Accepts(k)
    /\ blacklist' = Blacklisted({<<"access", k>>, <<"refresh", k>>})
    /\ calls' = calls + 1
    /\ loggedOut' = loggedOut \union {k}
    /\ UNCHANGED <<redis, server, tables, pending, enrolled, rate, failed, used, pc, req, pairs,
                   faults, dbFaults, restarts, issued, accepted, replayed, confirmed, lax,
                   wronged, crossed, rotated>>

-----------------------------------------------------------------------------
(* Time, faults and restarts. *)

Older(key) == IF key.ttl = NoTtl \/ key.n = 0 THEN key
              ELSE IF key.ttl = 1 THEN NoKey ELSE [key EXCEPT !.ttl = @ - 1]
OlderSecret(p) == IF p.life <= 1 THEN NoPending ELSE [p EXCEPT !.life = @ - 1]
OlderUses(S) == {[r EXCEPT !.step = @ - 1, !.life = @ - 1] : r \in {r \in S : r.life > 1}}

Tick ==
    /\ rate' = [k \in Counters |-> Older(rate[k])]
    /\ failed' = [k \in Counters |-> Older(failed[k])]
    /\ rateMem' = [k \in Counters |->
          LET alive == SelectSeq(rateMem[k], LAMBDA life : life > 1)
          IN [i \in DOMAIN alive |-> alive[i] - 1]]
    /\ pending' = [u \in Users |-> OlderSecret(pending[u])]
    /\ pendingMem' = [u \in Users |-> OlderSecret(pendingMem[u])]
    /\ used' = OlderUses(used) /\ usedMem' = OlderUses(usedMem)
    /\ accepted' = {[r EXCEPT !.step = @ - 1] : r \in {r \in accepted : r.step > -1}}
    /\ UNCHANGED <<redis, setting, tables, enrolled, pc, req, tokens, bounds, replayed, confirmed,
                   lax, wronged, crossed, rotated, loggedOut>>

RedisFails ==
    /\ redis /\ faults < MaxFaults
    /\ redis' = FALSE /\ faults' = faults + 1
    /\ UNCHANGED <<server, tables, pending, enrolled, rate, failed, used, pc, req, tokens, calls,
                   dbFaults, restarts, issued, history>>

RedisReturns ==
    /\ ~redis /\ redis' = TRUE
    /\ UNCHANGED <<server, tables, pending, enrolled, rate, failed, used, pc, req, tokens, bounds,
                   history>>

\* Mutant: the stored secret is not read at the start.
LoadedNot == None
Loaded == stored[Admin]

\* lifespan: the secret is read from the database; a failure is only logged.
Restart ==
    /\ restarts < MaxRestarts /\ restarts' = restarts + 1
    /\ \/ setting' = Loaded /\ UNCHANGED dbFaults
       \/ dbFaults < MaxDbFaults /\ dbFaults' = dbFaults + 1 /\ setting' = None
    /\ pendingMem' = [u \in Users |-> NoPending]
    /\ rateMem' = [k \in Counters |-> << >>]
    /\ usedMem' = {}
    /\ pc' = [h \in Handlers |-> "idle"] /\ req' = [h \in Handlers |-> NoReq]
    /\ UNCHANGED <<redis, tables, pending, enrolled, rate, failed, used, tokens, calls, faults,
                   issued, history>>

-----------------------------------------------------------------------------
Known == [secret : 1 .. issued, step : Steps]

Login(h) ==
    \/ LoginLimited(h) \/ LoginDenied(h) \/ CodeMissing(h)
    \/ \E u \in Users :
        \/ PasswordOnly(h, u)
        \/ \E code \in Known : CodeWrong(h, u, code) \/ CodeReplayed(h, u, code)
                               \/ CodeRight(h, u, code)

Pair(h) ==
    \/ PairLimited(h) \/ PairDenied(h)
    \/ \E u \in Users : \E token \in BOOLEAN : PairStart(h, u, token)

Resume(h) ==
    \/ SaveSecret(h) \/ Onboard(h) \/ AuditOnboarding(h) \/ Grant(h) \/ AuditFails(h)
    \/ PairLookup(h) \/ PairProvision(h)

Next ==
    \/ \E h \in Handlers : Login(h) \/ Pair(h) \/ Resume(h)
    \/ \E k \in 1 .. MaxPairs : Refresh(k) \/ Logout(k)
    \/ Tick \/ RedisFails \/ RedisReturns \/ Restart

Spec == Init /\ [][Next]_vars
-----------------------------------------------------------------------------
(* Properties. *)

\* check_and_record_totp_replay: a code opens one session of a user, however logins interleave
\* and whenever they come, as long as Redis answers.
CodeOpensOneSession == replayed => faults > 0

\* Once admin has confirmed a secret, it is the second factor: password alone opens no session, not
\* even after a restart, and a fresh code of it is never refused as wrong.  It is forgotten if the
\* database did not take or give back a secret, and may be if two of them were being confirmed at
\* once: then the process may keep one, and the database the other.
SecondFactorStays == lax \/ Admin \in wronged => dbFaults > 0 \/ crossed

\* "Старый refresh-токен немедленно инвалидируется" (refresh_tokens): a refresh token is
\* exchanged once, as long as Redis answers.
RefreshedOnce == \A k \in 1 .. MaxPairs : rotated[k] > 1 => faults > 0

\* A logout that was answered holds for both tokens, as long as Redis answers.
LogoutHolds ==
    \A k \in loggedOut : faults = 0 => ~Accepts(k) /\ Listed("refresh", k)

=============================================================================
