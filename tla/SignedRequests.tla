---------------------------- MODULE SignedRequests ----------------------------
(***************************************************************************)
(* A signed request and its copies: the checks of the time stamp, of the   *)
(* one-time nonce, of certificates and of the signature that the services  *)
(* make before they serve it.                                              *)
(*   "pki"      the simulation API, X.509 (simulations/api/core/auth.py)   *)
(*   "enclave"  the simulation API, the enclave's signature                *)
(*              (simulations/core/crypto/enclave_verifier.py)              *)
(*   "rag"      POST /api/rag/documents (routers/rag_documents.py)         *)
(*   "repeal"   POST /api/rag/documents/delete, by the same checks         *)
(*   "agent"    POST /api/agent-requests, a JWT (server.py)                *)
(* Copies of the request reach its service in any number and at any time:  *)
(* retried by the client, repeated, damaged on the way.  Each service      *)
(* keeps nonces in Redis, or in its memory when Redis does not answer.     *)
(*                                                                         *)
(* Meanwhile certificates are revoked.  A revocation goes to the memory of *)
(* the admin server, to Redis if it answers, and by Pub/Sub to the cache   *)
(* of the simulation.  Without Redis the simulation asks its cache only,   *)
(* and the admin server fails: int(serial, 0) is looked up outside the     *)
(* try, so is_certificate_revoked_in_redis raises.                         *)
(***************************************************************************)
EXTENDS CertChains, FiniteSets

CONSTANTS
    Handlers,
    Requests,        \* service, chain, token and connection (tls) of a request; of a token when
                     \* it expires and whether it is dated (iat); certificates one may revoke
    Window, Ahead,   \* how old, and for the enclave how early, a time stamp may be
    MinLife,         \* how long the nonce of a token is kept at least
    Start, MaxTime, MaxCopies, MaxFaults, MaxRestarts   \* bounds

ASSUME RequestsAssumption ==
    /\ Window \in Nat \ {0} /\ Ahead \in 0 .. Window /\ MinLife \in Nat \ {0}
    /\ MaxTime \in Nat /\ Start \in 0 .. MaxTime
    /\ \A r \in Requests :
        /\ r.service \in {"pki", "enclave", "rag", "repeal", "agent"} /\ r.exp \in Nat
        /\ r.service # "agent" => r.dated
        /\ r.revocable \subseteq {"leaf", "enclave", "tls"}

Copies == {"good", "damaged", "garbled"}   \* garbled: the signature is not base64

VARIABLES
    request, stamp,  \* the request and its time stamp
    now,             \* the clock of the service
    redis,           \* Redis answers
    client,          \* "made": the NonceStore of the simulation has a client of Redis; "unmade":
                     \* not yet; "none": Redis did not answer when it was to be made
    listed,          \* certificates on the black list in Redis
    local,           \* ... and in the memory of the service: _revoked_certs_memory,
                     \* _simulation_revoked_cache
    sent,            \* revocations on their way to the listener of the simulation
    kept, keptMem,   \* until when Redis, and the memory, keep the nonce
    pc, copy,        \* pc[h], copy[h]: the step of handler h and what it was sent
    copies, faults, restarts   \* counted for the bounds

VARIABLES            \* history
    first,           \* when the nonce was first recorded
    served,          \* how often the request was served
    spent,           \* the nonce is used up though the request was not served
    passed,          \* a chain passed that is not authentic
    unwritten,          \* certificates revoked while Redis did not answer
    forgotten,       \* certificates revoked before the service restarted
    slips            \* of each revoked certificate that passed: what stood in the way

bounds == <<copies, faults, restarts>>
revocations == <<listed, local, sent, unwritten, forgotten>>
history == <<first, served, spent, passed, slips>>
vars == <<request, stamp, now, redis, client, revocations, kept, keptMem, pc, copy, bounds, history>>

NoTime == -1

Init ==
    /\ request \in Requests /\ stamp \in 0 .. MaxTime
    /\ now = Start /\ redis = TRUE /\ client = "unmade"
    /\ listed = {} /\ local = {} /\ sent = {} /\ unwritten = {} /\ forgotten = {}
    /\ kept = NoTime /\ keptMem = NoTime
    /\ pc = [h \in Handlers |-> "idle"] /\ copy = [h \in Handlers |-> "good"]
    /\ copies = 0 /\ faults = 0 /\ restarts = 0
    /\ first = NoTime /\ served = 0 /\ spent = FALSE
    /\ passed = FALSE /\ slips = {}

-----------------------------------------------------------------------------
(* Redis, as the service sees it. *)

AtSimulation == request.service \in {"pki", "enclave"}

\* get_enclave_verifier: the client is made once, at the first request, and only if Redis answers.
Client == IF client # "unmade" THEN client ELSE IF redis THEN "made" ELSE "none"

Reachable == redis /\ (AtSimulation => Client = "made")

-----------------------------------------------------------------------------
(* NonceStore.record_nonce_if_new and record_admin_nonce_if_new: in one step. *)

Fresh == IF Reachable THEN ~(kept > now) ELSE ~(keptMem > now)

\* Mutant: the nonce is kept a step less than the window.
LifeShort == Window - 1
\* A nonce lives as long as the window; that of a token as long as the token, but MinLife at least.
Life == IF request.service # "agent" THEN Window
        ELSE IF request.exp - now > MinLife THEN request.exp - now ELSE MinLife

Record ==
    /\ kept' = IF Reachable THEN now + Life ELSE kept
    /\ keptMem' = IF Reachable THEN keptMem ELSE now + Life
    /\ first' = IF first = NoTime THEN now ELSE first

\* Mutant: the nonce is forgotten by the process only.
DiscardInMemory == keptMem' = NoTime /\ UNCHANGED kept
\* discard_nonce, discard_admin_nonce: a request that fails its checks frees its nonce.
Discard ==
    /\ kept' = IF Reachable THEN NoTime ELSE kept
    /\ keptMem' = NoTime

\* The window on the time stamp is symmetric, but for the enclave; the date of a token (iat) may
\* not lie ahead (jwt.decode), and a token without one has no window.
Timely ==
    request.dated =>
        /\ now - stamp <= Window
        /\ stamp - now <= CASE request.service = "enclave" -> Ahead
                            [] request.service = "agent"   -> 0
                            [] OTHER                       -> Window

\* The signature is over time stamp, nonce and body.
Genuine(c) == c = "good"

-----------------------------------------------------------------------------
(* The black lists. *)

\* The certificates of the chain.
InChain == {"leaf"} \union (IF request.chain.enclave = NoCert THEN {} ELSE {"enclave"})

\* The simulation swallows an error of Redis and goes on.
SimClears(certs) ==
    /\ certs \intersect local = {}
    /\ Reachable => certs \intersect listed = {}

\* Mutant: the memory of the process is not asked.
AdminClearsByRedis(certs) == certs # {} => redis /\ certs \intersect listed = {}
\* is_certificate_revoked_in_redis raises if Redis does not answer (1554): 500, or 401 by the middleware.
AdminClears(certs) ==
    certs # {} => redis /\ certs \intersect (local \union listed) = {}

Revoked == listed \union unwritten

\* What is noted of a revoked certificate that passes.
Slips(certs) ==
    {[heard  |-> c \in local, down |-> ~redis, alone |-> Client = "none",
      unwritten |-> c \in unwritten, forgotten |-> c \in forgotten] : c \in certs \intersect Revoked}

-----------------------------------------------------------------------------
\* What follows the checks may fail; the nonce remains used.
Serve ==
    \/ served' = served + 1 /\ UNCHANGED spent
    \/ spent' = TRUE /\ UNCHANGED served

Sent(h, service) ==
    /\ request.service = service
    /\ pc[h] = "idle" /\ copies < MaxCopies
    /\ copies' = copies + 1
    /\ UNCHANGED <<request, stamp, now, redis, revocations, faults, restarts>>

-----------------------------------------------------------------------------
(* The handlers.  A stale copy, or one whose nonce is on record (409), changes nothing but the     *)
(* client of Redis: SimConnects.                                                                   *)

SimAccepts ==
    SimChain(request.chain, now) /\ SimClears(InChain) /\ SimRole(request.chain)

\* X.509 at the simulation: the body is read after the chain was checked.
PkiBegin(h, c) ==
    /\ Sent(h, "pki") /\ Timely /\ Fresh
    /\ client' = Client
    /\ IF SimAccepts
         THEN /\ Record
              /\ pc' = [pc EXCEPT ![h] = "body"] /\ copy' = [copy EXCEPT ![h] = c]
              /\ passed' = (passed \/ ~Authentic(request.chain, now))
              /\ slips' = slips \union Slips(InChain)
         ELSE Discard /\ UNCHANGED <<pc, copy, first, passed, slips>>
    /\ UNCHANGED <<served, spent>>

PkiEnd(h) ==
    /\ pc[h] = "body"
    /\ \/ IF Genuine(copy[h])
            THEN Serve /\ UNCHANGED <<kept, keptMem>>
            ELSE Discard /\ UNCHANGED <<served, spent>>
       \* cancelled while it waits for the body: CancelledError is not an Exception
       \/ spent' = TRUE /\ UNCHANGED <<kept, keptMem, served>>
    /\ pc' = [pc EXCEPT ![h] = "idle"] /\ copy' = [copy EXCEPT ![h] = "good"]
    /\ UNCHANGED <<request, stamp, now, redis, client, revocations, bounds, first, passed, slips>>

\* verify_agent_token: a token sent along is the domain's own or that of the main agent.
TokenPasses == request.token \in {"none", "own", "main"}

\* The enclave: a signature that is not base64, or a wrong token, leaves the nonce on record.
EnclaveRequest(h, c) ==
    /\ Sent(h, "enclave") /\ Timely /\ Fresh
    /\ client' = Client
    /\ CASE c = "damaged" -> Discard /\ UNCHANGED <<first, served, spent>>
         [] c = "garbled" \/ ~TokenPasses -> Record /\ spent' = TRUE /\ UNCHANGED served
         [] OTHER -> Record /\ Serve
    /\ UNCHANGED <<pc, copy, passed, slips>>

\* parse_mtls_client_certificate: without the proxy's secret nothing is known of the client.
Presented(tls) ==
    IF tls.proxy THEN tls
    ELSE [tls EXCEPT !.verified = FALSE, !.subject = FALSE, !.issuer = FALSE, !.serial = FALSE]

InTls(tls) == IF Presented(tls).serial THEN {"tls"} ELSE {}

\* verify_mtls_client_certificate: the black list, and with REQUIRE_MTLS the lists of who may call
MtlsPasses(tls) ==
    LET cert == Presented(tls) IN
    /\ AdminClears(InTls(tls))
    /\ tls.required => cert.verified /\ cert.subject /\ cert.issuer

RagAccepts == RagChain(request.chain, now) /\ AdminClears(InChain) /\ RagRole(request.chain)

RagArrives(h, service) ==
    /\ Sent(h, service)
    /\ MtlsPasses(request.tls) /\ Timely /\ Fresh
    /\ passed' = (passed \/ (RagAccepts /\ ~Authentic(request.chain, now)))
    /\ slips' = slips \union Slips(InTls(request.tls) \union (IF RagAccepts THEN InChain ELSE {}))
    /\ UNCHANGED <<pc, copy, client>>

\* A submission frees its nonce whatever fails.
RagRequest(h, c) ==
    /\ RagArrives(h, "rag")
    /\ IF RagAccepts /\ Genuine(c) THEN Record /\ Serve
       ELSE Discard /\ UNCHANGED <<first, served, spent>>

\* A repeal keeps it if the chain or the role does not pass.
RepealRequest(h, c) ==
    /\ RagArrives(h, "repeal")
    /\ CASE ~RagAccepts -> Record /\ spent' = TRUE /\ UNCHANGED served
         [] RagAccepts /\ Genuine(c) -> Record /\ Serve
         [] OTHER -> Discard /\ UNCHANGED <<first, served, spent>>

\* A token: its signature and its life come first, the nonce last.  Only the middleware of
\* REQUIRE_MTLS looks at the connection.
AgentRequest(h) ==
    /\ Sent(h, "agent")
    /\ request.tls.required => MtlsPasses(request.tls)
    /\ now < request.exp /\ Timely /\ Fresh
    /\ Record /\ Serve
    /\ slips' = slips \union (IF request.tls.required THEN Slips(InTls(request.tls)) ELSE {})
    /\ UNCHANGED <<pc, copy, client, passed>>

-----------------------------------------------------------------------------
(* Around the handlers. *)

\* revoke_certificate_in_redis, in the admin server; on an error of Redis its memory knows.
Revoke(c) ==
    /\ c \in request.revocable \ Revoked
    /\ IF redis THEN listed' = listed \union {c} /\ UNCHANGED unwritten
                ELSE unwritten' = unwritten \union {c} /\ UNCHANGED listed
    /\ local' = IF AtSimulation THEN local ELSE local \union {c}
    /\ sent' = IF AtSimulation /\ redis THEN sent \union {c} ELSE sent
    /\ UNCHANGED <<request, stamp, now, redis, client, forgotten, kept, keptMem, pc, copy, bounds,
                   history>>

\* run_simulation_revocation_listener; a message may also be lost, and the listener end.
HearOf(c) ==
    /\ c \in sent /\ sent' = sent \ {c}
    /\ local' = local \union {c}
    /\ UNCHANGED <<request, stamp, now, redis, client, listed, unwritten, forgotten, kept, keptMem, pc,
                   copy, bounds, history>>

\* Another request to the simulation makes the client of Redis.
SimConnects ==
    /\ AtSimulation /\ client = "unmade" /\ client' = Client
    /\ UNCHANGED <<request, stamp, now, redis, revocations, kept, keptMem, pc, copy, bounds, history>>

Tick ==
    /\ now < MaxTime /\ now' = now + 1
    /\ UNCHANGED <<request, stamp, redis, client, revocations, kept, keptMem, pc, copy, bounds, history>>

RedisFails ==
    /\ redis /\ faults < MaxFaults
    /\ redis' = FALSE /\ faults' = faults + 1
    /\ UNCHANGED <<request, stamp, now, client, revocations, kept, keptMem, pc, copy, copies, restarts,
                   history>>

RedisReturns ==
    /\ ~redis /\ redis' = TRUE
    /\ UNCHANGED <<request, stamp, now, client, revocations, kept, keptMem, pc, copy, bounds, history>>

\* The memory of the service and the requests under way are lost; Redis keeps what it has.
Restart ==
    /\ restarts < MaxRestarts /\ restarts' = restarts + 1
    /\ keptMem' = NoTime
    /\ spent' = (spent \/ \E h \in Handlers : pc[h] # "idle")
    /\ pc' = [h \in Handlers |-> "idle"] /\ copy' = [h \in Handlers |-> "good"]
    /\ client' = "unmade" /\ local' = {} /\ sent' = {} /\ forgotten' = Revoked
    /\ UNCHANGED <<request, stamp, now, redis, listed, unwritten, kept, copies, faults, first, served,
                   passed, slips>>

Next ==
    \/ \E h \in Handlers :
        \/ PkiEnd(h) \/ AgentRequest(h)
        \/ \E c \in Copies :
            PkiBegin(h, c) \/ EnclaveRequest(h, c) \/ RagRequest(h, c) \/ RepealRequest(h, c)
    \/ \E c \in request.revocable : Revoke(c) \/ HearOf(c)
    \/ SimConnects \/ Tick \/ RedisFails \/ RedisReturns \/ Restart

Spec == Init /\ [][Next]_vars
-----------------------------------------------------------------------------
(* Properties. *)

\* record_nonce_if_new, record_admin_nonce_if_new: a request is served once, however its copies
\* come; a second time only if Redis failed, or if its time stamp was not behind the clock of the
\* service when the first copy came: its nonce is forgotten before the time stamp is too old.
ServedOnce == served > 1 => faults > 0 \/ (request.service # "agent" /\ stamp >= first)

\* validate_certificate_chain, validate_x509_certificate_chain: what the two validators let pass,
\* by different code, is authentic when it passes, leaving revocation aside.
OnlyAuthenticPasses == ~passed

\* "защита от DoS по сожжению nonce" (discard_nonce): a damaged copy does not use up the nonce
\* of a request for good; a nonce that is on record is in use, was served, or was spent.
NonceIsFreed ==
    kept > now => served > 0 \/ spent \/ faults > 0 \/ \E h \in Handlers : pc[h] # "idle"

\* What excuses a revoked certificate that passed.  The simulation: Redis did not answer, or the
\* process has no client of it, or Redis never got to know of the revocation.  The admin server:
\* Redis never got to know, and the process, which did, restarted since.
Excused(s) ==
    /\ ~s.heard
    /\ IF AtSimulation THEN s.down \/ s.alone \/ s.unwritten ELSE s.unwritten /\ s.forgotten

\* is_certificate_revoked_in_redis, and sections 5.1 to 5.3 of check_enclave_or_token_auth: a
\* revoked certificate does not pass a check without one of these excuses, and never when the
\* memory of the service has it.
RevokedIsRefused == \A s \in slips : Excused(s)
=============================================================================
