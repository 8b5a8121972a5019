---------------------------- MODULE RequestProofs ----------------------------
(***************************************************************************)
(* Proofs about the requests of an agent.  SignedRequests: what the two    *)
(* validators accept is authentic, whatever the certificates, and the same *)
(* for both while Redis answers; a revoked certificate passes only with an *)
(* excuse; a request whose time stamp lies behind the clock is served      *)
(* once, whatever the window and the copies; and a request that fails its  *)
(* checks frees its nonce.  AgentKeys, for any number of keys, handlers,   *)
(* calls, failures and restarts: a revoked key files nothing, an agent has *)
(* one active key, and a suspended agent is refused by the admin server    *)
(* and by the simulation, each up to the exceptions its property names.    *)
(***************************************************************************)
EXTENDS SignedRequests, AgentKeys, FiniteSetTheorems, TLAPS

(* The chain validators. *)

\* validate_certificate_chain of the simulation accepts only chains whose certificates are
\* authentic; the black list, which Authentic leaves aside, is asked after it.
THEOREM SimulationAcceptsOnlyAuthentic ==
    ASSUME NEW chain, NEW t, SimChain(chain, t)
    PROVE  Authentic(chain, t)
<1>1. Constrained(chain.leaf, FALSE)
  BY DEF SimChain, SimLink
<1>5. chain.leaf.ca # "yes" /\ ~Holds(chain.leaf, "certSign")
  BY <1>1 DEF Constrained, HasUsage, Holds
<1>2. CASE chain.enclave = NoCert
  BY <1>1, <1>5, <1>2 DEF SimChain, SimLink, ByCA, MaySign, HasUsage, Holds, Links, Authentic
<1>3. CASE chain.enclave # NoCert
  <2>1. SimLink(chain.enclave, Root, TRUE, t) /\ SimLink(chain.leaf, chain.enclave, FALSE, t)
    BY <1>3 DEF SimChain
  <2>2. ASSUME NEW c, NEW issuer, NEW isCa, SimLink(c, issuer, isCa, t)
        PROVE  /\ InForce(c, t) /\ c.issuer = issuer.name /\ c.signedBy = issuer.key
               /\ issuer.ca = "yes" /\ issuer.usage \intersect {"certSign", "absent"} # {}
    BY <2>2 DEF SimLink, ByCA, MaySign, HasUsage, Holds
  <2>3. /\ InForce(chain.enclave, t) /\ chain.enclave.issuer = Root.name
        /\ chain.enclave.signedBy = Root.key
        /\ Root.ca = "yes" /\ Root.usage \intersect {"certSign", "absent"} # {}
    BY <2>1, <2>2
  <2>4. /\ InForce(chain.leaf, t) /\ chain.leaf.issuer = chain.enclave.name
        /\ chain.leaf.signedBy = chain.enclave.key
        /\ chain.enclave.ca = "yes" /\ chain.enclave.usage \intersect {"certSign", "absent"} # {}
    BY <2>1, <2>2
  <2>5. QED
    BY <1>1, <1>5, <1>3, <2>1, <2>3, <2>4 DEF Links, Authentic
<1>4. QED
  BY <1>2, <1>3

\* validate_x509_certificate_chain of the admin server accepts only chains whose certificates are
\* authentic, its look-ups in the black list left aside.
THEOREM AdminAcceptsOnlyAuthentic ==
    ASSUME NEW chain, NEW t, RagChain(chain, t)
    PROVE  Authentic(chain, t)
<1>1. chain.leaf.ca # "yes" /\ ~Holds(chain.leaf, "certSign")
      /\ InForce(chain.leaf, t)
  BY DEF RagChain, RagLeaf, HasUsage, Holds
<1>2. CASE chain.enclave = NoCert
  BY <1>1, <1>2, RootAssumption DEF RagChain, ByCA, Links, Authentic
<1>3. CASE chain.enclave # NoCert
  <2>1. RagEnclave(chain, t) /\ ByCA(chain.leaf, chain.enclave)
    BY <1>3 DEF RagChain
  <2>2. QED
    BY <1>1, <1>3, <2>1, RootAssumption
       DEF RagEnclave, ByCA, Holds, Links, Authentic
<1>4. QED
  BY <1>2, <1>3

\* Both decide alike on the certificates below a root in force, unless the leaf bears its issuer's name.
LEMMA CertificatesDecideAlike ==
    ASSUME NEW chain, NEW t, InForce(Root, t), chain.leaf.name # chain.leaf.issuer
    PROVE  SimChain(chain, t) <=> RagChain(chain, t)
<1> DEFINE leaf == chain.leaf
           enclave == chain.enclave
<1>1. Root.ca = "yes" /\ HasUsage(Root) /\ Holds(Root, "certSign")
  BY RootAssumption DEF HasUsage, Holds
<1>2. MaySign(Root, FALSE) /\ (MaySign(Root, TRUE) <=> Root.pathLength # 0)
  BY <1>1 DEF MaySign
<1>3. RagLeaf(leaf) <=> Constrained(leaf, FALSE)
  BY DEF RagLeaf, Constrained
<1>4. CASE enclave = NoCert
  BY <1>2, <1>3, <1>4 DEF SimChain, SimLink, RagChain
<1>5. CASE enclave # NoCert
  <2>1. enclave.usage = {"absent"} => ~Holds(enclave, "certSign")
    BY DEF Holds
  <2>2. Constrained(enclave, TRUE) <=> enclave.ca = "yes" /\ Holds(enclave, "certSign")
    BY <2>1 DEF Constrained, HasUsage
  <2>3. Constrained(enclave, TRUE) => MaySign(enclave, FALSE)
    BY <2>1, <2>2 DEF MaySign, HasUsage
  <2>4. RagEnclave(chain, t) <=> SimLink(enclave, Root, TRUE, t)
    BY <1>1, <1>2, <2>2 DEF RagEnclave, SimLink
  <2>5. SimLink(enclave, Root, TRUE, t)
          => (SimLink(leaf, enclave, FALSE, t)
                <=> InForce(leaf, t) /\ ByCA(leaf, enclave) /\ Constrained(leaf, FALSE))
    BY <2>3 DEF SimLink
  <2> QED
    BY <1>3, <1>5, <2>4, <2>5 DEF SimChain, RagChain
<1> QED
  BY <1>4, <1>5

\* The two services decide alike on the chain of a request, its revocation included, below a root
\* in force and unless the leaf bears its issuer's name, as long as Redis answers both and knows
\* of every revocation their memory has.  Without Redis the admin server accepts nothing.
THEOREM ValidatorsDecideAlike ==
    ASSUME InForce(Root, now), request.chain.leaf.name # request.chain.leaf.issuer
    PROVE  /\ Reachable /\ local \subseteq listed =>
                (SimChain(request.chain, now) /\ SimClears(InChain)
                   <=> RagChain(request.chain, now) /\ AdminClears(InChain))
           /\ ~redis => ~AdminClears(InChain)
<1>1. SimChain(request.chain, now) <=> RagChain(request.chain, now)
  BY CertificatesDecideAlike
<1>2. InChain # {}
  BY DEF InChain
<1>3. ~redis => ~AdminClears(InChain)
  BY <1>2 DEF AdminClears
<1>4. ASSUME Reachable, local \subseteq listed
      PROVE  SimClears(InChain) <=> AdminClears(InChain)
  <2>1. redis
    BY <1>4 DEF Reachable
  <2>2. local \union listed = listed
    BY <1>4
  <2>3. AdminClears(InChain) <=> InChain \intersect listed = {}
    BY <1>2, <2>1, <2>2 DEF AdminClears
  <2>4. SimClears(InChain) <=> InChain \intersect listed = {}
    BY <1>4 DEF SimClears
  <2>5. QED
    BY <2>3, <2>4
<1>5. QED
  BY <1>1, <1>3, <1>4

-----------------------------------------------------------------------------
(* The inductive invariant. *)

InUse(h) == pc[h] # "idle"

Typed ==
    /\ request \in Requests
    /\ stamp \in Nat /\ now \in Nat /\ redis \in BOOLEAN
    /\ client \in {"unmade", "made", "none"}
    /\ kept \in Int /\ first \in Int /\ first <= now /\ served \in Nat /\ faults \in Nat
    /\ pc \in [Handlers -> {"idle", "body"}]

\* Redis answered all the time, and the simulation has, or will make, a client of it.
RedisUp == faults = 0 => redis /\ client # "none"

\* The time stamp lay behind the clock when the first copy came; a token needs no such thing.
Punctual == request.service = "agent" \/ stamp < first

\* When the request can no longer pass its checks for its age.
Stale == IF request.service = "agent" THEN request.exp ELSE stamp + Window + 1

\* A request that was served or is on its way to be has its nonce on record until it is stale,
\* and there is one of it.
OneUse ==
    faults = 0 /\ Punctual =>
        /\ served > 0 \/ (\E h \in Handlers : InUse(h)) => kept >= Stale
        /\ served <= 1
        /\ served = 1 => \A h \in Handlers : ~InUse(h)
        /\ \A g, h \in Handlers : InUse(g) /\ InUse(h) => g = h

\* Before the first copy nothing is on record.
Untouched ==
    first = NoTime => kept = NoTime /\ served = 0 /\ \A h \in Handlers : ~InUse(h)

RInv == Typed /\ RedisUp /\ OneUse /\ Untouched /\ OnlyAuthenticPasses /\ NonceIsFreed

LEMMA InitRInv == RequestsAssumption /\ Init => RInv
  BY DEF RequestsAssumption, Init, RInv, Typed, RedisUp, OneUse, Untouched, OnlyAuthenticPasses,
         NonceIsFreed, NoTime, Stale, InUse

LEMMA UpIsReachable ==
    ASSUME RInv, faults = 0
    PROVE  Reachable
  BY DEF RInv, Typed, RedisUp, Reachable, Client

\* Under Redis, a copy of a punctual request that is served, or on its way, is refused.
LEMMA Refused ==
    ASSUME RequestsAssumption, RInv, faults = 0, Punctual, Timely,
           request.service = "agent" => now < request.exp,
           Fresh
    PROVE  served = 0 /\ \A h \in Handlers : ~InUse(h)
<1>1. ~(kept > now)
  BY UpIsReachable DEF Fresh
<1>2. Window \in Nat /\ request.exp \in Nat /\ stamp \in Nat /\ now \in Nat /\ kept \in Int
      /\ served \in Nat /\ (request.service # "agent" => request.dated)
  BY DEF RInv, Typed, RequestsAssumption
<1>3. now < Stale
  BY <1>2 DEF Timely, Stale
<1>4. Stale \in Int
  BY <1>2 DEF Stale
<1>5. ~(kept >= Stale)
  BY <1>1, <1>2, <1>3, <1>4
<1>6. ~(served > 0 \/ \E h \in Handlers : InUse(h))
  BY <1>5 DEF RInv, OneUse
<1>7. QED
  BY <1>2, <1>6

\* What Record keeps lasts until the request is stale.
LEMMA RecordedLongEnough ==
    ASSUME RequestsAssumption, RInv, Record, UNCHANGED <<request, stamp, now, faults>>
    PROVE  /\ kept' \in Int /\ first' \in Int /\ first' <= now /\ first' # NoTime
           /\ first # NoTime => first' = first
           /\ faults = 0 /\ Punctual' /\ (request.service = "agent" => now < request.exp)
                => kept' >= Stale
<1>1. /\ Window \in Nat \ {0} /\ request.exp \in Nat /\ stamp \in Nat /\ now \in Nat
      /\ kept \in Int /\ first \in Int /\ first <= now /\ MinLife \in Nat
  BY DEF RInv, Typed, RequestsAssumption
<1>2. Life \in Nat
  BY <1>1 DEF Life
<1>3. kept' = IF Reachable THEN now + Life ELSE kept
  BY DEF Record
<1>4. first' = IF first = NoTime THEN now ELSE first
  BY DEF Record
<1>5. /\ kept' \in Int /\ first' \in Int /\ first' <= now /\ first' # NoTime
      /\ first # NoTime => first' = first
  BY <1>1, <1>2, <1>3, <1>4 DEF NoTime
<1>6. ASSUME faults = 0, Punctual', request.service = "agent" => now < request.exp
      PROVE  kept' >= Stale
  <2>1. kept' = now + Life
    BY <1>3, <1>6, UpIsReachable
  <2>2. CASE request.service = "agent"
    BY <1>1, <1>6, <2>1, <2>2 DEF Life, Stale
  <2>3. CASE request.service # "agent"
    <3>1. stamp < first'
      BY <1>6, <2>3 DEF Punctual
    <3>2. Life = Window /\ Stale = stamp + Window + 1
      BY <2>3 DEF Life, Stale
    <3>3. QED
      BY <1>1, <1>5, <2>1, <3>1, <3>2
  <2>4. QED
    BY <2>2, <2>3
<1>7. QED
  BY <1>5, <1>6

-----------------------------------------------------------------------------
(* A copy arrives: its nonce is freed, or used at once, or kept while its body is read. *)

Arrives ==
    /\ Timely /\ Fresh /\ (request.service = "agent" => now < request.exp)
    /\ UNCHANGED <<request, stamp, now, redis, faults>>
    /\ client' \in {client, Client}
    /\ passed' = FALSE

LEMMA ArrivingKeepsClient ==
    ASSUME RInv, Arrives
    PROVE  client' \in {"unmade", "made", "none"} /\ RedisUp'
  BY DEF RInv, Typed, RedisUp, Arrives, Client

LEMMA FreedKeeps ==
    ASSUME RequestsAssumption, RInv, Arrives, Discard, UNCHANGED <<pc, first, served, spent>>
    PROVE  RInv'
<1>1. /\ kept' = IF Reachable THEN NoTime ELSE kept
      /\ UNCHANGED <<request, stamp, now, redis, faults, pc, first, served, spent>>
  BY DEF Discard, Arrives
<1>2. Typed' /\ RedisUp' /\ Untouched' /\ OnlyAuthenticPasses'
  <2>1. Typed' /\ RedisUp'
    BY <1>1, ArrivingKeepsClient DEF RInv, Typed, NoTime
  <2>2. Untouched' /\ OnlyAuthenticPasses'
    BY <1>1 DEF RInv, Untouched, OnlyAuthenticPasses, InUse, Arrives
  <2>3. QED
    BY <2>1, <2>2
<1>3. ASSUME faults = 0, Punctual
      PROVE  served = 0 /\ \A h \in Handlers : ~InUse(h)
  BY <1>3, Refused DEF Arrives
<1>4. Punctual' = Punctual /\ \A h \in Handlers : InUse(h)' = InUse(h)
  BY <1>1 DEF Punctual, InUse
<1>5. OneUse'
  BY <1>1, <1>3, <1>4 DEF OneUse
<1>6. NonceIsFreed'
  <2>1. CASE Reachable
    BY <1>1, <2>1 DEF RInv, Typed, NonceIsFreed, NoTime
  <2>2. CASE ~Reachable
    BY <1>1, <2>2, UpIsReachable DEF RInv, Typed, NonceIsFreed
  <2>3. QED
    BY <2>1, <2>2
<1>7. QED
  BY <1>2, <1>5, <1>6 DEF RInv

LEMMA UsedKeeps ==
    ASSUME RequestsAssumption, RInv, Arrives, Record, UNCHANGED pc,
           \/ served' = served + 1
           \/ served' = served /\ spent' = TRUE
    PROVE  RInv'
<1>1. UNCHANGED <<request, stamp, now, redis, faults, pc>>
  BY DEF Arrives
<1>2. /\ kept' \in Int /\ first' \in Int /\ first' <= now /\ first' # NoTime
      /\ first # NoTime => first' = first
      /\ faults = 0 /\ Punctual' => kept' >= Stale
  BY <1>1, RecordedLongEnough DEF Arrives
<1>3. Typed' /\ RedisUp' /\ Untouched' /\ OnlyAuthenticPasses' /\ NonceIsFreed'
  <2>1. Typed' /\ RedisUp'
    BY <1>1, <1>2, ArrivingKeepsClient DEF RInv, Typed
  <2>2. Untouched' /\ OnlyAuthenticPasses' /\ NonceIsFreed'
    BY <1>1, <1>2 DEF RInv, Typed, Untouched, OnlyAuthenticPasses, NonceIsFreed, Arrives
  <2>3. QED
    BY <2>1, <2>2
<1>4. ASSUME faults = 0, Punctual'
      PROVE  served = 0 /\ \A h \in Handlers : ~InUse(h)
  <2>1. CASE first = NoTime
    BY <2>1 DEF RInv, Untouched
  <2>2. CASE first # NoTime
    <3>1. Punctual
      BY <1>1, <1>2, <1>4, <2>2 DEF Punctual
    <3>2. QED
      BY <1>4, <3>1, Refused DEF Arrives
  <2>3. QED
    BY <2>1, <2>2
<1>5. Stale' = Stale /\ \A h \in Handlers : InUse(h)' = InUse(h)
  BY <1>1 DEF Stale, InUse
<1>6. OneUse'
  BY <1>1, <1>2, <1>4, <1>5 DEF OneUse, RInv, Typed
<1>7. QED
  BY <1>3, <1>6 DEF RInv

LEMMA WaitingKeeps ==
    ASSUME RequestsAssumption, RInv, Arrives, Record, UNCHANGED <<served, spent>>,
           NEW h \in Handlers, pc[h] = "idle", pc' = [pc EXCEPT ![h] = "body"]
    PROVE  RInv'
<1>1. UNCHANGED <<request, stamp, now, redis, faults, served, spent>>
  BY DEF Arrives
<1>2. /\ kept' \in Int /\ first' \in Int /\ first' <= now /\ first' # NoTime
      /\ first # NoTime => first' = first
      /\ faults = 0 /\ Punctual' => kept' >= Stale
  BY <1>1, RecordedLongEnough DEF Arrives
<1>3. \A g \in Handlers : InUse(g)' <=> g = h \/ InUse(g)
  BY DEF RInv, Typed, InUse
<1>4. Typed' /\ RedisUp' /\ Untouched' /\ OnlyAuthenticPasses'
  BY <1>1, <1>2, ArrivingKeepsClient
     DEF RInv, Typed, RedisUp, Untouched, OnlyAuthenticPasses, Arrives
<1>5. NonceIsFreed'
  BY <1>3 DEF NonceIsFreed, InUse
<1>6. ASSUME faults = 0, Punctual'
      PROVE  served = 0 /\ \A g \in Handlers : ~InUse(g)
  <2>1. CASE first = NoTime
    BY <2>1 DEF RInv, Untouched
  <2>2. CASE first # NoTime
    <3>1. Punctual
      BY <1>1, <1>2, <1>6, <2>2 DEF Punctual
    <3>2. QED
      BY <1>6, <3>1, Refused DEF Arrives
  <2>3. QED
    BY <2>1, <2>2
<1>7. Stale' = Stale
  BY <1>1 DEF Stale
<1>8. OneUse'
  BY <1>1, <1>2, <1>3, <1>6, <1>7 DEF OneUse
<1>9. QED
  BY <1>4, <1>5, <1>8 DEF RInv

-----------------------------------------------------------------------------
(* The actions. *)

LEMMA PkiBeginKeeps ==
    ASSUME RequestsAssumption, RInv, NEW h \in Handlers, NEW c, PkiBegin(h, c)
    PROVE  RInv'
<1>1. request.service = "pki" /\ pc[h] = "idle" /\ passed = FALSE
      /\ UNCHANGED <<request, stamp, now, redis, faults, served, spent>>
      /\ Timely /\ Fresh /\ client' = Client
  BY DEF PkiBegin, Sent, RInv, OnlyAuthenticPasses
<1>2. CASE SimAccepts
  <2>1. Authentic(request.chain, now)
    BY <1>2, SimulationAcceptsOnlyAuthentic DEF SimAccepts
  <2>2. Record /\ pc' = [pc EXCEPT ![h] = "body"] /\ passed' = FALSE
    BY <1>1, <1>2, <2>1 DEF PkiBegin
  <2>3. QED
    BY <1>1, <2>2, WaitingKeeps DEF Arrives
<1>3. CASE ~SimAccepts
  <2>1. Discard /\ UNCHANGED <<pc, first, passed>>
    BY <1>3 DEF PkiBegin
  <2>2. QED
    BY <1>1, <2>1, FreedKeeps DEF Arrives
<1>4. QED
  BY <1>2, <1>3

LEMMA PkiEndKeeps ==
    ASSUME RequestsAssumption, RInv, NEW h \in Handlers, PkiEnd(h)
    PROVE  RInv'
<1>1. /\ UNCHANGED <<request, stamp, now, redis, client, faults, first, passed>>
      /\ pc[h] = "body" /\ pc' = [pc EXCEPT ![h] = "idle"]
  BY DEF PkiEnd, bounds
<1>2. \A g \in Handlers : InUse(g)' <=> g # h /\ InUse(g)
  BY <1>1 DEF RInv, Typed, InUse
<1>3. InUse(h) /\ first # NoTime
  BY <1>1 DEF RInv, Untouched, InUse
<1>4. Stale' = Stale /\ Punctual' = Punctual
  BY <1>1 DEF Stale, Punctual
<1>5. faults = 0 /\ Punctual =>
        kept >= Stale /\ served = 0 /\ \A g \in Handlers : InUse(g) => g = h
  BY <1>3 DEF RInv, OneUse, Typed
<1>6. CASE kept' = kept /\ (served' = served + 1 \/ (served' = served /\ spent' = TRUE))
  <2>1. kept' = kept /\ (served' = served + 1 \/ (served' = served /\ spent' = TRUE))
    BY <1>6
  <2>2. Typed' /\ RedisUp' /\ Untouched' /\ OnlyAuthenticPasses' /\ NonceIsFreed'
    BY <1>1, <1>3, <2>1 DEF RInv, Typed, RedisUp, Untouched, OnlyAuthenticPasses, NonceIsFreed
  <2>3. OneUse'
    BY <1>1, <1>2, <1>4, <1>5, <2>1 DEF OneUse
  <2>4. QED
    BY <2>2, <2>3 DEF RInv
<1>7. CASE Discard /\ UNCHANGED <<served, spent>>
  <2>1. UNCHANGED <<served, spent>> /\ kept' = IF Reachable THEN NoTime ELSE kept
    BY <1>7 DEF Discard
  <2>2. Typed' /\ RedisUp' /\ Untouched' /\ OnlyAuthenticPasses'
    BY <1>1, <1>3, <2>1 DEF RInv, Typed, RedisUp, Untouched, OnlyAuthenticPasses, NoTime
  <2>3. NonceIsFreed'
    BY <1>1, <2>1, UpIsReachable DEF RInv, Typed, NonceIsFreed, NoTime
  <2>4. OneUse'
    BY <1>1, <1>2, <1>4, <1>5, <2>1 DEF OneUse
  <2>5. QED
    BY <2>2, <2>3, <2>4 DEF RInv
<1>8. QED
  BY <1>6, <1>7 DEF PkiEnd, Serve

LEMMA EnclaveKeeps ==
    ASSUME RequestsAssumption, RInv, NEW h \in Handlers, NEW c, EnclaveRequest(h, c)
    PROVE  RInv'
<1>1. Arrives /\ UNCHANGED pc
  BY DEF EnclaveRequest, Sent, RInv, OnlyAuthenticPasses, Arrives
<1>2. \/ Discard /\ UNCHANGED <<first, served, spent>>
      \/ Record /\ (served' = served + 1 \/ (served' = served /\ spent' = TRUE))
  BY DEF EnclaveRequest, Serve
<1>3. QED
  BY <1>1, <1>2, FreedKeeps, UsedKeeps

LEMMA RagKeeps ==
    ASSUME RequestsAssumption, RInv, NEW h \in Handlers, NEW c,
           RagRequest(h, c) \/ RepealRequest(h, c)
    PROVE  RInv'
<1>1. RagChain(request.chain, now) => Authentic(request.chain, now)
  BY AdminAcceptsOnlyAuthentic
<1>2. Arrives /\ UNCHANGED pc
  BY <1>1 DEF RagRequest, RepealRequest, RagArrives, RagAccepts, Sent, RInv, OnlyAuthenticPasses,
              Arrives
<1>3. \/ Discard /\ UNCHANGED <<first, served, spent>>
      \/ Record /\ (served' = served + 1 \/ (served' = served /\ spent' = TRUE))
  BY DEF RagRequest, RepealRequest, Serve
<1>4. QED
  BY <1>2, <1>3, FreedKeeps, UsedKeeps

LEMMA AgentKeeps ==
    ASSUME RequestsAssumption, RInv, NEW h \in Handlers, AgentRequest(h)
    PROVE  RInv'
<1>1. Arrives /\ UNCHANGED pc /\ Record
      /\ (served' = served + 1 \/ (served' = served /\ spent' = TRUE))
  BY DEF AgentRequest, Sent, RInv, OnlyAuthenticPasses, Arrives, Serve
<1>2. QED
  BY <1>1, UsedKeeps

\* The clock, Redis and the process.
LEMMA AroundKeeps ==
    ASSUME RInv,
           \/ \E c \in request.revocable : Revoke(c) \/ HearOf(c)
           \/ SimConnects \/ Tick \/ RedisFails \/ RedisReturns \/ Restart \/ UNCHANGED vars
    PROVE  RInv'
<1>1. /\ UNCHANGED <<request, stamp, kept, first, served, passed>>
      /\ now' = now \/ now' = now + 1
      /\ faults' = faults \/ faults' = faults + 1
      /\ redis' \in BOOLEAN
      /\ pc' = pc \/ pc' = [h \in Handlers |-> "idle"]
      /\ client' \in {client, Client, "unmade"}
  BY DEF Revoke, HearOf, SimConnects, Tick, RedisFails, RedisReturns, Restart, vars, bounds, history, RInv, Typed
<1>2. Typed'
  BY <1>1 DEF RInv, Typed, Client
<1>3. RedisUp'
  BY <1>1 DEF RInv, Typed, RedisUp, Client, Revoke, HearOf, SimConnects, Tick, RedisFails, RedisReturns, Restart, vars, bounds, history
<1>4. \A h \in Handlers : InUse(h)' => InUse(h)
  BY <1>1 DEF InUse
<1>5. Stale' = Stale /\ Punctual' = Punctual /\ (faults' = 0 => faults = 0)
  BY <1>1 DEF Stale, Punctual, RInv, Typed
<1>6. OneUse' /\ Untouched' /\ OnlyAuthenticPasses'
  BY <1>1, <1>4, <1>5 DEF RInv, OneUse, Untouched, OnlyAuthenticPasses
<1>7. NonceIsFreed'
  <2>1. kept' > now' => kept > now
    BY <1>1 DEF RInv, Typed
  <2>2. faults > 0 => faults' > 0
    BY <1>1 DEF RInv, Typed
  <2>3. spent \/ (\E h \in Handlers : pc[h] # "idle")
          => spent' \/ (\E h \in Handlers : pc'[h] # "idle")
    BY DEF Revoke, HearOf, SimConnects, Tick, RedisFails, RedisReturns, Restart, vars, bounds,
           history
  <2>4. QED
    BY <1>1, <2>1, <2>2, <2>3 DEF RInv, NonceIsFreed
<1>8. QED
  BY <1>2, <1>3, <1>6, <1>7 DEF RInv

LEMMA NextKeepsRInv == RequestsAssumption /\ RInv /\ [Next]_vars => RInv'
<1> SUFFICES ASSUME RequestsAssumption, RInv, [Next]_vars PROVE RInv'
  OBVIOUS
<1>1. ASSUME NEW h \in Handlers, PkiEnd(h) \/ AgentRequest(h)
      PROVE  RInv'
  BY <1>1, PkiEndKeeps, AgentKeeps
<1>2. ASSUME NEW h \in Handlers, NEW c \in Copies,
             PkiBegin(h, c) \/ EnclaveRequest(h, c) \/ RagRequest(h, c) \/ RepealRequest(h, c)
      PROVE  RInv'
  BY <1>2, PkiBeginKeeps, EnclaveKeeps, RagKeeps
<1>3. QED
  BY <1>1, <1>2, AroundKeeps DEF Next

-----------------------------------------------------------------------------
\* The inductive invariant: a request that was served, or is on its way to be, keeps its nonce on
\* record until its time stamp is too old.
THEOREM Invariant == Spec => []RInv
  BY RequestsAssumption, InitRInv, NextKeepsRInv, PTL DEF Spec

\* A punctual request, or one with a token, is served once as long as Redis answers, whatever
\* the window and however many copies come.
THEOREM PunctualRequestsServedOnce == Spec => []ServedOnce
<1>1. RInv => ServedOnce
  <2> SUFFICES ASSUME RInv, served > 1, ~(faults > 0)
               PROVE  request.service # "agent" /\ stamp >= first
    BY DEF ServedOnce
  <2>1. faults = 0 /\ stamp \in Int /\ first \in Int
    BY DEF RInv, Typed
  <2>2. ~Punctual
    BY <2>1 DEF RInv, OneUse, Typed
  <2>3. QED
    BY <2>1, <2>2 DEF Punctual
<1>2. QED
  BY <1>1, Invariant, PTL

\* Only chains whose certificates are authentic pass, for any certificates and at any time.
THEOREM AcceptedChainsAreAuthentic == Spec => []OnlyAuthenticPasses
<1>1. RInv => OnlyAuthenticPasses
  BY DEF RInv
<1>2. QED
  BY <1>1, Invariant, PTL

\* A request that fails its checks does not use up its nonce.
THEOREM FailedRequestsFreeTheirNonce == Spec => []NonceIsFreed
<1>1. RInv => NonceIsFreed
  BY DEF RInv
<1>2. QED
  BY <1>1, Invariant, PTL

(* Revocation. *)

\* The admin server knows what was revoked since it started, and what passed had an excuse.
ListsFit ==
    /\ client \in {"unmade", "made", "none"}
    /\ ~AtSimulation => Revoked \ forgotten \subseteq local
    /\ RevokedIsRefused

LEMMA SimSlipsExcused ==
    ASSUME ListsFit, AtSimulation, NEW certs, SimClears(certs), NEW s \in Slips(certs)
    PROVE  Excused(s)
<1>1. PICK c \in certs \intersect Revoked :
          s = [heard  |-> c \in local, down |-> ~redis, alone |-> Client = "none",
               unwritten |-> c \in unwritten, forgotten |-> c \in forgotten]
  BY DEF Slips
<1>2. c \notin local
  BY <1>1 DEF SimClears
<1>3. CASE Reachable
  BY <1>1, <1>2, <1>3 DEF SimClears, Revoked, Excused
<1>4. CASE ~Reachable
  <2>1. ~redis \/ Client = "none"
    BY <1>4 DEF Reachable, ListsFit, Client
  <2>2. QED
    BY <1>1, <1>2, <2>1 DEF Excused
<1>5. QED
  BY <1>3, <1>4

LEMMA AdminSlipsExcused ==
    ASSUME ListsFit, ~AtSimulation, NEW certs, AdminClears(certs), NEW s \in Slips(certs)
    PROVE  Excused(s)
<1>1. PICK c \in certs \intersect Revoked :
          s = [heard  |-> c \in local, down |-> ~redis, alone |-> Client = "none",
               unwritten |-> c \in unwritten, forgotten |-> c \in forgotten]
  BY DEF Slips
<1>2. c \notin local /\ c \notin listed
  BY <1>1 DEF AdminClears
<1>3. c \in unwritten /\ c \in forgotten
  BY <1>1, <1>2 DEF Revoked, ListsFit
<1>4. QED
  BY <1>1, <1>2, <1>3 DEF Excused

\* A request leaves the lists alone and adds slips that have an excuse.
LEMMA ArrivalKeepsLists ==
    ASSUME ListsFit, UNCHANGED <<request, revocations>>, client' \in {client, Client},
           \A s \in slips' \ slips : Excused(s)
    PROVE  ListsFit'
<1>1. AtSimulation' = AtSimulation /\ Revoked' = Revoked
  BY DEF AtSimulation, Revoked, revocations
<1>2. \A s : Excused(s)' <=> Excused(s)
  BY <1>1 DEF Excused
<1>3. client' \in {"unmade", "made", "none"}
  BY DEF ListsFit, Client
<1>4. RevokedIsRefused'
  BY <1>2 DEF ListsFit, RevokedIsRefused
<1>5. QED
  BY <1>1, <1>3, <1>4 DEF ListsFit, revocations

LEMMA RequestKeepsLists ==
    ASSUME ListsFit, NEW h, NEW c,
           \/ PkiBegin(h, c) \/ PkiEnd(h) \/ EnclaveRequest(h, c)
           \/ RagRequest(h, c) \/ RepealRequest(h, c) \/ AgentRequest(h)
    PROVE  ListsFit'
<1>1. CASE PkiBegin(h, c)
  <2>1. AtSimulation /\ UNCHANGED <<request, revocations>> /\ client' = Client
    BY <1>1 DEF PkiBegin, Sent, AtSimulation
  <2>2. slips' = slips \/ (SimClears(InChain) /\ slips' = slips \union Slips(InChain))
    BY <1>1 DEF PkiBegin, SimAccepts
  <2>3. QED
    BY <2>1, <2>2, SimSlipsExcused, ArrivalKeepsLists
<1>2. CASE PkiEnd(h) \/ EnclaveRequest(h, c)
  <2>1. UNCHANGED <<request, revocations, slips>> /\ client' \in {client, Client}
    BY <1>2 DEF PkiEnd, EnclaveRequest, Sent
  <2>2. QED
    BY <2>1, ArrivalKeepsLists
<1>3. CASE RagRequest(h, c) \/ RepealRequest(h, c)
  <2> DEFINE tls == InTls(request.tls)
             chain == IF RagAccepts THEN InChain ELSE {}
  <2>1. ~AtSimulation /\ UNCHANGED <<request, revocations, client>> /\ MtlsPasses(request.tls)
        /\ slips' = slips \union Slips(tls \union chain)
    BY <1>3 DEF RagRequest, RepealRequest, RagArrives, Sent, AtSimulation
  <2>2. AdminClears(tls)
    BY <2>1 DEF MtlsPasses
  <2>3. AdminClears(chain)
    BY DEF RagAccepts, AdminClears
  <2>4. AdminClears(tls \union chain)
    BY <2>2, <2>3 DEF AdminClears
  <2> HIDE DEF tls, chain
  <2>5. QED
    BY <2>1, <2>4, AdminSlipsExcused, ArrivalKeepsLists
<1>4. CASE AgentRequest(h)
  <2>1. ~AtSimulation /\ UNCHANGED <<request, revocations, client>>
    BY <1>4 DEF AgentRequest, Sent, AtSimulation
  <2>2. slips' = slips \/ (AdminClears(InTls(request.tls))
                             /\ slips' = slips \union Slips(InTls(request.tls)))
    BY <1>4 DEF AgentRequest, MtlsPasses
  <2>3. QED
    BY <2>1, <2>2, AdminSlipsExcused, ArrivalKeepsLists
<1>5. QED
  BY <1>1, <1>2, <1>3, <1>4

\* A revocation, its message, the clock, Redis and a restart.
LEMMA AroundKeepsLists ==
    ASSUME ListsFit,
           \/ \E c \in request.revocable : Revoke(c) \/ HearOf(c)
           \/ SimConnects \/ Tick \/ RedisFails \/ RedisReturns \/ Restart \/ UNCHANGED vars
    PROVE  ListsFit'
<1>1. UNCHANGED <<request, slips>> /\ client' \in {client, Client, "unmade"}
  BY DEF Revoke, HearOf, SimConnects, Tick, RedisFails, RedisReturns, Restart, vars, history
<1>2. AtSimulation' = AtSimulation
  BY <1>1 DEF AtSimulation
<1>3. RevokedIsRefused'
  BY <1>1, <1>2 DEF ListsFit, RevokedIsRefused, Excused
<1>4. client' \in {"unmade", "made", "none"}
  BY <1>1 DEF ListsFit, Client
<1>5. ~AtSimulation => (Revoked \ forgotten \subseteq local)'
  <2>1. ASSUME NEW c \in request.revocable, Revoke(c), ~AtSimulation
        PROVE  (Revoked \ forgotten \subseteq local)'
    <3>1. Revoked' \subseteq Revoked \union {c} /\ forgotten' = forgotten
          /\ local' = local \union {c}
      BY <2>1 DEF Revoke, Revoked
    <3>2. QED
      BY <2>1, <3>1 DEF ListsFit
  <2>2. ASSUME NEW c \in request.revocable, HearOf(c), ~AtSimulation
        PROVE  (Revoked \ forgotten \subseteq local)'
    BY <2>2 DEF HearOf, Revoked, ListsFit
  <2>3. CASE Restart
    BY <2>3 DEF Restart, Revoked
  <2>4. CASE SimConnects \/ Tick \/ RedisFails \/ RedisReturns \/ UNCHANGED vars
    BY <2>4 DEF SimConnects, Tick, RedisFails, RedisReturns, vars, revocations, Revoked, ListsFit
  <2>5. QED
    BY <2>1, <2>2, <2>3, <2>4
<1>6. QED
  BY <1>2, <1>3, <1>4, <1>5 DEF ListsFit

\* A revoked certificate passes only with an excuse, whatever the requests, the copies, the
\* failures of Redis and the restarts.
THEOREM RevokedCertificatesAreRefused == Spec => []RevokedIsRefused
<1>1. Init => ListsFit
  BY DEF Init, ListsFit, Revoked, RevokedIsRefused
<1>2. ListsFit /\ [Next]_vars => ListsFit'
  BY RequestKeepsLists, AroundKeepsLists DEF Next
<1>3. ListsFit => RevokedIsRefused
  BY DEF ListsFit
<1>4. QED
  BY <1>1, <1>2, <1>3, PTL DEF Spec

-----------------------------------------------------------------------------
(* The keys of an agent: the rows, the handlers and their requests are of  *)
(* the right kind.                                                         *)

AgentStatus == {"none", "active", "suspended"}
KeyStatus == {"none", "active", "superseded", "revoked", "expired"}
AdminOps == Puts \union Switches \union {"revoke"}
KeyOrNone == Kids \union {None}

Locals == [op : AdminOps \union {None}, kid : KeyOrNone, seen : AgentStatus \union {None},
           public : KeyOrNone, old : SUBSET Kids, killed : BOOLEAN, named : BOOLEAN]

RowsTyped ==
    /\ status \in AgentStatus /\ public \in KeyOrNone
    /\ key \in [Kids -> KeyStatus] /\ revoked \subseteq Kids

\* A handler has a call exactly while it changes the agent; a registration, a rotation or a
\* request names a key.
HandlersTyped ==
    /\ stage \in [AdminHandlers -> {"idle", "keys", "commit", "list", "agent", "file"}]
    /\ req \in [AdminHandlers -> Locals]
    /\ \A h \in AdminHandlers :
          /\ stage[h] \in {"keys", "commit", "list"} =>
                req[h].op \in AdminOps /\ req[h].seen \in AgentStatus
          /\ stage[h] \in {"keys", "commit", "list"} /\ req[h].op \in Puts => req[h].kid \in Kids
          /\ stage[h] \in {"agent", "file"} => req[h].kid \in Kids
          /\ stage[h] = "keys" => req[h].op \in Puts \union {"revoke"}
          /\ stage[h] = "list" => req[h].op \in Switches \union {"revoke"}
          /\ req[h].op \in Switches => req[h].old = {}

CountsTyped ==
    /\ failures \in Nat /\ redisUp \in BOOLEAN /\ killed \in BOOLEAN
    /\ failures = 0 => redisUp /\ simRedis

KeysTyped == RowsTyped /\ HandlersTyped /\ CountsTyped

LEMMA NoReqTyped ==
    /\ NoReq \in [op : {None}, kid : {None}, seen : {None}, public : {None}, old : {{}},
                  killed : {FALSE}, named : {FALSE}]
    /\ NoReq \in Locals
  BY DEF NoReq, Locals, KeyOrNone

\* A call begins with what it read; a reactivation makes the requests under way forget that the
\* agent was suspended.
CallBegun(h, op, k) ==
    /\ stage[h] = "idle"
    /\ stage' = [stage EXCEPT ![h] = IF op \in Switches THEN "commit" ELSE "keys"]
    /\ req' \in [AdminHandlers -> Locals]
    /\ req'[h].op = op /\ req'[h].kid = k /\ req'[h].seen = status /\ req'[h].public = public
    /\ req'[h].old = {} /\ ~req'[h].killed /\ ~req'[h].named
    /\ \A g \in AdminHandlers : g # h =>
          /\ req'[g].op = req[g].op /\ req'[g].kid = req[g].kid
          /\ req'[g].seen = req[g].seen /\ req'[g].public = req[g].public
          /\ req'[g].old = req[g].old
          /\ req'[g].killed => req[g].killed /\ op # "reactivate"
          /\ req'[g].named => req[g].named

LEMMA BeginCallForgets ==
    ASSUME HandlersTyped, NEW h \in AdminHandlers, NEW op, NEW k, BeginCall(h, op, k)
    PROVE  /\ ~req'[h].killed /\ ~req'[h].named
           /\ \A g \in AdminHandlers : g # h =>
                 /\ req'[g].killed => req[g].killed /\ op # "reactivate"
                 /\ req'[g].named => req[g].named
<1>1. /\ req'[h] = [NoReq EXCEPT !.op = op, !.kid = k, !.seen = status, !.public = public]
      /\ \A g \in AdminHandlers : g # h =>
            req'[g] = [req[g] EXCEPT !.killed = @ /\ op # "reactivate"]
  BY DEF BeginCall
<1>2. ~req'[h].killed /\ ~req'[h].named
  BY <1>1 DEF NoReq
<1>3. ASSUME NEW g \in AdminHandlers, g # h
      PROVE  /\ req'[g].killed => req[g].killed /\ op # "reactivate"
             /\ req'[g].named => req[g].named
  <2>1. req[g] \in Locals /\ req'[g] = [req[g] EXCEPT !.killed = @ /\ op # "reactivate"]
    BY <1>1, <1>3 DEF HandlersTyped
  <2> QED
    BY <2>1 DEF Locals
<1> QED
  BY <1>2, <1>3

LEMMA BeginCallReads ==
    ASSUME RowsTyped, HandlersTyped, NEW h \in AdminHandlers, NEW op \in AdminOps, NEW k \in KeyOrNone,
           BeginCall(h, op, k)
    PROVE  CallBegun(h, op, k)
<1>1. PICK c : c = [NoReq EXCEPT !.op = op, !.kid = k, !.seen = status, !.public = public]
  OBVIOUS
<1>2. /\ c \in Locals /\ c.op = op /\ c.kid = k /\ c.seen = status /\ c.public = public
      /\ c.old = {}
  BY <1>1 DEF NoReq, Locals, RowsTyped, KeyOrNone
<1> DEFINE forgets(r) == [r EXCEPT !.killed = @ /\ op # "reactivate"]
<1>3. ASSUME NEW r \in Locals
      PROVE  /\ forgets(r) \in Locals
             /\ forgets(r).op = r.op /\ forgets(r).kid = r.kid /\ forgets(r).seen = r.seen
             /\ forgets(r).public = r.public /\ forgets(r).old = r.old
  BY DEF Locals
<1>4. req' = [g \in AdminHandlers |-> IF g = h THEN c ELSE forgets(req[g])]
  BY <1>1 DEF BeginCall
<1>5. \A g \in AdminHandlers : req[g] \in Locals
  BY DEF HandlersTyped
<1> HIDE DEF forgets
<1>6. req'[h] = c /\ \A g \in AdminHandlers : g # h => req'[g] = forgets(req[g])
  BY <1>4
<1>7. req' \in [AdminHandlers -> Locals]
  BY <1>2, <1>3, <1>4, <1>5
<1>8. /\ stage[h] = "idle"
      /\ stage' = [stage EXCEPT ![h] = IF op \in Switches THEN "commit" ELSE "keys"]
  BY DEF BeginCall
<1>9. ASSUME NEW g \in AdminHandlers, g # h
      PROVE  /\ req'[g].op = req[g].op /\ req'[g].kid = req[g].kid
             /\ req'[g].seen = req[g].seen /\ req'[g].public = req[g].public
             /\ req'[g].old = req[g].old
  BY <1>3, <1>5, <1>6, <1>9
<1>10. /\ req'[h].op = op /\ req'[h].kid = k /\ req'[h].seen = status /\ req'[h].public = public
       /\ req'[h].old = {}
  BY <1>2, <1>6
<1> QED
  BY <1>7, <1>8, <1>9, <1>10, BeginCallForgets DEF CallBegun

\* Every call of the administrator is one of these.
LEMMA CallsBegin ==
    ASSUME NEW h \in AdminHandlers, BeginPut(h) \/ BeginRevoke(h) \/ BeginSwitch(h)
    PROVE  \E op \in AdminOps, k \in KeyOrNone : BeginCall(h, op, k) /\ (op \in Puts => k \in Kids)
  BY DEF BeginPut, BeginRevoke, BeginSwitch, AdminOps, KeyOrNone, Puts, Switches

Ends(h) == stage' = [stage EXCEPT ![h] = "idle"] /\ req' = [req EXCEPT ![h] = NoReq]

LEMMA EndsTyped ==
    ASSUME HandlersTyped, NEW h \in AdminHandlers, Ends(h)
    PROVE  /\ HandlersTyped'
           /\ stage'[h] = "idle" /\ req'[h] = NoReq
           /\ \A g \in AdminHandlers : g # h => stage'[g] = stage[g] /\ req'[g] = req[g]
<1>1. NoReq \in Locals /\ NoReq.old = {}
  BY NoReqTyped DEF NoReq
<1> QED
  BY <1>1 DEF HandlersTyped, Ends

\* The keys to replace are read.
KeysRead(h) ==
    /\ stage' = [stage EXCEPT ![h] = "commit"] /\ stage[h] = "keys"
    /\ req' \in [AdminHandlers -> Locals]
    /\ req'[h].op = req[h].op /\ req'[h].kid = req[h].kid /\ req'[h].seen = req[h].seen
    /\ req'[h].public = req[h].public /\ req'[h].old = Replaced(req[h])
    /\ req'[h].killed = req[h].killed /\ req'[h].named = req[h].named
    /\ \A g \in AdminHandlers : g # h => req'[g] = req[g]

LEMMA ReadKeysReads ==
    ASSUME HandlersTyped, NEW h \in AdminHandlers, ReadKeys(h)
    PROVE  Ends(h) \/ KeysRead(h)
<1>1. CASE Ends(h)
  BY <1>1
<1>2. CASE ~Ends(h)
  <2>1. /\ stage' = [stage EXCEPT ![h] = "commit"] /\ stage[h] = "keys"
        /\ req' = [req EXCEPT ![h].old = Replaced(req[h])]
    BY <1>2 DEF ReadKeys, Ends
  <2>2. req[h] \in Locals
    BY <2>1 DEF HandlersTyped
  <2>3. Replaced(req[h]) \subseteq Kids
    BY <2>2 DEF Replaced, Active, Locals, KeyOrNone
  <2>4. PICK r : r = [req[h] EXCEPT !.old = Replaced(req[h])]
    OBVIOUS
  <2>5. /\ r \in Locals /\ r.op = req[h].op /\ r.kid = req[h].kid /\ r.seen = req[h].seen
        /\ r.public = req[h].public /\ r.old = Replaced(req[h])
        /\ r.killed = req[h].killed /\ r.named = req[h].named
    BY <2>2, <2>3, <2>4 DEF Locals
  <2>6. req' = [req EXCEPT ![h] = r]
    BY <2>1, <2>4
  <2> QED
    BY <2>1, <2>5, <2>6 DEF HandlersTyped, KeysRead
<1> QED
  BY <1>1, <1>2

\* A request remembers whether the agent was suspended and its key revoked when it came.
RequestBegun(h, k) ==
    /\ stage[h] = "idle" /\ stage' = [stage EXCEPT ![h] = "agent"]
    /\ req' \in [AdminHandlers -> Locals]
    /\ req'[h].kid = k /\ req'[h].op = None /\ req'[h].old = {}
    /\ req'[h].killed = killed /\ req'[h].named = (k \in named)
    /\ \A g \in AdminHandlers : g # h => req'[g] = req[g]

LEMMA BeginRequestReads ==
    ASSUME HandlersTyped, NEW h \in AdminHandlers, NEW k \in Kids, BeginRequest(h, k),
           killed \in BOOLEAN
    PROVE  RequestBegun(h, k)
<1> DEFINE wasNamed == k \in named
<1>0. wasNamed \in BOOLEAN
  OBVIOUS
<1> HIDE DEF wasNamed
<1>1. PICK r : r = [NoReq EXCEPT !.kid = k, !.killed = killed, !.named = wasNamed]
  OBVIOUS
<1>2. /\ r.kid = k /\ r.op = None /\ r.old = {} /\ r.killed = killed /\ r.named = wasNamed
  BY <1>1 DEF NoReq
<1>3. r \in Locals
  BY <1>0, <1>1 DEF NoReq, Locals, KeyOrNone, AgentStatus
<1>4. stage[h] = "idle" /\ stage' = [stage EXCEPT ![h] = "agent"] /\ req' = [req EXCEPT ![h] = r]
  BY <1>1 DEF BeginRequest, wasNamed
<1> QED
  BY <1>2, <1>3, <1>4 DEF HandlersTyped, RequestBegun, wasNamed

Revokes(h) == stage[h] = "commit" /\ req[h].op = "revoke"

LEMMA StepKeepsHandlersTyped ==
    ASSUME KeysTyped, NEW h \in AdminHandlers, Step(h)
    PROVE  HandlersTyped'
<1>0. RowsTyped /\ HandlersTyped /\ killed \in BOOLEAN
  BY DEF KeysTyped, CountsTyped
<1>1. ASSUME BeginPut(h) \/ BeginRevoke(h) \/ BeginSwitch(h) PROVE HandlersTyped'
  <2>1. PICK op \in AdminOps, k \in KeyOrNone : BeginCall(h, op, k) /\ (op \in Puts => k \in Kids)
    BY <1>1, CallsBegin
  <2>2. CallBegun(h, op, k)
    BY <1>0, <2>1, BeginCallReads
  <2>3. IF op \in Switches THEN stage'[h] = "commit"
                            ELSE stage'[h] = "keys" /\ op \in Puts \union {"revoke"}
    BY <1>0, <2>2 DEF CallBegun, AdminOps, HandlersTyped
  <2>4. /\ stage' \in [AdminHandlers -> {"idle", "keys", "commit", "list", "agent", "file"}]
        /\ \A g \in AdminHandlers : g # h => stage'[g] = stage[g]
    BY <1>0, <2>2 DEF CallBegun, HandlersTyped
  <2> QED
    BY <1>0, <2>1, <2>2, <2>3, <2>4 DEF CallBegun, HandlersTyped, RowsTyped
<1>2. CASE Ends(h)
  BY <1>0, <1>2, EndsTyped
<1>3. CASE ReadKeys(h)
  <2> SUFFICES ASSUME ~Ends(h) PROVE HandlersTyped'
    BY <1>2
  <2>1. req[h].op \notin Switches
    BY <1>0, <1>3 DEF ReadKeys, HandlersTyped, Puts, Switches
  <2> QED
    BY <1>0, <1>3, <2>1, ReadKeysReads DEF KeysRead, HandlersTyped
<1>4. CASE CommitRevoke(h) \/ CommitSwitch(h)
  BY <1>0, <1>4 DEF CommitRevoke, CommitSwitch, HandlersTyped, Switches, Puts, AdminOps
<1>5. CASE CommitPut(h) \/ Block(h) \/ Unblock(h) \/ FileRequest(h) \/ ExpireKey(h)
  BY <1>2, <1>5 DEF CommitPut, Block, Unblock, FileRequest, ExpireKey, Ends
<1>6. ASSUME NEW k \in Kids, BeginRequest(h, k) PROVE HandlersTyped'
  <2>1. \A g \in AdminHandlers : g # h => stage'[g] = stage[g] /\ req'[g] = req[g]
    BY <1>0, <1>6, BeginRequestReads DEF RequestBegun, HandlersTyped
  <2>2. stage'[h] = "agent" /\ req'[h].kid = k /\ req'[h].old = {}
    BY <1>0, <1>6, BeginRequestReads DEF RequestBegun, HandlersTyped
  <2>3. req' \in [AdminHandlers -> Locals] /\ stage' = [stage EXCEPT ![h] = "agent"]
    BY <1>0, <1>6, BeginRequestReads DEF RequestBegun
  <2> QED
    BY <1>0, <2>1, <2>2, <2>3 DEF HandlersTyped
<1>7. CASE ReadAgent(h)
  BY <1>0, <1>2, <1>7 DEF ReadAgent, Ends, HandlersTyped
<1> QED
  BY <1>1, <1>3, <1>4, <1>5, <1>6, <1>7 DEF Step

LEMMA StepKeepsRowsTyped ==
    ASSUME KeysTyped, NEW h \in AdminHandlers, Step(h)
    PROVE  RowsTyped'
<1> USE DEF KeysTyped, RowsTyped, registry, lists, counted, past
<1>1. req[h] \in Locals
  BY DEF HandlersTyped
<1>2. CASE CommitPut(h)
  <2>1. req[h].kid \in Kids /\ req[h].seen \in AgentStatus
    BY <1>2 DEF CommitPut, HandlersTyped
  <2> QED
    BY <1>1, <1>2, <2>1 DEF CommitPut, Written, AgentStatus, KeyStatus, KeyOrNone
<1>3. CASE CommitRevoke(h)
  BY <1>1, <1>3 DEF CommitRevoke, Locals, KeyStatus, KeyOrNone
<1>4. CASE CommitSwitch(h)
  BY <1>4 DEF CommitSwitch, Written, AgentStatus
<1>5. CASE ExpireKey(h)
  BY <1>5 DEF ExpireKey, KeyStatus, KeyOrNone
<1>6. CASE BeginPut(h) \/ BeginRevoke(h) \/ BeginSwitch(h)
  BY <1>6 DEF BeginPut, BeginRevoke, BeginSwitch, BeginCall
<1>7. CASE ReadKeys(h) \/ ReadAgent(h) \/ FileRequest(h)
  BY <1>7 DEF ReadKeys, ReadAgent, FileRequest
<1>8. CASE Block(h) \/ Unblock(h)
  BY <1>8 DEF Block, Unblock
<1>9. ASSUME NEW k \in Kids, BeginRequest(h, k) PROVE RowsTyped'
  BY <1>9 DEF BeginRequest
<1> QED
  BY <1>2, <1>3, <1>4, <1>5, <1>6, <1>7, <1>8, <1>9 DEF Step

LEMMA StepKeepsCountsTyped ==
    ASSUME KeysTyped, NEW h \in AdminHandlers, Step(h)
    PROVE  CountsTyped'
<1> USE DEF KeysTyped, CountsTyped, registry, lists, counted, past
<1>1. CASE CommitPut(h) \/ CommitRevoke(h) \/ CommitSwitch(h) \/ ExpireKey(h)
  BY <1>1 DEF CommitPut, CommitRevoke, CommitSwitch, ExpireKey
<1>2. CASE BeginPut(h) \/ BeginRevoke(h) \/ BeginSwitch(h)
  BY <1>2 DEF BeginPut, BeginRevoke, BeginSwitch, BeginCall
<1>3. CASE ReadKeys(h) \/ ReadAgent(h) \/ FileRequest(h)
  BY <1>3 DEF ReadKeys, ReadAgent, FileRequest
<1>4. CASE Block(h) \/ Unblock(h)
  <2>1. PICK unsaid \in BOOLEAN : Fault(unsaid)
    BY <1>4 DEF Block, Unblock
  <2>2. failures' \in Nat /\ (failures' = 0 => failures = 0)
    BY <2>1 DEF Fault
  <2>3. UNCHANGED <<redisUp, simRedis>> /\ killed' \in BOOLEAN
    BY <1>4 DEF Block, Unblock
  <2> QED
    BY <2>2, <2>3
<1>5. ASSUME NEW k \in Kids, BeginRequest(h, k) PROVE CountsTyped'
  BY <1>5 DEF BeginRequest
<1> QED
  BY <1>1, <1>2, <1>3, <1>4, <1>5 DEF Step

\* What happens around the handlers.
Around ==
    \/ \E s \in Subscribers : Hear(s) \/ ListenerEnds(s) \/ Reboot(s)
    \/ SimGoesWithout \/ RedisStops \/ RedisStarts

\* It leaves the rows alone; a restart ends every request.
LEMMA AroundLeaves ==
    ASSUME KeysTyped, Around
    PROVE  /\ UNCHANGED <<status, public, key, revoked, black, killed, named, back, putsCross,
                          switchCross, filed>>
           /\ \/ UNCHANGED <<stage, req>>
              \/ /\ stage' = [h \in AdminHandlers |-> "idle"]
                 /\ req' = [h \in AdminHandlers |-> NoReq]
           /\ CountsTyped'
           /\ failures' \in {failures, failures + 1}
<1> USE DEF KeysTyped, CountsTyped, registry, lists, counted, past
<1>1. ASSUME NEW s \in Subscribers, Hear(s) \/ ListenerEnds(s)
      PROVE  /\ UNCHANGED <<status, public, key, revoked, black, killed, named, back, putsCross,
                            switchCross, filed, stage, req, failures, redisUp, simRedis>>
  BY <1>1 DEF Hear, ListenerEnds
<1>2. ASSUME NEW s \in Subscribers, Reboot(s)
      PROVE  /\ UNCHANGED <<status, public, key, revoked, black, killed, named, back, putsCross,
                            switchCross, filed, failures, redisUp>>
             /\ simRedis' \in {simRedis, TRUE}
             /\ \/ UNCHANGED <<stage, req>>
                \/ /\ stage' = [h \in AdminHandlers |-> "idle"]
                   /\ req' = [h \in AdminHandlers |-> NoReq]
  BY <1>2 DEF Reboot
<1>3. CASE SimGoesWithout
  BY <1>3 DEF SimGoesWithout
<1>4. CASE RedisStops
  <2>1. redisUp' = FALSE /\ failures' = failures + 1
    BY <1>4 DEF RedisStops
  <2>2. UNCHANGED <<status, public, key, revoked, black, killed, named, back, putsCross,
                    switchCross, filed, stage, req>>
    BY <1>4 DEF RedisStops
  <2>3. CountsTyped'
    <3>1. failures' \in Nat /\ failures' # 0
      BY <2>1
    <3>2. redisUp' \in BOOLEAN
      BY <2>1
    <3> QED
      BY <2>2, <3>1, <3>2
  <2>4. failures' \in {failures, failures + 1}
    BY <2>1
  <2> QED
    BY ONLY <2>2, <2>3, <2>4
<1>5. CASE RedisStarts
  BY <1>5 DEF RedisStarts
<1> QED
  BY <1>1, <1>2, <1>3, <1>4, <1>5 DEF Around

LEMMA AroundKeepsTyped ==
    ASSUME KeysTyped, Around
    PROVE  KeysTyped'
<1>1. RowsTyped' /\ CountsTyped'
  BY AroundLeaves DEF KeysTyped, RowsTyped
<1>2. CASE UNCHANGED <<stage, req>>
  BY <1>1, <1>2 DEF KeysTyped, HandlersTyped
<1>3. CASE /\ stage' = [h \in AdminHandlers |-> "idle"]
           /\ req' = [h \in AdminHandlers |-> NoReq]
  BY <1>1, <1>3, NoReqTyped DEF KeysTyped, HandlersTyped, NoReq
<1> QED
  BY <1>2, <1>3, AroundLeaves

LEMMA StepKeepsKeysTyped ==
    ASSUME KeysTyped, NEW h \in AdminHandlers, Step(h)
    PROVE  KeysTyped'
  BY StepKeepsHandlersTyped, StepKeepsRowsTyped, StepKeepsCountsTyped DEF KeysTyped

-----------------------------------------------------------------------------
(* Revocation.  A key that was named stays revoked, and a request that     *)
(* came later is refused when it is filed.                                 *)

RevocationFits ==
    /\ named \subseteq revoked
    /\ \A h \in AdminHandlers :
          /\ req[h].named => req[h].kid \in named
          /\ stage[h] = "list" /\ req[h].op = "revoke" => req[h].old \subseteq revoked
    /\ \A f \in filed : ~f.named

LEMMA StepKeepsRevocation ==
    ASSUME KeysTyped, RevocationFits, NEW h \in AdminHandlers, Step(h)
    PROVE  RevocationFits'
<1>0. RowsTyped /\ HandlersTyped /\ killed \in BOOLEAN
  BY DEF KeysTyped, CountsTyped
<1> DEFINE Mute == UNCHANGED <<named, filed>> /\ revoked \subseteq revoked'
<1>1. ASSUME Ends(h), Mute PROVE RevocationFits'
  <2>1. \A g \in AdminHandlers : g # h => stage'[g] = stage[g] /\ req'[g] = req[g]
    BY <1>0, <1>1, EndsTyped
  <2>2. ~req'[h].named /\ stage'[h] = "idle"
    BY <1>0, <1>1, EndsTyped DEF NoReq
  <2> QED
    BY <1>1, <2>1, <2>2 DEF RevocationFits
<1>2. ASSUME BeginPut(h) \/ BeginRevoke(h) \/ BeginSwitch(h) PROVE RevocationFits'
  <2>1. PICK op \in AdminOps, k \in KeyOrNone : BeginCall(h, op, k)
    BY <1>2, CallsBegin
  <2>2. Mute
    BY <2>1 DEF BeginCall, registry
  <2>3. CallBegun(h, op, k)
    BY <1>0, <2>1, BeginCallReads
  <2>4. /\ ~req'[h].named /\ stage'[h] # "list"
        /\ \A g \in AdminHandlers : g # h => /\ stage'[g] = stage[g]
                                             /\ req'[g].named => req[g].named
    BY <1>0, <2>3 DEF CallBegun, HandlersTyped
  <2> QED
    BY <2>2, <2>3, <2>4 DEF CallBegun, RevocationFits
<1>3. CASE ReadKeys(h)
  <2>1. Mute
    BY <1>3 DEF ReadKeys, registry, past
  <2>2. CASE Ends(h)
    BY <1>1, <2>1, <2>2
  <2>3. CASE ~Ends(h)
    <3>1. KeysRead(h)
      BY <1>0, <1>3, <2>3, ReadKeysReads
    <3>2. stage'[h] = "commit" /\ \A g \in AdminHandlers : g # h => stage'[g] = stage[g]
      BY <1>0, <3>1 DEF KeysRead, HandlersTyped
    <3> QED
      BY <2>1, <3>1, <3>2 DEF KeysRead, RevocationFits
  <2> QED
    BY <2>2, <2>3
<1>4. CASE CommitPut(h)
  BY <1>1, <1>4 DEF CommitPut, Ends
<1>5. CASE CommitRevoke(h)
  <2>1. /\ Mute /\ req' = req /\ req[h].old \subseteq revoked'
        /\ \A g \in AdminHandlers : g # h => stage'[g] = stage[g]
    BY <1>0, <1>5 DEF CommitRevoke, past, HandlersTyped
  <2> QED
    BY <2>1 DEF RevocationFits
<1>6. CASE CommitSwitch(h)
  <2>1. /\ Mute /\ req' = req /\ req[h].op # "revoke"
        /\ \A g \in AdminHandlers : g # h => stage'[g] = stage[g]
    BY <1>0, <1>6 DEF CommitSwitch, HandlersTyped, Switches
  <2> QED
    BY <2>1 DEF RevocationFits
<1>7. CASE Block(h)
  <2>1. /\ named' = named \union req[h].old /\ UNCHANGED <<revoked, filed>> /\ Ends(h)
        /\ stage[h] = "list" /\ req[h].op \in {"suspend", "revoke"}
    BY <1>7 DEF Block, registry, Ends
  <2>2. req[h].old \subseteq revoked
    BY <1>0, <2>1 DEF RevocationFits, HandlersTyped, Switches
  <2>3. \A g \in AdminHandlers : g # h => stage'[g] = stage[g] /\ req'[g] = req[g]
    BY <1>0, <2>1, EndsTyped
  <2>4. ~req'[h].named /\ stage'[h] = "idle"
    BY <1>0, <2>1, EndsTyped DEF NoReq
  <2> QED
    BY <2>1, <2>2, <2>3, <2>4 DEF RevocationFits
<1>8. CASE Unblock(h) \/ ExpireKey(h)
  BY <1>1, <1>8 DEF Unblock, ExpireKey, Ends, registry, past
<1>9. ASSUME NEW k \in Kids, BeginRequest(h, k) PROVE RevocationFits'
  <2>1. Mute
    BY <1>9 DEF BeginRequest, registry, past
  <2>2. RequestBegun(h, k)
    BY <1>0, <1>9, BeginRequestReads
  <2>3. stage'[h] = "agent" /\ \A g \in AdminHandlers : g # h => stage'[g] = stage[g]
    BY <1>0, <2>2 DEF RequestBegun, HandlersTyped
  <2> QED
    BY <2>1, <2>2, <2>3 DEF RequestBegun, RevocationFits
<1>10. CASE ReadAgent(h)
  <2>1. Mute
    BY <1>10 DEF ReadAgent, registry, past
  <2>2. CASE Ends(h)
    BY <1>1, <2>1, <2>2
  <2>3. CASE ~Ends(h)
    <3>1. req' = req /\ stage' = [stage EXCEPT ![h] = "file"]
      BY <1>10, <2>3 DEF ReadAgent, Ends
    <3> QED
      BY <1>0, <2>1, <3>1 DEF RevocationFits, HandlersTyped
  <2> QED
    BY <2>2, <2>3
<1>11. CASE FileRequest(h)
  <2>1. PICK f : f = [killed |-> req[h].killed, named |-> req[h].named, back |-> back]
    OBVIOUS
  <2>2. /\ filed' = IF Usable(req[h].kid) THEN filed \union {f} ELSE filed
        /\ Ends(h) /\ UNCHANGED <<named, revoked>>
    BY <1>11, <2>1 DEF FileRequest, Ends, registry
  <2>3. f.named = req[h].named
    BY <2>1
  <2>4. Usable(req[h].kid) => ~req[h].named
    BY DEF Usable, Active, RevocationFits
  <2>5. \A g \in filed' : ~g.named
    BY <2>2, <2>3, <2>4 DEF RevocationFits
  <2>6. \A g \in AdminHandlers : g # h => stage'[g] = stage[g] /\ req'[g] = req[g]
    BY <1>0, <2>2, EndsTyped
  <2>7. ~req'[h].named /\ stage'[h] = "idle"
    BY <1>0, <2>2, EndsTyped DEF NoReq
  <2> QED
    BY <2>2, <2>5, <2>6, <2>7 DEF RevocationFits
<1> QED
  BY <1>2, <1>3, <1>4, <1>5, <1>6, <1>7, <1>8, <1>9, <1>10, <1>11 DEF Step

LEMMA AroundKeepsRevocation ==
    ASSUME KeysTyped, RevocationFits, Around
    PROVE  RevocationFits'
<1>1. CASE UNCHANGED <<stage, req>>
  BY <1>1, AroundLeaves DEF RevocationFits
<1>2. CASE stage' = [h \in AdminHandlers |-> "idle"] /\ req' = [h \in AdminHandlers |-> NoReq]
  <2>1. \A h \in AdminHandlers : stage'[h] = "idle" /\ ~req'[h].named
    BY <1>2 DEF NoReq
  <2> QED
    BY <2>1, AroundLeaves DEF RevocationFits
<1> QED
  BY <1>1, <1>2, AroundLeaves

-----------------------------------------------------------------------------
(* One active key.  A registration or rotation that commits replaces every *)
(* key in use, unless another one crossed it.                              *)

Changes(h) == stage[h] \in {"keys", "commit", "list"}
Putting(h) == Changes(h) /\ req[h].op \in Puts

SingleKeyFits ==
    /\ status = "none" => \A k \in Kids : key[k] = "none"
    /\ \A h \in AdminHandlers : Changes(h) =>
          /\ req[h].op # "register" => req[h].seen # "none"
          /\ req[h].seen # "none" => status # "none"
    /\ ~putsCross =>
          /\ \A j, k \in Active : j = k
          /\ \A g, h \in AdminHandlers : Putting(g) /\ Putting(h) => g = h
          /\ \A h \in AdminHandlers :
                Putting(h) /\ stage[h] = "commit" /\ req[h].seen # "none" => Active \subseteq req[h].old

\* A step that makes no key active, and after which nobody puts a key who did not before.
NoKeyPut ==
    /\ status # "none" => status' # "none"
    /\ status = "none" => key' = key /\ status' = "none"
    /\ Active' \subseteq Active
    /\ putsCross' = putsCross
    /\ \A g \in AdminHandlers : Changes(g)' =>
          /\ Changes(g) /\ req'[g].op = req[g].op /\ req'[g].seen = req[g].seen
          /\ Putting(g) /\ stage'[g] = "commit" => stage[g] = "commit" /\ req'[g].old = req[g].old

LEMMA NoKeyPutKeepsSingle ==
    ASSUME SingleKeyFits, NoKeyPut
    PROVE  SingleKeyFits'
<1>1. status' = "none" => \A k \in Kids : key'[k] = "none"
  BY DEF SingleKeyFits, NoKeyPut
<1>2. \A h \in AdminHandlers : Changes(h)' =>
          /\ req'[h].op # "register" => req'[h].seen # "none"
          /\ req'[h].seen # "none" => status' # "none"
  BY DEF SingleKeyFits, NoKeyPut
<1>3. ASSUME ~putsCross'
      PROVE  /\ \A j, k \in Active' : j = k
             /\ \A g, h \in AdminHandlers : Putting(g)' /\ Putting(h)' => g = h
             /\ \A h \in AdminHandlers :
                   Putting(h)' /\ stage'[h] = "commit" /\ req'[h].seen # "none" =>
                       Active' \subseteq req'[h].old
  <2>1. ~putsCross
    BY <1>3 DEF NoKeyPut
  <2>2. \A h \in AdminHandlers : Putting(h)' => Putting(h)
    BY DEF NoKeyPut, Putting
  <2>3. \A h \in AdminHandlers : Putting(h)' /\ stage'[h] = "commit" =>
            stage[h] = "commit" /\ req'[h].old = req[h].old /\ req'[h].seen = req[h].seen
    BY <2>2 DEF NoKeyPut, Putting
  <2>4. Active' \subseteq Active
    BY DEF NoKeyPut
  <2> QED
    BY <2>1, <2>2, <2>3, <2>4 DEF SingleKeyFits
<1> QED
  BY <1>1, <1>2, <1>3 DEF SingleKeyFits

LEMMA EndsPutNoKey ==
    ASSUME HandlersTyped, NEW h \in AdminHandlers, Ends(h),
           status # "none" => status' # "none", status = "none" => key' = key /\ status' = "none",
           Active' \subseteq Active, putsCross' = putsCross
    PROVE  NoKeyPut
<1>1. \A g \in AdminHandlers : g # h => stage'[g] = stage[g] /\ req'[g] = req[g]
  BY EndsTyped
<1>2. ~Changes(h)'
  BY EndsTyped DEF Changes
<1> QED
  BY <1>1, <1>2 DEF NoKeyPut, Changes

LEMMA BeginCallKeepsSingle ==
    ASSUME KeysTyped, SingleKeyFits, NEW h \in AdminHandlers,
           BeginPut(h) \/ BeginRevoke(h) \/ BeginSwitch(h)
    PROVE  SingleKeyFits'
<1>0. RowsTyped /\ HandlersTyped
  BY DEF KeysTyped
<1>1. PICK op \in AdminOps, k \in KeyOrNone : BeginCall(h, op, k)
  BY CallsBegin
<1>2. /\ UNCHANGED <<status, key, revoked>>
      /\ status # "none" \/ op = "register"
      /\ putsCross' = (putsCross \/ (op \in Puts /\ Ongoing(Puts)))
  BY <1>1 DEF BeginCall, registry
<1>3. CallBegun(h, op, k)
  BY <1>0, <1>1, BeginCallReads
<1>4. /\ ~Changes(h) /\ req'[h].op = op /\ req'[h].seen = status
      /\ stage'[h] = "commit" => op \notin Puts
      /\ \A g \in AdminHandlers : g # h =>
            stage'[g] = stage[g] /\ req'[g].op = req[g].op /\ req'[g].seen = req[g].seen
            /\ req'[g].old = req[g].old
  BY <1>0, <1>3 DEF CallBegun, HandlersTyped, Changes, Puts, Switches
<1>5. \A g \in AdminHandlers : g # h => (Changes(g)' <=> Changes(g)) /\ (Putting(g)' <=> Putting(g))
  BY <1>4 DEF Changes, Putting
<1>6. Active' = Active
  BY <1>2 DEF Active
<1>7. ASSUME ~putsCross'
      PROVE  /\ \A j, i \in Active' : j = i
             /\ \A g, f \in AdminHandlers : Putting(g)' /\ Putting(f)' => g = f
             /\ \A g \in AdminHandlers :
                   Putting(g)' /\ stage'[g] = "commit" /\ req'[g].seen # "none" =>
                       Active' \subseteq req'[g].old
  <2>1. ~putsCross /\ (op \in Puts => \A g \in AdminHandlers : ~Putting(g))
    BY <1>2, <1>7 DEF Ongoing, Changing, Changes, Putting
  <2>2. Putting(h)' => op \in Puts /\ stage'[h] # "commit"
    BY <1>4 DEF Putting
  <2> QED
    BY <1>4, <1>5, <1>6, <2>1, <2>2 DEF SingleKeyFits
<1> QED
  BY <1>2, <1>4, <1>5, <1>7 DEF SingleKeyFits

LEMMA ReadKeysKeepsSingle ==
    ASSUME KeysTyped, SingleKeyFits, NEW h \in AdminHandlers, ReadKeys(h)
    PROVE  SingleKeyFits'
<1>0. HandlersTyped
  BY DEF KeysTyped
<1>1. UNCHANGED <<status, key, revoked, putsCross>> /\ Active' = Active
  BY DEF ReadKeys, registry, past, Active
<1>2. CASE Ends(h)
  BY <1>0, <1>1, <1>2, EndsPutNoKey, NoKeyPutKeepsSingle
<1>3. CASE KeysRead(h)
  <2>1. /\ Changes(h) /\ req'[h].op = req[h].op /\ req'[h].seen = req[h].seen
        /\ req'[h].old = Replaced(req[h])
        /\ \A g \in AdminHandlers : g # h => stage'[g] = stage[g] /\ req'[g] = req[g]
    BY <1>0, <1>3 DEF KeysRead, HandlersTyped, Changes
  <2>2. \A g \in AdminHandlers : (Changes(g)' => Changes(g)) /\ (Putting(g)' => Putting(g))
    BY <2>1 DEF Changes, Putting
  <2>3. req[h].op \in Puts /\ req[h].seen # "none" => Active \subseteq req'[h].old
    BY <2>1 DEF Replaced, Puts
  <2>4. ASSUME ~putsCross'
        PROVE  /\ \A j, i \in Active' : j = i
               /\ \A g, f \in AdminHandlers : Putting(g)' /\ Putting(f)' => g = f
               /\ \A g \in AdminHandlers :
                     Putting(g)' /\ stage'[g] = "commit" /\ req'[g].seen # "none" =>
                         Active' \subseteq req'[g].old
    BY <1>1, <2>1, <2>2, <2>3, <2>4 DEF SingleKeyFits, Putting
  <2> QED
    BY <1>1, <2>1, <2>2, <2>4 DEF SingleKeyFits
<1> QED
  BY <1>0, <1>2, <1>3, ReadKeysReads

LEMMA CommitPutKeepsSingle ==
    ASSUME KeysTyped, SingleKeyFits, NEW h \in AdminHandlers, CommitPut(h)
    PROVE  SingleKeyFits'
<1>0. HandlersTyped /\ RowsTyped
  BY DEF KeysTyped
<1>1. /\ Ends(h) /\ UNCHANGED <<revoked, putsCross>> /\ Putting(h) /\ stage[h] = "commit"
  BY DEF CommitPut, Ends, Putting, Changes
<1>2. CASE ~Fits(req[h])
  <2>1. UNCHANGED <<status, key>>
    BY <1>2 DEF CommitPut
  <2> QED
    BY <1>0, <1>1, <2>1, EndsPutNoKey, NoKeyPutKeepsSingle DEF Active
<1>3. CASE Fits(req[h])
  <2>1. /\ key' = [k \in Kids |-> IF k = req[h].kid THEN "active"
                                  ELSE IF k \in req[h].old THEN "superseded" ELSE key[k]]
        /\ status' = Written(req[h].seen, status, "active")
    BY <1>3 DEF CommitPut
  <2>2. status' # "none"
    BY <1>1, <2>1 DEF Written, SingleKeyFits, Putting
  <2>3. \A g \in AdminHandlers : g # h => stage'[g] = stage[g] /\ req'[g] = req[g]
    BY <1>0, <1>1, EndsTyped
  <2>4. ~Changes(h)'
    BY <1>0, <1>1, EndsTyped DEF Changes
  <2>5. \A g \in AdminHandlers : Changes(g)' =>
            /\ req'[g].op # "register" => req'[g].seen # "none"
            /\ req'[g].seen # "none" => status' # "none"
    BY <2>2, <2>3, <2>4 DEF SingleKeyFits, Changes
  <2>6. ASSUME ~putsCross'
        PROVE  /\ \A j, i \in Active' : j = i
               /\ \A g \in AdminHandlers : ~Putting(g)'
    <3>1. ~putsCross
      BY <1>1, <2>6
    <3>2. Active \subseteq req[h].old \/ Active = {}
      <4>1. CASE req[h].seen = "none"
        BY <1>3, <4>1 DEF Fits, SingleKeyFits, Active
      <4>2. CASE req[h].seen # "none"
        BY <1>1, <3>1, <4>2 DEF SingleKeyFits
      <4> QED
        BY <4>1, <4>2
    <3>3. Active' \subseteq {req[h].kid}
      BY <1>1, <2>1, <3>2 DEF Active
    <3>4. \A g \in AdminHandlers : Putting(g)' => FALSE
      BY <1>1, <2>3, <2>4, <3>1 DEF SingleKeyFits, Putting, Changes
    <3> QED
      BY <3>3, <3>4
  <2> QED
    BY <2>2, <2>5, <2>6 DEF SingleKeyFits
<1> QED
  BY <1>2, <1>3

LEMMA StepKeepsSingle ==
    ASSUME KeysTyped, SingleKeyFits, NEW h \in AdminHandlers, Step(h)
    PROVE  SingleKeyFits'
<1>0. HandlersTyped /\ RowsTyped /\ killed \in BOOLEAN
  BY DEF KeysTyped, CountsTyped
<1>1. CASE BeginPut(h) \/ BeginRevoke(h) \/ BeginSwitch(h)
  BY <1>1, BeginCallKeepsSingle
<1>2. CASE ReadKeys(h)
  BY <1>2, ReadKeysKeepsSingle
<1>3. CASE CommitPut(h)
  BY <1>3, CommitPutKeepsSingle
<1>4. CASE CommitRevoke(h)
  <2>1. /\ UNCHANGED <<status, req, putsCross>> /\ stage[h] = "commit" /\ req[h].op = "revoke"
        /\ revoked' = revoked \union req[h].old
        /\ key' = [k \in Kids |-> IF k \in req[h].old THEN "revoked" ELSE key[k]]
        /\ stage' = [stage EXCEPT ![h] = "list"]
    BY <1>4 DEF CommitRevoke, past
  <2>2. status # "none" /\ Active' \subseteq Active
    BY <2>1 DEF SingleKeyFits, Changes, Active
  <2>3. NoKeyPut
    BY <1>0, <2>1, <2>2 DEF NoKeyPut, Changes, HandlersTyped
  <2> QED
    BY <2>3, NoKeyPutKeepsSingle
<1>5. CASE CommitSwitch(h)
  <2>1. /\ UNCHANGED <<key, revoked, req, putsCross>> /\ stage[h] = "commit" /\ req[h].op \in Switches
        /\ status' # status => status' \in {"suspended", "active"}
        /\ stage' = [stage EXCEPT ![h] = "list"]
    BY <1>5 DEF CommitSwitch, Written
  <2>2. status # "none" /\ Active' = Active
    BY <2>1 DEF SingleKeyFits, Changes, Active, Switches
  <2>3. NoKeyPut
    BY <1>0, <2>1, <2>2 DEF NoKeyPut, Changes, HandlersTyped
  <2> QED
    BY <2>3, NoKeyPutKeepsSingle
<1>6. CASE Block(h) \/ Unblock(h) \/ FileRequest(h)
  <2>1. Ends(h) /\ UNCHANGED <<status, key, revoked, putsCross>>
    BY <1>6 DEF Block, Unblock, FileRequest, Ends, registry
  <2> QED
    BY <1>0, <2>1, EndsPutNoKey, NoKeyPutKeepsSingle DEF Active
<1>7. CASE ExpireKey(h)
  <2>1. /\ Ends(h) /\ UNCHANGED <<status, revoked, putsCross>> /\ Usable(req[h].kid)
        /\ key' = [key EXCEPT ![req[h].kid] = "expired"]
    BY <1>7 DEF ExpireKey, Ends, past
  <2>2. Active' \subseteq Active
    BY <1>0, <2>1 DEF Active, RowsTyped
  <2>3. status # "none"
    BY <2>1 DEF Usable, Active, SingleKeyFits
  <2> QED
    BY <1>0, <2>1, <2>2, <2>3, EndsPutNoKey, NoKeyPutKeepsSingle
<1>8. ASSUME NEW k \in Kids, BeginRequest(h, k) PROVE SingleKeyFits'
  <2>1. RequestBegun(h, k) /\ UNCHANGED <<status, key, revoked, putsCross>>
    BY <1>0, <1>8, BeginRequestReads DEF BeginRequest, registry, past
  <2>2. NoKeyPut
    BY <1>0, <2>1 DEF RequestBegun, NoKeyPut, Changes, HandlersTyped, Active
  <2> QED
    BY <2>2, NoKeyPutKeepsSingle
<1>9. CASE ReadAgent(h)
  <2>1. UNCHANGED <<status, key, revoked, putsCross>>
    BY <1>9 DEF ReadAgent, registry, past
  <2>2. CASE Ends(h)
    BY <1>0, <2>1, <2>2, EndsPutNoKey, NoKeyPutKeepsSingle DEF Active
  <2>3. CASE ~Ends(h)
    <3>1. req' = req /\ stage' = [stage EXCEPT ![h] = "file"]
      BY <1>9, <2>3 DEF ReadAgent, Ends
    <3>2. NoKeyPut
      BY <1>0, <2>1, <3>1 DEF NoKeyPut, Changes, HandlersTyped, Active
    <3> QED
      BY <3>2, NoKeyPutKeepsSingle
  <2> QED
    BY <2>2, <2>3
<1> QED
  BY <1>1, <1>2, <1>3, <1>4, <1>5, <1>6, <1>7, <1>8, <1>9 DEF Step

LEMMA AroundKeepsSingle ==
    ASSUME KeysTyped, SingleKeyFits, Around
    PROVE  SingleKeyFits'
<1>1. UNCHANGED <<status, key, revoked, putsCross>>
  BY AroundLeaves
<1>2. NoKeyPut
  <2>1. CASE UNCHANGED <<stage, req>>
    BY <1>1, <2>1 DEF NoKeyPut, Changes, Active
  <2>2. CASE stage' = [h \in AdminHandlers |-> "idle"]
    BY <1>1, <2>2 DEF NoKeyPut, Changes, Active
  <2> QED
    BY <2>1, <2>2, AroundLeaves
<1> QED
  BY <1>2, NoKeyPutKeepsSingle

-----------------------------------------------------------------------------
(* Suspension.  The agent stays suspended in the database unless it put a  *)
(* key, and on the black list unless Redis failed; a request needs both to *)
(* go wrong.                                                               *)

Suspends(h) == Changes(h) /\ req[h].op = "suspend"
Reactivates(h) == Changes(h) /\ req[h].op = "reactivate"

SwitchesApart ==
    /\ \A g, h \in AdminHandlers : ~(Suspends(g) /\ Reactivates(h))
    /\ killed => \A h \in AdminHandlers : ~Reactivates(h)

\* A suspended agent is on the black list, and its requests are turned away.
KilledIsListed ==
    failures = 0 => /\ killed => Agent \in black
                    /\ \A h \in AdminHandlers : ~req[h].killed

\* The database says so too, from the commit of the suspension on.
KilledIsSuspended ==
    ~back => /\ killed => status = "suspended"
             /\ \A h \in AdminHandlers :
                   Suspends(h) /\ (stage[h] = "list" \/ req[h].seen = "suspended") =>
                       status = "suspended"

\* So a request that got by both saw an agent made active again, after a failure.
KilledFilesNothing ==
    /\ \A h \in AdminHandlers : stage[h] = "file" /\ req[h].killed => back
    /\ \A f \in filed : f.killed => f.back /\ failures > 0

SuspensionFits ==
    /\ \A h \in AdminHandlers : req[h].killed => killed
    /\ ~switchCross =>
          SwitchesApart /\ KilledIsListed /\ KilledIsSuspended /\ KilledFilesNothing

\* Nobody switches the agent, or is told that it was suspended, who was not before.
HandlersQuiet ==
    \A h \in AdminHandlers :
        /\ req'[h].killed => req[h].killed
        /\ stage'[h] = "file" => stage[h] = "file"
        /\ Changes(h)' => /\ Changes(h) /\ req'[h].op = req[h].op /\ req'[h].seen = req[h].seen
                          /\ req[h].op \in Switches => stage'[h] = stage[h]

\* A step that leaves the agent and the black list as they were.
AgentQuiet ==
    /\ UNCHANGED <<killed, back, status, switchCross, filed>>
    /\ failures' \in {failures, failures + 1}
    /\ failures' = 0 /\ Agent \in black => Agent \in black'

LEMMA QuietKeepsSuspension ==
    ASSUME failures \in Nat, SuspensionFits, AgentQuiet, HandlersQuiet
    PROVE  SuspensionFits'
<1>1. \A h \in AdminHandlers : req'[h].killed => killed'
  BY DEF SuspensionFits, AgentQuiet, HandlersQuiet
<1>2. ASSUME ~switchCross'
      PROVE  SwitchesApart' /\ KilledIsListed' /\ KilledIsSuspended' /\ KilledFilesNothing'
  <2>0. SwitchesApart /\ KilledIsListed /\ KilledIsSuspended /\ KilledFilesNothing
    BY <1>2 DEF SuspensionFits, AgentQuiet
  <2>1. \A h \in AdminHandlers : /\ Suspends(h)' => Suspends(h) /\ req'[h].seen = req[h].seen
                                                    /\ stage'[h] = stage[h]
                                 /\ Reactivates(h)' => Reactivates(h)
    BY DEF HandlersQuiet, Suspends, Reactivates, Switches
  <2>2. SwitchesApart'
    BY <2>0, <2>1 DEF SwitchesApart, AgentQuiet
  <2>3. KilledIsListed'
    BY <2>0 DEF KilledIsListed, AgentQuiet, HandlersQuiet
  <2>4. KilledIsSuspended'
    BY <2>0, <2>1 DEF KilledIsSuspended, AgentQuiet
  <2>5. KilledFilesNothing'
    BY <2>0 DEF KilledFilesNothing, AgentQuiet, HandlersQuiet
  <2> QED
    BY <2>2, <2>3, <2>4, <2>5
<1> QED
  BY <1>1, <1>2 DEF SuspensionFits

LEMMA EndsQuietly ==
    ASSUME HandlersTyped, NEW h \in AdminHandlers, Ends(h)
    PROVE  HandlersQuiet /\ ~Changes(h)' /\ ~req'[h].killed
<1>1. \A g \in AdminHandlers : g # h => stage'[g] = stage[g] /\ req'[g] = req[g]
  BY EndsTyped
<1>2. stage'[h] = "idle" /\ ~Changes(h)' /\ ~req'[h].killed
  BY EndsTyped DEF Changes, NoReq
<1> QED
  BY <1>1, <1>2 DEF HandlersQuiet, Changes

LEMMA BeginCallKeepsSuspension ==
    ASSUME KeysTyped, SuspensionFits, NEW h \in AdminHandlers,
           BeginPut(h) \/ BeginRevoke(h) \/ BeginSwitch(h)
    PROVE  SuspensionFits'
<1>0. RowsTyped /\ HandlersTyped
  BY DEF KeysTyped
<1>1. PICK op \in AdminOps, k \in KeyOrNone : BeginCall(h, op, k)
  BY CallsBegin
<1>2. UNCHANGED <<status, black, failures, back, filed>>
  BY <1>1 DEF BeginCall, registry, lists
<1>3. /\ killed' = (killed /\ op # "reactivate")
      /\ switchCross' = (switchCross \/ (op \in Switches /\ Ongoing(Switches \ {op})))
  BY <1>1 DEF BeginCall
<1>4. CallBegun(h, op, k)
  BY <1>0, <1>1, BeginCallReads
<1>5. /\ ~Changes(h) /\ req'[h].op = op /\ req'[h].seen = status /\ ~req'[h].killed
      /\ stage'[h] \in {"commit", "keys"}
      /\ \A g \in AdminHandlers : g # h =>
            /\ stage'[g] = stage[g] /\ req'[g].op = req[g].op /\ req'[g].seen = req[g].seen
            /\ req'[g].killed => req[g].killed /\ op # "reactivate"
  BY <1>0, <1>4 DEF CallBegun, HandlersTyped, Changes
<1>6. \A g \in AdminHandlers : g # h => /\ Suspends(g)' <=> Suspends(g)
                                        /\ Reactivates(g)' <=> Reactivates(g)
  BY <1>5 DEF Suspends, Reactivates, Changes
<1>7. \A g \in AdminHandlers : req'[g].killed => killed'
  BY <1>3, <1>5 DEF SuspensionFits
<1>8. ASSUME ~switchCross'
      PROVE  SwitchesApart' /\ KilledIsListed' /\ KilledIsSuspended' /\ KilledFilesNothing'
  <2>0. SwitchesApart /\ KilledIsListed /\ KilledIsSuspended /\ KilledFilesNothing
    BY <1>3, <1>8 DEF SuspensionFits
  <2>1. /\ op = "suspend" => \A g \in AdminHandlers : ~Reactivates(g)
        /\ op = "reactivate" => \A g \in AdminHandlers : ~Suspends(g)
    BY <1>3, <1>8 DEF Ongoing, Changing, Changes, Suspends, Reactivates, Switches
  <2>2. (Suspends(h)' => op = "suspend") /\ (Reactivates(h)' => op = "reactivate")
    BY <1>5 DEF Suspends, Reactivates
  <2>3. SwitchesApart'
    BY <1>3, <1>6, <2>0, <2>1, <2>2 DEF SwitchesApart
  <2>4. KilledIsListed'
    BY <1>2, <1>3, <1>5, <2>0 DEF KilledIsListed
  <2>5. KilledIsSuspended'
    BY <1>2, <1>3, <1>5, <1>6, <2>0 DEF KilledIsSuspended
  <2>6. KilledFilesNothing'
    BY <1>2, <1>5, <2>0 DEF KilledFilesNothing
  <2> QED
    BY <2>3, <2>4, <2>5, <2>6
<1> QED
  BY <1>7, <1>8 DEF SuspensionFits

\* A key put for a suspended agent makes it active, which back records.
LEMMA CommitPutKeepsSuspension ==
    ASSUME KeysTyped, SuspensionFits, NEW h \in AdminHandlers, CommitPut(h)
    PROVE  SuspensionFits'
<1>0. HandlersTyped /\ failures \in Nat /\ RowsTyped
  BY DEF KeysTyped, CountsTyped
<1>1. Ends(h) /\ UNCHANGED <<killed, switchCross, filed, failures, black>>
  BY DEF CommitPut, Ends, lists, counted
<1>2. HandlersQuiet
  BY <1>0, <1>1, EndsQuietly
<1>3. /\ back => back'
      /\ ~back' /\ status = "suspended" => status' = "suspended"
  <2>1. CASE Fits(req[h])
    <3>1. /\ status' \in {status, "active"}
          /\ back' = (back \/ (status = "suspended" /\ status' = "active"))
      BY <2>1 DEF CommitPut, Written
    <3> QED
      BY <3>1
  <2>2. CASE ~Fits(req[h])
    BY <2>2 DEF CommitPut
  <2> QED
    BY <2>1, <2>2
<1>4. \A g \in AdminHandlers : req'[g].killed => killed'
  BY <1>1, <1>2 DEF SuspensionFits, HandlersQuiet
<1>5. ASSUME ~switchCross'
      PROVE  SwitchesApart' /\ KilledIsListed' /\ KilledIsSuspended' /\ KilledFilesNothing'
  <2>0. SwitchesApart /\ KilledIsListed /\ KilledIsSuspended /\ KilledFilesNothing
    BY <1>1, <1>5 DEF SuspensionFits
  <2>1. \A g \in AdminHandlers : /\ Suspends(g)' => Suspends(g) /\ req'[g].seen = req[g].seen
                                                    /\ stage'[g] = stage[g]
                                 /\ Reactivates(g)' => Reactivates(g)
    BY <1>2 DEF HandlersQuiet, Suspends, Reactivates, Switches
  <2>2. SwitchesApart'
    BY <1>1, <2>0, <2>1 DEF SwitchesApart
  <2>3. KilledIsListed'
    BY <1>1, <1>2, <2>0 DEF KilledIsListed, HandlersQuiet
  <2>4. KilledIsSuspended'
    BY <1>1, <1>3, <2>0, <2>1 DEF KilledIsSuspended
  <2>5. KilledFilesNothing'
    BY <1>1, <1>2, <1>3, <2>0 DEF KilledFilesNothing, HandlersQuiet
  <2> QED
    BY <2>2, <2>3, <2>4, <2>5
<1> QED
  BY <1>4, <1>5 DEF SuspensionFits

LEMMA CommitSwitchKeepsSuspension ==
    ASSUME KeysTyped, SuspensionFits, NEW h \in AdminHandlers, CommitSwitch(h)
    PROVE  SuspensionFits'
<1>0. HandlersTyped
  BY DEF KeysTyped
<1>1. /\ UNCHANGED <<killed, switchCross, filed, failures, black, req>>
      /\ stage[h] = "commit" /\ req[h].op \in Switches
      /\ stage' = [stage EXCEPT ![h] = "list"]
  BY DEF CommitSwitch, lists, counted
<1>2. /\ req[h].op = "suspend" =>
            /\ status' = Written(req[h].seen, status, "suspended")
            /\ back' <=> back
      /\ req[h].op # "suspend" => ~back'
  BY DEF CommitSwitch
<1>3. /\ Changes(h) /\ stage'[h] = "list"
      /\ \A g \in AdminHandlers : g # h => stage'[g] = stage[g]
  BY <1>0, <1>1 DEF HandlersTyped, Changes
<1>4. \A g \in AdminHandlers : (Suspends(g)' <=> Suspends(g)) /\ (Reactivates(g)' <=> Reactivates(g))
  BY <1>1, <1>3 DEF Suspends, Reactivates, Changes
<1>5. \A g \in AdminHandlers : req'[g].killed => killed'
  BY <1>1 DEF SuspensionFits
<1>6. ASSUME ~switchCross'
      PROVE  SwitchesApart' /\ KilledIsListed' /\ KilledIsSuspended' /\ KilledFilesNothing'
  <2>0. SwitchesApart /\ KilledIsListed /\ KilledIsSuspended /\ KilledFilesNothing
    BY <1>1, <1>6 DEF SuspensionFits
  <2>1. SwitchesApart'
    BY <1>1, <1>4, <2>0 DEF SwitchesApart
  <2>2. KilledIsListed'
    BY <1>1, <2>0 DEF KilledIsListed
  <2>3. CASE req[h].op = "suspend"
    <3>1. ~back' => status' = "suspended"
      BY <1>2, <1>3, <2>0, <2>3 DEF KilledIsSuspended, Written, Suspends
    <3>2. KilledIsSuspended'
      BY <3>1 DEF KilledIsSuspended
    <3>3. KilledFilesNothing'
      BY <1>1, <1>2, <1>3, <2>0, <2>3 DEF KilledFilesNothing
    <3> QED
      BY <2>1, <2>2, <3>2, <3>3
  <2>4. CASE req[h].op = "reactivate"
    <3>1. Reactivates(h)
      BY <1>3, <2>4 DEF Reactivates
    <3>2. ~killed /\ \A g \in AdminHandlers : ~Suspends(g) /\ ~req[g].killed
      BY <2>0, <3>1 DEF SwitchesApart, SuspensionFits
    <3>3. KilledIsSuspended'
      BY <1>1, <1>4, <3>2 DEF KilledIsSuspended
    <3>4. KilledFilesNothing'
      BY <1>1, <2>0, <3>2 DEF KilledFilesNothing
    <3> QED
      BY <2>1, <2>2, <3>3, <3>4
  <2> QED
    BY <1>1, <2>3, <2>4 DEF Switches
<1> QED
  BY <1>5, <1>6 DEF SuspensionFits

\* The answered suspension: the commit before it made the agent suspended, and without a failure
\* the black list has it.
LEMMA BlockKeepsSuspension ==
    ASSUME KeysTyped, SuspensionFits, NEW h \in AdminHandlers, Block(h)
    PROVE  SuspensionFits'
<1>0. HandlersTyped /\ CountsTyped
  BY DEF KeysTyped
<1>1. /\ Ends(h) /\ UNCHANGED <<status, back, switchCross, filed>>
      /\ stage[h] = "list" /\ Changes(h)
      /\ killed' = (killed \/ req[h].op = "suspend")
  BY DEF Block, Ends, registry, Changes
<1>2. /\ failures' \in {failures, failures + 1}
      /\ failures' = 0 => Agent \in black'
  <2>1. PICK lost, unsaid \in BOOLEAN :
            /\ lost => unsaid
            /\ Fault(unsaid)
            /\ black' = IF lost THEN black ELSE Listed(req[h].old \union {Agent})
    BY DEF Block
  <2>2. failures' \in {failures, failures + 1} /\ (failures' = 0 => failures = 0 /\ ~unsaid)
    BY <1>0, <2>1 DEF Fault, CountsTyped
  <2>3. failures' = 0 => redisUp
    BY <1>0, <2>2 DEF CountsTyped
  <2> QED
    BY <2>1, <2>2, <2>3 DEF Listed
<1>3. HandlersQuiet /\ ~Changes(h)' /\ ~req'[h].killed
  BY <1>0, <1>1, EndsQuietly
<1>4. \A g \in AdminHandlers : req'[g].killed => killed'
  BY <1>1, <1>3 DEF SuspensionFits, HandlersQuiet
<1>5. ASSUME ~switchCross'
      PROVE  SwitchesApart' /\ KilledIsListed' /\ KilledIsSuspended' /\ KilledFilesNothing'
  <2>0. SwitchesApart /\ KilledIsListed /\ KilledIsSuspended /\ KilledFilesNothing
    BY <1>1, <1>5 DEF SuspensionFits
  <2>1. \A g \in AdminHandlers : /\ Suspends(g)' => Suspends(g) /\ req'[g].seen = req[g].seen
                                                    /\ stage'[g] = stage[g]
                                 /\ Reactivates(g)' => Reactivates(g)
    BY <1>3 DEF HandlersQuiet, Suspends, Reactivates, Switches
  <2>2. req[h].op = "suspend" => Suspends(h)
    BY <1>1 DEF Suspends
  <2>3. SwitchesApart'
    BY <1>1, <2>0, <2>1, <2>2 DEF SwitchesApart
  <2>4. KilledIsListed'
    BY <1>0, <1>2, <1>3, <2>0 DEF KilledIsListed, HandlersQuiet, CountsTyped
  <2>5. KilledIsSuspended'
    BY <1>1, <2>0, <2>1, <2>2 DEF KilledIsSuspended
  <2>6. KilledFilesNothing'
    BY <1>0, <1>1, <1>2, <1>3, <2>0 DEF KilledFilesNothing, HandlersQuiet, CountsTyped
  <2> QED
    BY <2>3, <2>4, <2>5, <2>6
<1> QED
  BY <1>4, <1>5 DEF SuspensionFits

\* The block is lifted only by a reactivation, and the agent is no longer told to be suspended then.
LEMMA UnblockKeepsSuspension ==
    ASSUME KeysTyped, SuspensionFits, NEW h \in AdminHandlers, Unblock(h)
    PROVE  SuspensionFits'
<1>0. HandlersTyped /\ CountsTyped
  BY DEF KeysTyped
<1>1. /\ Ends(h) /\ UNCHANGED <<killed, status, back, switchCross, filed>>
      /\ Reactivates(h)
  BY DEF Unblock, Ends, registry, Changes, Reactivates
<1>2. failures' \in {failures, failures + 1}
  BY DEF Unblock, Fault
<1>3. HandlersQuiet
  BY <1>0, <1>1, EndsQuietly
<1>4. \A g \in AdminHandlers : req'[g].killed => killed'
  BY <1>1, <1>3 DEF SuspensionFits, HandlersQuiet
<1>5. ASSUME ~switchCross'
      PROVE  SwitchesApart' /\ KilledIsListed' /\ KilledIsSuspended' /\ KilledFilesNothing'
  <2>0. SwitchesApart /\ KilledIsListed /\ KilledIsSuspended /\ KilledFilesNothing
    BY <1>1, <1>5 DEF SuspensionFits
  <2>1. ~killed /\ \A g \in AdminHandlers : ~Suspends(g)
    BY <1>1, <2>0 DEF SwitchesApart
  <2>2. \A g \in AdminHandlers : ~Suspends(g)' /\ ~req'[g].killed
    BY <1>3, <2>1 DEF HandlersQuiet, Suspends, SuspensionFits
  <2> QED
    BY <1>0, <1>1, <1>2, <2>0, <2>1, <2>2
       DEF SwitchesApart, KilledIsListed, KilledIsSuspended, KilledFilesNothing, CountsTyped
<1> QED
  BY <1>4, <1>5 DEF SuspensionFits

\* Without a failure, the black list turns away the request of a suspended agent.
LEMMA BeginRequestKeepsSuspension ==
    ASSUME KeysTyped, SuspensionFits, NEW h \in AdminHandlers, NEW k \in Kids, BeginRequest(h, k)
    PROVE  SuspensionFits'
<1>0. HandlersTyped /\ CountsTyped /\ killed \in BOOLEAN
  BY DEF KeysTyped, CountsTyped
<1>1. RequestBegun(h, k)
  BY <1>0, BeginRequestReads
<1>2. /\ UNCHANGED <<killed, back, status, switchCross, filed, failures, black>>
      /\ ~Blacklisted(k)
  BY DEF BeginRequest, registry, lists, past
<1>3. /\ stage'[h] = "agent" /\ ~Changes(h)' /\ req'[h].killed = killed
      /\ \A g \in AdminHandlers : g # h => stage'[g] = stage[g] /\ req'[g] = req[g]
  BY <1>0, <1>1 DEF RequestBegun, HandlersTyped, Changes
<1>4. \A g \in AdminHandlers : req'[g].killed => killed'
  BY <1>2, <1>3 DEF SuspensionFits
<1>5. ASSUME ~switchCross'
      PROVE  SwitchesApart' /\ KilledIsListed' /\ KilledIsSuspended' /\ KilledFilesNothing'
  <2>0. SwitchesApart /\ KilledIsListed /\ KilledIsSuspended /\ KilledFilesNothing
    BY <1>2, <1>5 DEF SuspensionFits
  <2>1. \A g \in AdminHandlers : /\ Suspends(g)' => Suspends(g) /\ req'[g].seen = req[g].seen
                                                    /\ stage'[g] = stage[g]
                                 /\ Reactivates(g)' => Reactivates(g)
    BY <1>3 DEF Suspends, Reactivates, Changes
  <2>2. failures = 0 => ~killed
    BY <1>0, <1>2, <2>0 DEF KilledIsListed, Blacklisted, CountsTyped
  <2>3. SwitchesApart'
    BY <1>2, <2>0, <2>1 DEF SwitchesApart
  <2>4. KilledIsListed'
    BY <1>2, <1>3, <2>0, <2>2 DEF KilledIsListed
  <2>5. KilledIsSuspended'
    BY <1>2, <2>0, <2>1 DEF KilledIsSuspended
  <2>6. KilledFilesNothing'
    BY <1>2, <1>3, <2>0 DEF KilledFilesNothing
  <2> QED
    BY <2>3, <2>4, <2>5, <2>6
<1> QED
  BY <1>4, <1>5 DEF SuspensionFits

\* The database refuses a suspended agent that did not put a key.
LEMMA ReadAgentKeepsSuspension ==
    ASSUME KeysTyped, SuspensionFits, NEW h \in AdminHandlers, ReadAgent(h)
    PROVE  SuspensionFits'
<1>0. HandlersTyped /\ failures \in Nat
  BY DEF KeysTyped, CountsTyped
<1>1. UNCHANGED <<killed, back, status, switchCross, filed, failures, black>>
  BY DEF ReadAgent, registry, lists, counted, past
<1>2. CASE Ends(h)
  <2>1. AgentQuiet /\ HandlersQuiet
    BY <1>0, <1>1, <1>2, EndsQuietly DEF AgentQuiet
  <2> QED
    BY <1>0, <2>1, QuietKeepsSuspension
<1>3. CASE ~Ends(h)
  <2>1. /\ status = "active" /\ req' = req /\ stage[h] = "agent"
        /\ stage' = [stage EXCEPT ![h] = "file"]
    BY <1>3 DEF ReadAgent, Ends, Lives
  <2>2. /\ stage'[h] = "file"
        /\ \A g \in AdminHandlers : g # h => stage'[g] = stage[g]
    BY <1>0, <2>1 DEF HandlersTyped
  <2>3. \A g \in AdminHandlers : /\ Suspends(g)' => Suspends(g) /\ stage'[g] = stage[g]
                                 /\ Reactivates(g)' => Reactivates(g)
    BY <2>1, <2>2 DEF Suspends, Reactivates, Changes
  <2>4. ASSUME ~switchCross'
        PROVE  SwitchesApart' /\ KilledIsListed' /\ KilledIsSuspended' /\ KilledFilesNothing'
    <3>0. SwitchesApart /\ KilledIsListed /\ KilledIsSuspended /\ KilledFilesNothing
      BY <1>1, <2>4 DEF SuspensionFits
    <3>1. req[h].killed => back
      BY <2>1, <3>0 DEF SuspensionFits, KilledIsSuspended
    <3>2. KilledFilesNothing'
      BY <1>1, <2>1, <2>2, <3>0, <3>1 DEF KilledFilesNothing
    <3>3. SwitchesApart' /\ KilledIsListed' /\ KilledIsSuspended'
      BY <1>1, <2>1, <2>3, <3>0 DEF SwitchesApart, KilledIsListed, KilledIsSuspended
    <3> QED
      BY <3>2, <3>3
  <2> QED
    BY <1>1, <2>1, <2>4 DEF SuspensionFits
<1> QED
  BY <1>2, <1>3

LEMMA FileRequestKeepsSuspension ==
    ASSUME KeysTyped, SuspensionFits, NEW h \in AdminHandlers, FileRequest(h)
    PROVE  SuspensionFits'
<1>0. HandlersTyped /\ failures \in Nat
  BY DEF KeysTyped, CountsTyped
<1>1. PICK f : f = [killed |-> req[h].killed, named |-> req[h].named, back |-> back]
  OBVIOUS
<1>2. /\ Ends(h) /\ UNCHANGED <<killed, back, status, switchCross, failures, black>>
      /\ filed' \subseteq filed \union {f} /\ stage[h] = "file"
  BY <1>1 DEF FileRequest, Ends, registry, lists, counted
<1>3. HandlersQuiet
  BY <1>0, <1>2, EndsQuietly
<1>4. \A g \in AdminHandlers : req'[g].killed => killed'
  BY <1>2, <1>3 DEF SuspensionFits, HandlersQuiet
<1>5. ASSUME ~switchCross'
      PROVE  SwitchesApart' /\ KilledIsListed' /\ KilledIsSuspended' /\ KilledFilesNothing'
  <2>0. SwitchesApart /\ KilledIsListed /\ KilledIsSuspended /\ KilledFilesNothing
    BY <1>2, <1>5 DEF SuspensionFits
  <2>1. \A g \in AdminHandlers : /\ Suspends(g)' => Suspends(g) /\ req'[g].seen = req[g].seen
                                                    /\ stage'[g] = stage[g]
                                 /\ Reactivates(g)' => Reactivates(g)
    BY <1>3 DEF HandlersQuiet, Suspends, Reactivates, Switches
  <2>2. f.killed => back /\ failures > 0
    <3>1. (f.killed <=> req[h].killed) /\ (f.back <=> back)
      BY <1>1
    <3>2. req[h].killed => back /\ failures # 0
      BY <1>2, <2>0 DEF KilledFilesNothing, KilledIsListed
    <3> QED
      BY <1>0, <3>1, <3>2
  <2>3. f.back <=> back
    BY <1>1
  <2>4. KilledFilesNothing'
    BY <1>2, <1>3, <2>0, <2>2, <2>3 DEF KilledFilesNothing, HandlersQuiet
  <2>5. SwitchesApart' /\ KilledIsListed' /\ KilledIsSuspended'
    BY <1>2, <1>3, <2>0, <2>1 DEF SwitchesApart, KilledIsListed, KilledIsSuspended, HandlersQuiet
  <2> QED
    BY <2>4, <2>5
<1> QED
  BY <1>4, <1>5 DEF SuspensionFits

LEMMA StepKeepsSuspension ==
    ASSUME KeysTyped, SuspensionFits, NEW h \in AdminHandlers, Step(h)
    PROVE  SuspensionFits'
<1>0. HandlersTyped /\ failures \in Nat
  BY DEF KeysTyped, CountsTyped
<1>1. CASE BeginPut(h) \/ BeginRevoke(h) \/ BeginSwitch(h)
  BY <1>1, BeginCallKeepsSuspension
<1>2. CASE CommitPut(h) \/ CommitSwitch(h)
  BY <1>2, CommitPutKeepsSuspension, CommitSwitchKeepsSuspension
<1>3. CASE Block(h) \/ Unblock(h)
  BY <1>3, BlockKeepsSuspension, UnblockKeepsSuspension
<1>4. ASSUME NEW k \in Kids, BeginRequest(h, k) PROVE SuspensionFits'
  BY <1>4, BeginRequestKeepsSuspension
<1>5. CASE ReadAgent(h) \/ FileRequest(h)
  BY <1>5, ReadAgentKeepsSuspension, FileRequestKeepsSuspension
<1>6. CASE ReadKeys(h)
  <2>1. AgentQuiet
    BY <1>6 DEF ReadKeys, AgentQuiet, registry, lists, counted, past
  <2>2. HandlersQuiet
    <3>1. CASE Ends(h)
      BY <1>0, <3>1, EndsQuietly
    <3>2. CASE KeysRead(h)
      <4>1. req[h].op \notin Switches
        BY <1>0, <3>2 DEF KeysRead, HandlersTyped, Puts, Switches
      <4> QED
        BY <1>0, <3>2, <4>1 DEF KeysRead, HandlersTyped, HandlersQuiet, Changes
    <3> QED
      BY <1>0, <1>6, <3>1, <3>2, ReadKeysReads
  <2> QED
    BY <1>0, <2>1, <2>2, QuietKeepsSuspension
<1>7. CASE CommitRevoke(h)
  <2>1. /\ AgentQuiet /\ req' = req /\ stage[h] = "commit" /\ req[h].op \notin Switches
        /\ stage' = [stage EXCEPT ![h] = "list"]
    BY <1>7 DEF CommitRevoke, AgentQuiet, lists, counted, past, Switches
  <2>2. HandlersQuiet
    BY <1>0, <2>1 DEF HandlersQuiet, HandlersTyped, Changes
  <2> QED
    BY <1>0, <2>1, <2>2, QuietKeepsSuspension
<1>8. CASE ExpireKey(h)
  <2>1. AgentQuiet /\ Ends(h)
    BY <1>8 DEF ExpireKey, AgentQuiet, Ends, lists, counted, past
  <2> QED
    BY <1>0, <2>1, EndsQuietly, QuietKeepsSuspension
<1> QED
  BY <1>1, <1>2, <1>3, <1>4, <1>5, <1>6, <1>7, <1>8 DEF Step

LEMMA AroundKeepsSuspension ==
    ASSUME KeysTyped, SuspensionFits, Around
    PROVE  SuspensionFits'
<1>0. failures \in Nat
  BY DEF KeysTyped, CountsTyped
<1>1. AgentQuiet
  BY AroundLeaves DEF AgentQuiet
<1>2. HandlersQuiet
  <2>1. CASE UNCHANGED <<stage, req>>
    BY <2>1 DEF HandlersQuiet, Changes
  <2>2. CASE /\ stage' = [h \in AdminHandlers |-> "idle"]
             /\ req' = [h \in AdminHandlers |-> NoReq]
    BY <2>2 DEF HandlersQuiet, Changes, NoReq
  <2> QED
    BY <2>1, <2>2, AroundLeaves
<1> QED
  BY <1>0, <1>1, <1>2, QuietKeepsSuspension

-----------------------------------------------------------------------------
(* The four properties. *)

KeysInv == KeysTyped /\ RevocationFits /\ SingleKeyFits /\ SuspensionFits

LEMMA KeysStart == InitKeys => KeysInv
<1> SUFFICES ASSUME InitKeys PROVE KeysInv
  OBVIOUS
<1>1. public \in KeyOrNone /\ None \notin Kids
  BY KeysAssumption DEF InitKeys, KeyOrNone, Entities
<1>2. RowsTyped
  BY <1>1 DEF InitKeys, RowsTyped, AgentStatus, KeyStatus
<1>3. HandlersTyped
  BY NoReqTyped DEF InitKeys, HandlersTyped, NoReq
<1>4. CountsTyped
  BY DEF InitKeys, CountsTyped
<1>5. RevocationFits
  BY DEF InitKeys, RevocationFits, NoReq
<1>6. SingleKeyFits
  <2>1. status = "none" => \A k \in Kids : key[k] = "none"
    BY <1>1 DEF InitKeys
  <2>2. \A h \in AdminHandlers : ~Changes(h)
    BY DEF InitKeys, Changes
  <2>3. Active \subseteq {public}
    BY DEF InitKeys, Active
  <2> QED
    BY <2>1, <2>2, <2>3 DEF SingleKeyFits, Putting
<1>7. SuspensionFits
  <2>1. \A h \in AdminHandlers : ~Changes(h) /\ ~req[h].killed /\ stage[h] = "idle"
    BY DEF InitKeys, Changes, NoReq
  <2>2. ~killed /\ filed = {}
    BY DEF InitKeys
  <2> QED
    BY <2>1, <2>2 DEF SuspensionFits, SwitchesApart, KilledIsListed, KilledIsSuspended,
                      KilledFilesNothing, Suspends, Reactivates
<1> QED
  BY <1>2, <1>3, <1>4, <1>5, <1>6, <1>7 DEF KeysInv, KeysTyped

LEMMA KeysPreserved == KeysInv /\ [NextKeys]_keysVars => KeysInv'
<1> SUFFICES ASSUME KeysInv, [NextKeys]_keysVars PROVE KeysInv'
  OBVIOUS
<1>1. ASSUME NEW h \in AdminHandlers, Step(h) PROVE KeysInv'
  BY <1>1, StepKeepsKeysTyped, StepKeepsRevocation, StepKeepsSingle, StepKeepsSuspension
     DEF KeysInv
<1>2. CASE Around
  BY <1>2, AroundKeepsTyped, AroundKeepsRevocation, AroundKeepsSingle, AroundKeepsSuspension
     DEF KeysInv
<1>3. CASE UNCHANGED keysVars
  <2> USE <1>3 DEF keysVars, registry, lists, counted, past
  <2>1. KeysTyped'
    BY DEF KeysInv, KeysTyped, RowsTyped, HandlersTyped, CountsTyped
  <2>2. RevocationFits'
    BY DEF KeysInv, RevocationFits
  <2>3. SingleKeyFits'
    BY DEF KeysInv, SingleKeyFits, Putting, Changes, Active
  <2>4. SuspensionFits'
    BY DEF KeysInv, SuspensionFits, SwitchesApart, KilledIsListed, KilledIsSuspended,
           KilledFilesNothing, Suspends, Reactivates, Changes
  <2> QED
    BY <2>1, <2>2, <2>3, <2>4 DEF KeysInv
<1> QED
  BY <1>1, <1>2, <1>3 DEF NextKeys, Around

LEMMA KeysInvariant == KeysSpec => []KeysInv
  BY KeysStart, KeysPreserved, PTL DEF KeysSpec

\* A request signed with a key whose revocation was answered is never filed
\* (admin_revoke_agent_key, POST /api/agent-requests).
THEOREM RevocationIsFinal == KeysSpec => []RevokedKeyFilesNothing
<1>1. KeysInv => RevokedKeyFilesNothing
  BY DEF KeysInv, RevocationFits, RevokedKeyFilesNothing
<1> QED
  BY <1>1, KeysInvariant, PTL

\* An agent has one active key unless two registrations or rotations crossed (register_agent,
\* rotate_agent_key).
THEOREM AgentHasOneKey == KeysSpec => []OneActiveKey
<1>1. KeysInv => OneActiveKey
  <2> SUFFICES ASSUME KeysInv, ~putsCross PROVE ~(Cardinality(Active) > 1)
    BY DEF OneActiveKey
  <2>1. \A j, k \in Active : j = k
    BY DEF KeysInv, SingleKeyFits
  <2>2. CASE Active = {}
    BY <2>2, FS_EmptySet
  <2>3. ASSUME NEW k \in Active PROVE Cardinality(Active) = 1
    <3>1. Active = {k}
      BY <2>1, <2>3
    <3> QED
      BY <3>1, FS_Singleton
  <2> QED
    BY <2>2, <2>3
<1> QED
  BY <1>1, KeysInvariant, PTL

\* A request of a suspended agent is filed only when the agent put a key meanwhile and Redis
\* failed, or a reactivation crossed the suspension (admin_suspend_agent).
THEOREM SuspensionFilesNothing == KeysSpec => []SuspendedFilesNothing
<1>1. KeysInv => SuspendedFilesNothing
  BY DEF KeysInv, SuspensionFits, KilledFilesNothing, SuspendedFilesNothing
<1> QED
  BY <1>1, KeysInvariant, PTL

\* The simulation refuses a suspended agent unless Redis failed or a reactivation crossed the
\* suspension (is_simulation_entity_revoked of simulations/api/core/auth.py).
THEOREM SuspensionReachesSimulation == KeysSpec => []SuspendedIsRefused
<1>1. KeysInv => SuspendedIsRefused
  <2> SUFFICES ASSUME KeysInv, killed, ~(failures > 0), ~switchCross PROVE ~SimServes
    BY DEF SuspendedIsRefused
  <2>1. failures = 0 /\ redisUp /\ simRedis
    BY DEF KeysInv, KeysTyped, CountsTyped
  <2>2. Agent \in black
    BY <2>1 DEF KeysInv, SuspensionFits, KilledIsListed
  <2> QED
    BY <2>1, <2>2 DEF SimServes
<1> QED
  BY <1>1, KeysInvariant, PTL
=============================================================================
