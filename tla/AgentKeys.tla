------------------------------ MODULE AgentKeys ------------------------------
(***************************************************************************)
(* The keys of an agent on the admin server: registration, rotation,       *)
(* revocation, suspension and reactivation (server.py, db/crud.py), the    *)
(* black list in Redis and the messages of the channel                     *)
(* security:revocations (security.py), the agent's requests for documents, *)
(* and the simulation API, which asks Redis and a cache that follows the   *)
(* channel (simulations/api/core/auth.py).                                 *)
(*                                                                         *)
(* Agents do not share anything, so one is modelled.  A handler of the     *)
(* admin server runs without interruption from one await to the next;      *)
(* calls of Redis are not awaited, calls of the database are.  Signatures, *)
(* certificates and nonces are the subject of SignedRequests.              *)
(***************************************************************************)
EXTENDS Integers, FiniteSets, SequencesExt

CONSTANTS
    AdminHandlers,  \* handlers of the admin server, each serves one request at a time
    Kids,           \* keys of the agent, by kid
    Agent,          \* the entry "agent:<name>" of the black list
    None,
    First,          \* agents.public_key at the start
    MaxAdminCalls,  \* calls that change the agent or its keys
    MaxRequests,    \* requests of the agent for documents
    MaxFailures, MaxReboots   \* bounds

Entities == Kids \union {Agent}
Subscribers == {"admin", "sim"}

ASSUME KeysAssumption ==
    Agent \notin Kids /\ None \notin Entities /\ First \subseteq Kids \union {None}

VARIABLES
    status,      \* agents.status, "none" before the first registration
    public,      \* agents.public_key
    key,         \* agent_keys.status of every kid, "none" without a row
    revoked,     \* kids whose is_revoked is set
    redisUp,     \* Redis answers
    black,       \* revoked:agent and revoked:agent_key in Redis
    known,       \* known[s]: _revoked_certs_memory, _simulation_revoked_cache
    queue,       \* queue[s]: messages on their way to the listener of s
    hears,       \* subscribers whose listener runs
    simRedis,    \* the NonceStore of the simulation has a client of Redis, or will make one
    stage, req,  \* stage[h], req[h]: the step and the locals of handler h
    calls, requests, failures, reboots   \* counted for the bounds

registry == <<status, public, key, revoked>>
lists == <<redisUp, black, known, queue, hears, simRedis>>
counted == <<calls, requests, failures, reboots>>

VARIABLES        \* history
    killed,      \* a suspension was answered and no reactivation began since
    named,       \* keys whose revocation was answered
    back,        \* a registration or rotation made a suspended agent active again
    putsCross,   \* two registrations or rotations were under way at once
    switchCross, \* a suspension and a reactivation were under way at once
    missed,      \* subscribers that may have missed a message
    filed        \* requests filed: whether the agent was killed all the while, whether the key
                 \* was named when they came, and what back was when they were filed

past == <<killed, named, back, putsCross, switchCross, missed, filed>>
keysVars == <<registry, lists, stage, req, counted, past>>

NoReq == [op |-> None, kid |-> None, seen |-> None, public |-> None, old |-> {}, killed |-> FALSE,
          named |-> FALSE]

\* An agent without a row, or registered with a key.
InitKeys ==
    /\ public \in First /\ revoked = {}
    /\ status = IF public = None THEN "none" ELSE "active"
    /\ key = [k \in Kids |-> IF k = public THEN "active" ELSE "none"]
    /\ redisUp = TRUE /\ black = {} /\ simRedis = TRUE
    /\ known = [s \in Subscribers |-> {}]
    /\ queue = [s \in Subscribers |-> << >>] /\ hears = Subscribers
    /\ stage = [h \in AdminHandlers |-> "idle"] /\ req = [h \in AdminHandlers |-> NoReq]
    /\ calls = 0 /\ requests = 0 /\ failures = 0 /\ reboots = 0
    /\ killed = FALSE /\ named = {} /\ back = FALSE /\ missed = {}
    /\ putsCross = FALSE /\ switchCross = FALSE /\ filed = {}

-----------------------------------------------------------------------------
(* Keys of the agent in the database. *)

Puts == {"register", "rotate"}
Switches == {"suspend", "reactivate"}

Active == {k \in Kids : key[k] = "active" /\ k \notin revoked}
Changing == {h \in AdminHandlers : stage[h] \in {"keys", "commit", "list"}}
Ongoing(ops) == \E h \in Changing : req[h].op \in ops

\* Every call reads the agent first; register alone goes on without one.
BeginCall(h, op, k) ==
    /\ stage[h] = "idle" /\ calls < MaxAdminCalls
    /\ status # "none" \/ op = "register"
    /\ calls' = calls + 1
    /\ stage' = [stage EXCEPT ![h] = IF op \in Switches THEN "commit" ELSE "keys"]
    /\ req' = [g \in AdminHandlers |->
          IF g = h THEN [NoReq EXCEPT !.op = op, !.kid = k, !.seen = status, !.public = public]
          ELSE [req[g] EXCEPT !.killed = @ /\ op # "reactivate"]]
    /\ killed' = (killed /\ op # "reactivate")
    /\ putsCross' = (putsCross \/ (op \in Puts /\ Ongoing(Puts)))
    /\ switchCross' = (switchCross \/ (op \in Switches /\ Ongoing(Switches \ {op})))
    /\ UNCHANGED <<registry, lists, requests, failures, reboots, named, back, missed, filed>>

\* register_agent, of the agent itself, and rotate_agent_key, of the agent or an administrator
BeginPut(h) == \E op \in Puts : \E k \in Kids : BeginCall(h, op, k)
\* revoke_agent_key: one key, or all that are active
BeginRevoke(h) == \E k \in Kids \union {None} : BeginCall(h, "revoke", k)
BeginSwitch(h) == \E op \in Switches : BeginCall(h, op, None)

\* Mutant: the keys in use stay active.
ReplacedNot(r) == IF r.op = "revoke" THEN Active ELSE {}
\* The keys to replace or to revoke are read; nothing to revoke is an error (400).
Replaced(r) ==
    IF r.op # "revoke" THEN IF r.seen = "none" THEN {} ELSE Active
    ELSE IF r.kid = None THEN Active
    ELSE {r.kid} \ (revoked \union {k \in Kids : key[k] = "none"})

ReadKeys(h) ==
    /\ stage[h] = "keys"
    /\ LET old == Replaced(req[h]) IN
        IF req[h].op = "revoke" /\ old = {}
          THEN /\ stage' = [stage EXCEPT ![h] = "idle"] /\ req' = [req EXCEPT ![h] = NoReq]
          ELSE /\ stage' = [stage EXCEPT ![h] = "commit"] /\ req' = [req EXCEPT ![h].old = old]
    /\ UNCHANGED <<registry, lists, counted, past>>

\* kid is unique, and so is the name of the agent: a second row fails (500), and nothing is stored.
Fits(r) == key[r.kid] = "none" /\ (r.seen = "none" => status = "none")

\* Only the columns that differ from what was read are written.
Written(seen, now, new) == IF seen = new THEN now ELSE new

CommitPut(h) ==
    LET r == req[h] IN
    /\ stage[h] = "commit" /\ r.op \in Puts
    /\ IF Fits(r)
         THEN /\ key' = [k \in Kids |-> IF k = r.kid THEN "active"
                                        ELSE IF k \in r.old THEN "superseded" ELSE key[k]]
              /\ public' = r.kid
              /\ status' = Written(r.seen, status, "active")
              /\ back' = (back \/ (status = "suspended" /\ status' = "active"))
         ELSE UNCHANGED <<key, public, status, back>>
    /\ stage' = [stage EXCEPT ![h] = "idle"] /\ req' = [req EXCEPT ![h] = NoReq]
    /\ UNCHANGED <<revoked, lists, counted, killed, named, putsCross, switchCross,
                   missed, filed>>

CommitRevoke(h) ==
    LET r == req[h] IN
    /\ stage[h] = "commit" /\ r.op = "revoke"
    /\ key' = [k \in Kids |-> IF k \in r.old THEN "revoked" ELSE key[k]]
    /\ revoked' = revoked \union r.old
    /\ public' = IF r.public \in r.old THEN None ELSE public
    /\ stage' = [stage EXCEPT ![h] = "list"]
    /\ UNCHANGED <<status, lists, req, counted, past>>

CommitSwitch(h) ==
    LET new == IF req[h].op = "suspend" THEN "suspended" ELSE "active" IN
    /\ stage[h] = "commit" /\ req[h].op \in Switches
    /\ status' = Written(req[h].seen, status, new)
    /\ back' = (back /\ req[h].op = "suspend")
    /\ stage' = [stage EXCEPT ![h] = "list"]
    /\ UNCHANGED <<public, key, revoked, lists, req, counted, killed, named, putsCross, switchCross,
                   missed, filed>>

-----------------------------------------------------------------------------
(* The black list.  A listed key takes its agent with it; only reactivation lifts that. *)

\* A message for every entry, to every listener that runs; lost: publishing fails.
Publish(op, entries, lost) ==
    queue' = [s \in Subscribers |->
                IF s \in hears /\ redisUp /\ ~lost
                  THEN queue[s] \o [i \in DOMAIN entries |-> [op |-> op, entity |-> entries[i]]]
                  ELSE queue[s]]

\* lost: an error of Redis that is logged and forgotten.
Fault(lost) ==
    /\ lost => redisUp /\ failures < MaxFailures
    /\ failures' = IF lost THEN failures + 1 ELSE failures
    /\ missed' = IF lost \/ ~redisUp THEN Subscribers ELSE missed

\* revoke_agent_key_in_redis, and the answer
Entries(r) == IF r.op = "suspend" THEN <<Agent>>
              ELSE FlattenSeq([i \in 1 .. Cardinality(r.old) |-> <<SetToSeq(r.old)[i], Agent>>])

\* Mutant: only the process that revokes knows.
ListedNot(S) == black
Listed(S) == IF redisUp THEN black \union S ELSE black

Block(h) ==
    \E lost, unsaid \in BOOLEAN :
        LET S == req[h].old \union {Agent} IN
        /\ stage[h] = "list" /\ req[h].op \in {"suspend", "revoke"}
        /\ lost => unsaid
        /\ Fault(unsaid)
        /\ known' = [known EXCEPT !["admin"] = @ \union S]
        /\ black' = IF lost THEN black ELSE Listed(S)
        /\ Publish("add", Entries(req[h]), unsaid)
        /\ killed' = (killed \/ req[h].op = "suspend")
        /\ named' = named \union req[h].old
        /\ stage' = [stage EXCEPT ![h] = "idle"] /\ req' = [req EXCEPT ![h] = NoReq]
        /\ UNCHANGED <<registry, redisUp, hears, simRedis, calls, requests, reboots, back,
                       putsCross, switchCross, filed>>

\* unrevoke_agent_key_in_redis, and the answer
Unblock(h) ==
    \E lost, unsaid \in BOOLEAN :
        /\ stage[h] = "list" /\ req[h].op = "reactivate"
        /\ lost => unsaid
        /\ Fault(unsaid)
        /\ known' = [known EXCEPT !["admin"] = @ \ {Agent}]
        /\ black' = IF redisUp /\ ~lost THEN black \ {Agent} ELSE black
        /\ Publish("remove", <<Agent>>, unsaid)
        /\ stage' = [stage EXCEPT ![h] = "idle"] /\ req' = [req EXCEPT ![h] = NoReq]
        /\ UNCHANGED <<registry, redisUp, hears, simRedis, calls, requests, reboots, killed, named,
                       back, putsCross, switchCross, filed>>

\* Mutant: a lifted block is taken for a new one.
HeardAdd(s, m) == known[s] \union {m.entity}
Heard(s, m) == IF m.op = "add" THEN known[s] \union {m.entity} ELSE known[s] \ {m.entity}

\* The listeners take one message at a time.
Hear(s) ==
    /\ s \in hears /\ queue[s] # << >>
    /\ known' = [known EXCEPT ![s] = Heard(s, Head(queue[s]))]
    /\ queue' = [queue EXCEPT ![s] = Tail(@)]
    /\ UNCHANGED <<registry, redisUp, black, hears, simRedis, stage, req, counted, past>>

\* An error of Redis ends a listener for good.
ListenerEnds(s) ==
    /\ s \in hears /\ ~redisUp
    /\ hears' = hears \ {s}
    /\ queue' = [queue EXCEPT ![s] = << >>]
    /\ missed' = missed \union {s}
    /\ UNCHANGED <<registry, redisUp, black, known, simRedis, stage, req, counted, killed, named,
                   back, putsCross, switchCross, filed>>

-----------------------------------------------------------------------------
(* POST /api/agent-requests, with a token signed with key k *)

\* is_agent_key_revoked_in_redis: the memory of the process, then Redis.
Blacklisted(k) == known["admin"] \intersect {k, Agent} # {}
                  \/ (redisUp /\ black \intersect {k, Agent} # {})

BeginRequest(h, k) ==
    /\ stage[h] = "idle" /\ requests < MaxRequests
    /\ requests' = requests + 1
    /\ ~Blacklisted(k)
    /\ stage' = [stage EXCEPT ![h] = "agent"]
    /\ req' = [req EXCEPT ![h] =
          [NoReq EXCEPT !.kid = k, !.killed = killed, !.named = k \in named]]
    /\ UNCHANGED <<registry, lists, calls, failures, reboots, past>>

\* Mutant: the status of the agent is not asked.
LivesAlways == status # "none"
Lives == status = "active"

ReadAgent(h) ==
    /\ stage[h] = "agent"
    /\ IF Lives THEN /\ stage' = [stage EXCEPT ![h] = "file"] /\ UNCHANGED req
                ELSE /\ stage' = [stage EXCEPT ![h] = "idle"] /\ req' = [req EXCEPT ![h] = NoReq]
    /\ UNCHANGED <<registry, lists, counted, past>>

\* Mutant: a revoked key is told by its status, which a rotation under way overwrites.
UsableByStatus(k) == key[k] \in {"active", "superseded"}
\* get_active_agent_key: the key is active, not revoked and not expired.
Usable(k) == k \in Active

\* The status of the agent is not read again.
\* The row is written a few awaits after the key was found; nothing else reads or changes it,
\* so the two are one step.
FileRequest(h) ==
    /\ stage[h] = "file"
    /\ filed' = IF Usable(req[h].kid)
                  THEN filed \union {[killed |-> req[h].killed, named |-> req[h].named,
                                      back |-> back]}
                  ELSE filed
    /\ stage' = [stage EXCEPT ![h] = "idle"] /\ req' = [req EXCEPT ![h] = NoReq]
    /\ UNCHANGED <<registry, lists, counted, killed, named, back, putsCross, switchCross,
                   missed>>

\* An expired key is marked when it is used.
ExpireKey(h) ==
    LET k == req[h].kid IN
    /\ stage[h] = "file" /\ Usable(k)
    /\ key' = [key EXCEPT ![k] = "expired"]
    /\ public' = IF public = k THEN None ELSE public
    /\ stage' = [stage EXCEPT ![h] = "idle"] /\ req' = [req EXCEPT ![h] = NoReq]
    /\ UNCHANGED <<status, revoked, lists, counted, past>>

-----------------------------------------------------------------------------
(* The simulation API.  Its client of Redis is made at its first request, and never again. *)

SimServes == Agent \notin known["sim"] /\ ~(simRedis /\ redisUp /\ Agent \in black)

\* The first request comes while Redis does not answer.
SimGoesWithout ==
    /\ simRedis /\ ~redisUp
    /\ simRedis' = FALSE
    /\ UNCHANGED <<registry, redisUp, black, known, queue, hears, stage, req, counted, past>>

-----------------------------------------------------------------------------
RedisStops ==
    /\ redisUp /\ failures < MaxFailures
    /\ redisUp' = FALSE /\ failures' = failures + 1
    /\ \E lost \in {{}, Subscribers} :
        /\ queue' = [s \in Subscribers |-> IF s \in lost THEN << >> ELSE queue[s]]
        /\ missed' = missed \union lost
    /\ UNCHANGED <<registry, black, known, hears, simRedis, stage, req, calls, requests, reboots,
                   killed, named, back, putsCross, switchCross, filed>>

RedisStarts ==
    /\ ~redisUp /\ redisUp' = TRUE
    /\ UNCHANGED <<registry, black, known, queue, hears, simRedis, stage, req, counted, past>>

\* The memory is lost; the listener subscribes again, or ends when Redis does not answer.
Reboot(s) ==
    /\ reboots < MaxReboots /\ reboots' = reboots + 1
    /\ known' = [known EXCEPT ![s] = {}]
    /\ queue' = [queue EXCEPT ![s] = << >>]
    /\ hears' = IF redisUp THEN hears \union {s} ELSE hears \ {s}
    /\ missed' = missed \union {s}
    /\ IF s = "admin"
         THEN /\ stage' = [h \in AdminHandlers |-> "idle"] /\ req' = [h \in AdminHandlers |-> NoReq]
              /\ UNCHANGED simRedis
         ELSE /\ simRedis' = TRUE /\ UNCHANGED <<stage, req>>
    /\ UNCHANGED <<registry, redisUp, black, calls, requests, failures, killed, named, back,
                   putsCross, switchCross, filed>>

Step(h) ==
    \/ BeginPut(h) \/ BeginRevoke(h) \/ BeginSwitch(h) \/ ReadKeys(h)
    \/ CommitPut(h) \/ CommitRevoke(h) \/ CommitSwitch(h) \/ Block(h) \/ Unblock(h)
    \/ (\E k \in Kids : BeginRequest(h, k)) \/ ReadAgent(h) \/ FileRequest(h) \/ ExpireKey(h)

NextKeys ==
    \/ \E h \in AdminHandlers : Step(h)
    \/ \E s \in Subscribers : Hear(s) \/ ListenerEnds(s) \/ Reboot(s)
    \/ SimGoesWithout \/ RedisStops \/ RedisStarts

KeysSpec == InitKeys /\ [][NextKeys]_keysVars
\* A listener that runs takes its messages.
FairKeysSpec == KeysSpec /\ \A s \in Subscribers : WF_keysVars(Hear(s))
-----------------------------------------------------------------------------
(* Properties. *)

\* register_agent, rotate_agent_key: an agent has one active key, unless two calls crossed.
OneActiveKey == Cardinality(Active) > 1 => putsCross

\* admin_revoke_agent_key: once a revocation was answered, no request signed with that key is
\* filed, whatever else happens to the agent, to Redis or to the server.
RevokedKeyFilesNothing == \A f \in filed : ~f.named

\* admin_suspend_agent, "Emergency Kill Switch": no request of a suspended agent is filed, though
\* the agent may register a key again and become active, and though Redis may fail: only both
\* together let one through, or a reactivation that crossed the suspension.
SuspendedFilesNothing ==
    \A f \in filed : f.killed => switchCross \/ (f.back /\ failures > 0)

\* The simulation, which never asks the database, refuses a suspended agent at once,
\* unless Redis failed or calls crossed.
SuspendedIsRefused == killed /\ SimServes => failures > 0 \/ switchCross

\* run_revocation_listener, run_simulation_revocation_listener: a listener that missed nothing
\* brings its cache to what Redis says, and what is lifted does not come back.
CachesSettle ==
    \A s \in Subscribers : <>[](s \in missed \/ (Agent \in known[s] <=> Agent \in black))
=============================================================================
