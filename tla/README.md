# TLA+ models of Financial-AI-Agent

The repository is a simulated financial ecosystem (bank, digital ruble, investments, their
nightly workers) and an administration server that feeds a vector index from documents a desktop
client prepares. These modules model the parts of it that move money, the way of a document into
the index, and the sign-in, keys, signatures and audit log that guard both: what concurrent
handlers, workers, failures and retries can do to balances, locks, contracts, documents, tokens and
nonces. `PROJECT.json` maps every definition to the lines it models and lists runs, mutants,
findings, hazards and theorems.

    tlc -config MCBankApi.cfg MCBankApi.tla      # a run
    tlapm BankApiProofs.tla                      # the proofs

## Inventory

Paths are below `src/src/`.

| Component | State | Operations | Interacts with | What makes it correct |
|---|---|---|---|---|
| Bank API (`simulations/api/routers/bank.py`) | bank_db: accounts, cards, transactions, idempotency records | transfer_money, close_account, issue/block/freeze/reissue card, create_autopayment | sagas and both EOD workers write the same accounts | no overdraft, balances match the history, empty accounts close, no deadlock |
| Digital ruble API (`routers/ruble.py`) | digital_db: wallets, ruble transactions, smart contracts | transfer_rubles, create_smart_contract, update_contract_condition, fund/withdraw_wallet | ruble EOD, bank | escrow backed, money conserved, the oracle decides once |
| Ruble EOD (`workers/digital_eod`) | one transaction with savepoints and one ORM session per run | run_ruble_eod | the API handlers, through row locks | each contract settles once, refunds lose nothing, no deadlock |
| Invest API (`routers/invest.py`) | invest_db: deposits, savings, broker accounts | open_*, close_*, subscribe, unsubscribe | bank_db by sagas | a client's money is in one place, a product is paid out once |
| Invest EOD (`workers/invest_eod`) | one session per run | savings, deposits, broker accounts | bank_db, for matured deposits | interest once a month, a deposit returned once |
| Bank EOD (`workers/bank_eod`) | one session per run, three commits, an advisory lock | autopayments, tariff fees, salaries | accounts | each charge once a day, every run ends |
| Contract sandbox (`smart_contracts`) | none that outlives a call | execute_contract, ContractContext.transfer | ruble EOD | transfers stay within the escrow |
| API authentication (`api/core/auth.py`, `core/crypto`) | nonce store, revocation cache | check_enclave_or_token_auth, validate_certificate_chain, the revocation listener | every endpoint, Redis | a request is served once, only authentic chains pass, revocation takes effect |
| Admin sign-in (`admin_server/fastapi/server.py`, `security.py`) | TOTP secrets in the process, the database and Redis; counters and black list in Redis or memory | login, pair_2fa, refresh_tokens, logout | Redis, Postgres | a code opens one session, a confirmed factor stays, a refresh token rotates once |
| Agents and keys (`server.py`, `db/crud.py`) | agents, agent_keys, agent_requests; revocations in Redis and two caches | register, rotate, revoke, suspend, reactivate, create_agent_request | Redis Pub/Sub, the simulation | one active key, a revoked key or a suspended agent files nothing |
| Audit log (`db/audit.py`) | audit_logs | log_audit_event, verify_audit_chain | every endpoint of the admin server | one chain, tampering is found |
| RAG documents (`routers/rag_documents.py`, `db/crud.py`, client `pipeline.py`) | documents table, MinIO | process_file: check_md5, check_date_version, submit, repeal | pushes tasks to the worker's Redis list | one check per file, uploads do not touch each other's rows, an accepted document is queued |
| RAG vector worker (`vectors/vector_worker.py`) | two Redis lists, Chroma | process_task (upsert, delete), recovery | settles rows of the documents table, removes texts from MinIO | no accepted document is lost, each is decided, the index holds whole documents and what was queued last |
| Client backend (`admin_client/backend/main.py`, `pipeline.py`) | job dictionaries shared by the event loop and a pool of threads, MD5s in progress | process_document, get_progress, run_pipeline, cleanup_stale_jobs | the admin server | one run per content, the page is told, nothing leaks |
| Gateways, PKI scripts, LLM, RBAC, encryption, seeding | | | | not modelled: I/O, cryptography, constants |

The hard behaviours: handlers of one process interleave at every `await`; PostgreSQL row locks
(`FOR UPDATE`) and advisory locks are the only mutual exclusion; an ORM session keeps the first
copy of a row it loads; money crosses databases in two transactions with a compensation; a worker's
transaction spans many items with a savepoint each; several replicas of a worker and the API run
against the same rows; processes die between two transactions; a document passes through four
services, none of which shares a transaction with another; Redis may fail, and then the memory of
one process takes its place; revocations travel as messages that may be lost; threads and an event
loop share dictionaries without a lock.

## Modules

| Module | Models | State |
|---|---|---|
| `BankApi` | transfer_money, close_account and the card endpoints, step by step | tables, row locks, and per handler its step, its call, the receiver it resolved and its ORM session |
| `RubleContracts` | the ruble API and the nightly settlement over one database | wallets, contracts, what each contract paid, row locks, handlers, and the worker's step, savepoint, session copies, flushed rows, verdicts and pending refund |
| `Sagas` | the seven two-database sagas and close_account | the rows of three databases and per saga its step, its call and which of its transactions committed |
| `BankEod` | replicas of the bank's nightly worker, create_autopayment, transfers | the day, accounts, due dates, charges booked, row locks and waits, the advisory lock, each run's session |
| `InvestEod` (extends `BankEod`) | the investments' nightly worker beside it, closings and strategy changes | products, interest added, deposits returned and paid out, the second advisory lock, each run's session |
| `DocumentUploads` | process_file of the client and the four handlers it calls | documents table, MinIO, the Redis list of tasks, and per upload its step, its file, the row it found |
| `VectorWorker` (extends `DocumentUploads`) | the worker, its recovery and its deaths | the list of tasks in work, Chroma, and the worker's step, task, batch and outcome |
| `AuditLog` | abstract: what the audit log promises its callers | the log, and how far each call is |
| `AuditChain` | log_audit_event and verify_audit_chain, implementing `AuditLog` | the rows with their hashes, the advisory lock, each call's step and the hash it read |
| `AdminLogin` | login, pair_2fa, refresh_tokens, logout | Redis and the memory that stands in for it, settings and table of secrets, handlers, token pairs |
| `AgentKeys` | registration, rotation, revocation, suspension, reactivation, a request of the agent | the agent's rows, the black list, both caches, the messages under way, handlers |
| `CertChains` | the two validators of certificate chains and what both promise | none: operators |
| `SignedRequests` (extends `CertChains`) | the five services that take a signed request, the revocation of its certificates | the clock, the nonce in Redis and in memory, the black list in Redis and in memory, handlers |
| `PipelineJobs` | the jobs of the client's backend | the job dictionaries, the queues of events, the files, the MD5s in progress, the page |
| `OrderAndSums` | lemmas: least and greatest elements of sets of naturals, sums over finite sets | |
| `BankApiProofs`, `RubleProofs`, `SagasProofs`, `EodProofs`, `AdminProofs`, `RequestProofs`, `RagProofs` | the theorems | |
| `MC*` | the constants of the runs | |

**BankApi.** A handler receives a call, looks up its key, resolves the receiver with plain
reads (which put the receiver's row in the session), locks its rows in id order, and then
decides on the copies its session has. One action is one database statement that others can
interleave with; what follows the last lock (checks, the writes, the commit) is one action, since
nobody else can change or read what it uses in between. `Loaded` is the identity map: a row
the session already has is not refreshed by `SELECT ... FOR UPDATE`, because the query does not
ask for `populate_existing`. Balances are natural numbers of a unit; receipts, masking and
descriptions are left out. A rollback ends the handler with nothing written.

**RubleContracts.** API handlers as in BankApi. The worker's run is one transaction: a savepoint
per contract, the participants' rows locked smaller id first, the outcome of the contract's code
a choice. `copy` is the worker's session, `draft` what it has flushed; `Updated` is SQLAlchemy's
UPDATE of changed columns. Locks outlive a released savepoint and are freed by a rolled back
one. An exception takes the error path: the refund is computed on the session's copy, without a
lock, and flushed before the next savepoint or the commit. `Deadlocked` is PostgreSQL's detector,
which fails one waiter of a cycle. `EodUpdate` is the weaker lock of an UPDATE, which a foreign-key
check passes. `CrashRun` ends a run anywhere. `overwrote` is a history variable.

**Sagas.** Each of the seven handlers takes money in a committed transaction, gives it in
another database in a second one, and gives it back in a third if the second raises. All read and
write one row per transaction under its lock, so a transaction is one step. A failure of the
second transaction is possible before (`Fail`) and after (`FailAfterCommit`) its commit, since both
are inside the same `try`; the compensation may itself fail (`CompensationFails`), and a death or a
cancelled request (`Die`) ends the saga anywhere; nothing in the code finishes it later.

**BankEod, InvestEod.** A run is three transactions of one session: autopayments, fees, salaries
(bank), or savings, deposits, broker accounts (investments). `run` holds what the session read and
what its transaction has not committed; row locks stay until the commit. The autopayments are
selected without a lock before their accounts are locked; a rolled back savepoint (`SkipItem`)
gives back one item. The advisory lock is of the connection: a run that is aborted leaves it with
the worker's pooled connection (`leaked`) until the process dies. `FOR UPDATE` over
all active accounts locks them in whatever order the plan yields, so that order is a choice. The return of a
matured deposit is a transaction in bank_db (look-up of the returning transaction on the client's
oldest active account, credit, commit) within the one that closes the deposit, and a run may die between
the two commits, or lose the reply to the first and treat it as failed (`torn`). Transfers here are those of `BankApi` reduced to their locks and their
stale read of the receiver. Dates are day numbers, interest is a constant, the market a choice. The
phases for savings and broker accounts touch only rows they lock for the whole phase, so each is
one step.

**DocumentUploads.** An upload runs the steps of `process_file`; one action is one statement on
the documents table or one call of MinIO or Redis. Rows are numbered in the order of their
inserts, and a query ordered by `created_at` may return any of several, since that is the order
of transaction starts. A row under check is keyed by the MD5 of the file and, once submitted, by
the SHA-256 of its text; `Name` and `Title` are the name without and with the edition's date.
Checks of one file exclude each other (`AdvisoryLockFree`), submissions hold no lock. The lists of names
to delete are carried by the task itself, so their MinIO objects are left out. Everything is of one
agent, because every query and queue entry is. The signature, certificate and nonce checks come before any
of this state and are in `SignedRequests`. `Stop` ends an upload between two steps: any error before
or in a call, the client, the connection or the server gone. `asked` (what was queued for a name) and
`hit` (which services have failed) are history variables.

**VectorWorker.** One action is one call of a service; the deletion of a name from Chroma and
the update of its rows are one (`DropName`), since a task that dies between them does both again.
`index` says for each batch of ids of a name whose chunks it holds; `collection.add` leaves ids
that exist. Every call may fail (`Hit`) as its `except` clause says, and the worker may die before
any of them (`Crash`), which forgets its local state and restarts it in recovery. Documents without
text and tasks with an unknown action are left out.

**AuditLog, AuditChain.** `AuditLog` is what a handler may rely on: events are only appended, a
call that returns has appended its event, one that raises has appended it once or not at all.
`AuditChain` is the code: an advisory lock of the transaction, the last hash, the insert, the commit, the
refresh. SHA-256 is taken to be injective, so a hash is the pair it is computed from; `Payload` maps
events with the same stripped and joined fields to one payload. `ImplementsLog` is the refinement,
with `log` the events of the rows.

**AdminLogin.** One asyncio process with a synchronous Redis client: a handler runs without
interruption from one `await` (a database call) to the next, and that is one action. Time passes in
TOTP steps; what expires carries the steps it still lives. Every Redis call has the branch the code takes when
Redis is down, in memory or by `AUTH_FAIL_CLOSED`; `Restart` loses the memory and reads the stored secrets
back. Passwords, password hashes and the contents of tokens are left out.

**AgentKeys.** One agent, its keys, two handlers of the admin server and the two subscribers of
the revocation channel, admin server and simulation. A handler's action ends at its `await`; the look-up of
the key and the commit of the request are one (`FileRequest`), as nothing else reads or changes the row in between. Messages are queued
per subscriber and lost if its listener does not run; an error of Redis ends a listener for good. The simulation's cache is asked first, Redis only if that has no entry.

**CertChains, SignedRequests.** Each validator is one predicate over records (see the head of
`CertChains`), and `Authentic` is what both promise of the certificates themselves. A request and its time stamp
are chosen at the start; handlers take copies of it, whole, damaged, or with a signature that is no
base64, and check them in the order of their service. Nonces are kept in Redis or, while that does
not answer, in memory; so are revocations, which `Revoke` adds at any time. The services ask for them by
different code: the simulation asks its cache of what its listener heard (`local`) and then Redis, and goes on
if Redis raises an error or the process has no client of it (`client`: made once, at the first request);
the admin server asks its memory and Redis in one call that raises if Redis does not answer, so that
it serves nothing with a certificate meanwhile. `slips` notes of each revoked certificate that
passes what stood in the way. The simulation reads the body of an X.509 request after these checks (`PkiBegin`,
`PkiEnd`): what is revoked while it waits for the body is not looked up again, and a request that is
cancelled there keeps its nonce.

**PipelineJobs.** One action of a thread is one access to what the threads and the event loop
share; a thread that finds its MD5 taken holds the lock of the set while it tells so (`LockFree`); on the event loop it is what runs between two awaits. `Message` gives the events by the step
that sends them, `box` the queue a reader may still hold after its entry was removed, `found` the threads
between the check for an entry and its use.

## Runs

| Run | Instance | Shows |
|---|---|---|
| `bank` | 3 handlers, 4 accounts in two currencies, 2 cards, 15 calls | every debit is covered by the committed balance, only empty accounts close, no wait cycle; money is lost only if a stale receiver was credited |
| `bank_credit` | 2 handlers | finding: `BalancesMatchHistory` fails |
| `ruble` | 3 calls, 2 nightly runs, 3 wallets (one blocked), 2 contracts | contracts settle once, transfers never deadlock among themselves, everything ends; money is lost only by a write from an out-of-date copy |
| `sagas` | 3 sagas, 3 accounts, 2 wallets, 2 products, 8 calls | each client's money accounted for, products paid out once, closed accounts empty unless compensated; money is missing only after a saga that died between its transactions or could not compensate |
| `rag` | 2 uploads, 3 files, documents of 2 batches, one service that fails, one death of the worker | one check per file, accepted documents keep their text until decided and are decided, the index holds whole documents and what was queued last, complete means indexed |
| `bank_eod` | 2 replicas, 2 nights, 2 autopayments, fees on the first, salaries on the second, 1 transfer, closings | no date, fee or salary is charged twice; every run ends, deadlocks included |
| `invest_eod` | both workers, 2 nights, a matured deposit, savings, a broker account, a closing by the client, 1 transfer | a deposit is paid out once, twice only after a death between its two commits, and interest of a date is added once, unless a return failed |
| `audit` | 3 calls, two of them with one payload | the chain always verifies, tampering is found, and the chain implements the abstract log |
| `login` | 2 handlers, admin and operator, 3 calls, a fault of Redis, a failed write, a restart | a code opens one session, a confirmed factor stays, a refresh token rotates once, a logout holds |
| `agents` | 2 handlers, 3 keys, 2 administrative calls, a request, a fault of Redis, a restart | revoked keys and suspended agents file nothing, one active key unless calls cross, the caches follow the black list |
| `requests` | 3 copies of one request of any service with any chain of at most one defect, or one certificate that is revoked at any time, 2 handlers, window of 2, a fault, a restart | a request is served once, only authentic chains pass, a revoked certificate passes only when Redis is away or never got to know, damaged copies give the nonce back |
| `jobs` | 2 documents of one content, 2 threads | one run per content, whoever stays on the page is told, nothing stays behind |

The properties name their exceptions, and each exception is a weakness of the code that TLC
shows when it is taken out. In `rag`: a status update that fails is only logged (`"postgres"`), a push
that fails is only logged (`"push"`), recovered tasks go behind newer ones (`InOrder`), two uploads
of one file share an object (`UploadedOnce`, which matters from three uploads on), and a death amid
the batches followed by a text that cannot be read leaves a part of a document in the index. In
`login` and `agents`: records that moved between Redis and the memory of one process (`faults`, `failures`), a
secret the database did not take (`dbFaults`), calls that crossed between two awaits (`crossed`, `putsCross`,
`switchCross`), an agent that put a key while it was suspended (`back`), messages nobody heard (`missed`). In `requests`: time stamps that are not behind the
clock, and what `Excused` names of a revoked certificate: at the simulation Redis did not answer (`down`), the
process has no client of it (`alone`) or Redis never got the revocation (`unwritten`); at the admin server
Redis never got it and the process that did has restarted (`forgotten`). In `jobs`: an hour that passes (`old`).

Every property of a passing run has a mutant: an altered definition (written beside the one it
replaces, with a comment) with which the run fails.

**Bounds.** A handler of the money modules serves one call, so three handlers are three overlapping
calls in any order, sequential ones included. The conflicts in the code are pairwise (two row locks,
one stale copy, one refund), and a third process is the one that slips in between; the deadlock of
the worker needs two contracts and one transfer. Two nightly runs show what a second one does to
the rows of the first (`MaxRuns`, `LastDay`). At most as many contracts and products are created as
there are rows for (`Receive` of RubleContracts and `Create` of Sagas). Amounts are 1 or 2 units on
balances of 0 to 2, enough for "exactly enough", "one too few" and "twice". In the RAG run two
uploads are two that overlap or follow each other; the files are a dated law, an undated order
that repeals it and the law's next edition in a file of the same name (`Offered` lets one upload
bring any of them, the other the first two). `MaxFaults` bounds the services that fail, each as
often as it likes (in the admin modules, as `MaxFailures` in `AgentKeys`, how often Redis stops answering); `MaxCrashes` is the deaths of the
worker, one being enough to redeliver any task at any step; two `Batches` are a document that can be
half indexed. In `login` the limits of the counters are 2 and their lives 1 to 3 steps, in the order of
the code's values, a code lives three steps as in the code, and `MaxSecrets`, `MaxPairs`, `MaxCalls` allow a
pairing, a login and a refresh, or any three calls, to overlap. In `requests` a window of 2, clocks up to `MaxTime` 6
and stamps from 0 on contain a stamp too old, in the window, at its edges and ahead, and the end of
the nonce's life; tokens expire from 2 to 6, so that the least life of a nonce (`MinLife`, 60 s in the code) is
both more and less than what is left of them, and one is without a date. One revoked certificate is enough, as
each is looked up by itself; so is one defect, as the checks of a chain are independent. In `jobs` every job passes every step; two threads are two jobs side by side. A thread that
frees an MD5 another holds would do harm with a third job only, which TLC cannot hold; `ContentsProcessedOnce` is for any number.

**Fairness.** Weak fairness of each handler's steps (the event loop resumes every handler that can
go on, PostgreSQL grants a free row lock to a waiter) and of the workers' steps, the deadlock
detector included (`RubleContracts`, `InvestEod`). For the vector worker it is weak fairness of its loop (`Work`), which
catches every exception and goes on; nothing is assumed of uploads. `AgentKeys`: a listener that
runs takes its messages. `PipelineJobs`: threads and event loop go on, the page connects, time
passes and the clean-up runs. Arrivals, schedules of runs, closings, failures, crashes, deaths
and restarts have no fairness. The liveness properties hold with aborts and crashes possible. In the money modules there is no deadlock state: they stop only when every
handler has answered, which is an explicit stuttering step. The runs of the nightly workers, the audit log, the admin
modules and the jobs stop when their bounds are reached, so `CHECK_DEADLOCK` is off there.

## Findings

One disagreement between the code and its own comments is kept as a run (`bank_credit`, quoted in
`PROJECT.json`): `bank.py:444`, the `FOR UPDATE` query does not refresh the receiver already loaded,
so credits are lost and closed accounts are credited.

The models contain further behaviour that a comment, a docstring or the documentation says
otherwise. The properties above are stated with these as exceptions, or leave them aside:

- `bank.py:551`: the idempotency record is built before the transaction has an id, so every keyed
  transfer fails (`FailTransfer`). PROJECT.md:48 says "Guarantee: Exactly-once execution for transfer requests".
- `bank.py:234`: freezing a blocked card unblocks it; the docstring at 210 calls a block "необратимое действие".
- `digital_eod/tasks.py:201`: the "guaranteed" refund (comment at 199) is computed without a lock
  and overwrites transfers.
- `digital_eod/tasks.py:37`: the lock order of the comment at 35 holds per contract, not per run.
- `invest.py:332` (also 428, 519): an exception after the product was committed returns the money,
  so a client has both; the docstring at 250 promises a compensation of a failed opening.
- `invest_eod/tasks.py:76`: "Проверка идемпотентности: не начислять повторно": the check looks at the
  account that is the oldest active one now, so a deposit is paid twice when the run dies between its
  two commits and that account is closed before the next.
- `crud.py:157`: the duplicate check (docstring at 143) never finds a submitted document, whose hash has been
  replaced by that of its text.
- `rag_documents.py:350`: rows are stored under the dated title and repealed under the short
  name (docstring at 532), so a repealed act stays complete.
- `crud.py:232`: for the same reason an older edition passes the date check.
- `crud.py:367`: two uploads of one file name may settle one row.
- `main.py:332` of the client: an entry of `job_statuses` is written again after the clean-up popped it;
  the docstring at 178 is there "для предотвращения утечки памяти". A job older than an hour loses its queue
  even while it waits or runs: its page waits for ever, and an event between the check for the entry and its
  use raises `KeyError`.
- `server.py:468`, "IP temporarily blocked for 5 minutes": if `EXPIRE` fails after `INCR` the key has no
  expiry.
- `server.py:545`: a personal secret that was confirmed (comment at 882) is not compared once the
  admin's is set.

Also worth knowing: the run of a worker that is aborted leaves its advisory lock with the pooled
connection, so the other replica is shut out until that process dies; fees that are not paid on
their day are not tried again; the last record of the audit log can be removed unnoticed, and
payloads that differ in `|` or blanks hash alike; the enrolment check of an operator looks up another name of
setting than the login stores; a refresh is audited as "admin" whoever makes it; two onboardings of
admin that cross may leave the process with one secret and the database with the other, which takes over at the next start; registering a key makes
a suspended agent active in the database again; revoking one key puts the whole agent on the black list; two rotations
that cross leave two active keys; the admin server's validator does not look at the life of the root
certificate; a request whose stamp is ahead of the clock can be served twice; the enclave's verifier and
the endpoint for repeals keep the nonce of some requests they refuse; a revoked certificate passes the simulation while
Redis does not answer, for the whole life of a process that found no Redis at its first request, or if
Redis was away when it was revoked; the admin server
answers 500 (its middleware 401) to any request with a certificate while Redis is away, and forgets at a restart
what was revoked then. `revoke_certificate_in_redis` is called by tests only, so the services revoke no
single certificate yet, only whole agents (`AgentKeys`); the entries it writes under a serial number in another notation are not seen by the simulation.

## Proofs

The theorems hold for every value of the constants: any set of accounts, clients, calls, handlers, replicas,
nights, certificates, keys and jobs.

| Theorem | States |
|---|---|
| `BankApiProofs!TypeCorrect`, `AccountsNeverOverdrawn`, `DecisionsOnFreshRows` | `TypeOK`, `NoOverdraft`, `SubjectIsFresh` |
| `TransfersAreCovered`, `OnlyEmptyAccountsClose` | the action properties `DebitsAreCovered`, `ClosesOnlyEmptyAccounts` |
| `LockOrderPreventsDeadlock`, `OnlyStaleCreditsLoseMoney` | `NoWaitCycle`, `MoneyLostOnlyByStaleCredit` |
| `RubleProofs!TypeCorrect`, `WalletsNeverNegative` | `TypeOK`, `NonNegative` |
| `ContractsSettleOnce` | the action property `SettledOnce` |
| `LockOrderPreventsDeadlock`, `OnlyStaleRowsLoseMoney` | `TransfersNeverDeadlock`, `MoneyLostOnlyByStaleRow` |
| `SagasProofs!TypeCorrect`, `NothingOverdrawn` | `TypeOK`, `NonNegative` |
| `ClosedAccountsStayEmpty`, `ClosingsPayOnce` | `ClosedAccountsEmptyUnlessCompensated`, `ProductPaidOutOnce` |
| `NoMoneyUnaccounted`, `MoneyMissesOnlyLostSagas` | `ClientMoneyAccountedFor`, `MoneyMissingOnlyAfterLostSagas` |
| `EodProofs!NobodyIsChargedTwice` | `ChargedOnce` |
| `DepositsArePaidOnce`, `InterestIsAddedOnce` | `DepositPaidOutExactlyOnce`, `InterestOncePerDate` |
| `AdminProofs!ChainAlwaysVerifies`, `ChainImplementsLog` | `ChainVerifies`, `ImplementsLog` |
| `TamperingIsDetected` | `TamperingDetected` |
| `CodesAreSpent`, `AdminKeepsSecondFactor` | `CodeOpensOneSession`, `SecondFactorStays` |
| `RefreshRotates`, `LogoutIsFinal` | `RefreshedOnce`, `LogoutHolds` |
| `RequestProofs!SimulationAcceptsOnlyAuthentic`, `AdminAcceptsOnlyAuthentic` | each validator's predicate implies `Authentic`, revocation aside |
| `ValidatorsDecideAlike` | while Redis answers and has every revocation the memory has, both services accept the same chains (but for a leaf that bears its issuer's name, and a root out of force); without Redis the admin server accepts none |
| `PunctualRequestsServedOnce`, `AcceptedChainsAreAuthentic`, `FailedRequestsFreeTheirNonce` | `ServedOnce`, `OnlyAuthenticPasses`, `NonceIsFreed` |
| `RevokedCertificatesAreRefused` | `RevokedIsRefused` |
| `RevocationIsFinal`, `AgentHasOneKey` | `RevokedKeyFilesNothing`, `OneActiveKey` |
| `SuspensionFilesNothing`, `SuspensionReachesSimulation` | `SuspendedFilesNothing`, `SuspendedIsRefused` |
| `RagProofs!ChecksStaySingle`, `TextOutlivesDoubt` | `OneCheckPerFile`, `UndecidedKeepsText` |
| `CompleteMeansIndexed`, `LastRequestWins` | the action property `CompletedIsIndexed`, `IndexFollowsRequests` |
| `ContentsProcessedOnce` | `OneRunPerHash` |

They assume only the named assumptions on the constants (`ConstantsAssumption`, `SagaAssumption`,
`RubleAssumption` and so on), which TLC evaluates in the runs. Three of them say more than a type:
`RootAssumption`, that the root may sign certificates, as `pki/core/ca_engine.py` issues it, `InvestAssumption`,
that closings and runs are different processes, and `LoginAssumption`, that the record of a used code lives longer
than two steps of 30 seconds (`window_seconds=90`). `Genesis` of `AuditChain` is the
empty sequence, which like `GENESIS_HASH` is the hash of no record.

*Bank.* `NoOverdraft` is not inductive: a handler writes what its session holds, and sessions may
be stale. The invariant `IInv` adds which locks a handler holds at which step (`LocksFit`: only
rows it needs, all of them once it decides, a row still needed comes after every row held) and what
a session may hold (`SessionsFit`: copies of rows that are locked by it, equal to the committed
row, and the copy of the receiver, which is only known not to be negative). A commit therefore
debits a current row. The absence of wait cycles follows because a waiter wants a row above all it
holds: in a set of handlers that all wait for each other, the one that wants the greatest row would
have to wait for a handler that wants a greater one. The existence of least and greatest
elements comes from the library's well-foundedness and finite-set theorems (`OrderAndSums`).

*Sums.* The fold behind `SumFunctionOnSet` picks its elements in an order of its own. `OrderAndSums`
shows that any element may be taken out first, by the argument of a smallest counterexample (a
finite set of subsets has a minimal one), and from that what one, two or no changed terms do to a sum.
The theorems about money add to the invariants above what ties the sums to the steps. Bank
(`Books`): the history is finite and each entry is of a handler that has
committed, and the sums over the history
change by the one entry that a commit adds. Sagas: the client of a saga is the owner of the rows it
moves money between (`OwnersFit`), so that each transaction changes one row and what that saga has
outstanding by the same amount. What a client is missing is therefore what its sagas have outstanding; with
`EndsFit`, which ties how a saga ended to what it has committed, a sum that is not zero has a term that is
not (`SumHasSign`), and that term is a saga under way, lost, or undone although it gave.

*Ruble.* `IInv` is `TypeOK` with: no row is negative, nor any copy, draft or pending refund of the run
(`RowsCovered`: the run writes rows from copies that may be out of date, so what it keeps matters, not
only the tables); a wallet is locked only by a handler that needs it, below those it still needs
(`LocksFit`); the contracts the run has yet to settle are locked by it, and it has a copy of every
wallet it locked (`RunFits`); a contract the run has locked is active, and only such a one has a
verdict (`VerdictsFit`); and a contract has paid nothing before it is settled and no more than its
escrow (`PaidFits`). Money needs the run's view: `SeenRows`, the rows with what the run has flushed, are exact for
the contracts it has not settled (`Open`), as the tables are for the active ones, until an
out-of-date copy overwrites a row. Nobody else commits a row the run has written (`RunApart`), so a handler
changes both views alike, and the commit of a run makes the first the second. That a refund
gives back the whole escrow, though it is bounded by the copy's frozen balance, is
`CopiesSuffice`: copies, out of date or not, have at least the escrow of the contracts the run has
locked and not decided. `SettledOnce` follows because only a contract that is active and locked gets a
verdict, and the commit that writes it makes it inactive.

*Sagas.* `IInv` ties the step of a saga to the transactions it has committed (`CallsFit`) and says
that at most one closing holds a product's money and that the product is closed meanwhile
(`ClosingsFit`), which is what makes a compensated closing restore the right amount.

*Bank EOD.* The invariant `EInv` says that a run under way holds the advisory lock, so there is one;
that the due dates it has read are current; and that every date charged lies behind the next due
date of its autopayment. A commit therefore books what was not booked before. For fees and salaries the look-up of the day
is enough, since it runs under the same lock.

*Investments' EOD.* The invariant says that the run of one replica is under way and holds what it
locked; that its copy of a deposit it holds is the row; that a product a client closes is in the hands of
nobody else; and that the interest of a date is booked together with the step to the next date, unless
the bank refused the return. A deposit paid out twice then needs a death between the two commits (`torn`).

*Audit.* The call that holds the advisory lock has read the hash of the last record, and every record
stands for a call that has stored it. Appending then keeps the chain linked, and each step is one
of `AuditLog` or none. Detection needs no induction over the log: of the records at which a changed
log can break, the first is one whose hash no longer fits its own content or the record before it.

*Requests.* `RInv`: as long as Redis has not failed, a request whose stamp lay behind the clock when it
first came and that is on its way or was served has its nonce on record until it is too old to
pass (`OneUse`), and there is one of it. The window and `Ahead` are arbitrary. The validators decide
alike on a leaf that does not bear its issuer's name: one that does ends the walk of the
simulation's validator one certificate early. `ListsFit`: the memory of the admin server has every
revocation since it started, whether Redis took it or not.

*Sign-in.* `TokensFit`: while Redis has not failed, a refresh token that was exchanged and both tokens of a
session that ended are on the black list. `CodesFit`: a code that opened a session has a record, and the record
outlives it: a code is accepted from one step before its own to one step after, so a record that lives three
steps from its use is still there at the last of them. `FactorFits`: all logins that confirm a secret of
admin have the same one, which is that of the process and of the database if they have any, and what
admin confirmed last is in the database. This is what fails once the database does not take a write, or once
two secrets of admin are being confirmed at the same time (`crossed`).

*Agent keys.* `RevocationFits`: a key whose revocation was answered stays marked as revoked, since no
handler ever clears that mark, and a request remembers only such keys as `named`. `SingleKeyFits`: unless two
registrations or rotations cross, one handler at most puts a key, and once it has read the keys to
replace they contain every active one (a revocation or an expiry in between only makes them fewer); an
agent without a row has no keys. `SuspensionFits`: unless a reactivation crosses a suspension, an
answered suspension means that the agent is on the black list, as long as Redis has not failed, and suspended in the
database, as long as it has put no key since. A request passes both checks only when neither holds, at its start
and when the agent is read.

*Where the bounds of a run hid something.* Two properties were first stated with fewer exceptions, and the runs
passed; the proofs did not go through, and TLC then found the states with other bounds.
`SecondFactorStays` did not name `crossed`: two logins of admin, each with a secret of its own, leave the
process with one and the database with the other, which takes more calls than `login` makes.
`SuspendedFilesNothing` looked at `back` now and not when the request was filed: a reactivation resets it, which takes a
third administrative call. Both are stated with these cases since; the runs keep their bounds, and the theorems cover the rest.

*Documents.* `ChecksApart` says that two checks of a file are never between the search and the insert
at once, and that one that found no row still would. `TextsKept` follows a text from the push to
the verdict: an upload that shares its file with no other has its text stored as long as a row waits
for a verdict. `ChunksInIndex` is the loop of the batches: before batch k the index holds exactly the
first k - 1 of the task's file.

*Order of tasks.* For a name nothing has disturbed (`Calm`: no failure, its file uploaded once, and no
death unless it was asked for once) `OrderKept` says: the leftmost task of the queue about it is
what was asked last, and where none is queued the one in work is (`NewestWins`); a task and its text
exist once (`UpsertsApart`, `TaskHasText`: stored, or the index is whole already); the worker's step
tells what the index holds (`WorkerOn`); and with no task left the index is what was asked last.
A task in work is the only one in the list of tasks in work (`HoldsItsTask`), so recovery has one task to
put back.

*Jobs.* `LockInv`: the MD5s in progress are exactly those of the jobs that own one, and no two of
them own the same.

Only model-checked: the liveness properties (TLAPS 1.4.5 has no ENABLED and no fairness beyond
propositional temporal steps): `CachesSettle`, `AcceptedIsDecided`, `ReadersAreTold`, `NothingStays` and those of the
money modules that everything ends. Every invariant and action property of a run has a theorem.

## Plan

1. Lemmas that show which exceptions of a property are needed, and the invariants behind the liveness
   properties.
2. approve_agent_requests and reject_agent_requests, and the calls of the audit log from the endpoints.
3. The signature of the oracle on the conditions of a contract, with its nonce.
4. `Ledger`: an abstract specification of one transfer of money between owners, implemented by
   Sagas without failures after the commit.

The modules share one shape: constants with a named assumption, one action per operation,
no recursive operators.

## Not modelled

Cryptography itself (signatures, receipts, encryption at rest, issuing of certificates): a certificate
is a record, a signature a flag. The sandbox's static checks, the LLM client, recognition and
conversion of documents, the desktop client, gateways and seeding: no shared
state whose order matters, or data the properties do not tell apart. Read-only endpoints. Decimal
rounding: amounts are whole units, and the only rounding on a modelled path (`quantize` in
`ContractContext.transfer`) is behind the worker's own check of the total. Transaction isolation is
PostgreSQL's default, READ COMMITTED. In the admin modules: the 90 days an entry of the black list
lives, names in other letters, tokens without a key id, more than one agent. In the jobs: a stop of
the process, and the removal at its start of files older than a day.
