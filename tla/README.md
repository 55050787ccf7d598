# Bristlecone Logic: models, checks and proofs

Bristlecone Logic is a platform that sells tool and LLM calls to software agents.
Tenants prepay: a call is charged against a balance in Redis, a worker moves what
was charged into PostgreSQL, and listeners turn blockchain payments into balance.
This directory models that system in TLA+, model-checks it with TLC on small
instances and proves the safety properties that are checked with TLAPS.

Paths below are relative to the repository root. Beware that the repository has a
directory `src/` of its own (`src/gateway/...`) next to `app/`, `worker.py` and
`main.py`. PROJECT.json, which names the repository root `src/`, therefore writes
`src/worker.py` and `src/src/gateway/tollbooth.py`.

## 1. Inventory

| Part | State it keeps | Operations | Talks to |
|---|---|---|---|
| Metered endpoints (`app/api/v1/endpoints/tools.py`, `app/routers/llm.py`, `main.py`) | Redis `balance:{t}`, `rate:{t}`, the stream `api_usage_stream` | METER_LUA (count, limit, balance check, debit), XADD of a usage event | worker, through the stream |
| Usage worker (`worker.py`) | consumer group's cursor, pending entries, Redis `alert:low_balance:{t}`, PostgreSQL `llm_usage_ledger`, `tenants.credit_balance_usd` | read a batch, insert ledger rows, overwrite balances, alert, commit, XACK | PostgreSQL, Redis, tenants' webhooks |
| Deposits (`deposit_daemon.py`, `worker.py`, `app/routers/billing.py`) | Redis list `base_deposit_queue`, PostgreSQL `tenant_deposits` (unique hash) | submit, pop, record, credit, clear the alert | both balances |
| XRPL listener (`app/services/xrpl_listener.py`) | one task per payment | same steps as a deposit | both balances |
| Registration and administration (`app/routers/agent_auth.py`, `app/api/v1/admin.py`) | tenant rows | create a tenant in both stores; top up PostgreSQL | both balances |
| Tollbooth (`src/gateway/`, `src/settlement/`, `src/adapters/http_402_handler.py`) | nonces with an expiry, in memory | issue a challenge, consume its nonce, verify a payment; the client signs and retries once | chain RPC nodes |
| Chain listeners (`app/main.py`, `app/core/rpc_resilience.py`) | block cursor in memory, `tx_confirmed:{hash}`, credits | poll, credit each transfer, rotate RPC nodes | credits of API keys |
| API-key credits (`app/core/metering.py`, `app/middleware/m2m_payment.py`, `app/services/billing.py`, `app/api/v1/endpoints/billing.py`) | Redis hashes `apikey:*`, `tenant:*`, PostgreSQL `tenant_balances`, `billing_ledger` | check, decrement, seed, refuse, top up by webhook | chain listeners |
| XRPL payment channels (`app/layer4_ledgers/`, `app/middleware/xrpl_claim.py`) | `claimed_drops`, `latest_claim`, `settled_drops` | accept a larger claim, settle, sweep | XRPL node |
| Tenant credits (`app/services/billing.py`, `app/services/notifications.py`, `app/api/v1/endpoints/billing.py`) | PostgreSQL `tenant_balances`, `billing_ledger`, a notified flag per tenant | charge, top up under a row lock, check for a low balance, notify, sweep all tenants | tenants' webhooks |
| Agent orchestration (`app/layer3_orchestration/`, `app/layer2_agent/`) | sessions in memory, `audit_log.jsonl`; SQLite rows and their audit | draft, check, sign, execute, evaluate, retry; record, parse, gate, answer | layer 2 router |
| Commit DAG (`app/services/dag_service.py`, `app/api/v1/dag.py`, `app/workers/handlers.py`) | commit nodes and parent edges, tasks in memory | create, process in background, read a project | LLM provider |
| Rate limits (`app/core/rate_limiter.py`, `app/middleware/rate_limit.py`, `app/routers/sandbox.py`, `app/api/deps.py`) | sliding windows: lists, a deque, a sorted set in Redis | admit, refuse, expire | |
| Market and ticket tools (`app/layer4_ledgers/xrpl_tools.py`) | none of their own | read the book, the pool, the account; quote, compare, suggest | XRPL node |
| Sweeper, signer, watchdog (`sweeper_daemon.py`, `kms_signer.py`, `watchdog.py`) | none of their own | threshold, build, sign, broadcast | chain RPC nodes |
| The rest (SDKs, MCP servers, UI, scripts, CRUD endpoints, socket guard) | one row per request, or none | | |

**What is hard.** Almost every effect is a separate `await` on Redis, PostgreSQL or an
RPC node. Several processes (API workers, worker, daemon) and several coroutines of
each run between two effects; any of them can stop or raise there; messages are
popped before they are processed; the two balances are written by four different
writers; a transaction hash can arrive any number of times. What makes the parts
correct, part by part:

* *Metering*: the spendable balance is exactly what was put in less what was charged, and
  no charge ever takes it below zero.
* *Worker*: a charged request has at most one ledger row; what it acknowledged is
  committed; whatever fails, it returns to reading.
* *Deposits*: a hash is credited at most once, to whom and for what was recorded; it
  is credited eventually unless something fails.
* *Tollbooth*: a nonce admits at most one request, and only while it is valid.
* *Chain listeners and credits*: a transfer is credited once; credits are not
  overspent.
* *Payment channels*: the accepted claims of a channel grow by at least the price of
  each request they paid for.
* *Tenant credits*: no update of a row is lost; a tenant is told once that it is low.
* *Orchestration*: only approved actions are signed and executed, a run ends, and the
  audit trail tells what happened.
* *Commit DAG*: edges lead back and stay inside an organization; a seedling gets its one
  sapling.
* *Limits*: no window admits more than its limit, and the wait that is advised suffices.
* *Tools*: a quote is the best for what was read; suggestions never overfill the pool.
* *Sweeper*: at most one sweep waits per rail, and funds are swept in the end.

The exposed lines are listed one by one under "hazards" in PROJECT.json.

## 2. Plan

Order is by importance: money first, then what admits requests, then the rest.

1. `PrepaidAccount` (abstract) and `BillingPipeline` (detailed), with TLC instances and
   proofs. *Done.*
2. `OneShotChallenge` (abstract) and `Tollbooth` (nonce store, gateway, client), with
   refinement and proofs. *Done.*
3. `ChainListener` (the two pollers, `process_deposit`, the circuit breaker) and
   `ToolCredits` (the tools paid from the credits it adds to), with proofs. *Done.*
4. `ChannelClaims` and `ChannelSettler`: claims of XRPL payment channels, settlement and
   sweep, with proofs. *Done.*
5. The smaller services, which share no state with the above or each other: `RateLimits`,
   `TenantCredits`, `CommitDag`, `AgentGraph`, `TaskStore`, `MarketQuotes`, `TicketPool`,
   `Sweeper`, composed for checking in `MCServices`. *Done*, with proofs.

Every invariant and every action property that a run checks has a theorem. What is left to
TLC is liveness, which the prover cannot reach. What is left to model: an instance of
`TenantCredits` with the requests of `BillingPipeline` beside it, should the two ledgers ever
be joined (today nothing reconciles them).

Proofs are in eight modules:

| Module | About |
|---|---|
| `FiniteSums` | sums over finite sets and over functions, recursion over `0..N`, products: what the modules below cite |
| `BillingPipelineProofs` | section 3 |
| `TollboothProofs` | section 4 |
| `ToolCreditsProofs` | section 5 |
| `ChannelProofs` | section 6 |
| `AccountProofs` | `TicketPool`, `Sweeper`, `TenantCredits`, `RateLimits`: services that act on a number they read before |
| `HistoryProofs` | `CommitDag`, `AgentGraph`, `TaskStore`: services with a history that is only added to |
| `ServicesProofs` | `MarketQuotes`, and the composition `MCServices` |

Where several promises of a component are facets of one, they are conjuncts of one checked
property and keep their names: `BalancesAddUp` is `Conservation`, `NeverOverdrawn` and
`PgNeverOverstates`; `LedgerSound` is `AckedAreLedgered` and `LedgeredOnce`; `LimiterSound`,
`CreditsSound`, `DagSound`, `MarketSound` and `AuditTrailsTell` are described in section 7.

## 3. The billing pipeline

`PrepaidAccount.tla` is the promise: a tenant is opened with the sign-up credit (or
with nothing), a request is charged at most once and only against a balance that
covers it, a deposit is recorded for ever under its hash and credited at most once,
and ledger rows are written only for charged requests and only once.

`BillingPipeline.tla` is the code. One action is one step between two awaits:

| Code | Actions |
|---|---|
| `register_autonomous_agent` | `RegisterTenant` (PostgreSQL commit), then `SeedBalance` or `SeedFails` (the Redis writes sit in a try/except that only logs) |
| METER_LUA, `execute_metering`, `chat_completions` | `Meter` or `Refuse` (one atomic script), then `Publish` (XADD) or `RequestsFail` |
| the rate key's TTL | `WindowExpires` |
| `usage_sync_loop`, `process_batch` | `ReadBatch` (XREADGROUP `>`), `SyncTenant` per tenant of the batch (UPDATE and GET/DEL of the alert key), `SetAlert`, `CommitBatch`, `AckBatch`; `SyncFails` anywhere |
| alert key's TTL | `AlertExpires` |
| `submit_deposit` | `SubmitDeposit` |
| `deposit_listener_loop`, the daemon | `PopDeposit`, then `SkipDuplicate` or `RecordDeposit`, `CreditBalance`, `ClearAlert`; `CreditorFails` anywhere |
| `start_xrpl_listener`, `process_xrpl_payment` | `XrplPayment`, then as above |
| a restart of the worker | `WorkerRestarts` |
| `top_up_tenant_credits` | `TopUp` |

Deposit amounts are integers of any sign: `DepositSubmitRequest.amount_usdc` is a Decimal
without a bound, and `submit_deposit`, the queue and `credit_tenant_deposit` hand it on as it
is. XRPL payments are not negative (the ledger has applied them), and a top-up is positive
(`gt=0` in `TopUpCreditRequest`).

State is named after the store that keeps it: `balance`, `rate`, `alert`, `stream`,
`cursor`, `acked` and `queue` are Redis; `pgBalance`, `deposits` and `rows` are
PostgreSQL; `req`, `sync` and `cred` are the locals of coroutines, which a failure
loses. `credited` and `topUps` are history variables that only properties read.
PostgreSQL's row locks are derived: `Locked` is the set of tenants the worker's open
transaction has updated, and other writers of those rows wait. Inside one transaction
nothing is visible before its commit, so the transaction's inserts and updates appear
in the commit's step; Redis effects between them (the alert key) do not roll back and
are steps of their own.

Abstractions: amounts are integers (micro-dollars), so the rounding of floats and
INCRBYFLOAT is not modelled; every Redis command takes effect at most once per call (the client library may
be configured to send it again); Redis and PostgreSQL do not lose what they
acknowledged; the LLM provider call, which precedes the charge and touches no shared
state, and webhooks are left out; PostgreSQL balances start at 0, the column's default.
`process_xrpl_payment` is the same three effects as `credit_tenant_deposit` with a
different network in the row, and shares its actions. The polling backstop of the XRPL
listener is not modelled because nothing starts it.

### Runs

| Run | Instance | Checks |
|---|---|---|
| `billing_crash` | 2 tenants, 2 requests of which the sign-up credit covers one, one hash submitted twice, possibly for different tenants and with amounts of 2 or -1, 2 creditors (worker and daemon), a top-up, 1 failure, batches of 2 | `TypeOK`, `BalancesAddUp`, `LedgerSound`, `NothingForgotten`, `CreditsAreExclusive`, `AlertsAreFresh`, `ImplementsAccount` |
| `billing_live` | 1 tenant, 2 requests, one hash sent twice, 3 creditors (worker, daemon, XRPL task), 1 failure, under `FairSpec` | `UsageReachesLedger`, `DepositsAreCredited`, `WorkerCatchesUp` |
| `billing_reconciled` | 2 requests, no failure | `ReconciledWhenQuiet` is violated |
| `billing_recorded` | 1 deposit, 1 failure | `RecordedIsCredited` is violated |

Bounds (`MaxPayments`, `MaxTopUps`, `MaxFaults`, `MaxRate` and the finite sets) are
constants that appear in guards. They are enough for the cases the properties are
about: two requests of one tenant are needed to invert events, two messages with one
hash and two creditors to race on it (an XRPL task is a third that only gets its message
elsewhere; it runs in `billing_live`), one failure to fall between any two steps and
one further message or request to meet what it left behind; a batch of two
events of different tenants, and a second batch, to have the worker's transaction hold
several rows. `MaxRate = 1` with an expiring window lets the limit, the balance and
both refuse. Deadlock is not checked (`CHECK_DEADLOCK FALSE`): with bounded requests,
payments and failures the modelled system really comes to rest. Symmetry of tenants,
requests and hashes is used in the safety run only.

**Fairness.** `FairSpec` gives weak fairness to each coroutine step that the event loop
resumes once its await is answered: publishing a charged request, the worker's steps,
the creditors' steps. Inputs (requests, submissions, payments, top-ups), expiries and
failures get none. Each property excuses what the code gives up on: after an exception
a popped message or a delivered batch is lost by design, so `UsageReachesLedger` and
`DepositsAreCredited` promise their result "or a failure happened"; `WorkerCatchesUp`
has no excuse, because both loops catch every exception and go on.

**Two disagreements with what the repository says.**

* `ReconciledWhenQuiet`: README.md reports a load test of 50 concurrent workers with
  "exact balance reconciliation". `execute_metering` awaits XADD after the script, so
  the events of two concurrent requests can be appended in the opposite order of their
  debits, and `process_batch` keeps the last one: PostgreSQL ends with the older, higher
  balance until the tenant's next request. What does hold is `PgNeverOverstates`: the
  reported balance never exceeds what the tenant was given (sign-up credit, positive deposits,
  top-ups).
* `RecordedIsCredited`: `credit_tenant_deposit` is documented to be idempotent and to
  increment both balances. A failure between its commit and its INCRBYFLOAT leaves a
  deposit that is recorded and skipped as a duplicate for ever after. What does hold is
  `CreditsAreExclusive`: never twice.

### Proofs

`BillingPipelineProofs.tla` proves, for any constants that satisfy the named
assumptions of `BillingPipeline` (non-negative prices, deposits of any sign, a batch size of at least one,
creditors that are distinct processes, absent values that are not deposits):

| Theorem | Says |
|---|---|
| `TypeCorrect` | `Spec => []TypeOK` |
| `Balanced` | `Spec => []BalancesAddUp`, that is, `Conservation`, `NeverOverdrawn` and `PgNeverOverstates` |
| `Ledgered` | `Spec => []LedgerSound`, that is, `AckedAreLedgered` and `LedgeredOnce` |
| `Remembered` | `Spec => []NothingForgotten` |
| `CreditedOnce` | `Spec => []CreditsAreExclusive` |
| `Fresh` | `Spec => []AlertsAreFresh` |
| `Implementation` | `Spec => ImplementsAccount`, that is, refinement of `PrepaidAccount` |

The invariants are not inductive alone. `IInv` adds what the argument needs, in four
parts. `StreamInv`: each stream entry is the event of a different finished request, and
the worker's batch lies behind the group's cursor. `LedgerInv`: entries beyond the
cursor and entries of a batch that is not committed have no row, those of a committed
batch and acknowledged ones have one; a commit then finds rows of 0 and makes them 1,
and no failure can move the cursor back. `DepositInv`: what is in flight belongs to live
tenants, what was credited was recorded, and `CreditsAreExclusive` (which is inductive
with the two). `BalanceInv`: balances are 0 until the tenant is live, so that the step
that opens an account maps to `PrepaidAccount!Open`. The proof goes by
groups of variables: three lemmas (`UsageSteps`, `DepositSteps`, `AccountSteps`) say
that a step is one of the few actions that change a group or leaves the group alone,
and the part of `IInv` about that group is then proved action by action.

`BalancesAddUp` says of a negative deposit what the code does with it: `Conservation` counts it
as it is, and `NeverOverdrawn` allows a balance below zero by what the credited negative
deposits of the tenant took (`Withdrawn`) and by nothing else, so no race of charges overdraws
it. `PgNeverOverstates` counts the positive deposits (`Received`), since a negative one may be
overwritten by a balance the worker read before it.

`Balanced` adds `FundsInv`. `BalancesAddUp` alone does not survive the worker: `process_batch`
writes a balance that some request read long ago. `ReportInv` bounds what is on its way: the
balance in the locals of a charged request, and in each stream entry, is at most what its
tenant was given by then, which never shrinks. `HoldingsInv` says that a tenant's charges and
deposits are finitely many and empty before it may spend. A step then changes one term of one
sum, or moves one deposit from the recorded to the credited ones.

The sums are `SumFunction` of the community modules, a recursion that takes elements in
an order nobody chose. `FiniteSums` shows that the order does not matter, without the
library's induction theorems, which the provers cannot apply: where an induction would be
used, a smallest set that is a counterexample is taken, its first element removed, and the
contradiction found one step below. From there follow the facts the proofs cite: adding,
removing or changing one term (`SumAdd`, `SumRemove`, `SumChange`), comparing sums
(`SumMonotone`, `SumSubset`), telescoping (`SumSteps`) and moving quantities between prices
(`Exchange`).

`Remembered` needs that the failure counter only grows (`FaultsStay`): if nothing has failed
after a step, nothing had failed before it, so the steps that lose something are not among
those to look at. `Fresh` is inductive with the types: keys and what the worker found change
by a handful of actions (`AlertNext`), and the only one that sets a key is the worker's own.

`IInv` and `FundsInv` were checked with TLC on the instances above before they were proved.
Model-checked only: the three liveness properties.

## 4. The tollbooth

`OneShotChallenge.tla` is the promise: a challenge is issued under a nonce that was never
used, admits at most one request, and once it has admitted one or was dropped it never
admits another.

`Tollbooth.tla` is the handshake. The critical sections of `NonceStore`'s lock are single
steps; the clock is read before the lock is taken, so that reading is an earlier step and
the time a thread acts on may be old.

| Code | Actions |
|---|---|
| `HTTP402Handler.execute_request` | `Ask`, then on a challenge `Sign` (and the one retry) or `SignerFails` (another network, or no signer configured); `ConnectionLost` ends the call while its request goes on |
| `evaluate_request` | `Start` (headers, clock), then `Issue` (`generate_nonce`) or `Consume` (`verify_and_consume`), then `Authorize` or `RefuseProof` |
| `resin_tollbooth_middleware` | `Accept` (a request reaches a thread) and `Answer` |
| a client or proxy that repeats the headers of a paid request | `Duplicate` |
| `purge_expired` | `PurgeRead` (clock), then `PurgeSweep` (under the lock) |
| time, a stop of the process | `Tick`, `Restart` |

`store` is the map of the store, `thread` the locals of the server threads, `call` those of
the clients, `purge` the time a purge read; `expiry` and `admits` are history. The gateway
as deployed evaluates its requests in one event loop (`docker-compose.yml` starts one
worker); several threads are what `NonceStore` documents it is safe for. `purge_expired`
has no caller outside the tests.

Abstractions: the settlement verifiers answer yes, no or raise (a refusal is a fault, as
the client's payment is taken to be good); nonces are unguessable, so only issued ones are
presented; header and JSON parsing is left out; the clock ticks a bounded number of times.

| Run | Instance | Checks |
|---|---|---|
| `tollbooth_safe` | 2 calls, 2 threads, 3 nonces, lifetime 1, clock up to 2, 2 faults | `TypeOK`, `HeldOnce`, `ServedForOwnPayment`, `PurgeKeepsLive`, `ImplementsOneShot` |
| `tollbooth_live` | 1 call, 2 threads, 3 nonces, under `FairSpec` | `PaymentsAdmit`, `CallsEnd` |

Two threads and a purge are what one nonce can be raced by; two calls are needed for one
to be served with the other's payment; two faults let a request be repeated and its first
copy be lost; the clock reaches a time past the expiry, and a third nonce serves the call
that asks after that. Nonces and threads are interchangeable, and the safety run uses it.

**Fairness.** A thread goes on with the request it started, a waiting request is accepted,
and a client that was challenged signs or gives up. Nothing else is fair: not asking,
purging, ticking or failing. `PaymentsAdmit` excuses failures and expiry; `CallsEnd`
excuses nothing.

**Proofs.** `TollboothProofs.tla` proves, for any constants under the assumptions of
`Tollbooth`, `TypeCorrect`, `ConsumedOnce` (`HeldOnce`), `Served` (`ServedForOwnPayment`),
`Purged` (`PurgeKeepsLive`) and `Implementation` (refinement of `OneShotChallenge`). The
inductive invariant `Inv` adds to `TypeOK` and `HeldOnce`: `StoreInv`, a nonce in the
store has its recorded expiry and admitted nothing; `GrantInv`, a thread about to answer
"ok" holds a nonce that admitted one request, and neither another such thread nor a served
call has the same one; `ServedInv`, a served call has a nonce. Most steps touch none of these, and
three lemmas say so once (`HarmlessStep`, `StillStep`, `DropStep`); `Issue`, `Consume`,
`Authorize` and `Answer` have a lemma each. `PurgeKeepsLive` needs `PurgeInv` too: the
time a purge has read is not in the future. The liveness properties are model-checked
only.

## 5. Deposit listeners and tool credits

`ChainListener.tla` is the two loops of `app/main.py`, each with its own
`RpcCircuitBreaker`, and `process_deposit`, which they share. `ToolCredits.tla` extends it
with the requests that spend what it credits.

| Code | Actions |
|---|---|
| blocks with transfers to the treasury | `Mine` |
| a loop's first and later `eth_blockNumber` | `Poll`: the first gives the block it begins at, a later one the range of the cycle |
| `eth_getLogs` of the range (Base), `eth_getBlock` of each block (Arc) | `Fetch` |
| `record_failure` and the loops' except clauses | `CallRefused` (the node does not answer that call), `CallFails` (a passing failure), both through `FailOver` |
| `process_deposit` | `CheckDeposit` (GET), `CreditHash` (HINCRBY), `CreditString` (INCRBY), `MarkConfirmed` (SET); `DepositFails` anywhere |
| endpoints going down, a stop of the process | `NodeDies`, `Restart` with `ListenersRestart` |
| `M2MPaymentMiddleware.dispatch` | `AdmitByKey`, `AdmitByTx`, `Challenge` |
| `mcp_handler`'s `tools/call` | `CallTool` |
| `deduct_credit` | `Seed` (HSETNX), `Deduct` (HINCRBY and its comparison), `DeductFails` (the except clause that serves for free) |

`credits`, `balance` and `confirmed` are Redis; `listener` holds the locals of a loop
(`last` is `last_block`, `target` is `target_block`) and of its breaker (`node` is
`current_idx`, `fails` is `consecutive_failures`, which is capped at the threshold since
every failure from there on rotates); `start`, `hashed`, `strung`, `given`, `seeded` and
`taken` are history. A loop without a treasury address is `"off"`.

Abstractions: blocks without a transfer to the treasury are not in the chain, which is
final; every transfer buys the same credits; delays, backoff and alerts are left out; the
confirmation's lifetime of a week is longer than any range stays in work; a Redis command
that raises had no effect; the tenant of the Bearer key and that of the X-Tenant-ID header
are independent, as in the code.

| Run | Instance | Checks |
|---|---|---|
| `tool_credits` | one loop of either kind, 2 blocks of one transaction with two transfers each, 2 endpoints, threshold 2, 2 requests, trial of 1 credit, 1 fault | `TypeOK`, `CursorCovers`, `ConfirmedIsCredited`, `RepeatsNeedFailures`, `CreditsAddUp`, `ServedWithinFunds`, `TransfersAreCredited` |
| `nodes_rotate` | the first endpoint answers `eth_blockNumber` only | `NodesRotate` is violated |

Two blocks make a range of two, or a second range; two transfers in one transaction meet
its own confirmation; two requests race for the last credit while a deposit comes in; one
fault, wherever it falls, has a range read again. The two loops share no state but the
tenants' counters, which each changes with single commands.

**Fairness.** Each loop goes on with the call or command it awaits, and a request that was
let in is metered. `TransfersAreCredited` holds through passing failures, dead endpoints
and failing commands; it excuses transfers that are older than where the loop (re)starts,
because `last_block` is in memory and begins at the head of the chain: what is mined while
the process is down is not credited. It also asks that no endpoint answers
`eth_blockNumber` alone, because of the disagreement below.

**One disagreement with a comment.** `NodesRotate`: both loops say "Resilient breaker
handles backoff and node rotation internally". Any success resets `consecutive_failures`,
and every cycle begins with `eth_blockNumber`; an endpoint that answers it but not
`eth_getLogs` is never counted beyond one failure, is never left, and nothing is credited
while the other endpoint would answer both.

**Proofs.** `ToolCreditsProofs.tla` proves, for any constants under the assumptions of the
two modules (blocks are not empty, thresholds and ranges are positive, the requests are
finitely many), `TypeCorrect`, `Covered` (`CursorCovers`), `Credits` (`RepeatsNeedFailures`),
`ConfirmedLast` (`ConfirmedIsCredited`), `Ledger` (`CreditsAddUp`) and `Within`
(`ServedWithinFunds`). The
invariant `IInv` has three parts. `TypeOK`. `LoopInv`, four claims about each loop: `Where`
it is (inside the chain, and inside its range while it works on one); what it has `Passed`
(every block before the one in work, not only those up to the cursor, since a range may be
left half done); what each hash was `Credited` (a hash that is neither confirmed nor in
hand was counted at most as often as something failed, which is what lets a retry count it
once more); and how far the hash in hand is `Staged`. `LedgerInv`: a missing field was never
seeded, deposited to or taken from, which is what HSETNX relies on; one that exists adds up;
and the calls served are at most the credits taken as well as at most the funds. `Frame`
says once that a loop is undisturbed by what the others do; `StillIn`, `BackToPoll` and
`Advance` are the three ways a loop can move. The two liveness properties are TLC's alone.

What the code does and the model keeps: a refused call has taken its credit all the same
(`CreditsAddUp` counts it); a confirmed transaction lets any number of calls in; the second
transfer of a transaction is skipped.

## 6. Payment channels

`ChannelClaims.tla` is the clients that sign a growing total and the middleware that takes
the claim for a request. `ChannelSettler.tla` extends it with the settler's loop in
`worker.py`, which redeems the saved claims, and with the ledger.

| Code | Actions |
|---|---|
| `BristleconeX402Client.call` (asks for the price), `XylemClient.call_tool` (is told a cost) | `Call`, `CallTool`: the total grows, is signed and sent; `GiveUp` is the client's timeout, after which the request goes on |
| `verify_and_consume_claim` | `CheckDelta` or `RefuseDelta` (GET and comparison), `Consume` or `RefuseSignature` (the node's answer, SET `claimed_drops`), `Admit` (HSET `latest_claim`, and the request is served) |
| a Redis command that raises, a stop of the gateway | `Fail`, `GatewayRestarts` |
| `xrpl_settler_sweeper_loop` | `Wake`; `CycleFails` (its except clause, a restart) |
| `settle_payment_channels` | `Skip` or `SubmitClaim` for each channel, `Record` (SET `settled_drops`), `EndScan`; `StepFails` (its except clause) |
| `sweep_to_vault` | `ReadBalance`, `SubmitSweep`; `StepFails` |
| the ledger (external) | `Apply`, `Expire` of the wallet's oldest transaction |

`claimed`, `voucher` and `settled` are the three Redis keys of a channel; `payer` is the
counter of a client, `req` the locals of a request, `settler` those of the loop. `redeemed`,
`wallet` and `pending` belong to the ledger: the transactions of one account are applied in
the order of their sequence numbers, so they are a queue, and one whose outcome was lost
stays in it until it is applied or expires. `served` and `overlapped` (channels two of whose
claims were checked at once) are history.

Abstractions: a channel is its identifier after `upper().strip()`, as in every key; the node
verifies a signature or does not; headers that do not parse and the first POST without
headers change nothing; the SCAN visits each channel once (a key it repeats is one more read
of the same values); channels last, and hold what they were funded with; the ledger's own
account reserve is left out. There is one settler: `settler.py` can also be started by hand,
and two of them are not modelled.

| Run | Instance | Checks |
|---|---|---|
| `channels` | 2 clients, 2 channels that hold 4 drops and 1, 2 requests of prices 1 or 2, threshold 2, 1 fault | `TypeOK`, `ServedIsPaid`, `SettledWasRedeemed`, `ReserveKept`, `VouchersAreRedeemed` |
| `cumulative` | 1 SDK client, 2 requests, 1 fault | `CumulativeClaims` is violated |

Two requests are what it takes to check two claims at once and to replace one claim by
another; the second channel has claims the ledger refuses in every cycle, and these must not
stop the first; the wallet begins with enough for one sweep and may, with a claim more, make
another; one fault falls on any step of either side. The first request is the SDK client's,
on the first channel, which fixes names only where the two channels differ in what they
hold. Deadlock is not checked: the requests are bounded, and with a wallet that cannot pay
the fee the settler waits for an expiry that nothing promises.

**Fairness.** The loop catches every exception and sleeps a minute, so its steps are fair;
the ledger validates what was submitted, so `Apply` is. Clients, requests, failures and
expiry are not. `VouchersAreRedeemed` excuses a claim that was replaced, one beyond the
channel's funds, and a wallet that cannot pay the fee: a claim the ledger refuses is
submitted again each minute, and costs the fee each time.

`ReserveKept` is conditional on at most one failure, since each outcome that is lost can be
followed by one more sweep of the same money. With one, what saves the reserve is that
the sweep threshold exceeds it: the second sweep is too large for what the first left, and
fails. `WalletAssumption` states that, and the defaults of `settler.py` (15 XRP, 50 XRP,
12 drops) meet it.

**One disagreement with the documentation.** `CumulativeClaims`:
`cookbooks/xrpl_ledger_tools.md` calls a claim "Cumulative drops authorized across the
channel session". `verify_and_consume_claim` reads `claimed_drops`, awaits the node, and
writes both keys without looking again, so two claims checked at once are both accepted and
the smaller one can be written last. One client is enough: its first call times out while
its claim is still being verified, and its second is served in the meantime. The last claim
then covers less than what was served. `ServedIsPaid` is what holds: as long as no two
claims of a channel are checked at once, whatever else fails, the last claim covers
everything that was served.

**Proofs.** `ChannelProofs.tla` proves, for any constants under the assumptions of the two
modules, `TypeCorrect`, `Paid` (`ServedIsPaid`), `Settled` (`SettledWasRedeemed`) and
`Reserved` (`ReserveKept`). The invariant `IInv` has four parts. `TypeOK`. `ClaimsInv`:
a channel outside `overlapped` has one claim in check at most, which exceeds by the price
what is claimed (while it is verified) or what is saved (afterwards), and what was served is
within the saved claim, which is within what is claimed; the last inequality is what a
failure between the two writes needs. `SettlerInv`: the awaited transaction is the last in
the queue, what is about to be recorded was redeemed, and each transaction nobody awaits
cost a failure. `SweepInv`: while at most one failure has happened, what a
pending or planned sweep takes leaves the reserve, or is more than the wallet has, according
to which sweeps are ahead of it. `VouchersAreRedeemed` is model-checked only.

## 7. The services around the gateway

Eight small modules, each of a part that shares no state with the others. `MCServices` runs
one of them at a time: its variable `focus` names the one that runs, and the rest keep one
initial state, so TLC explores the sum of their state spaces and not the product.

### Rate limits: `RateLimits.tla`

| Code | Actions |
|---|---|
| `enforce_sandbox_limit`, at the head of each sandbox endpoint | `SandboxCall` |
| `check_rate_limit` and the refusals around it in `get_tenant_context` | `KeyCall` |
| `RateLimitMiddleware.dispatch` | `MiddlewareCall` |
| `RedisRateLimiter.check_rate_limit` | `ReadClock` of an instance, then `Transact` (ZREMRANGEBYSCORE, ZCARD, ZADD, EXPIRE in one transaction) |
| time, and Redis dropping the key | `Tick` |

`recent` is the list or deque of one client, `members` and `expireAt` the sorted set and its
key; `grants` and `hint` (when the last refusal said to come back) are history. The
in-process limiters read and write without an await, so a call is one step. `LimiterSound`
is `LimitHolds` (no window admits more than the limit; in Redis it holds for instants, since
calls of one instant are one member, over windows shortened by the time a transaction is
under way) and `RetryFindsRoom` (a client that waits as long as it was told, and a second
for the fraction `int()` cuts off, finds room). Of the four, only the sandbox's is wired into
the application as `app/main.py` builds it. Two instances, two calls to a window and a clock
that runs past a whole window and the key's expiry let a slow transaction meet a set that was
trimmed by a later clock, and an expiry.

### Tenant credits and notices: `TenantCredits.tla`

| Code | Actions |
|---|---|
| `deduct_tenant_credits` in `run_agent` | `Charge` or `Decline`: one transaction whose first statement locks the row |
| `handle_payment_webhook` | `FindRow` (SELECT FOR UPDATE), then `AddTopUp` or `InsertRow`, which raises if a row has appeared |
| `check_and_notify_low_balance`, after a charge and in `scan_all_tenants_low_balance` (`Sweep`) | `ReadFlag`, then `ResetFlag`, or `MarkFlag` and `Post` |
| `configure_tenant_webhook` | `Configure` |
| a request that dies between two statements | `Stop` |

`CreditsSound` is `BalanceAccounted` (row and ledger account for every answered top-up) and
`OneNoticeAtATime` (while checks do not overlap, at most one notice for each breach).

**One disagreement with a comment.** The run `one_notice` checks `OneNotice`, which is what
`app/services/notifications.py:77` says ("Mark as notified atomically") without the proviso:
the flag is read by one statement and set by another that does not look at it, so two charges
of one tenant at the same time post two notices for one breach.

### Commits: `CommitDag.tla`

| Code | Actions |
|---|---|
| `create_commit`, `create_commit_node` | `Request`, `FindParents` (the lookup and its count), `Store` (the commit, and `add_task` for a seedling) |
| `process_seedling_commit` | `AskModel`, then the same two steps with the seedling as parent |
| `get_project_dag` | `Read` |
| an exception, a restart | `Raise`, `Restart` |

`DagSound` says that edges lead back and stay inside one organization, that a seedling gets
one sapling at most, and that a project that is read shows nothing of another organization.
`SeedlingsGrow`: unless its task fails or is forgotten in a restart, every seedling gets its
sapling, also when the provider refuses, since the error text is stored as the answer.

### Agent tasks: `AgentGraph.tla` and `TaskStore.tla`

`AgentGraph` is `AgentGraphOrchestrator.run`, a step per node: `StartSession`, `DraftTask`
(`WorkerNode`), `Invigilate` (`InvigilatorNode`), `Sign`, `Execute` (`execute_task` behind its
signature gate), `Evaluate`, `FinishSession`; `Abort` is a process that stops. Nothing in
the repository calls it yet. `TaskStore` is `Layer3Orchestrator.process_agent_request`: a write of
the SQLite store is `BeginWrite` and `CommitWrite` with the file's write lock in between, then
`ParseIntent`, `Gate`, `Answer`; `Mishap` is an exception, a lock that is not obtained in time
or a crash, and rolls back.

`audit` is the one file all sessions append to. Its lines have the details `run` gives them and
no others: a draft is logged with its iteration and `task_id`, a verdict with iteration, answer
and reason, a signature and an execution with the `task_id`. No line names its session, and a
verdict names no task, so a reader of the file cannot always say which of two drafts of the same
iteration an approval was for. `ExecutedWasApproved` says what the file does show, and reads
nothing but the file: a task is executed at most once, after a line that signs it; and there is
an injection from the signed tasks to the lines that gives each an approval of its own, of the
iteration of its draft, after that draft, which is permitted, and before its signature. So the
file never shows more signatures than approvals, at any place, which is what a session that
skips or outruns its invigilator would break. The lines about a session as a whole
(SESSION_STARTED, WORKFLOW_FAILED, EVALUATOR_VERIFIED, SESSION_FINISHED) name no draft and are
left out. A `task_id` is a uuid: the model makes it unique and reads nothing from it.

`AuditTrailsTell` joins `ExecutedWasApproved` and `TrailTellsStatus` (the trail of a task tells
the statuses of its row, and the answer, whatever was cut short; a task that is cut short stays
INGRESS). The status FAILED is left out: `process_agent_request` verifies a signature it has just
made over the same payload with the same key, so that branch is never taken. `SessionsEnd` is the termination of the
loop: the cap of iterations, and the target the worker falls back to. The module keeps the
order of the code, where a draft beyond the cap is refused for the cap whatever its target; with
the cap of three that `AgentState` sets, no session reaches it, in the code or in the run.

### XRPL tools: `MarketQuotes.tla` and `TicketPool.tla`

`MarketQuotes`: `ReadAsks`, `ReadBids`, `ReadPool` are the calls of `get_orderbook_depth` and
`get_amm_arb_quote`, `Shift` is the market in between. A book request that is answered by an
error has no `offers` and counts as an empty book (`Heard`); one that raises ends the call
(`BookFails`, the 502 of the one tool and the uncaught exception of the other); a pair without
an AMM, or a pool request that fails, leaves no pool to compare with (`NoPool`). The walk and the comparison are
operators over what was read. `MarketSound` compares them with reference definitions:
`QuoteIsBest`, against every way of filling the order, and `ArbitrageIsReal`, against the
constant-product formula for a trade as small as `Grain` makes it: what is reported pays for what
was read, nothing that pays is missed, and both directions pay only if the market moved between
the reads, which the run reaches. `Prices`, `Volumes` and `Reserves` are small, and
all books of up to two offers a side are enumerated, with empty books, offers that give
nothing and pools whose two prices lie on either side of the book.

`TicketPool`: `ReadInfo`, `Suggest`, `LookupFails` are `get_ticket_pool`; `Submit`,
`UseTicket`, `UseSequence` belong to the bots and the ledger. `PoolWithinTarget`: bots that
follow the suggestions, whenever and in whatever order, do not take the account over its target,
because the sequence is read before the tickets are counted, and a count that is out of date
comes with a sequence that is gone. The tool asks for the validated ledger and pins none, and its
default endpoint is a cluster, so any answer may be of an earlier ledger (`Shown`), also the
second one of an earlier ledger than the first. Only then can a suggestion be too large, and the
property says by how much: `tickets <= Target + missed`, where `missed` is the number of tickets
that were there and that the older count did not show (`Unseen`); it is 0 whenever the count is
of the same ledger as the sequence or of a later one.

### The sweeper: `Sweeper.tla`

`run_sweeper_loop`, a step per JSON-RPC call: `ReadBalance`, `ReadFees`, `ReadNonce`, `Send`,
on one rail after the other; `CallFails` is a call all nodes fail, or the key service. A call
is answered by a node that may lag (`Answers`). The chain and the pool are external: `Arrive`,
`Mine`, `FeeMoves`, `CatchUp`. A sweep offers twice the base fee and a constant tip
(`max_priority_fee`) as its cap, and that tip. A node takes a transaction in place of one with
the same nonce only if both cap and tip are higher (`Accepted`): as the tip never is, a sweep
that waits is never replaced, and a poll meanwhile ends in an error.

`OneSweepWaits`: a rail never has two sweeps waiting, and the one that waits is next in line,
because the nonce is that of the latest block and not the pending one. `FundsSwept`: funds over
the threshold are swept in the end, through errors, lagging nodes, polls that are refused and
sweeps that revert, unless the ETH for gas runs out or a sweep is `Stranded`: the base fee has
risen above its cap, so no block takes it and no poll can replace it until the fee falls. The
run reaches that state (a sweep made at the fee of 1 has a cap of 3, and the fee goes up to 4).

### The runs

| Run | Instance | Checks |
|---|---|---|
| `services` | each module alone; constants in `MCServices.cfg` | `ServicesTypeOK`, `LimiterSound`, `CreditsSound`, `DagSound`, `AuditTrailsTell`, `MarketSound`, `PoolWithinTarget`, `OneSweepWaits`, `SeedlingsGrow`, `SessionsEnd`, `FundsSwept` |
| `one_notice` | two workers, two charges | `OneNotice` is violated |

Two actors of every kind (workers, handlers, instances, bots, sessions; three inquiries for
the lock of the store) and one or two faults are the smallest instance in which each can race
with, or fail between, the steps of another. Deadlock is not checked: calls, charges, commits
and faults are bounded, so the modelled services come to rest.

**Fairness.** Handlers of the commit service (`DagFairness`) and the nodes of `run`
(`GraphFairness`) are coroutines the event loop resumes. The sweeper polls for ever and
catches every exception (`SweepFairness`), nodes catch up with the chain, and a block takes a
transaction that pays its fee. Requests, arrivals, faults and fees get none.

### Proofs

| Theorem | Says |
|---|---|
| `AccountProofs!LimitersAreSound` | `LimitSpec => []LimiterSound` |
| `AccountProofs!CreditsAccounted` | `CreditsSpec => []CreditsSound` |
| `AccountProofs!PoolBounded` | `PoolSpec => []PoolWithinTarget` |
| `AccountProofs!SweepsNeverQueue` | `SweepSpec => []OneSweepWaits` |
| `HistoryProofs!DagIsSound` | `DagSpec => []DagSound` |
| `HistoryProofs!ExecutionsApproved` | `GraphSpec => []ExecutedWasApproved` |
| `HistoryProofs!TrailsComplete` | `StoreSpec => []TrailTellsStatus` |
| `ServicesProofs!MarketQuotesSound` | `MarketSpec => []MarketSound` |
| `ServicesProofs!AuditTrailsSound` | `ServicesSpec => []AuditTrailsTell` |
| `ServicesProofs!ServicesTyped` | `ServicesSpec => []ServicesTypeOK` |

They hold for any constants under the assumptions of the modules (positive limits, windows,
prices and targets; amounts and thresholds that are natural numbers; a fee below the whole; a
worker is not the free lock, and no inquiry the free writer). Each service is proved in its own
specification. `ServicesCompose` shows that the composition is one: an initial state of
`MCServices` is one of every service, and a step of it is a step of the service in focus and a
stutter of each other one, so `ServicesSpec` implies the eight specifications and what was
proved of them.

* `LimitInv`: every call of the window that was let through has a place in the list, so the
  places bound the calls (`ListInv`); its instant is in the sorted set, which a slow
  transaction trims by an older clock and so trims less, and whose key expires only after its
  last instant has left the window (`RedisInv`). The advised wait outlasts some call in the
  list because a full list has an oldest one, which is the well-foundedness of `<`.
* `CreditsInv`: whoever holds the row lock has read the balance the row still has (`RowInv`);
  while checks do not overlap, the flag and the step of the only check tell whether this
  breach's notice is still owed (`NoticeInv`).
* `DagInv`: stored ids are `1..k`, so a new commit comes after its parents (`Packed`); what a
  handler found stays found, and a task alone has its seedling, which has no sapling while the
  task is at work (`JobsInv`).
* `PoolInv`: a suggestion that still names the account's sequence fits the pool
  (`SuggestionFits`) up to what it missed, which bounds what it would do at any later time; and
  two ledgers of one sequence differ by tickets that were used in between.
* The sweeper's invariant: no node and no nonce that was read is ahead of the chain
  (`ReadsPast`), so what is sent is next in line, or refused as too low or as underpriced.
* `GraphInv`: a line, once written, stays at its place. The approvals are `Assigned` to the tasks
  that need one, signed or about to be (`Backed`): when an approval is written it is given to
  the draft its session has in check, which the file shows with that iteration (`OnItsWay`), at
  a line no other task has. A task runs once (`RunsOnce`), because a session that has executed
  or dropped one drafts the next under a new id (`Ended`).
* `StoreInv`: row and trail change together, so at each step of a call both are known
  (`Committed`: nothing, the creation, or the creation and what the call decided), and so is
  what the open transaction would write (`OpenWrite`).
* `MarketInv`: the books of the ledger are in order and do not cross; what was read of a book is
  in its order, and, while the market has not moved, shows nothing but offers of that book.
* `QuoteIsBest` then is a fact about every state of `MarketInv`. `Left`, the walk, goes down
  level by level (`LeftWalks`, from `StepTable`: a recursion whose steps stay in a set has a
  table). There is a pivot: levels before it are taken whole, none after it is touched. So
  the walk takes the most there is (`WalkTakesMost`), and any other way to take as much has
  moved volume from before the pivot to after it, where a buyer pays no less and a seller gets
  no more (`WalkIsBest`, by `Exchange` at the pivot's price).
* `ArbitrageIsReal`: with a trade of one part in `Grain` of a unit, the margin outweighs what
  the curve takes (`SmallTrade`); if both directions pay, bid exceeds ask (`BothPay`), and
  books read without a change in between do not cross.

`GraphInv`, `StoreInv` and `MarketInv` were checked with TLC before they were proved. The three
liveness properties are model-checked only.

## 8. What is not modelled

* The invigilation pipeline of the open-source package (`src/layer0` to `src/layer5`): a
  sequence of functions that share nothing but an append-only log.
* The routines behind `execute_task`, the sandbox's computations, the pure tools: functions of
  their payload. `app/layer2_microservices/router.py` defines its router three times; only the
  last definition is served.
* `state_graph.py`, used by one test; `verify_metering` and `create_api_key`, which serve no
  route; `get_current_org_id`; the dry-run mode of the sweeper, which sends nothing; the
  watchdog, which counts two failures and posts a message; the fallbacks that answer without
  the ledger when Redis is down, and the bypass for prepaid rails.
* Encodings: RLP, DER and signatures appear as a call that works or fails; the socket guard is
  string and address parsing. Floating point appears as exact integers of small size.
* CRUD endpoints read or write one row in one transaction; SDKs, MCP servers, UI, scripts and
  examples are clients without state.
* Two hazards have no property: the second transfer of a transaction (skipped as a duplicate)
  and a payment webhook that is sent twice (credited twice). Nothing in the repository says
  what should happen, and the models do what the code does.

The components list of PROJECT.json gives each part its status and reason.
