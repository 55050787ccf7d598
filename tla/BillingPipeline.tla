---------------------------- MODULE BillingPipeline ----------------------------
(***************************************************************************)
(* The USD metering pipeline: the API charges a tenant's Redis balance in   *)
(* one Lua script and then appends a usage event to a Redis stream; the     *)
(* worker moves usage events in batches into PostgreSQL; listeners credit   *)
(* deposits first in PostgreSQL and then in Redis; an administrator tops up *)
(* PostgreSQL alone.  Every await between two effects is a step of its own, *)
(* and a crash or an exception may fall between any two of them.            *)
(*                                                                         *)
(* Amounts are integers (the code's micro-dollars); a request stands for    *)
(* one HTTP request, a creditor for one coroutine that credits deposits.    *)
(* DepositSubmitRequest.amount_usdc is an unvalidated Decimal and stays one  *)
(* until it is added to both balances, so a deposit may be zero or negative. *)
(***************************************************************************)
EXTENDS Integers, Sequences, FiniteSets, Functions

CONSTANTS
  Tenants,       \* tenant ids
  Requests,      \* metered requests
  Txs,           \* transaction hashes
  Costs,         \* prices of the metered endpoints
  Amounts,       \* deposit and top-up amounts, of any sign
  SignupCredit,  \* the balance agent_auth.py writes for a new tenant
  Threshold,     \* low_balance_threshold_usd
  MaxRate,       \* rate_limit_rpm
  BatchSize,     \* COUNT of XREADGROUP
  WorkerReader,  \* the worker's deposit_listener_loop
  Daemons,       \* deposit daemons, which pop the same queue
  XrplTasks,     \* tasks the worker spawns for XRPL payments
  NoDeposit,     \* deposits[x] before x is recorded
  NoMsg,         \* a creditor that holds no deposit
  MaxPayments,   \* bound: deposits submitted or seen on the XRPL
  MaxTopUps,     \* bound: what the administrator adds
  MaxFaults      \* bound: crashes and exceptions

ASSUME TenantAssumption == Tenants # {}
ASSUME PriceAssumption == Costs \subseteq Nat /\ Amounts \subseteq Int
ASSUME SignupAssumption == SignupCredit \in Nat
ASSUME BatchAssumption == BatchSize \in Nat \ {0}
ASSUME BoundAssumption ==
  /\ MaxRate \in Nat /\ Threshold \in Nat
  /\ MaxPayments \in Nat /\ MaxTopUps \in Nat /\ MaxFaults \in Nat
ASSUME CreditorAssumption ==
  /\ WorkerReader \notin Daemons \cup XrplTasks
  /\ Daemons \cap XrplTasks = {}

Creditors == {WorkerReader} \cup Daemons \cup XrplTasks
Deposit == [tenant : Tenants, amount : Amounts]
Msg == [tx : Txs, tenant : Tenants, amount : Amounts]
Event == [req : Requests, tenant : Tenants, bal : Int]

ASSUME AbsentAssumption == NoDeposit \notin Deposit /\ NoMsg \notin Msg

VARIABLES
  account,    \* registration state of each tenant
  balance,    \* Redis balance:{tenant}
  rate,       \* Redis rate:{tenant}, 0 when the key is absent
  alert,      \* tenants whose Redis alert:low_balance:{tenant} is set
  req,        \* each request: its progress and what it was charged
  stream,     \* Redis api_usage_stream, never trimmed
  cursor,     \* last-delivered-id of the consumer group
  acked,      \* stream positions acknowledged with XACK
  sync,       \* the worker's usage_sync_loop and the batch it holds
  queue,      \* Redis base_deposit_queue
  cred,       \* each creditor: its progress and the deposit it holds
  pgBalance,  \* PostgreSQL tenants.credit_balance_usd
  deposits,   \* PostgreSQL tenant_deposits, UNIQUE (tx_hash)
  rows,       \* number of llm_usage_ledger rows of each request
  credited,   \* history: transactions whose amount was added to Redis
  topUps,     \* history: sum of the top-ups of each tenant
  payments,   \* bounded count of deposits that reached the system
  faults      \* bounded count of crashes and exceptions

redisVars == <<balance, rate, alert>>
usageVars == <<req, stream, cursor, acked, sync, rows>>
depositVars == <<queue, cred, deposits, credited, payments>>
vars == <<account, balance, rate, alert, req, stream, cursor, acked, sync, queue,
          cred, pgBalance, deposits, rows, credited, topUps, payments, faults>>

IdleSync == [pc |-> "idle", from |-> 0, upto |-> 0, todo |-> {}, unset |-> {}]
IdleCreditor == [pc |-> "idle", msg |-> NoMsg]

Init ==
  /\ account = [t \in Tenants |-> "absent"]
  /\ balance = [t \in Tenants |-> 0]
  /\ rate = [t \in Tenants |-> 0]
  /\ alert = {}
  /\ req = [r \in Requests |-> [pc |-> "new", tenant |-> CHOOSE t \in Tenants : TRUE,
                                cost |-> 0, bal |-> 0]]
  /\ stream = <<>>
  /\ cursor = 0
  /\ acked = {}
  /\ sync = IdleSync
  /\ queue = <<>>
  /\ cred = [c \in Creditors |-> IdleCreditor]
  /\ pgBalance = [t \in Tenants |-> 0]
  /\ deposits = [x \in Txs |-> NoDeposit]
  /\ rows = [r \in Requests |-> 0]
  /\ credited = {}
  /\ topUps = [t \in Tenants |-> 0]
  /\ payments = 0
  /\ faults = 0

Fault == faults < MaxFaults /\ faults' = faults + 1
Live(t) == account[t] \in {"seeded", "unseeded"}

\* The worker's batch: the stream positions it read and has not acknowledged.
Batch == (sync.from + 1)..sync.upto
BatchTenants == {stream[i].tenant : i \in Batch}
BatchRequests == {stream[i].req : i \in Batch}
LastEvent(t) == CHOOSE i \in Batch : /\ stream[i].tenant = t
                                     /\ \A j \in Batch : stream[j].tenant = t => j <= i

\* The tenants whose row the worker's open transaction has updated.
Locked == IF sync.pc = "sync" THEN BatchTenants \ sync.todo ELSE {}

-------------------------------------------------------------------------------
(* Plausible mistakes in the actions of the next sections.  None of them is    *)
(* part of Spec: each is what some property must tell from the code.           *)

\* The group's cursor moves past entries the batch does not hold.
ReadBatchSkips ==
  /\ sync.pc = "idle" /\ cursor < Len(stream)
  /\ cursor' = Len(stream)
  /\ sync' = [pc |-> "sync", from |-> cursor, upto |-> cursor + 1, unset |-> {},
              todo |-> {stream[cursor + 1].tenant}]
  /\ UNCHANGED <<account, redisVars, req, stream, acked, rows, depositVars, pgBalance,
                 topUps, faults>>

\* The alert key is not looked at before it is set.
SyncTenantBlind(t) ==
  /\ sync.pc = "sync" /\ sync.unset = {} /\ t \in sync.todo
  /\ sync' = [sync EXCEPT !.todo = @ \ {t}, !.unset = {t}]
  /\ UNCHANGED <<account, redisVars, req, stream, cursor, acked, rows, depositVars,
                 pgBalance, topUps, faults>>

\* The reported balance is added where it should replace.
CommitBatchAdds ==
  /\ sync.pc = "sync" /\ sync.todo = {} /\ sync.unset = {}
  /\ rows' = [r \in Requests |-> IF r \in BatchRequests THEN rows[r] + 1 ELSE rows[r]]
  /\ pgBalance' = [t \in Tenants |-> IF t \in BatchTenants
                                     THEN pgBalance[t] + stream[LastEvent(t)].bal
                                     ELSE pgBalance[t]]
  /\ sync' = [sync EXCEPT !.pc = "ack"]
  /\ UNCHANGED <<account, redisVars, req, stream, cursor, acked, depositVars, topUps, faults>>

\* The batch is committed and never acknowledged.
CommitBatchOnly ==
  /\ sync.pc = "sync" /\ sync.todo = {} /\ sync.unset = {}
  /\ rows' = [r \in Requests |-> IF r \in BatchRequests THEN rows[r] + 1 ELSE rows[r]]
  /\ sync' = IdleSync
  /\ UNCHANGED <<account, redisVars, req, stream, cursor, acked, depositVars, pgBalance,
                 topUps, faults>>

\* XACK runs in a finally block, whether or not the batch was committed.
SyncFailsAcks ==
  /\ sync.pc # "idle" /\ Fault
  /\ sync' = IdleSync
  /\ acked' = acked \cup Batch
  /\ UNCHANGED <<account, redisVars, req, stream, cursor, rows, depositVars, pgBalance, topUps>>

\* The exception ends the coroutine.
SyncFailsDies ==
  /\ sync.pc # "idle" /\ Fault
  /\ sync' = [sync EXCEPT !.pc = "dead"]
  /\ UNCHANGED <<account, redisVars, req, stream, cursor, acked, rows, depositVars,
                 pgBalance, topUps>>

\* A popped deposit is dropped though its hash is new.
SkipAnything(c) ==
  /\ cred[c].pc = "popped"
  /\ cred' = [cred EXCEPT ![c] = IdleCreditor]
  /\ UNCHANGED <<account, redisVars, usageVars, queue, deposits, credited, payments,
                 pgBalance, topUps, faults>>

\* A known hash is taken for a deposit whose Redis increment was lost.
SkipRetries(c) ==
  /\ cred[c].pc = "popped" /\ deposits[cred[c].msg.tx] # NoDeposit
  /\ cred' = [cred EXCEPT ![c].pc = "recorded"]
  /\ UNCHANGED <<account, redisVars, usageVars, queue, deposits, credited, payments,
                 pgBalance, topUps, faults>>

\* The insert does not detect the conflict.
RecordAgain(c) ==
  LET m == cred[c].msg
  IN /\ cred[c].pc = "popped" /\ m.tenant \notin Locked
     /\ deposits' = [deposits EXCEPT ![m.tx] = [tenant |-> m.tenant, amount |-> m.amount]]
     /\ pgBalance' = [pgBalance EXCEPT ![m.tenant] = @ + m.amount]
     /\ cred' = [cred EXCEPT ![c].pc = "recorded"]
     /\ UNCHANGED <<account, redisVars, usageVars, queue, credited, payments, topUps, faults>>

\* The queue's message is stored as it came.
RecordMessage(c) ==
  LET m == cred[c].msg
  IN /\ cred[c].pc = "popped" /\ deposits[m.tx] = NoDeposit /\ m.tenant \notin Locked
     /\ deposits' = [deposits EXCEPT ![m.tx] = m]
     /\ pgBalance' = [pgBalance EXCEPT ![m.tenant] = @ + m.amount]
     /\ cred' = [cred EXCEPT ![c].pc = "recorded"]
     /\ UNCHANGED <<account, redisVars, usageVars, queue, credited, payments, topUps, faults>>

-------------------------------------------------------------------------------
(* Registration: the tenant and its key are committed to PostgreSQL, then    *)
(* Redis is written inside try/except, so a Redis error leaves a tenant      *)
(* without a balance key.  The key is returned to the caller only after both *)
(* steps, so nothing is metered or deposited in between.                     *)

RegisterTenant(t) ==
  /\ account[t] = "absent"
  /\ account' = [account EXCEPT ![t] = "created"]
  /\ UNCHANGED <<redisVars, usageVars, depositVars, pgBalance, topUps, faults>>

SeedBalance(t) ==
  /\ account[t] = "created"
  /\ account' = [account EXCEPT ![t] = "seeded"]
  /\ balance' = [balance EXCEPT ![t] = SignupCredit]
  /\ UNCHANGED <<rate, alert, usageVars, depositVars, pgBalance, topUps, faults>>

SeedFails(t) ==
  /\ account[t] = "created"
  /\ Fault
  /\ account' = [account EXCEPT ![t] = "unseeded"]
  /\ UNCHANGED <<redisVars, usageVars, depositVars, pgBalance, topUps>>

-------------------------------------------------------------------------------
(* Metering: METER_LUA runs atomically inside Redis.                         *)

Covers(t, c) == balance[t] >= c

\* The script counts the request before it looks at the rate or the balance.
Refuse(r, t, c) ==
  /\ req[r].pc = "new" /\ Live(t)
  /\ rate[t] + 1 > MaxRate \/ ~Covers(t, c)
  /\ rate' = [rate EXCEPT ![t] = @ + 1]
  /\ req' = [req EXCEPT ![r].pc = "refused", ![r].tenant = t]
  /\ UNCHANGED <<account, balance, alert, stream, cursor, acked, sync, rows,
                 depositVars, pgBalance, topUps, faults>>

Meter(r, t, c) ==
  /\ req[r].pc = "new" /\ Live(t)
  /\ rate[t] + 1 <= MaxRate
  /\ Covers(t, c)
  /\ rate' = [rate EXCEPT ![t] = @ + 1]
  /\ balance' = [balance EXCEPT ![t] = @ - c]
  /\ req' = [req EXCEPT ![r] = [pc |-> "charged", tenant |-> t, cost |-> c,
                                bal |-> balance[t] - c]]
  /\ UNCHANGED <<account, alert, stream, cursor, acked, sync, rows,
                 depositVars, pgBalance, topUps, faults>>

\* execute_metering awaits XADD after EVAL: other requests run in between.
Publish(r) ==
  /\ req[r].pc = "charged"
  /\ req' = [req EXCEPT ![r].pc = "done"]
  /\ stream' = Append(stream, [req |-> r, tenant |-> req[r].tenant, bal |-> req[r].bal])
  /\ UNCHANGED <<account, redisVars, cursor, acked, sync, rows, depositVars,
                 pgBalance, topUps, faults>>

\* XADD raises for one request, or the API process stops with several charged.
RequestsFail(S) ==
  /\ S # {} /\ \A r \in S : req[r].pc = "charged"
  /\ Fault
  /\ req' = [r \in Requests |-> IF r \in S THEN [req[r] EXCEPT !.pc = "failed"] ELSE req[r]]
  /\ UNCHANGED <<account, redisVars, stream, cursor, acked, sync, rows, depositVars,
                 pgBalance, topUps>>

\* The script sets the key's TTL with its first INCR, so every key expires.
WindowExpires(t) ==
  /\ rate[t] > 0
  /\ rate' = [rate EXCEPT ![t] = 0]
  /\ UNCHANGED <<account, balance, alert, usageVars, depositVars, pgBalance, topUps, faults>>

-------------------------------------------------------------------------------
(* The worker's usage_sync_loop.  XREADGROUP with ">" hands out each entry   *)
(* once and moves the group's cursor; entries it delivered and never         *)
(* acknowledged stay pending and are not read again.                         *)

ReadBatch ==
  /\ sync.pc = "idle" /\ cursor < Len(stream)
  /\ LET upto == IF cursor + BatchSize < Len(stream) THEN cursor + BatchSize ELSE Len(stream)
     IN /\ cursor' = upto
        /\ sync' = [pc |-> "sync", from |-> cursor, upto |-> upto, unset |-> {},
                    todo |-> {stream[i].tenant : i \in (cursor + 1)..upto}]
  /\ UNCHANGED <<account, redisVars, req, stream, acked, rows, depositVars, pgBalance,
                 topUps, faults>>

\* UPDATE tenants (its row stays locked until the commit), then the low-balance
\* check: GET or DELETE the alert key.  The tenants of a batch are visited in
\* dictionary order, here in any order.
SyncTenant(t) ==
  /\ sync.pc = "sync" /\ sync.unset = {} /\ t \in sync.todo
  /\ LET low == stream[LastEvent(t)].bal <= Threshold
     IN /\ alert' = IF low THEN alert ELSE alert \ {t}
        /\ sync' = [sync EXCEPT !.todo = @ \ {t},
                                !.unset = IF low /\ t \notin alert THEN {t} ELSE {}]
  /\ UNCHANGED <<account, balance, rate, req, stream, cursor, acked, rows, depositVars,
                 pgBalance, topUps, faults>>

\* SET the alert key and start the webhook for the tenant found unalerted.
SetAlert ==
  /\ sync.pc = "sync" /\ sync.unset # {}
  /\ alert' = alert \cup sync.unset
  /\ sync' = [sync EXCEPT !.unset = {}]
  /\ UNCHANGED <<account, balance, rate, req, stream, cursor, acked, rows, depositVars,
                 pgBalance, topUps, faults>>

\* The key is set with a TTL of one day.
AlertExpires(t) ==
  /\ t \in alert
  /\ alert' = alert \ {t}
  /\ UNCHANGED <<account, balance, rate, usageVars, depositVars, pgBalance, topUps, faults>>

\* One transaction writes the ledger rows and overwrites each tenant's balance
\* with the one its last event of the batch reported.
CommitBatch ==
  /\ sync.pc = "sync" /\ sync.todo = {} /\ sync.unset = {}
  /\ rows' = [r \in Requests |-> IF r \in BatchRequests THEN rows[r] + 1 ELSE rows[r]]
  /\ pgBalance' = [t \in Tenants |-> IF t \in BatchTenants THEN stream[LastEvent(t)].bal
                                     ELSE pgBalance[t]]
  /\ sync' = [sync EXCEPT !.pc = "ack"]
  /\ UNCHANGED <<account, redisVars, req, stream, cursor, acked, depositVars, topUps, faults>>

AckBatch ==
  /\ sync.pc = "ack"
  /\ acked' = acked \cup Batch
  /\ sync' = IdleSync
  /\ UNCHANGED <<account, redisVars, req, stream, cursor, rows, depositVars, pgBalance,
                 topUps, faults>>

\* An exception in process_batch rolls the transaction back; the loop logs it,
\* sleeps and reads the entries after its cursor.
SyncFails ==
  /\ sync.pc # "idle"
  /\ Fault
  /\ sync' = IdleSync
  /\ UNCHANGED <<account, redisVars, req, stream, cursor, acked, rows, depositVars,
                 pgBalance, topUps>>

-------------------------------------------------------------------------------
(* Deposits.  Clients submit a transaction hash to a queue that the worker   *)
(* and the deposit daemon both pop; XRPL payments arrive on a web socket and  *)
(* each gets a task.  Nothing stops the same hash from arriving twice.        *)

\* POST /api/v1/billing/deposit queues what it is given and checks nothing of the amount.
SubmitDeposit(x, t, a) ==
  /\ Live(t) /\ payments < MaxPayments
  /\ queue' = Append(queue, [tx |-> x, tenant |-> t, amount |-> a])
  /\ payments' = payments + 1
  /\ UNCHANGED <<account, redisVars, usageVars, cred, deposits, credited, pgBalance,
                 topUps, faults>>

PopDeposit(c) ==
  /\ c \in {WorkerReader} \cup Daemons
  /\ cred[c].pc = "idle" /\ queue # <<>>
  /\ cred' = [cred EXCEPT ![c] = [pc |-> "popped", msg |-> Head(queue)]]
  /\ queue' = Tail(queue)
  /\ UNCHANGED <<account, redisVars, usageVars, deposits, credited, payments, pgBalance,
                 topUps, faults>>

\* The amount is that of a payment the ledger has applied, never negative.
XrplPayment(c, x, t, a) ==
  /\ c \in XrplTasks /\ cred[c].pc = "idle" /\ a >= 0
  /\ Live(t) /\ payments < MaxPayments
  /\ cred' = [cred EXCEPT ![c] = [pc |-> "popped", msg |-> [tx |-> x, tenant |-> t, amount |-> a]]]
  /\ payments' = payments + 1
  /\ UNCHANGED <<account, redisVars, usageVars, queue, deposits, credited, pgBalance,
                 topUps, faults>>

\* INSERT ... ON CONFLICT (tx_hash) DO NOTHING returned no row.
SkipDuplicate(c) ==
  /\ cred[c].pc = "popped"
  /\ deposits[cred[c].msg.tx] # NoDeposit
  /\ cred' = [cred EXCEPT ![c] = IdleCreditor]
  /\ UNCHANGED <<account, redisVars, usageVars, queue, deposits, credited, payments,
                 pgBalance, topUps, faults>>

\* The hash is inserted and the balance incremented in one transaction, which
\* waits for the tenant's row lock.
RecordDeposit(c) ==
  LET m == cred[c].msg
  IN /\ cred[c].pc = "popped"
     /\ deposits[m.tx] = NoDeposit
     /\ m.tenant \notin Locked
     /\ deposits' = [deposits EXCEPT ![m.tx] = [tenant |-> m.tenant, amount |-> m.amount]]
     /\ pgBalance' = [pgBalance EXCEPT ![m.tenant] = @ + m.amount]
     /\ cred' = [cred EXCEPT ![c].pc = "recorded"]
     /\ UNCHANGED <<account, redisVars, usageVars, queue, credited, payments, topUps, faults>>

\* INCRBYFLOAT on the Redis balance, after the commit.
CreditBalance(c) ==
  LET m == cred[c].msg
  IN /\ cred[c].pc = "recorded"
     /\ balance' = [balance EXCEPT ![m.tenant] = @ + m.amount]
     /\ credited' = credited \cup {m.tx}
     /\ cred' = [cred EXCEPT ![c].pc = "credited"]
     /\ UNCHANGED <<account, rate, alert, usageVars, queue, deposits, payments, pgBalance,
                    topUps, faults>>

ClearAlert(c) ==
  /\ cred[c].pc = "credited"
  /\ alert' = alert \ {cred[c].msg.tenant}
  /\ cred' = [cred EXCEPT ![c] = IdleCreditor]
  /\ UNCHANGED <<account, balance, rate, usageVars, queue, deposits, credited, payments,
                 pgBalance, topUps, faults>>

\* An exception, or the daemon's process stopping: the popped message is gone.
CreditorFails(c) ==
  /\ cred[c].pc # "idle"
  /\ Fault
  /\ cred' = [cred EXCEPT ![c] = IdleCreditor]
  /\ UNCHANGED <<account, redisVars, usageVars, queue, deposits, credited, payments,
                 pgBalance, topUps>>

\* The worker's process restarts: its four coroutines lose what they held, and
\* init_consumer_group finds the group, and its cursor, as they were.
WorkerRestarts ==
  /\ sync.pc # "idle" \/ \E c \in Creditors \ Daemons : cred[c].pc # "idle"
  /\ Fault
  /\ sync' = IdleSync
  /\ cred' = [c \in Creditors |-> IF c \in Daemons THEN cred[c] ELSE IdleCreditor]
  /\ UNCHANGED <<account, redisVars, req, stream, cursor, acked, rows, queue, deposits,
                 credited, payments, pgBalance, topUps>>

-------------------------------------------------------------------------------
(* POST /admin/tenants/{id}/credits changes PostgreSQL and not Redis.        *)

\* What the bound counts.
ToppedUp == SumFunction(topUps)

\* TopUpCreditRequest takes positive amounts only.
TopUp(t, a) ==
  /\ account[t] # "absent" /\ t \notin Locked /\ a > 0
  /\ ToppedUp + a <= MaxTopUps
  /\ pgBalance' = [pgBalance EXCEPT ![t] = @ + a]
  /\ topUps' = [topUps EXCEPT ![t] = @ + a]
  /\ UNCHANGED <<account, redisVars, usageVars, depositVars, faults>>

-------------------------------------------------------------------------------
Next ==
  \/ \E t \in Tenants : \/ RegisterTenant(t) \/ SeedBalance(t) \/ SeedFails(t)
                        \/ WindowExpires(t) \/ SyncTenant(t) \/ AlertExpires(t)
  \/ \E r \in Requests, t \in Tenants, c \in Costs : Meter(r, t, c) \/ Refuse(r, t, c)
  \/ \E r \in Requests : Publish(r)
  \/ \E S \in SUBSET Requests : RequestsFail(S)
  \/ ReadBatch \/ SetAlert \/ CommitBatch \/ AckBatch \/ SyncFails
  \/ \E x \in Txs, t \in Tenants, a \in Amounts : SubmitDeposit(x, t, a)
  \/ \E c \in Creditors, x \in Txs, t \in Tenants, a \in Amounts : XrplPayment(c, x, t, a)
  \/ \E c \in Creditors : \/ PopDeposit(c) \/ SkipDuplicate(c) \/ RecordDeposit(c)
                          \/ CreditBalance(c) \/ ClearAlert(c) \/ CreditorFails(c)
  \/ WorkerRestarts
  \/ \E t \in Tenants, a \in Amounts : TopUp(t, a)

Spec == Init /\ [][Next]_vars

\* The event loops keep running what they started: every coroutine step that is
\* not an input, a fault or an expiry is eventually taken.
Fairness ==
  /\ \A r \in Requests : WF_vars(Publish(r))
  /\ WF_vars(ReadBatch) /\ WF_vars(SetAlert) /\ WF_vars(CommitBatch) /\ WF_vars(AckBatch)
  /\ \A t \in Tenants : WF_vars(SyncTenant(t))
  /\ \A c \in Creditors : /\ WF_vars(PopDeposit(c)) /\ WF_vars(SkipDuplicate(c))
                          /\ WF_vars(RecordDeposit(c)) /\ WF_vars(CreditBalance(c))
                          /\ WF_vars(ClearAlert(c))

FairSpec == Spec /\ Fairness

-------------------------------------------------------------------------------
(* Properties.                                                               *)

AccountTypeOK ==
  /\ account \in [Tenants -> {"absent", "created", "seeded", "unseeded"}]
  /\ balance \in [Tenants -> Int] /\ pgBalance \in [Tenants -> Int]
  /\ rate \in [Tenants -> Nat] /\ topUps \in [Tenants -> Nat]
  /\ alert \subseteq Tenants
  /\ faults \in Nat

UsageTypeOK ==
  /\ req \in [Requests -> [pc : {"new", "refused", "charged", "done", "failed"},
                          tenant : Tenants, cost : Nat, bal : Int]]
  /\ stream \in Seq(Event) /\ cursor \in Nat /\ acked \subseteq Nat
  /\ sync \in [pc : {"idle", "sync", "ack"}, from : Nat, upto : Nat,
              todo : SUBSET Tenants, unset : SUBSET Tenants]
  /\ rows \in [Requests -> Nat]

DepositTypeOK ==
  /\ queue \in Seq(Msg)
  /\ cred \in [Creditors -> [pc : {"idle", "popped", "recorded", "credited"},
                            msg : Msg \cup {NoMsg}]]
  /\ \A c \in Creditors : cred[c].pc # "idle" => cred[c].msg \in Msg
  /\ deposits \in [Txs -> Deposit \cup {NoDeposit}]
  /\ credited \subseteq Txs
  /\ payments \in Nat

\* Every variable holds the kind of value its store keeps, and a creditor that
\* is at work holds a deposit.
TypeOK == AccountTypeOK /\ UsageTypeOK /\ DepositTypeOK

Opening(t) == IF account[t] = "seeded" THEN SignupCredit ELSE 0
ChargesOf(t) == {r \in Requests : req[r].pc \in {"charged", "done", "failed"} /\ req[r].tenant = t}
Spent(t) == SumFunction([r \in ChargesOf(t) |-> req[r].cost])
DepositsOf(t) == {x \in Txs : deposits[x] # NoDeposit /\ deposits[x].tenant = t}
Value(S) == SumFunction([x \in S |-> deposits[x].amount])

\* However charges, seeding, credits and crashes interleave, the spendable
\* balance is the sign-up credit plus the deposits credited once each, less the
\* price of every charged request.
Conservation ==
  \A t \in Tenants :
    balance[t] = Opening(t) + Value(DepositsOf(t) \cap credited) - Spent(t)

\* The deposits that gave a tenant something, and those that took something from it.
Received(t) == {x \in DepositsOf(t) : deposits[x].amount > 0}
Withdrawn(t) == {x \in DepositsOf(t) : deposits[x].amount < 0}

\* Concurrent requests of one tenant never spend more than it has: a balance is
\* below zero by no more than the negative deposits that were credited to it.
NeverOverdrawn ==
  \A t \in Tenants : balance[t] >= Value(Withdrawn(t) \cap credited)

\* The balance PostgreSQL reports is never more than the tenant was ever given,
\* whichever of the worker, the creditors and the administrator wrote it last:
\* a deposit is committed there before Redis can report it in a usage event.
PgNeverOverstates ==
  \A t \in Tenants : pgBalance[t] <= Opening(t) + Value(Received(t)) + topUps[t]

\* The balances of both stores add up, in Redis to the cent, in PostgreSQL from above.
BalancesAddUp == Conservation /\ NeverOverdrawn /\ PgNeverOverstates

\* A usage event leaves the pending list only after its ledger row is committed,
\* exactly once, across rollbacks and restarts of the worker.
AckedAreLedgered == \A i \in acked : rows[stream[i].req] = 1

\* No request has two ledger rows, and none has one that was never charged.
LedgeredOnce ==
  \A r \in Requests : rows[r] <= 1 /\ (rows[r] = 1 => req[r].pc = "done")

\* The ledger tells what was acknowledged and nothing that was not charged, or twice
\* (process_batch: the commit and then XACK).
LedgerSound == AckedAreLedgered /\ LedgeredOnce

\* As long as nothing fails, what the group's cursor has passed is in the
\* worker's hands or acknowledged, and a recorded deposit is credited or held
\* by the creditor that will credit it.
NothingForgotten ==
  faults = 0 =>
    /\ \A i \in 1..cursor : i \in acked \/ (sync.pc # "idle" /\ i \in Batch)
    /\ \A x \in Txs : deposits[x] # NoDeposit /\ x \notin credited =>
         \E c \in Creditors : cred[c].pc = "recorded" /\ cred[c].msg.tx = x

\* Several creditors can hold the same hash, and a hash can return after a
\* crash, but at most one of them may still add it to the Redis balance, and
\* then what it adds is what PostgreSQL recorded and it was not added before.
CreditsAreExclusive ==
  \A c \in Creditors : cred[c].pc = "recorded" =>
    LET m == cred[c].msg
    IN /\ m.tx \notin credited
       /\ deposits[m.tx] = [tenant |-> m.tenant, amount |-> m.amount]
       /\ \A d \in Creditors \ {c} : cred[d].pc = "recorded" => cred[d].msg.tx # m.tx

\* A tenant the worker is about to notify has no alert key: between its GET and
\* its SET the creditors only delete keys, so no tenant is notified twice in the
\* lifetime of one key.
AlertsAreFresh == sync.unset \cap alert = {}

\* What the pipeline as a whole promises each tenant.
Account == INSTANCE PrepaidAccount WITH
  opened <- {t \in Tenants : Live(t)},
  charges <- {r \in Requests : req[r].pc \in {"charged", "done", "failed"}}
ImplementsAccount == Account!Spec

\* Unless something fails, every charged request reaches the ledger.
UsageReachesLedger ==
  \A r \in Requests : req[r].pc = "charged" ~> (rows[r] = 1 \/ faults > 0)

\* Unless something fails, every submitted deposit is added to the balance.
DepositsAreCredited ==
  \A x \in Txs : (\E i \in DOMAIN queue : queue[i].tx = x) ~> (x \in credited \/ faults > 0)

\* Whatever fails, the worker returns to reading and catches up with the stream
\* and the deposit queue.
WorkerCatchesUp == []<>(cursor = Len(stream) /\ sync.pc = "idle" /\ queue = <<>>)

\* No request, batch or deposit is under way.
Quiet ==
  /\ \A r \in Requests : req[r].pc # "charged"
  /\ cursor = Len(stream) /\ sync.pc = "idle"
  /\ queue = <<>>
  /\ \A c \in Creditors : cred[c].pc = "idle"

\* The load test's claim: after concurrent requests of a tenant, and nothing
\* else, the balances of Redis and PostgreSQL agree once the worker has drained
\* the stream.
ReconciledWhenQuiet ==
  Quiet /\ faults = 0 /\ payments = 0 /\ (\A t \in Tenants : topUps[t] = 0) =>
    \A r \in Requests : rows[r] = 1 =>
      pgBalance[req[r].tenant] = balance[req[r].tenant]

\* The daemon's claim: a deposit that was recorded is added to both balances.
RecordedIsCredited ==
  Quiet => \A x \in Txs : deposits[x] # NoDeposit => x \in credited
===============================================================================
