------------------------- MODULE BillingPipelineProofs -------------------------
(***************************************************************************)
(* Proofs about BillingPipeline, for every number of tenants, requests,     *)
(* deposits and creditors.  The argument: each variable group is changed by *)
(* few actions (UsageSteps, DepositSteps, AccountSteps); the stream, ledger,*)
(* deposit and balance invariants are preserved by those (the Step lemmas); *)
(* together they are inductive (Invariance); under them the sums that relate *)
(* balances to charges and deposits are kept by every step (FundsStep), and  *)
(* every step is one of PrepaidAccount or stutters (Implementation).         *)
(***************************************************************************)
EXTENDS BillingPipeline, FiniteSums, TLAPS

-------------------------------------------------------------------------------
(* Which actions change which variables.                                     *)

\* The actions that change usageVars.
UsageNext ==
  \/ \E r \in Requests, t \in Tenants, k \in Costs : Meter(r, t, k) \/ Refuse(r, t, k)
  \/ \E r \in Requests : Publish(r)
  \/ \E S \in SUBSET Requests : RequestsFail(S)
  \/ ReadBatch
  \/ \E t \in Tenants : SyncTenant(t)
  \/ SetAlert \/ CommitBatch \/ AckBatch \/ SyncFails \/ WorkerRestarts

\* The actions that change depositVars.
DepositNext ==
  \/ \E x \in Txs, t \in Tenants, a \in Amounts : SubmitDeposit(x, t, a)
  \/ \E c \in Creditors, x \in Txs, t \in Tenants, a \in Amounts : XrplPayment(c, x, t, a)
  \/ \E c \in Creditors : \/ PopDeposit(c) \/ SkipDuplicate(c) \/ RecordDeposit(c)
                          \/ CreditBalance(c) \/ ClearAlert(c) \/ CreditorFails(c)
  \/ WorkerRestarts

\* Requests, the stream, the ledger and the worker's batch change only in the
\* API's and the worker's usage actions.
LEMMA UsageSteps == [Next]_vars => UsageNext \/ UNCHANGED usageVars
<1> SUFFICES ASSUME [Next]_vars, ~UsageNext PROVE UNCHANGED usageVars
  OBVIOUS
<1>1. CASE UNCHANGED vars BY <1>1 DEF vars, usageVars
<1>2. ASSUME NEW t \in Tenants,
        RegisterTenant(t) \/ SeedBalance(t) \/ SeedFails(t) \/ WindowExpires(t) \/ AlertExpires(t)
      PROVE UNCHANGED usageVars
  BY <1>2 DEF RegisterTenant, SeedBalance, SeedFails, WindowExpires, AlertExpires
<1>3. ASSUME NEW x \in Txs, NEW t \in Tenants, NEW a \in Amounts, SubmitDeposit(x, t, a)
      PROVE UNCHANGED usageVars
  BY <1>3 DEF SubmitDeposit
<1>4. ASSUME NEW c \in Creditors, NEW x \in Txs, NEW t \in Tenants, NEW a \in Amounts,
             XrplPayment(c, x, t, a)
      PROVE UNCHANGED usageVars
  BY <1>4 DEF XrplPayment
<1>5. ASSUME NEW c \in Creditors,
        \/ PopDeposit(c) \/ SkipDuplicate(c) \/ RecordDeposit(c)
        \/ CreditBalance(c) \/ ClearAlert(c) \/ CreditorFails(c)
      PROVE UNCHANGED usageVars
  BY <1>5 DEF PopDeposit, SkipDuplicate, RecordDeposit, CreditBalance, ClearAlert, CreditorFails
<1>6. ASSUME NEW t \in Tenants, NEW a \in Amounts, TopUp(t, a)
      PROVE UNCHANGED usageVars
  BY <1>6 DEF TopUp
<1> QED BY <1>1, <1>2, <1>3, <1>4, <1>5, <1>6 DEF Next, UsageNext

\* The usage variables keep their types: a batch stays within the stream.
LEMMA UsageType == UsageTypeOK /\ AccountTypeOK /\ [Next]_vars => UsageTypeOK'
<1> SUFFICES ASSUME UsageTypeOK, AccountTypeOK, [Next]_vars PROVE UsageTypeOK'
  OBVIOUS
<1> USE DEF UsageTypeOK
<1>1. CASE UNCHANGED usageVars BY <1>1 DEF usageVars
<1>2. ASSUME NEW r \in Requests, NEW t \in Tenants, NEW k \in Costs, Meter(r, t, k)
      PROVE UsageTypeOK'
  <2>1. k \in Nat /\ balance[t] - k \in Int BY PriceAssumption DEF AccountTypeOK
  <2>2. req' \in [Requests -> [pc : {"new", "refused", "charged", "done", "failed"},
                             tenant : Tenants, cost : Nat, bal : Int]]
    BY <1>2, <2>1 DEF Meter
  <2> QED BY <1>2, <2>2 DEF Meter
<1>3. ASSUME NEW r \in Requests, NEW t \in Tenants, NEW k \in Costs, Refuse(r, t, k)
      PROVE UsageTypeOK'
  BY <1>3, ZenonT(30) DEF Refuse
<1>4. ASSUME NEW r \in Requests, Publish(r) PROVE UsageTypeOK'
  <2>1. [req |-> r, tenant |-> req[r].tenant, bal |-> req[r].bal] \in Event
    BY DEF Event
  <2>2. stream' \in Seq(Event) BY <1>4, <2>1 DEF Publish
  <2>3. req' \in [Requests -> [pc : {"new", "refused", "charged", "done", "failed"},
                             tenant : Tenants, cost : Nat, bal : Int]]
    BY <1>4 DEF Publish
  <2> QED BY <1>4, <2>2, <2>3 DEF Publish
<1>5. ASSUME NEW S \in SUBSET Requests, RequestsFail(S) PROVE UsageTypeOK'
  BY <1>5 DEF RequestsFail
<1>6. CASE ReadBatch
  <2> DEFINE upto == IF cursor + BatchSize < Len(stream) THEN cursor + BatchSize
                     ELSE Len(stream)
             todo == {stream[i].tenant : i \in (cursor + 1)..upto}
  <2>1. upto \in Nat /\ upto <= Len(stream) BY BatchAssumption
  <2>2. todo \subseteq Tenants
    <3>1. \A i \in (cursor + 1)..upto : i \in 1..Len(stream) BY <2>1
    <3>2. \A i \in 1..Len(stream) : stream[i].tenant \in Tenants
      <4>1. \A i \in 1..Len(stream) : stream[i] \in Event OBVIOUS
      <4> QED BY <4>1 DEF Event
    <3> QED BY <3>1, <3>2
  <2>3. /\ cursor' = upto
        /\ sync' = [pc |-> "sync", from |-> cursor, upto |-> upto, unset |-> {}, todo |-> todo]
    BY <1>6 DEF ReadBatch
  <2> HIDE DEF upto, todo
  <2> QED BY <1>6, <2>1, <2>2, <2>3 DEF ReadBatch
<1>7. ASSUME NEW t \in Tenants, SyncTenant(t) PROVE UsageTypeOK'
  BY <1>7 DEF SyncTenant
<1>8. CASE SetAlert BY <1>8 DEF SetAlert
<1>9. CASE CommitBatch
  <2>1. rows' \in [Requests -> Nat] BY <1>9 DEF CommitBatch
  <2>2. UNCHANGED <<req, stream, cursor, acked>> /\ sync' = [sync EXCEPT !.pc = "ack"]
    BY <1>9 DEF CommitBatch
  <2> QED BY <2>1, <2>2
<1>10. CASE AckBatch
  <2>1. Batch \subseteq Nat BY DEF Batch
  <2>2. UNCHANGED <<req, stream, cursor, rows>> /\ sync' = IdleSync /\ acked' = acked \cup Batch
    BY <1>10 DEF AckBatch
  <2> QED BY <2>1, <2>2 DEF IdleSync
<1>11. CASE SyncFails BY <1>11 DEF SyncFails, IdleSync
<1>12. CASE WorkerRestarts BY <1>12 DEF WorkerRestarts, IdleSync
<1> QED BY UsageSteps, <1>1, <1>2, <1>3, <1>4, <1>5, <1>6, <1>7, <1>8, <1>9, <1>10,
           <1>11, <1>12 DEF UsageNext

\* The queue, the creditors and the deposits change only in deposit actions.
LEMMA DepositSteps == [Next]_vars => DepositNext \/ UNCHANGED depositVars
<1> SUFFICES ASSUME [Next]_vars, ~DepositNext PROVE UNCHANGED depositVars
  OBVIOUS
<1>1. CASE UNCHANGED vars BY <1>1 DEF vars, depositVars
<1>2. ASSUME NEW t \in Tenants,
        \/ RegisterTenant(t) \/ SeedBalance(t) \/ SeedFails(t) \/ WindowExpires(t)
        \/ AlertExpires(t) \/ SyncTenant(t)
      PROVE UNCHANGED depositVars
  BY <1>2 DEF RegisterTenant, SeedBalance, SeedFails, WindowExpires, AlertExpires, SyncTenant
<1>3. ASSUME NEW r \in Requests, NEW t \in Tenants, NEW k \in Costs,
        Meter(r, t, k) \/ Refuse(r, t, k)
      PROVE UNCHANGED depositVars
  BY <1>3 DEF Meter, Refuse
<1>4. ASSUME NEW r \in Requests, Publish(r) PROVE UNCHANGED depositVars
  BY <1>4 DEF Publish
<1>5. ASSUME NEW S \in SUBSET Requests, RequestsFail(S) PROVE UNCHANGED depositVars
  BY <1>5 DEF RequestsFail
<1>6. CASE ReadBatch \/ SetAlert \/ CommitBatch \/ AckBatch \/ SyncFails
  BY <1>6 DEF ReadBatch, SetAlert, CommitBatch, AckBatch, SyncFails
<1>7. ASSUME NEW t \in Tenants, NEW a \in Amounts, TopUp(t, a) PROVE UNCHANGED depositVars
  BY <1>7 DEF TopUp
<1> QED BY <1>1, <1>2, <1>3, <1>4, <1>5, <1>6, <1>7 DEF Next, DepositNext

\* The deposit variables keep their types: a creditor at work holds a message.
LEMMA DepositType == DepositTypeOK /\ [Next]_vars => DepositTypeOK'
<1> SUFFICES ASSUME DepositTypeOK, [Next]_vars PROVE DepositTypeOK'
  OBVIOUS
<1> USE DEF DepositTypeOK
<1>1. CASE UNCHANGED depositVars BY <1>1 DEF depositVars
<1>2. ASSUME NEW x \in Txs, NEW t \in Tenants, NEW a \in Amounts, SubmitDeposit(x, t, a)
      PROVE DepositTypeOK'
  BY <1>2 DEF SubmitDeposit, Msg
<1>3. ASSUME NEW c \in Creditors, NEW x \in Txs, NEW t \in Tenants, NEW a \in Amounts,
             XrplPayment(c, x, t, a)
      PROVE DepositTypeOK'
  BY <1>3 DEF XrplPayment, Msg
<1>4. ASSUME NEW c \in Creditors, PopDeposit(c) PROVE DepositTypeOK'
  BY <1>4 DEF PopDeposit
<1>5. ASSUME NEW c \in Creditors, SkipDuplicate(c) PROVE DepositTypeOK'
  BY <1>5 DEF SkipDuplicate, IdleCreditor
<1>6. ASSUME NEW c \in Creditors, RecordDeposit(c) PROVE DepositTypeOK'
  BY <1>6 DEF RecordDeposit, Msg, Deposit
<1>7. ASSUME NEW c \in Creditors, CreditBalance(c) PROVE DepositTypeOK'
  BY <1>7 DEF CreditBalance, Msg
<1>8. ASSUME NEW c \in Creditors, ClearAlert(c) PROVE DepositTypeOK'
  BY <1>8 DEF ClearAlert, IdleCreditor
<1>9. ASSUME NEW c \in Creditors, CreditorFails(c) PROVE DepositTypeOK'
  BY <1>9 DEF CreditorFails, IdleCreditor
<1>10. CASE WorkerRestarts BY <1>10 DEF WorkerRestarts, IdleCreditor
<1> QED BY DepositSteps, <1>1, <1>2, <1>3, <1>4, <1>5, <1>6, <1>7, <1>8, <1>9, <1>10
        DEF DepositNext

\* A nonempty bounded set of naturals has a greatest element.
LEMMA MaxExists ==
  ASSUME NEW hi \in Nat, NEW T, T \subseteq 0..hi, T # {}
  PROVE  \E x \in T : \A y \in T : y <= x
<1> DEFINE U == {n \in Nat : hi - n \in T}
<1>1. PICK z \in T : TRUE OBVIOUS
<1>2. U \subseteq Nat /\ hi - z \in U BY <1>1
<1>3. \E n \in U : \A m \in U : ~(<<m, n>> \in OpToRel(<, Nat))
  BY <1>2, NatLessThanWellFounded, WFMin, Zenon
<1>4. PICK n \in U : \A m \in U : ~(m < n)
  BY <1>3, Zenon DEF OpToRel
<1>6. n \in Nat /\ \A m \in U : m \in Nat /\ n <= m BY <1>4
<1>5. \A y \in T : hi - y \in U BY <1>2
<1> QED BY <1>6, <1>5

-------------------------------------------------------------------------------
(* The inductive invariant.                                                  *)

StreamInv ==
  /\ cursor <= Len(stream)
  /\ sync.pc # "idle" => sync.upto <= cursor
  /\ \A i \in 1..Len(stream) : req[stream[i].req].pc = "done"
  /\ \A i, j \in 1..Len(stream) : stream[i].req = stream[j].req => i = j

LedgerInv ==
  /\ LedgeredOnce
  /\ \A i \in 1..Len(stream) : i > cursor => rows[stream[i].req] = 0
  /\ sync.pc = "sync" => \A i \in Batch : rows[stream[i].req] = 0
  /\ sync.pc = "ack" => \A i \in Batch : rows[stream[i].req] = 1
  /\ acked \subseteq 1..cursor
  /\ AckedAreLedgered

\* What the stream holds are events.
LEMMA EventType ==
  ASSUME UsageTypeOK, NEW i \in 1..Len(stream)
  PROVE  /\ stream[i].req \in Requests
         /\ stream[i].tenant \in Tenants
         /\ stream[i].bal \in Int
<1>1. stream[i] \in Event BY DEF UsageTypeOK
<1> QED BY <1>1 DEF Event

\* Every entry of the stream is the event of a different, finished request, and
\* the worker's batch lies behind the group's cursor.
LEMMA StreamStep == UsageTypeOK /\ StreamInv /\ [Next]_vars => StreamInv'
<1> SUFFICES ASSUME UsageTypeOK, StreamInv, [Next]_vars PROVE StreamInv'
  OBVIOUS
<1> USE DEF StreamInv
<1>0. /\ \A i \in 1..Len(stream) : stream[i].req \in Requests
      /\ Len(stream) \in Nat /\ cursor \in Nat
      /\ DOMAIN req = Requests
  BY EventType DEF UsageTypeOK
<1>1. CASE UNCHANGED usageVars BY <1>1 DEF usageVars
<1>2. ASSUME NEW r \in Requests, NEW t \in Tenants, NEW k \in Costs,
             Meter(r, t, k) \/ Refuse(r, t, k)
      PROVE StreamInv'
  <2>1. /\ UNCHANGED <<stream, cursor, sync>>
        /\ \A q \in Requests : req[q].pc = "done" => req'[q].pc = "done"
    BY <1>2 DEF Meter, Refuse, UsageTypeOK
  <2> QED BY <1>0, <2>1
<1>3. ASSUME NEW r \in Requests, Publish(r) PROVE StreamInv'
  <2>1. /\ Len(stream') = Len(stream) + 1
        /\ stream'[Len(stream) + 1].req = r
        /\ \A i \in 1..Len(stream) : stream'[i] = stream[i] /\ stream[i].req # r
    BY <1>0, <1>3 DEF Publish, UsageTypeOK
  <2>2. /\ UNCHANGED <<cursor, sync>>
        /\ req'[r].pc = "done"
        /\ \A q \in Requests : q # r => req'[q] = req[q]
    BY <1>3 DEF Publish, UsageTypeOK
  <2>3. \A i \in 1..Len(stream') : i \in 1..Len(stream) \/ i = Len(stream) + 1
    BY <1>0, <2>1
  <2> QED BY <1>0, <2>1, <2>2, <2>3
<1>4. ASSUME NEW S \in SUBSET Requests, RequestsFail(S) PROVE StreamInv'
  BY <1>0, <1>4 DEF RequestsFail, UsageTypeOK
<1>5. CASE ReadBatch
  BY <1>0, <1>5, BatchAssumption DEF ReadBatch
<1>6. ASSUME NEW t \in Tenants, SyncTenant(t) PROVE StreamInv'
  BY <1>0, <1>6 DEF SyncTenant, UsageTypeOK
<1>7. CASE SetAlert BY <1>0, <1>7 DEF SetAlert, UsageTypeOK
<1>8. CASE CommitBatch BY <1>0, <1>8 DEF CommitBatch, UsageTypeOK
<1>9. CASE AckBatch \/ SyncFails \/ WorkerRestarts
  BY <1>0, <1>9 DEF AckBatch, SyncFails, WorkerRestarts, IdleSync
<1> QED BY UsageSteps, <1>1, <1>2, <1>3, <1>4, <1>5, <1>6, <1>7, <1>8, <1>9 DEF UsageNext

\* Rows exist exactly for what was committed: none beyond the cursor or in an
\* uncommitted batch, one for each entry of a committed batch and each acked one.
LEMMA LedgerStep ==
  UsageTypeOK /\ StreamInv /\ LedgerInv /\ [Next]_vars => LedgerInv'
<1> SUFFICES ASSUME UsageTypeOK, StreamInv, LedgerInv, [Next]_vars PROVE LedgerInv'
  OBVIOUS
<1> USE DEF LedgerInv, LedgeredOnce, AckedAreLedgered
<1>0. /\ \A i \in 1..Len(stream) : stream[i].req \in Requests
      /\ Len(stream) \in Nat /\ cursor \in Nat /\ cursor <= Len(stream)
      /\ acked \subseteq 1..Len(stream)
      /\ sync.from \in Nat /\ sync.upto \in Nat
      /\ \A r \in Requests : rows[r] \in Nat
  BY EventType DEF UsageTypeOK, StreamInv
<1>b. sync.pc # "idle" => Batch \subseteq 1..cursor /\ Batch \subseteq 1..Len(stream)
  BY <1>0 DEF Batch, StreamInv
<1>1. CASE UNCHANGED usageVars BY <1>1 DEF usageVars, Batch
<1>2. ASSUME NEW r \in Requests, NEW t \in Tenants, NEW k \in Costs,
             Meter(r, t, k) \/ Refuse(r, t, k)
      PROVE LedgerInv'
  <2>1. /\ UNCHANGED <<stream, cursor, sync, acked, rows>>
        /\ \A q \in Requests : req[q].pc = "done" => req'[q].pc = "done"
    BY <1>2 DEF Meter, Refuse, UsageTypeOK
  <2> QED BY <1>0, <2>1 DEF Batch
<1>3. ASSUME NEW r \in Requests, Publish(r) PROVE LedgerInv'
  <2>1. /\ Len(stream') = Len(stream) + 1
        /\ stream'[Len(stream) + 1].req = r
        /\ \A i \in 1..Len(stream) : stream'[i] = stream[i]
    BY <1>0, <1>3 DEF Publish, UsageTypeOK
  <2>2. /\ UNCHANGED <<cursor, sync, acked, rows>>
        /\ \A q \in Requests : req[q].pc = "done" => req'[q].pc = "done"
        /\ req[r].pc = "charged"
    BY <1>3 DEF Publish, UsageTypeOK
  <2>3. rows[r] = 0 BY <1>0, <2>2
  <2>4. \A i \in 1..Len(stream') : i \in 1..Len(stream) \/ i = Len(stream) + 1
    BY <1>0, <2>1
  <2>5. Batch' = Batch BY <2>2 DEF Batch
  <2> QED BY <1>0, <1>b, <2>1, <2>2, <2>3, <2>4, <2>5, SMTT(30)
<1>4. ASSUME NEW S \in SUBSET Requests, RequestsFail(S) PROVE LedgerInv'
  <2>1. /\ UNCHANGED <<stream, cursor, sync, acked, rows>>
        /\ \A q \in Requests : req[q].pc = "done" => req'[q].pc = "done"
    BY <1>4 DEF RequestsFail, UsageTypeOK
  <2> QED BY <1>0, <2>1 DEF Batch
<1>5. CASE ReadBatch
  <2>1. /\ UNCHANGED <<req, stream, acked, rows>>
        /\ cursor' \in Nat /\ cursor < cursor' /\ cursor' <= Len(stream)
        /\ sync'.pc = "sync" /\ sync'.from = cursor /\ sync'.upto = cursor'
    BY <1>0, <1>5, BatchAssumption DEF ReadBatch
  <2>2. Batch' = (cursor + 1)..cursor' BY <2>1 DEF Batch
  <2> QED BY <1>0, <2>1, <2>2
<1>6. CASE SetAlert \/ \E t \in Tenants : SyncTenant(t)
  <2>1. /\ UNCHANGED <<req, stream, cursor, acked, rows>>
        /\ sync.pc = "sync" /\ sync'.pc = "sync"
        /\ sync'.from = sync.from /\ sync'.upto = sync.upto
    BY <1>6 DEF SetAlert, SyncTenant, UsageTypeOK
  <2> QED BY <1>0, <2>1 DEF Batch
<1>7. CASE CommitBatch
  <2>1. /\ UNCHANGED <<req, stream, cursor, acked>>
        /\ sync.pc = "sync" /\ sync'.pc = "ack"
        /\ sync'.from = sync.from /\ sync'.upto = sync.upto
        /\ \A r \in Requests : rows'[r] = IF r \in BatchRequests THEN rows[r] + 1 ELSE rows[r]
    BY <1>7 DEF CommitBatch, UsageTypeOK
  <2>2. Batch' = Batch BY <2>1 DEF Batch
  <2>3. \A i \in Batch : stream[i].req \in BatchRequests /\ rows[stream[i].req] = 0
    BY <2>1 DEF BatchRequests
  <2>4. \A r \in BatchRequests : r \in Requests /\ rows[r] = 0 /\ req[r].pc = "done"
    BY <1>0, <1>b, <2>1 DEF BatchRequests, StreamInv
  <2>5. \A i \in 1..Len(stream) : i > cursor => stream[i].req \notin BatchRequests
    BY <1>0, <1>b, <2>1 DEF BatchRequests, StreamInv
  <2>6. \A i \in acked : stream[i].req \notin BatchRequests
    BY <1>0, <2>4
  <2> QED BY <1>0, <1>b, <2>1, <2>2, <2>3, <2>4, <2>5, <2>6
<1>8. CASE AckBatch
  <2>1. /\ UNCHANGED <<req, stream, cursor, rows>>
        /\ sync.pc = "ack" /\ sync'.pc = "idle" /\ acked' = acked \cup Batch
    BY <1>8 DEF AckBatch, IdleSync
  <2> QED BY <1>0, <1>b, <2>1
<1>9. CASE SyncFails \/ WorkerRestarts
  <2>1. UNCHANGED <<req, stream, cursor, acked, rows>> /\ sync'.pc = "idle"
    BY <1>9 DEF SyncFails, WorkerRestarts, IdleSync
  <2> QED BY <1>0, <2>1
<1> QED BY UsageSteps, <1>1, <1>2, <1>3, <1>4, <1>5, <1>6, <1>7, <1>8, <1>9 DEF UsageNext

\* The actions that change account or balance.
AccountNext ==
  \/ \E t \in Tenants : RegisterTenant(t) \/ SeedBalance(t) \/ SeedFails(t)
  \/ \E r \in Requests, t \in Tenants, k \in Costs : Meter(r, t, k)
  \/ \E c \in Creditors : CreditBalance(c)

\* Balances and registrations change only when a tenant is registered, a request
\* charged or a deposit credited.
LEMMA AccountSteps == [Next]_vars => AccountNext \/ UNCHANGED <<account, balance>>
<1> SUFFICES ASSUME [Next]_vars, ~AccountNext PROVE UNCHANGED <<account, balance>>
  OBVIOUS
<1> USE DEF redisVars
<1>1. CASE UNCHANGED vars BY <1>1 DEF vars
<1>2. ASSUME NEW t \in Tenants, WindowExpires(t) \/ AlertExpires(t) \/ SyncTenant(t)
      PROVE UNCHANGED <<account, balance>>
  BY <1>2 DEF WindowExpires, AlertExpires, SyncTenant
<1>3. ASSUME NEW r \in Requests, NEW t \in Tenants, NEW k \in Costs, Refuse(r, t, k)
      PROVE UNCHANGED <<account, balance>>
  BY <1>3 DEF Refuse
<1>4. ASSUME NEW r \in Requests, Publish(r) PROVE UNCHANGED <<account, balance>>
  BY <1>4 DEF Publish
<1>5. ASSUME NEW S \in SUBSET Requests, RequestsFail(S) PROVE UNCHANGED <<account, balance>>
  BY <1>5 DEF RequestsFail
<1>6. CASE ReadBatch \/ SetAlert \/ CommitBatch \/ AckBatch \/ SyncFails \/ WorkerRestarts
  BY <1>6 DEF ReadBatch, SetAlert, CommitBatch, AckBatch, SyncFails, WorkerRestarts
<1>7. ASSUME NEW x \in Txs, NEW t \in Tenants, NEW a \in Amounts, SubmitDeposit(x, t, a)
      PROVE UNCHANGED <<account, balance>>
  BY <1>7 DEF SubmitDeposit
<1>8. ASSUME NEW c \in Creditors, NEW x \in Txs, NEW t \in Tenants, NEW a \in Amounts,
             XrplPayment(c, x, t, a)
      PROVE UNCHANGED <<account, balance>>
  BY <1>8 DEF XrplPayment
<1>9. ASSUME NEW c \in Creditors,
        \/ PopDeposit(c) \/ SkipDuplicate(c) \/ RecordDeposit(c)
        \/ ClearAlert(c) \/ CreditorFails(c)
      PROVE UNCHANGED <<account, balance>>
  BY <1>9 DEF PopDeposit, SkipDuplicate, RecordDeposit, ClearAlert, CreditorFails
<1>10. ASSUME NEW t \in Tenants, NEW a \in Amounts, TopUp(t, a)
      PROVE UNCHANGED <<account, balance>>
  BY <1>10 DEF TopUp
<1> QED BY <1>1, <1>2, <1>3, <1>4, <1>5, <1>6, <1>7, <1>8, <1>9, <1>10
        DEF Next, AccountNext

\* A tenant that may spend never ceases to exist.
LEMMA LiveForEver ==
  AccountTypeOK /\ [Next]_vars => \A t \in Tenants : Live(t) => Live(t)'
<1> SUFFICES ASSUME AccountTypeOK, [Next]_vars, NEW u \in Tenants, Live(u) PROVE Live(u)'
  OBVIOUS
<1> USE DEF Live, AccountTypeOK
<1>1. CASE UNCHANGED <<account, balance>> BY <1>1
<1>2. ASSUME NEW t \in Tenants, RegisterTenant(t) \/ SeedBalance(t) \/ SeedFails(t)
      PROVE Live(u)'
  BY <1>2 DEF RegisterTenant, SeedBalance, SeedFails
<1>3. ASSUME NEW r \in Requests, NEW t \in Tenants, NEW k \in Costs, Meter(r, t, k)
      PROVE Live(u)'
  BY <1>3 DEF Meter
<1>4. ASSUME NEW c \in Creditors, CreditBalance(c) PROVE Live(u)'
  BY <1>4 DEF CreditBalance
<1> QED BY AccountSteps, <1>1, <1>2, <1>3, <1>4 DEF AccountNext

DepositInv ==
  /\ \A i \in 1..Len(queue) : Live(queue[i].tenant)
  /\ \A c \in Creditors : cred[c].pc # "idle" => Live(cred[c].msg.tenant)
  /\ \A x \in credited : deposits[x] # NoDeposit
  /\ CreditsAreExclusive

\* Deposits are in flight for live tenants only, what was credited was recorded,
\* and CreditsAreExclusive is preserved.
LEMMA DepositStep ==
  AccountTypeOK /\ DepositTypeOK /\ DepositInv /\ [Next]_vars => DepositInv'
<1> SUFFICES ASSUME AccountTypeOK, DepositTypeOK, DepositInv, [Next]_vars PROVE DepositInv'
  OBVIOUS
<1> USE DEF DepositInv, CreditsAreExclusive, Live
<1>0. /\ \A t \in Tenants : Live(t) => Live(t)'
      /\ \A i \in 1..Len(queue) : queue[i] \in Msg
      /\ \A c \in Creditors : cred[c].pc # "idle" => cred[c].msg \in Msg
      /\ \A m \in Msg : m.tenant \in Tenants /\ m.tx \in Txs /\ m.amount \in Amounts
  <2>1. \A t \in Tenants : Live(t) => Live(t)' BY LiveForEver
  <2>2. \A m \in Msg : m.tenant \in Tenants /\ m.tx \in Txs /\ m.amount \in Amounts
    BY DEF Msg
  <2>3. \A i \in 1..Len(queue) : queue[i] \in Msg BY DEF DepositTypeOK
  <2> QED BY <2>1, <2>2, <2>3 DEF DepositTypeOK
<1>1. CASE UNCHANGED depositVars BY <1>0, <1>1 DEF depositVars
<1>2. ASSUME NEW x \in Txs, NEW t \in Tenants, NEW a \in Amounts, SubmitDeposit(x, t, a)
      PROVE DepositInv'
  <2> DEFINE m == [tx |-> x, tenant |-> t, amount |-> a]
  <2>1. Live(t) /\ queue' = Append(queue, m) /\ UNCHANGED <<cred, deposits, credited>>
    BY <1>2 DEF SubmitDeposit
  <2>2. /\ Len(queue') = Len(queue) + 1 /\ Len(queue) \in Nat
        /\ queue'[Len(queue) + 1] = m
        /\ \A i \in 1..Len(queue) : queue'[i] = queue[i]
    BY <2>1 DEF DepositTypeOK
  <2>3. (\A i \in 1..Len(queue) : Live(queue[i].tenant))'
    BY <1>0, <2>1, <2>2
  <2> QED BY <1>0, <2>1, <2>3
<1>3. ASSUME NEW c \in Creditors, NEW x \in Txs, NEW t \in Tenants, NEW a \in Amounts,
             XrplPayment(c, x, t, a)
      PROVE DepositInv'
  <2>1. /\ Live(t) /\ UNCHANGED <<queue, deposits, credited>>
        /\ cred'[c].pc = "popped" /\ cred'[c].msg.tenant = t
        /\ \A d \in Creditors \ {c} : cred'[d] = cred[d]
    BY <1>3 DEF XrplPayment, DepositTypeOK
  <2> QED BY <1>0, <2>1
<1>4. ASSUME NEW c \in Creditors, PopDeposit(c) PROVE DepositInv'
  <2>1. /\ UNCHANGED <<deposits, credited>> /\ queue' = Tail(queue)
        /\ queue # <<>> /\ cred'[c].pc = "popped" /\ cred'[c].msg = queue[1]
        /\ \A d \in Creditors \ {c} : cred'[d] = cred[d]
    BY <1>4 DEF PopDeposit, DepositTypeOK
  <2>2. /\ Len(queue) \in Nat /\ 1 \in 1..Len(queue) /\ Len(queue') = Len(queue) - 1
        /\ \A i \in 1..Len(queue') : i + 1 \in 1..Len(queue) /\ queue'[i] = queue[i + 1]
    BY <2>1 DEF DepositTypeOK
  <2>3. (\A i \in 1..Len(queue) : Live(queue[i].tenant))'
    BY <1>0, <2>2
  <2>4. Live(cred[c].msg.tenant)' BY <1>0, <2>1, <2>2
  <2> QED BY <1>0, <2>1, <2>3, <2>4
<1>5. ASSUME NEW c \in Creditors, SkipDuplicate(c) \/ ClearAlert(c) \/ CreditorFails(c)
      PROVE DepositInv'
  <2>1. /\ UNCHANGED <<queue, deposits, credited>> /\ cred'[c].pc = "idle"
        /\ \A d \in Creditors \ {c} : cred'[d] = cred[d]
    BY <1>5 DEF SkipDuplicate, ClearAlert, CreditorFails, DepositTypeOK, IdleCreditor
  <2> QED BY <1>0, <2>1
<1>6. ASSUME NEW c \in Creditors, RecordDeposit(c) PROVE DepositInv'
  <2> DEFINE m == cred[c].msg
  <2>1. /\ UNCHANGED <<queue, credited>> /\ cred[c].pc = "popped" /\ m \in Msg
        /\ cred'[c].pc = "recorded" /\ cred'[c].msg = m
        /\ \A d \in Creditors \ {c} : cred'[d] = cred[d]
        /\ deposits[m.tx] = NoDeposit
        /\ deposits'[m.tx] = [tenant |-> m.tenant, amount |-> m.amount]
        /\ \A x \in Txs : x # m.tx => deposits'[x] = deposits[x]
    BY <1>0, <1>6 DEF RecordDeposit, DepositTypeOK
  <2>2. m.tx \notin credited BY <2>1
  <2>4. \A d \in Creditors : cred[d].pc = "recorded" => cred[d].msg \in Msg /\ cred[d].msg.tx # m.tx
    <3> SUFFICES ASSUME NEW d \in Creditors, cred[d].pc = "recorded", cred[d].msg.tx = m.tx
                 PROVE  FALSE
      BY <1>0
    <3>1. cred[d].msg \in Msg BY <1>0
    <3>2. deposits[m.tx] = [tenant |-> cred[d].msg.tenant, amount |-> cred[d].msg.amount]
      OBVIOUS
    <3>3. deposits[m.tx] \in Deposit BY <1>0, <3>1, <3>2 DEF Deposit
    <3> QED BY <2>1, <3>3, AbsentAssumption
  <2>5. \A x \in credited : deposits'[x] # NoDeposit
    BY <2>1, <2>2 DEF DepositTypeOK
  <2>6. (\A d \in Creditors : cred[d].pc # "idle" => Live(cred[d].msg.tenant))'
    BY <1>0, <2>1
  <2> HIDE DEF m
  <2>7. CreditsAreExclusive'
    <3> SUFFICES ASSUME NEW d \in Creditors, cred'[d].pc = "recorded"
                 PROVE  /\ cred'[d].msg.tx \notin credited'
                        /\ deposits'[cred'[d].msg.tx] =
                             [tenant |-> cred'[d].msg.tenant, amount |-> cred'[d].msg.amount]
                        /\ \A e \in Creditors \ {d} :
                             cred'[e].pc = "recorded" => cred'[e].msg.tx # cred'[d].msg.tx
      OBVIOUS
    <3>1. CASE d = c BY <1>0, <2>1, <2>2, <2>4, <3>1
    <3>2. CASE d # c
      <4>1. cred'[d] = cred[d] /\ cred[d].msg.tx # m.tx /\ cred[d].msg.tx \in Txs
        BY <1>0, <2>1, <2>4, <3>2
      <4> QED BY <1>0, <2>1, <2>4, <4>1
    <3> QED BY <3>1, <3>2
  <2>8. (\A i \in 1..Len(queue) : Live(queue[i].tenant))' BY <1>0, <2>1
  <2> QED BY <2>1, <2>5, <2>6, <2>7, <2>8
<1>7. ASSUME NEW c \in Creditors, CreditBalance(c) PROVE DepositInv'
  <2> DEFINE m == cred[c].msg
  <2>1. /\ UNCHANGED <<queue, deposits>> /\ cred[c].pc = "recorded" /\ m \in Msg
        /\ cred'[c].pc = "credited" /\ cred'[c].msg = m
        /\ \A d \in Creditors \ {c} : cred'[d] = cred[d]
        /\ credited' = credited \cup {m.tx}
    BY <1>0, <1>7 DEF CreditBalance, DepositTypeOK
  <2>2. deposits[m.tx] # NoDeposit
    <3>1. deposits[m.tx] = [tenant |-> m.tenant, amount |-> m.amount] BY <2>1
    <3>2. m.tenant \in Tenants /\ m.amount \in Amounts BY <1>0, <2>1
    <3> HIDE DEF m
    <3>3. deposits[m.tx] \in Deposit BY <3>1, <3>2 DEF Deposit
    <3> QED BY <3>3, AbsentAssumption
  <2> QED BY <1>0, <2>1, <2>2
<1>8. CASE WorkerRestarts
  <2>1. /\ UNCHANGED <<queue, deposits, credited>>
        /\ \A d \in Creditors : cred'[d] = cred[d] \/ cred'[d].pc = "idle"
    BY <1>8 DEF WorkerRestarts, IdleCreditor
  <2> QED BY <1>0, <2>1
<1> QED BY DepositSteps, <1>1, <1>2, <1>3, <1>4, <1>5, <1>6, <1>7, <1>8 DEF DepositNext

BalanceInv == \A t \in Tenants : ~Live(t) => balance[t] = 0

\* Balances are zero until the tenant is registered.
LEMMA BalanceStep ==
  TypeOK /\ DepositInv /\ BalanceInv /\ [Next]_vars => BalanceInv'
<1> SUFFICES ASSUME TypeOK, DepositInv, BalanceInv, [Next]_vars PROVE BalanceInv'
  OBVIOUS
<1> USE DEF BalanceInv
<1>0. /\ balance \in [Tenants -> Int] /\ account \in [Tenants -> {"absent", "created", "seeded", "unseeded"}]
      /\ \A c \in Creditors : cred[c].pc # "idle" => cred[c].msg \in Msg
  BY DEF TypeOK, AccountTypeOK, DepositTypeOK
<1>1. CASE UNCHANGED <<account, balance>> BY <1>1 DEF Live
<1>2. ASSUME NEW t \in Tenants, RegisterTenant(t) \/ SeedBalance(t) \/ SeedFails(t)
      PROVE BalanceInv'
  BY <1>0, <1>2 DEF RegisterTenant, SeedBalance, SeedFails, Live, redisVars
<1>3. ASSUME NEW r \in Requests, NEW t \in Tenants, NEW k \in Costs, Meter(r, t, k)
      PROVE BalanceInv'
  BY <1>0, <1>3 DEF Meter, Live
<1>4. ASSUME NEW c \in Creditors, CreditBalance(c) PROVE BalanceInv'
  <2> DEFINE m == cred[c].msg
  <2>1. m \in Msg /\ Live(m.tenant) BY <1>0, <1>4 DEF CreditBalance, DepositInv
  <2>2. m.tenant \in Tenants BY <2>1 DEF Msg
  <2>3. UNCHANGED account /\ balance' = [balance EXCEPT ![m.tenant] = @ + m.amount]
    BY <1>4 DEF CreditBalance
  <2> HIDE DEF m
  <2> QED BY <1>0, <2>1, <2>2, <2>3 DEF Live
<1> QED BY AccountSteps, <1>1, <1>2, <1>3, <1>4 DEF AccountNext

\* In a batch each tenant has a last event, so the balance written is reported.
LEMMA LastEventType ==
  ASSUME UsageTypeOK, StreamInv, sync.pc # "idle", NEW t \in BatchTenants
  PROVE  LastEvent(t) \in 1..Len(stream)
<1> DEFINE T == {i \in Batch : stream[i].tenant = t}
<1>1. Batch \subseteq 1..Len(stream) /\ Batch \subseteq 0..Len(stream) /\ Len(stream) \in Nat
  BY DEF UsageTypeOK, StreamInv, Batch
<1>2. T \subseteq 0..Len(stream) /\ T # {} BY <1>1 DEF BatchTenants
<1>3. PICK i \in T : \A j \in T : j <= i BY <1>1, <1>2, MaxExists
<1>4. \E k \in Batch : stream[k].tenant = t /\ \A j \in Batch : stream[j].tenant = t => j <= k
  BY <1>3
<1>5. LastEvent(t) \in Batch BY <1>4 DEF LastEvent
<1> QED BY <1>1, <1>5

\* Balances keep their types; for PostgreSQL's this needs the stream invariant.
LEMMA AccountType ==
  TypeOK /\ StreamInv /\ [Next]_vars => AccountTypeOK'
<1> SUFFICES ASSUME TypeOK, StreamInv, [Next]_vars PROVE AccountTypeOK'
  OBVIOUS
<1> USE DEF AccountTypeOK, redisVars
<1>0. AccountTypeOK /\ UsageTypeOK /\ DepositTypeOK BY DEF TypeOK
<1>1. CASE UNCHANGED vars BY <1>0, <1>1 DEF vars
<1>2. ASSUME NEW t \in Tenants,
        RegisterTenant(t) \/ SeedBalance(t) \/ WindowExpires(t) \/ AlertExpires(t)
      PROVE AccountTypeOK'
  BY <1>0, <1>2, SignupAssumption DEF RegisterTenant, SeedBalance, WindowExpires, AlertExpires
<1>3. ASSUME NEW t \in Tenants, SeedFails(t) PROVE AccountTypeOK'
  BY <1>0, <1>3 DEF SeedFails, Fault
<1>4. ASSUME NEW t \in Tenants, SyncTenant(t) PROVE AccountTypeOK'
  BY <1>0, <1>4 DEF SyncTenant
<1>5. ASSUME NEW r \in Requests, NEW t \in Tenants, NEW k \in Costs,
             Meter(r, t, k) \/ Refuse(r, t, k)
      PROVE AccountTypeOK'
  BY <1>0, <1>5, PriceAssumption DEF Meter, Refuse
<1>6. ASSUME NEW r \in Requests, Publish(r) PROVE AccountTypeOK'
  BY <1>0, <1>6 DEF Publish
<1>7. ASSUME NEW S \in SUBSET Requests, RequestsFail(S) PROVE AccountTypeOK'
  BY <1>0, <1>7 DEF RequestsFail, Fault
<1>8. CASE ReadBatch \/ AckBatch
  BY <1>0, <1>8 DEF ReadBatch, AckBatch
<1>9. CASE SyncFails \/ WorkerRestarts
  BY <1>0, <1>9 DEF SyncFails, WorkerRestarts, Fault
<1>10. CASE SetAlert BY <1>0, <1>10 DEF SetAlert, UsageTypeOK
<1>11. CASE CommitBatch
  <2>1. \A t \in BatchTenants : stream[LastEvent(t)].bal \in Int
    BY <1>0, <1>11, LastEventType, EventType DEF CommitBatch
  <2>2. pgBalance' \in [Tenants -> Int] BY <1>0, <1>11, <2>1 DEF CommitBatch
  <2> QED BY <1>0, <1>11, <2>2 DEF CommitBatch
<1>12. ASSUME NEW x \in Txs, NEW t \in Tenants, NEW a \in Amounts, SubmitDeposit(x, t, a)
       PROVE AccountTypeOK'
  BY <1>0, <1>12 DEF SubmitDeposit
<1>13. ASSUME NEW c \in Creditors, NEW x \in Txs, NEW t \in Tenants, NEW a \in Amounts,
              XrplPayment(c, x, t, a)
       PROVE AccountTypeOK'
  BY <1>0, <1>13 DEF XrplPayment
<1>14. ASSUME NEW c \in Creditors, PopDeposit(c) \/ SkipDuplicate(c) \/ ClearAlert(c)
       PROVE AccountTypeOK'
  BY <1>0, <1>14 DEF PopDeposit, SkipDuplicate, ClearAlert
<1>15. ASSUME NEW c \in Creditors, CreditorFails(c) PROVE AccountTypeOK'
  BY <1>0, <1>15 DEF CreditorFails, Fault
<1>16. ASSUME NEW c \in Creditors, RecordDeposit(c) \/ CreditBalance(c)
       PROVE AccountTypeOK'
  <2> DEFINE m == cred[c].msg
  <2>1. m \in Msg BY <1>0, <1>16 DEF RecordDeposit, CreditBalance, DepositTypeOK
  <2>2. m.tenant \in Tenants /\ m.amount \in Int BY <2>1, PriceAssumption DEF Msg
  <2>3. /\ pgBalance' = pgBalance \/ pgBalance' = [pgBalance EXCEPT ![m.tenant] = @ + m.amount]
        /\ balance' = balance \/ balance' = [balance EXCEPT ![m.tenant] = @ + m.amount]
        /\ UNCHANGED <<account, rate, alert, topUps, faults>>
    BY <1>16 DEF RecordDeposit, CreditBalance
  <2> HIDE DEF m
  <2> QED BY <1>0, <2>2, <2>3
<1>17. ASSUME NEW t \in Tenants, NEW a \in Amounts, TopUp(t, a) PROVE AccountTypeOK'
  BY <1>0, <1>17, PriceAssumption DEF TopUp
<1> QED BY <1>1, <1>2, <1>3, <1>4, <1>5, <1>6, <1>7, <1>8, <1>9, <1>10, <1>11, <1>12,
           <1>13, <1>14, <1>15, <1>16, <1>17 DEF Next

-------------------------------------------------------------------------------
(* The theorems.                                                             *)

IInv == TypeOK /\ StreamInv /\ LedgerInv /\ DepositInv /\ BalanceInv

\* The inductive invariant holds before anything is registered.
LEMMA InitIInv == Init => IInv
<1> SUFFICES ASSUME Init PROVE IInv OBVIOUS
<1> USE DEF Init
<1>1. AccountTypeOK BY DEF AccountTypeOK
<1>2. UsageTypeOK
  <2>1. (CHOOSE t \in Tenants : TRUE) \in Tenants BY TenantAssumption
  <2> QED BY <2>1 DEF UsageTypeOK, IdleSync
<1>3. DepositTypeOK BY DEF DepositTypeOK, IdleCreditor
<1>4. StreamInv /\ LedgerInv
  BY DEF StreamInv, LedgerInv, LedgeredOnce, AckedAreLedgered, IdleSync
<1>5. DepositInv /\ BalanceInv
  BY DEF DepositInv, CreditsAreExclusive, BalanceInv, IdleCreditor
<1> QED BY <1>1, <1>2, <1>3, <1>4, <1>5 DEF IInv, TypeOK

\* The conjunction of the typing, stream, ledger, deposit and balance invariants
\* holds in every state, whatever crashes (worker.py, tools.py, deposit_daemon.py).
THEOREM Invariance == Spec => []IInv
<1>1. IInv /\ [Next]_vars => IInv'
  <2> SUFFICES ASSUME IInv, [Next]_vars PROVE IInv' OBVIOUS
  <2>0. /\ TypeOK /\ AccountTypeOK /\ UsageTypeOK /\ DepositTypeOK
        /\ StreamInv /\ LedgerInv /\ DepositInv /\ BalanceInv
    BY DEF IInv, TypeOK
  <2>1. TypeOK' BY <2>0, AccountType, UsageType, DepositType DEF TypeOK
  <2>2. StreamInv' /\ LedgerInv' BY <2>0, StreamStep, LedgerStep
  <2>3. DepositInv' /\ BalanceInv' BY <2>0, DepositStep, BalanceStep
  <2> QED BY <2>1, <2>2, <2>3 DEF IInv
<1> QED BY InitIInv, <1>1, PTL DEF Spec

\* Every store keeps values of its type, and a creditor at work holds a deposit.
THEOREM TypeCorrect == Spec => []TypeOK
<1>1. IInv => TypeOK BY DEF IInv
<1> QED BY Invariance, <1>1, PTL

\* XACK follows the commit of exactly one ledger row, over any number of failures
\* and restarts of process_batch.
THEOREM Ledgered == Spec => []LedgerSound
<1>1. IInv => LedgerSound BY DEF IInv, LedgerInv, LedgerSound
<1> QED BY Invariance, <1>1, PTL

\* UNIQUE (tx_hash) and commit-before-increment let at most one creditor, and that
\* one at most once, add a transaction hash to a Redis balance.
THEOREM CreditedOnce == Spec => []CreditsAreExclusive
<1>1. IInv => CreditsAreExclusive BY DEF IInv, DepositInv
<1> QED BY Invariance, <1>1, PTL

-------------------------------------------------------------------------------
(* The balances add up.  The invariant relates every balance to sums over the *)
(* charges and deposits of its tenant, which are finite at any time.           *)

\* The requests that were charged.
Charges == {r \in Requests : req[r].pc \in {"charged", "done", "failed"}}

\* What a tenant was ever given, top-ups apart.
Granted(t) == Opening(t) + Value(Received(t))

\* Only tenants that may spend have charges and deposits, finitely many.
HoldingsInv ==
  \A t \in Tenants :
    /\ IsFiniteSet(ChargesOf(t)) /\ IsFiniteSet(DepositsOf(t))
    /\ ~Live(t) => ChargesOf(t) = {} /\ DepositsOf(t) = {}

\* No request and no event reports a balance above what its tenant was given.
ReportInv ==
  /\ \A r \in Charges : req[r].bal <= Granted(req[r].tenant)
  /\ \A i \in 1..Len(stream) : stream[i].bal <= Granted(stream[i].tenant)

\* What was credited bounds the balance from above, and what was withdrawn by
\* negative deposits gives nothing.
BoundInv ==
  \A t \in Tenants : /\ balance[t] <= Opening(t) + Value(Received(t) \cap credited)
                      /\ Value(Withdrawn(t) \cap credited) <= 0

FundsInv == HoldingsInv /\ ReportInv /\ BoundInv /\ BalancesAddUp

\* Sums of deposits are integers; of those that gave something they are naturals,
\* a part no more than the whole.
LEMMA ValueType ==
  ASSUME DepositTypeOK, HoldingsInv, NEW t \in Tenants
  PROVE  /\ Value(Received(t)) \in Nat
         /\ Value(Received(t) \cap credited) \in Nat
         /\ Value(Received(t) \cap credited) <= Value(Received(t))
         /\ Value(DepositsOf(t) \cap credited) \in Int
         /\ Value(Withdrawn(t) \cap credited) \in Int
         /\ Granted(t) \in Nat
<1> DEFINE f == [x \in Received(t) |-> deposits[x].amount]
           g == [x \in Received(t) \cap credited |-> deposits[x].amount]
           h == [x \in DepositsOf(t) \cap credited |-> deposits[x].amount]
           w == [x \in Withdrawn(t) \cap credited |-> deposits[x].amount]
<1>1. \A x \in DepositsOf(t) : deposits[x].amount \in Int
  BY PriceAssumption DEF DepositsOf, DepositTypeOK, Deposit
<1>2. IsFiniteSet(DOMAIN f) /\ IsFiniteSet(DOMAIN g) /\ IsFiniteSet(DOMAIN h) /\ IsFiniteSet(DOMAIN w)
  BY FS_Subset DEF HoldingsInv, Received, Withdrawn
<1>3. /\ \A x \in DOMAIN f : f[x] \in Nat
      /\ \A x \in DOMAIN g : g[x] \in Nat /\ g[x] = f[x]
      /\ DOMAIN g \subseteq DOMAIN f
      /\ \A x \in DOMAIN h : h[x] \in Int
      /\ \A x \in DOMAIN w : w[x] \in Int
  BY <1>1 DEF Received, Withdrawn
<1> HIDE DEF f, g, h, w
<1>4. SumFunction(f) \in Nat /\ SumFunction(g) \in Nat /\ SumFunction(g) <= SumFunction(f)
  BY <1>2, <1>3, TotalNat, TotalPart
<1>5. SumFunction(h) \in Int /\ SumFunction(w) \in Int BY <1>2, <1>3, TotalInt
<1>6. /\ SumFunction(f) = Value(Received(t)) /\ SumFunction(g) = Value(Received(t) \cap credited)
      /\ SumFunction(h) = Value(DepositsOf(t) \cap credited)
      /\ SumFunction(w) = Value(Withdrawn(t) \cap credited)
  BY DEF f, g, h, w, Value
<1>7. Opening(t) \in Nat BY SignupAssumption DEF Opening
<1> QED BY <1>4, <1>5, <1>6, <1>7 DEF Granted

\* What a tenant was charged is a natural number.
LEMMA SpentType ==
  ASSUME UsageTypeOK, HoldingsInv, NEW t \in Tenants
  PROVE  Spent(t) \in Nat
<1> DEFINE f == [r \in ChargesOf(t) |-> req[r].cost]
<1>1. IsFiniteSet(DOMAIN f) /\ \A r \in DOMAIN f : f[r] \in Nat
  BY DEF HoldingsInv, ChargesOf, UsageTypeOK
<1> HIDE DEF f
<1>2. SumFunction(f) \in Nat BY <1>1, TotalNat
<1> QED BY <1>2 DEF f, Spent

\* Steps that charge nobody, give nobody anything and publish only balances that
\* were reported to a charged request keep the funds in order.
LEMMA FundsKept ==
  ASSUME FundsInv, UNCHANGED <<balance, deposits, credited, pgBalance, topUps>>,
         \A t \in Tenants : /\ Live(t)' = Live(t) /\ Opening(t)' = Opening(t)
                            /\ ChargesOf(t)' = ChargesOf(t),
         Charges' = Charges,
         \A r \in Charges : /\ req[r].tenant \in Tenants
                            /\ req'[r].cost = req[r].cost /\ req'[r].bal = req[r].bal
                            /\ req'[r].tenant = req[r].tenant,
         \A i \in 1..Len(stream) : stream[i].tenant \in Tenants,
         \A i \in 1..Len(stream') :
           \/ i \in 1..Len(stream) /\ stream'[i] = stream[i]
           \/ \E r \in Charges : stream'[i].bal = req[r].bal /\ stream'[i].tenant = req[r].tenant
  PROVE  FundsInv'
<1>1. \A t \in Tenants : /\ DepositsOf(t)' = DepositsOf(t)
                         /\ Value(Received(t))' = Value(Received(t))
                         /\ Value(Received(t) \cap credited)' = Value(Received(t) \cap credited)
                         /\ Value(Withdrawn(t) \cap credited)' = Value(Withdrawn(t) \cap credited)
                         /\ Value(DepositsOf(t) \cap credited)' = Value(DepositsOf(t) \cap credited)
  BY DEF DepositsOf, Received, Withdrawn, Value
<1>2. \A t \in Tenants : Granted(t)' = Granted(t) BY <1>1 DEF Granted
<1>3. HoldingsInv' BY <1>1 DEF FundsInv, HoldingsInv
<1>4. ReportInv'
  BY <1>2 DEF FundsInv, ReportInv
<1>5. ASSUME NEW t \in Tenants PROVE Spent(t)' = Spent(t)
  <2>1. \A r \in ChargesOf(t) : r \in Charges BY DEF ChargesOf, Charges
  <2>2. [r \in ChargesOf(t) |-> req[r].cost]' = [r \in ChargesOf(t) |-> req[r].cost]
    BY <2>1
  <2> QED BY <2>2 DEF Spent
<1>6. BalancesAddUp'
  BY <1>1, <1>5 DEF FundsInv, BalancesAddUp, Conservation, NeverOverdrawn, PgNeverOverstates
<1>7. BoundInv' BY <1>1 DEF FundsInv, BoundInv
<1> QED BY <1>3, <1>4, <1>6, <1>7 DEF FundsInv

\* Who is given more may go on reporting what it did.
LEMMA ReportsKept ==
  ASSUME UsageTypeOK, ReportInv, UNCHANGED <<req, stream>>,
         \A t \in Tenants : Granted(t) \in Int /\ Granted(t)' \in Int /\ Granted(t) <= Granted(t)'
  PROVE  ReportInv'
<1>1. \A i \in 1..Len(stream) : stream[i].tenant \in Tenants /\ stream[i].bal \in Int
  BY EventType
<1>2. Charges' = Charges /\ \A r \in Charges : req[r].tenant \in Tenants /\ req[r].bal \in Int
  BY DEF Charges, UsageTypeOK
<1>3. (\A r \in Charges : req[r].bal <= Granted(req[r].tenant))'
  <2> SUFFICES ASSUME NEW r \in Charges PROVE (req[r].bal <= Granted(req[r].tenant))'
    BY <1>2
  <2>1. PICK u \in Tenants : u = req[r].tenant BY <1>2
  <2>2. req[r].bal <= Granted(u) /\ req[r].bal \in Int BY <1>2, <2>1 DEF ReportInv
  <2>3. req[r].bal <= Granted(u)' BY <2>2
  <2> QED BY <2>1, <2>3
<1>4. (\A i \in 1..Len(stream) : stream[i].bal <= Granted(stream[i].tenant))'
  <2> SUFFICES ASSUME NEW i \in 1..Len(stream)
               PROVE  (stream[i].bal <= Granted(stream[i].tenant))'
    OBVIOUS
  <2>1. PICK u \in Tenants : u = stream[i].tenant BY <1>1
  <2>2. stream[i].bal <= Granted(u) /\ stream[i].bal \in Int BY <1>1, <2>1 DEF ReportInv
  <2>3. stream[i].bal <= Granted(u)' BY <2>2
  <2> QED BY <2>1, <2>3
<1> QED BY <1>3, <1>4 DEF ReportInv

\* A recorded deposit is one more deposit of its tenant, and gives what it is worth
\* unless that is nothing or less.
LEMMA Recording ==
  ASSUME DepositTypeOK, HoldingsInv, NEW x \in Txs, NEW t \in Tenants, NEW a \in Amounts,
         deposits[x] = NoDeposit, x \notin credited,
         deposits' = [deposits EXCEPT ![x] = [tenant |-> t, amount |-> a]],
         UNCHANGED <<account, credited>>, NEW u \in Tenants
  PROVE  /\ IsFiniteSet(DepositsOf(u)')
         /\ u # t => DepositsOf(u)' = DepositsOf(u)
         /\ Granted(u)' = Granted(u) + (IF u = t /\ a > 0 THEN a ELSE 0)
         /\ Value(DepositsOf(u) \cap credited)' = Value(DepositsOf(u) \cap credited)
         /\ Value(Received(u) \cap credited)' = Value(Received(u) \cap credited)
         /\ Value(Withdrawn(u) \cap credited)' = Value(Withdrawn(u) \cap credited)
<1> DEFINE d == [tenant |-> t, amount |-> a]
<1>1. d # NoDeposit /\ d.tenant = t /\ d.amount = a /\ a \in Int
  <2>1. d \in Deposit BY DEF Deposit
  <2> QED BY <2>1, AbsentAssumption, PriceAssumption
<1>2. /\ deposits'[x] = d /\ \A y \in Txs : y # x => deposits'[y] = deposits[y]
  BY DEF DepositTypeOK
<1> HIDE DEF d
<1>3. /\ x \notin DepositsOf(u)
      /\ \A y \in DepositsOf(u) : y \in Txs /\ y # x /\ deposits'[y] = deposits[y]
  BY <1>2 DEF DepositsOf
<1>4. DepositsOf(u)' = IF u = t THEN DepositsOf(u) \cup {x} ELSE DepositsOf(u)
  BY <1>1, <1>2 DEF DepositsOf
<1>5. IsFiniteSet(DepositsOf(u)) BY DEF HoldingsInv
<1>6. \A y \in DepositsOf(u) : deposits[y].amount \in Int
  BY PriceAssumption DEF DepositsOf, DepositTypeOK, Deposit
<1>7. IsFiniteSet(DepositsOf(u)') BY <1>4, <1>5, FS_AddElement
<1>r. Received(u)' = IF u = t /\ a > 0 THEN Received(u) \cup {x} ELSE Received(u)
  BY <1>1, <1>2, <1>3, <1>4 DEF Received
<1>8. Value(Received(u))' = Value(Received(u)) + (IF u = t /\ a > 0 THEN a ELSE 0)
  <2> DEFINE f == [y \in Received(u) |-> deposits[y].amount]
             g == [y \in Received(u)' |-> deposits'[y].amount]
  <2>1. Value(Received(u)) = SumFunction(f) /\ Value(Received(u))' = SumFunction(g)
    BY DEF Value
  <2>2. CASE u = t /\ a > 0
    <3>1. /\ IsFiniteSet(DOMAIN f) /\ x \notin DOMAIN f /\ DOMAIN g = DOMAIN f \cup {x}
          /\ g[x] = a
      BY <1>1, <1>2, <1>3, <1>r, <1>5, <2>2, FS_Subset DEF Received
    <3>2. \A y \in DOMAIN f : f[y] \in Int /\ g[y] = f[y]
      BY <1>3, <1>r, <1>6, <2>2 DEF Received
    <3> HIDE DEF f, g
    <3>4. SumFunction(g) = SumFunction(f) + g[x] BY <1>1, <3>1, <3>2, TotalAdd
    <3> QED BY <2>1, <2>2, <3>1, <3>4
  <2>3. CASE ~(u = t /\ a > 0)
    <3>1. f = g BY <1>3, <1>r, <2>3 DEF Received
    <3>2. Value(Received(u)) \in Nat BY ValueType
    <3> HIDE DEF f, g
    <3> QED BY <2>1, <2>3, <3>1, <3>2
  <2> QED BY <2>2, <2>3
<1>9. /\ Value(DepositsOf(u) \cap credited)' = Value(DepositsOf(u) \cap credited)
      /\ Value(Received(u) \cap credited)' = Value(Received(u) \cap credited)
      /\ Value(Withdrawn(u) \cap credited)' = Value(Withdrawn(u) \cap credited)
  <2>1. (DepositsOf(u) \cap credited)' = DepositsOf(u) \cap credited
    BY <1>3, <1>4
  <2>2. /\ (Received(u) \cap credited)' = Received(u) \cap credited
        /\ (Withdrawn(u) \cap credited)' = Withdrawn(u) \cap credited
    BY <1>3, <1>4 DEF Received, Withdrawn
  <2>3. /\ [y \in DepositsOf(u) \cap credited |-> deposits[y].amount]'
           = [y \in DepositsOf(u) \cap credited |-> deposits[y].amount]
        /\ [y \in Received(u) \cap credited |-> deposits[y].amount]'
           = [y \in Received(u) \cap credited |-> deposits[y].amount]
        /\ [y \in Withdrawn(u) \cap credited |-> deposits[y].amount]'
           = [y \in Withdrawn(u) \cap credited |-> deposits[y].amount]
    BY <1>3, <2>1, <2>2 DEF Received, Withdrawn
  <2> QED BY <2>3 DEF Value
<1>10. Opening(u)' = Opening(u) /\ Opening(u) \in Int BY SignupAssumption DEF Opening
<1>11. Granted(u)' = Granted(u) + (IF u = t /\ a > 0 THEN a ELSE 0)
  <2>1. Value(Received(u)) \in Nat BY ValueType
  <2>2. CASE u = t /\ a > 0 BY <1>1, <1>8, <1>10, <2>1, <2>2 DEF Granted
  <2>3. CASE ~(u = t /\ a > 0) BY <1>8, <1>10, <2>1, <2>3 DEF Granted
  <2> QED BY <2>2, <2>3
<1> QED BY <1>4, <1>7, <1>9, <1>11

\* One more credited deposit changes the value of those of a set by its amount if it
\* is one of them.
LEMMA OneMoreCredited ==
  ASSUME NEW S, IsFiniteSet(S), \A y \in S : deposits[y].amount \in Int,
         NEW C, NEW x, x \notin C
  PROVE  Value(S \cap (C \cup {x})) =
           Value(S \cap C) + (IF x \in S THEN deposits[x].amount ELSE 0)
<1> DEFINE f == [y \in S \cap C |-> deposits[y].amount]
           g == [y \in S \cap (C \cup {x}) |-> deposits[y].amount]
<1>1. Value(S \cap C) = SumFunction(f) /\ Value(S \cap (C \cup {x})) = SumFunction(g)
  BY DEF Value
<1>2. IsFiniteSet(DOMAIN f) /\ \A y \in DOMAIN f : f[y] \in Int /\ g[y] = f[y]
  BY FS_Subset
<1>3. CASE x \in S
  <2>1. /\ x \notin DOMAIN f /\ DOMAIN g = DOMAIN f \cup {x}
        /\ g[x] = deposits[x].amount /\ g[x] \in Int
    BY <1>3
  <2> HIDE DEF f, g
  <2>2. SumFunction(g) = SumFunction(f) + g[x] BY <1>2, <2>1, TotalAdd
  <2> QED BY <1>1, <1>3, <2>1, <2>2
<1>4. CASE x \notin S
  <2>1. f = g BY <1>4
  <2> HIDE DEF f, g
  <2>2. SumFunction(f) \in Int BY <1>2, TotalInt
  <2> QED BY <1>1, <1>4, <2>1, <2>2
<1> QED BY <1>3, <1>4

\* A credited deposit is one more of its tenant's that count in Redis.
LEMMA Crediting ==
  ASSUME DepositTypeOK, HoldingsInv, NEW x \in Txs, deposits[x] # NoDeposit, x \notin credited,
         credited' = credited \cup {x}, UNCHANGED deposits, NEW u \in Tenants
  PROVE  LET t == deposits[x].tenant
             a == deposits[x].amount
         IN /\ Value(DepositsOf(u) \cap credited)' =
                 Value(DepositsOf(u) \cap credited) + (IF u = t THEN a ELSE 0)
            /\ Value(Received(u) \cap credited)' =
                 Value(Received(u) \cap credited) + (IF u = t /\ a > 0 THEN a ELSE 0)
            /\ Value(Withdrawn(u) \cap credited)' =
                 Value(Withdrawn(u) \cap credited) + (IF u = t /\ a < 0 THEN a ELSE 0)
<1> DEFINE t == deposits[x].tenant
           a == deposits[x].amount
<1>1. /\ Value(DepositsOf(u) \cap credited)' = Value(DepositsOf(u) \cap (credited \cup {x}))
      /\ Value(Received(u) \cap credited)' = Value(Received(u) \cap (credited \cup {x}))
      /\ Value(Withdrawn(u) \cap credited)' = Value(Withdrawn(u) \cap (credited \cup {x}))
  BY DEF Value, DepositsOf, Received, Withdrawn
<1>2. /\ x \in DepositsOf(u) <=> u = t
      /\ x \in Received(u) <=> u = t /\ a > 0
      /\ x \in Withdrawn(u) <=> u = t /\ a < 0
  BY DEF DepositsOf, Received, Withdrawn
<1>3. \A y \in DepositsOf(u) : deposits[y].amount \in Int
  BY PriceAssumption DEF DepositsOf, DepositTypeOK, Deposit
<1>4. /\ IsFiniteSet(DepositsOf(u)) /\ IsFiniteSet(Received(u)) /\ IsFiniteSet(Withdrawn(u))
      /\ \A y \in Received(u) : deposits[y].amount \in Int
      /\ \A y \in Withdrawn(u) : deposits[y].amount \in Int
  BY <1>3, FS_Subset DEF HoldingsInv, Received, Withdrawn
<1>5. Value(DepositsOf(u) \cap (credited \cup {x})) =
        Value(DepositsOf(u) \cap credited) + (IF x \in DepositsOf(u) THEN deposits[x].amount ELSE 0)
  BY <1>3, <1>4, OneMoreCredited
<1>6. Value(Received(u) \cap (credited \cup {x})) =
        Value(Received(u) \cap credited) + (IF x \in Received(u) THEN deposits[x].amount ELSE 0)
  BY <1>4, OneMoreCredited
<1>7. Value(Withdrawn(u) \cap (credited \cup {x})) =
        Value(Withdrawn(u) \cap credited) + (IF x \in Withdrawn(u) THEN deposits[x].amount ELSE 0)
  BY <1>4, OneMoreCredited
<1> QED BY <1>1, <1>2, <1>5, <1>6, <1>7

\* A charge is one more of its tenant's.
LEMMA Charging ==
  ASSUME UsageTypeOK, HoldingsInv, NEW r \in Requests, NEW t \in Tenants, NEW k \in Nat, NEW b,
         req[r].pc = "new",
         req' = [req EXCEPT ![r] = [pc |-> "charged", tenant |-> t, cost |-> k, bal |-> b]],
         NEW u \in Tenants
  PROVE  /\ IsFiniteSet(ChargesOf(u)')
         /\ u # t => ChargesOf(u)' = ChargesOf(u)
         /\ Spent(u)' = Spent(u) + (IF u = t THEN k ELSE 0)
<1>1. /\ req'[r].pc = "charged" /\ req'[r].tenant = t /\ req'[r].cost = k
      /\ \A q \in Requests : q # r => req'[q] = req[q]
  BY DEF UsageTypeOK
<1>2. r \notin ChargesOf(u) /\ \A q \in ChargesOf(u) : q \in Requests /\ q # r
  BY DEF ChargesOf
<1>3. ChargesOf(u)' = IF u = t THEN ChargesOf(u) \cup {r} ELSE ChargesOf(u)
  BY <1>1, <1>2 DEF ChargesOf
<1>4. IsFiniteSet(ChargesOf(u)) BY DEF HoldingsInv
<1>5. IsFiniteSet(ChargesOf(u)') BY <1>3, <1>4, FS_AddElement
<1>6. Spent(u)' = Spent(u) + (IF u = t THEN k ELSE 0)
  <2> DEFINE f == [q \in ChargesOf(u) |-> req[q].cost]
             g == [q \in ChargesOf(u)' |-> req'[q].cost]
  <2>1. Spent(u) = SumFunction(f) /\ Spent(u)' = SumFunction(g) BY DEF Spent
  <2>2. \A q \in ChargesOf(u) : req[q].cost \in Int BY DEF ChargesOf, UsageTypeOK
  <2>3. CASE u = t
    <3>1. /\ IsFiniteSet(DOMAIN f) /\ r \notin DOMAIN f /\ DOMAIN g = DOMAIN f \cup {r}
          /\ g[r] = k
      BY <1>1, <1>2, <1>3, <1>4, <2>3
    <3>2. \A q \in DOMAIN f : f[q] \in Int /\ g[q] = f[q]
      BY <1>1, <1>2, <1>3, <2>2, <2>3
    <3> HIDE DEF f, g
    <3>3. SumFunction(g) = SumFunction(f) + g[r] BY <3>1, <3>2, TotalAdd
    <3> QED BY <2>1, <2>3, <3>1, <3>3
  <2>4. CASE u # t
    <3>1. f = g BY <1>1, <1>2, <1>3, <2>4
    <3>2. Spent(u) \in Int BY SpentType
    <3> HIDE DEF f, g
    <3> QED BY <2>1, <2>4, <3>1, <3>2
  <2> QED BY <2>3, <2>4
<1> QED BY <1>3, <1>5, <1>6

\* The last event of a tenant in a batch is the tenant's.
LEMMA LastEventTenant ==
  ASSUME UsageTypeOK, StreamInv, sync.pc # "idle", NEW t \in BatchTenants
  PROVE  stream[LastEvent(t)].tenant = t
<1> DEFINE T == {i \in Batch : stream[i].tenant = t}
<1>1. Batch \subseteq 0..Len(stream) /\ Len(stream) \in Nat
  BY DEF UsageTypeOK, StreamInv, Batch
<1>2. T \subseteq 0..Len(stream) /\ T # {} BY <1>1 DEF BatchTenants
<1>3. PICK i \in T : \A j \in T : j <= i BY <1>1, <1>2, MaxExists
<1>4. \E k \in Batch : stream[k].tenant = t /\ \A j \in Batch : stream[j].tenant = t => j <= k
  BY <1>3
<1> QED BY <1>4 DEF LastEvent

\* The balances add up after every step: a charge is covered, a deposit is added
\* to Redis once and after PostgreSQL has it, and what a usage event reports was
\* given before.
LEMMA FundsStep == IInv /\ FundsInv /\ [Next]_vars => FundsInv'
<1> SUFFICES ASSUME IInv, FundsInv, [Next]_vars PROVE FundsInv'
  OBVIOUS
<1> USE DEF redisVars, usageVars, depositVars
<1>0. /\ UsageTypeOK /\ DepositTypeOK /\ AccountTypeOK /\ StreamInv /\ LedgerInv /\ DepositInv
      /\ HoldingsInv /\ ReportInv /\ BoundInv
      /\ Conservation /\ NeverOverdrawn /\ PgNeverOverstates
      /\ balance \in [Tenants -> Int] /\ pgBalance \in [Tenants -> Int]
      /\ account \in [Tenants -> {"absent", "created", "seeded", "unseeded"}]
      /\ topUps \in [Tenants -> Nat]
  BY DEF IInv, TypeOK, FundsInv, BalancesAddUp, AccountTypeOK
<1>a. \A c \in Creditors : cred[c].pc # "idle" =>
        /\ cred[c].msg.tx \in Txs /\ cred[c].msg.tenant \in Tenants
        /\ cred[c].msg.amount \in Amounts /\ cred[c].msg.amount \in Int
        /\ Live(cred[c].msg.tenant)
  BY <1>0, PriceAssumption DEF DepositTypeOK, DepositInv, Msg
<1>b. \A t \in Tenants : /\ Value(Received(t)) \in Nat
                         /\ Value(Received(t) \cap credited) \in Nat
                         /\ Value(Received(t) \cap credited) <= Value(Received(t))
                         /\ Value(DepositsOf(t) \cap credited) \in Int
                         /\ Value(Withdrawn(t) \cap credited) \in Int
                         /\ Granted(t) \in Nat /\ Spent(t) \in Nat /\ Opening(t) \in Nat
  <2>1. \A t \in Tenants : Opening(t) \in Nat BY SignupAssumption DEF Opening
  <2> QED BY <1>0, <2>1, ValueType, SpentType
<1>i. \A t \in Tenants : /\ Value(Received(t)) \in Int /\ Value(Received(t) \cap credited) \in Int
                         /\ Value(DepositsOf(t) \cap credited) \in Int
                         /\ Value(Withdrawn(t) \cap credited) \in Int
                         /\ Granted(t) \in Int /\ Spent(t) \in Int /\ Opening(t) \in Int
  <2>1. \A n \in Nat : n \in Int OBVIOUS
  <2> QED BY <1>b, <2>1, Zenon
<1>c. \A t \in Tenants : /\ balance[t] = Opening(t) + Value(DepositsOf(t) \cap credited) - Spent(t)
                         /\ balance[t] <= Opening(t) + Value(Received(t) \cap credited)
                         /\ balance[t] >= Value(Withdrawn(t) \cap credited)
                         /\ Value(Withdrawn(t) \cap credited) <= 0
                         /\ balance[t] \in Int /\ balance[t] <= Granted(t)
                         /\ pgBalance[t] <= Granted(t) + topUps[t]
  <2> SUFFICES ASSUME NEW t \in Tenants
               PROVE  /\ balance[t] = Opening(t) + Value(DepositsOf(t) \cap credited) - Spent(t)
                      /\ balance[t] <= Opening(t) + Value(Received(t) \cap credited)
                      /\ balance[t] >= Value(Withdrawn(t) \cap credited)
                      /\ Value(Withdrawn(t) \cap credited) <= 0
                      /\ balance[t] \in Int /\ balance[t] <= Granted(t)
                      /\ pgBalance[t] <= Granted(t) + topUps[t]
    OBVIOUS
  <2>1. /\ balance[t] = Opening(t) + Value(DepositsOf(t) \cap credited) - Spent(t)
        /\ balance[t] >= Value(Withdrawn(t) \cap credited)
    BY <1>0 DEF Conservation, NeverOverdrawn
  <2>2. /\ balance[t] <= Opening(t) + Value(Received(t) \cap credited)
        /\ Value(Withdrawn(t) \cap credited) <= 0
    BY <1>0 DEF BoundInv
  <2>3. pgBalance[t] <= Opening(t) + Value(Received(t)) + topUps[t]
    BY <1>0 DEF PgNeverOverstates
  <2>4. balance[t] \in Int BY <1>0
  <2>5. balance[t] <= Opening(t) + Value(Received(t))
    <3> DEFINE v == Value(Received(t) \cap credited)
               w == Value(Received(t))
    <3>1. v \in Nat /\ w \in Nat /\ v <= w /\ balance[t] <= Opening(t) + v /\ Opening(t) \in Nat
      BY <1>b, <2>2
    <3> HIDE DEF v, w
    <3>2. balance[t] <= Opening(t) + w BY <2>4, <3>1
    <3> QED BY <3>2 DEF w
  <2> QED BY <2>1, <2>2, <2>3, <2>4, <2>5 DEF Granted
<1>p. ASSUME NEW t \in Tenants
      PROVE  /\ pgBalance[t] <= Granted(t) + topUps[t]
             /\ pgBalance[t] \in Int /\ topUps[t] \in Int /\ Granted(t) \in Int
  <2>1. pgBalance[t] \in Int /\ topUps[t] \in Nat BY <1>0
  <2>2. topUps[t] \in Int BY <2>1
  <2>3. pgBalance[t] <= Granted(t) + topUps[t] /\ Granted(t) \in Int BY <1>c, <1>i
  <2> QED BY <2>1, <2>2, <2>3
<1>r. \A r \in Charges : req[r].tenant \in Tenants /\ r \in Requests
  BY <1>0 DEF Charges, UsageTypeOK
<1>s. \A i \in 1..Len(stream) : stream[i].tenant \in Tenants /\ stream[i].bal \in Int
  BY <1>0, EventType
<1>k. ASSUME UNCHANGED <<account, balance, req, stream, deposits, credited, pgBalance, topUps>>
      PROVE  FundsInv'
  <2>1. /\ Charges' = Charges
        /\ \A t \in Tenants : /\ Live(t)' = Live(t) /\ Opening(t)' = Opening(t)
                              /\ ChargesOf(t)' = ChargesOf(t)
    BY <1>k DEF Live, Opening, Charges, ChargesOf
  <2> QED BY <1>k, <1>r, <1>s, <2>1, FundsKept
<1>1. CASE UNCHANGED vars BY <1>1, <1>k DEF vars
<1>2. ASSUME NEW t \in Tenants, WindowExpires(t) \/ AlertExpires(t) \/ SyncTenant(t)
      PROVE FundsInv'
  BY <1>2, <1>k DEF WindowExpires, AlertExpires, SyncTenant
<1>3. CASE ReadBatch \/ SetAlert \/ AckBatch \/ SyncFails \/ WorkerRestarts
  BY <1>3, <1>k DEF ReadBatch, SetAlert, AckBatch, SyncFails, WorkerRestarts
<1>4. ASSUME NEW x \in Txs, NEW t \in Tenants, NEW a \in Amounts, SubmitDeposit(x, t, a)
      PROVE FundsInv'
  BY <1>4, <1>k DEF SubmitDeposit
<1>5. ASSUME NEW c \in Creditors, NEW x \in Txs, NEW t \in Tenants, NEW a \in Amounts,
             XrplPayment(c, x, t, a)
      PROVE FundsInv'
  BY <1>5, <1>k DEF XrplPayment
<1>6. ASSUME NEW c \in Creditors,
             PopDeposit(c) \/ SkipDuplicate(c) \/ ClearAlert(c) \/ CreditorFails(c)
      PROVE FundsInv'
  BY <1>6, <1>k DEF PopDeposit, SkipDuplicate, ClearAlert, CreditorFails
<1>7. ASSUME NEW t \in Tenants, RegisterTenant(t) PROVE FundsInv'
  <2>1. /\ UNCHANGED <<balance, req, stream, deposits, credited, pgBalance, topUps>>
        /\ account[t] = "absent" /\ account' = [account EXCEPT ![t] = "created"]
    BY <1>7 DEF RegisterTenant
  <2>2. \A u \in Tenants : Live(u)' = Live(u) /\ Opening(u)' = Opening(u)
    BY <1>0, <2>1 DEF Live, Opening
  <2>3. Charges' = Charges /\ \A u \in Tenants : ChargesOf(u)' = ChargesOf(u)
    BY <2>1 DEF Charges, ChargesOf
  <2> QED BY <1>r, <1>s, <2>1, <2>2, <2>3, FundsKept
<1>8. ASSUME NEW r \in Requests, NEW t \in Tenants, NEW k \in Costs, Refuse(r, t, k)
      PROVE FundsInv'
  <2>1. /\ UNCHANGED <<account, balance, stream, deposits, credited, pgBalance, topUps>>
        /\ req[r].pc = "new" /\ req'[r].pc = "refused"
        /\ \A q \in Requests : q # r => req'[q] = req[q]
    BY <1>0, <1>8 DEF Refuse, UsageTypeOK
  <2>2. \A u \in Tenants : Live(u)' = Live(u) /\ Opening(u)' = Opening(u)
    BY <2>1 DEF Live, Opening
  <2>3. /\ Charges' = Charges /\ r \notin Charges
        /\ \A u \in Tenants : ChargesOf(u)' = ChargesOf(u)
    BY <2>1 DEF Charges, ChargesOf
  <2> QED BY <1>r, <1>s, <2>1, <2>2, <2>3, FundsKept
<1>9. ASSUME NEW r \in Requests, Publish(r) PROVE FundsInv'
  <2>1. /\ UNCHANGED <<account, balance, deposits, credited, pgBalance, topUps>>
        /\ req[r].pc = "charged" /\ req' = [req EXCEPT ![r].pc = "done"]
    BY <1>9 DEF Publish
  <2>2. \A u \in Tenants : Live(u)' = Live(u) /\ Opening(u)' = Opening(u)
    BY <2>1 DEF Live, Opening
  <2>3. /\ \A q \in Requests : /\ req'[q].tenant = req[q].tenant /\ req'[q].cost = req[q].cost
                               /\ req'[q].bal = req[q].bal
        /\ \A q \in Requests : q # r => req'[q].pc = req[q].pc
        /\ req'[r].pc = "done"
    BY <1>0, <2>1 DEF UsageTypeOK
  <2>4. /\ Charges' = Charges /\ r \in Charges
        /\ \A u \in Tenants : ChargesOf(u)' = ChargesOf(u)
    BY <2>1, <2>3 DEF Charges, ChargesOf
  <2>5. /\ Len(stream) \in Nat /\ Len(stream') = Len(stream) + 1
        /\ stream'[Len(stream) + 1].bal = req[r].bal
        /\ stream'[Len(stream) + 1].tenant = req[r].tenant
        /\ \A i \in 1..Len(stream) : stream'[i] = stream[i]
    BY <1>0, <1>9 DEF Publish, UsageTypeOK
  <2>6. \A i \in 1..Len(stream') :
          \/ i \in 1..Len(stream) /\ stream'[i] = stream[i]
          \/ stream'[i].bal = req[r].bal /\ stream'[i].tenant = req[r].tenant
    <3>1. \A i \in 1..Len(stream') : i \in 1..Len(stream) \/ i = Len(stream) + 1
      BY <2>5
    <3> QED BY <2>5, <3>1
  <2> QED BY <1>r, <1>s, <2>1, <2>2, <2>3, <2>4, <2>6, FundsKept
<1>10. ASSUME NEW S \in SUBSET Requests, RequestsFail(S) PROVE FundsInv'
  <2>1. /\ UNCHANGED <<account, balance, stream, deposits, credited, pgBalance, topUps>>
        /\ \A q \in S : req[q].pc = "charged"
    BY <1>10 DEF RequestsFail
  <2>2. \A u \in Tenants : Live(u)' = Live(u) /\ Opening(u)' = Opening(u)
    BY <2>1 DEF Live, Opening
  <2>3. /\ \A q \in Requests : /\ req'[q].tenant = req[q].tenant /\ req'[q].cost = req[q].cost
                               /\ req'[q].bal = req[q].bal
        /\ \A q \in Requests : q \notin S => req'[q].pc = req[q].pc
        /\ \A q \in S : req'[q].pc = "failed"
    BY <1>0, <1>10 DEF RequestsFail, UsageTypeOK
  <2>4. Charges' = Charges /\ \A u \in Tenants : ChargesOf(u)' = ChargesOf(u)
    BY <2>1, <2>3 DEF Charges, ChargesOf
  <2> QED BY <1>r, <1>s, <2>1, <2>2, <2>3, <2>4, FundsKept
<1>11. ASSUME NEW t \in Tenants, NEW r \in Requests, NEW k \in Costs, Meter(r, t, k)
       PROVE FundsInv'
  <2> DEFINE b == balance[t] - k
  <2>1. /\ UNCHANGED <<account, stream, deposits, credited, pgBalance, topUps>>
        /\ Live(t) /\ req[r].pc = "new" /\ balance' = [balance EXCEPT ![t] = @ - k]
        /\ req' = [req EXCEPT ![r] = [pc |-> "charged", tenant |-> t, cost |-> k, bal |-> b]]
        /\ k \in Nat /\ balance[t] >= k
    BY <1>11, PriceAssumption DEF Meter, Covers
  <2>2. b \in Int /\ b <= Granted(t)
    <3>1. balance[t] \in Int /\ balance[t] <= Granted(t) /\ Granted(t) \in Nat
      BY <1>b, <1>c
    <3> QED BY <2>1, <3>1
  <2>b. balance'[t] = b /\ b = balance[t] - k BY <1>0, <2>1
  <2> HIDE DEF b
  <2>3. \A u \in Tenants : /\ Live(u)' = Live(u) /\ Opening(u)' = Opening(u)
                           /\ DepositsOf(u)' = DepositsOf(u)
                           /\ Value(Received(u))' = Value(Received(u))
                           /\ Value(Received(u) \cap credited)' = Value(Received(u) \cap credited)
                           /\ Value(Withdrawn(u) \cap credited)' = Value(Withdrawn(u) \cap credited)
                           /\ Value(DepositsOf(u) \cap credited)' = Value(DepositsOf(u) \cap credited)
    BY <2>1 DEF Live, Opening, DepositsOf, Received, Withdrawn, Value
  <2>4. \A u \in Tenants : Granted(u)' = Granted(u) BY <2>3 DEF Granted
  <2>5. \A u \in Tenants :
          /\ IsFiniteSet(ChargesOf(u)')
          /\ u # t => ChargesOf(u)' = ChargesOf(u)
          /\ Spent(u)' = Spent(u) + (IF u = t THEN k ELSE 0)
    BY <1>0, <2>1, Charging
  <2>6. HoldingsInv'
    BY <1>0, <2>1, <2>3, <2>5 DEF HoldingsInv
  <2>7. ReportInv'
    <3>1. /\ req'[r].bal = b /\ req'[r].tenant = t
          /\ \A q \in Requests : q # r => req'[q] = req[q]
      BY <1>0, <2>1 DEF UsageTypeOK
    <3>2. Charges' = Charges \cup {r} BY <2>1, <3>1, <1>0 DEF Charges, UsageTypeOK
    <3>3. (\A q \in Charges : req[q].bal <= Granted(req[q].tenant))'
      <4> SUFFICES ASSUME NEW q \in Charges' PROVE (req[q].bal <= Granted(req[q].tenant))'
        OBVIOUS
      <4>1. CASE q = r
        <5>1. req'[r].bal <= Granted(t)' BY <2>1, <2>2, <2>4, <3>1
        <5> QED BY <3>1, <4>1, <5>1
      <4>2. CASE q # r
        <5>1. q \in Charges /\ q \in Requests /\ req'[q] = req[q] BY <1>r, <3>1, <3>2, <4>2
        <5>2. PICK u \in Tenants : u = req[q].tenant BY <1>r, <5>1
        <5>3. req[q].bal <= Granted(u) BY <1>0, <5>1, <5>2 DEF ReportInv
        <5>4. req[q].bal <= Granted(u)' BY <2>4, <5>3
        <5> QED BY <5>1, <5>2, <5>4
      <4> QED BY <4>1, <4>2
    <3>4. (\A i \in 1..Len(stream) : stream[i].bal <= Granted(stream[i].tenant))'
      BY <1>0, <1>s, <2>1, <2>4 DEF ReportInv
    <3> QED BY <3>3, <3>4 DEF ReportInv
  <2>8. Conservation'
    <3> SUFFICES ASSUME NEW u \in Tenants
                 PROVE  (balance[u] = Opening(u) + Value(DepositsOf(u) \cap credited) - Spent(u))'
      BY DEF Conservation
    <3>1. balance'[u] = balance[u] - (IF u = t THEN k ELSE 0) BY <1>0, <2>1
    <3>2. balance[u] = Opening(u) + Value(DepositsOf(u) \cap credited) - Spent(u) BY <1>c
    <3>3. /\ Opening(u)' = Opening(u) /\ Spent(u)' = Spent(u) + (IF u = t THEN k ELSE 0)
          /\ Value(DepositsOf(u) \cap credited)' = Value(DepositsOf(u) \cap credited)
      BY <2>3, <2>5
    <3>4. /\ Opening(u) \in Int /\ Spent(u) \in Int
          /\ Value(DepositsOf(u) \cap credited) \in Int
      BY <1>i
    <3>5. CASE u = t BY <2>1, <3>1, <3>2, <3>3, <3>4, <3>5
    <3>6. CASE u # t BY <3>1, <3>2, <3>3, <3>4, <3>6
    <3> QED BY <3>5, <3>6
  <2>9. NeverOverdrawn' /\ BoundInv'
    <3> SUFFICES ASSUME NEW u \in Tenants
                 PROVE  (/\ balance[u] >= Value(Withdrawn(u) \cap credited)
                         /\ balance[u] <= Opening(u) + Value(Received(u) \cap credited)
                         /\ Value(Withdrawn(u) \cap credited) <= 0)'
      BY DEF NeverOverdrawn, BoundInv
    <3> DEFINE w == Value(Withdrawn(u) \cap credited)
               v == Opening(u) + Value(Received(u) \cap credited)
    <3>0. /\ balance[u] >= w /\ balance[u] <= v /\ w <= 0 /\ balance[u] \in Int
          /\ w \in Int /\ Opening(u) \in Int /\ Value(Received(u) \cap credited) \in Int
      BY <1>c, <1>i
    <3>1. /\ balance[u] >= w /\ balance[u] <= v /\ w <= 0 /\ balance[u] \in Int
          /\ w \in Int /\ v \in Int /\ w' = w /\ v' = v
      <4>1. w' = w /\ v' = v BY <2>3
      <4>2. v \in Int BY <3>0
      <4> HIDE DEF w
      <4> QED BY <3>0, <4>1, <4>2
    <3>2. balance'[u] = balance[u] - (IF u = t THEN k ELSE 0) BY <1>0, <2>1
    <3> HIDE DEF w, v
    <3>3. balance'[u] >= w /\ balance'[u] <= v
      <4>1. CASE u = t BY <2>1, <3>1, <3>2, <4>1
      <4>2. CASE u # t BY <3>1, <3>2, <4>2
      <4> QED BY <4>1, <4>2
    <3> QED BY <3>1, <3>3 DEF w, v
  <2>10. PgNeverOverstates' BY <1>0, <2>1, <2>3 DEF PgNeverOverstates
  <2> QED BY <2>6, <2>7, <2>8, <2>9, <2>10 DEF FundsInv, BalancesAddUp
<1>12. ASSUME NEW t \in Tenants, SeedBalance(t) \/ SeedFails(t) PROVE FundsInv'
  <2>1. /\ UNCHANGED <<req, stream, deposits, credited, pgBalance, topUps>>
        /\ account[t] = "created"
        /\ \/ /\ account' = [account EXCEPT ![t] = "seeded"]
              /\ balance' = [balance EXCEPT ![t] = SignupCredit]
           \/ /\ account' = [account EXCEPT ![t] = "unseeded"]
              /\ balance' = balance
    BY <1>12 DEF SeedBalance, SeedFails
  <2>2. ~Live(t) /\ Opening(t) = 0 BY <2>1 DEF Live, Opening
  <2>3. ChargesOf(t) = {} /\ DepositsOf(t) = {} BY <1>0, <2>2 DEF HoldingsInv
  <2>4. Spent(t) = 0 BY <2>3, TotalEmpty DEF Spent
  <2>5. /\ Value(DepositsOf(t) \cap credited) = 0
        /\ Value(Received(t) \cap credited) = 0 /\ Value(Withdrawn(t) \cap credited) = 0
    <3>1. Value({}) = 0 BY TotalEmpty DEF Value
    <3> QED BY <2>3, <3>1 DEF Received, Withdrawn
  <2>6. \A u \in Tenants : /\ ChargesOf(u)' = ChargesOf(u) /\ Spent(u)' = Spent(u)
                           /\ DepositsOf(u)' = DepositsOf(u)
                           /\ Value(Received(u))' = Value(Received(u))
                           /\ Value(Received(u) \cap credited)' = Value(Received(u) \cap credited)
                           /\ Value(Withdrawn(u) \cap credited)' = Value(Withdrawn(u) \cap credited)
                           /\ Value(DepositsOf(u) \cap credited)' = Value(DepositsOf(u) \cap credited)
    BY <2>1 DEF ChargesOf, Spent, DepositsOf, Received, Withdrawn, Value
  <2>7. /\ Opening(t)' \in Nat /\ Opening(t)' \in Int /\ balance'[t] = Opening(t)'
        /\ \A u \in Tenants : u # t => Opening(u)' = Opening(u) /\ balance'[u] = balance[u]
    <3>1. balance[t] = 0 BY <2>2 DEF IInv, BalanceInv
    <3> QED BY <1>0, <2>1, <3>1, SignupAssumption DEF Opening
  <2>8. ASSUME NEW u \in Tenants PROVE Opening(u)' \in Int /\ Opening(u) <= Opening(u)'
    <3>1. Opening(u) \in Int BY <1>i
    <3> QED BY <2>2, <2>7, <3>1
  <2>9. HoldingsInv'
    <3>1. \A u \in Tenants : ~Live(u)' => ~Live(u) BY <1>0, <2>1, <2>2 DEF Live
    <3> QED BY <1>0, <2>6, <3>1 DEF HoldingsInv
  <2>g. ASSUME NEW u \in Tenants
        PROVE  Granted(u) \in Int /\ Granted(u)' \in Int /\ Granted(u) <= Granted(u)'
    <3>1. Value(Received(u)) \in Int /\ Opening(u) \in Int /\ Opening(u)' \in Int
      BY <1>i, <2>8
    <3>2. Opening(u) <= Opening(u)' BY <2>8
    <3>3. Value(Received(u))' = Value(Received(u)) BY <2>6
    <3> QED BY <3>1, <3>2, <3>3 DEF Granted
  <2>10. ReportInv' BY <1>0, <2>1, <2>g, ReportsKept
  <2>11. Conservation'
    <3> SUFFICES ASSUME NEW u \in Tenants
                 PROVE  (balance[u] = Opening(u) + Value(DepositsOf(u) \cap credited) - Spent(u))'
      BY DEF Conservation
    <3>1. CASE u = t
      <4>1. /\ Spent(t)' = 0 /\ Value(DepositsOf(t) \cap credited)' = 0
            /\ balance'[t] = Opening(t)' /\ Opening(t)' \in Int
        BY <2>4, <2>5, <2>6, <2>7
      <4>2. (balance[t] = Opening(t) + Value(DepositsOf(t) \cap credited) - Spent(t))'
        BY <4>1
      <4> QED BY <3>1, <4>2
    <3>2. CASE u # t BY <1>c, <2>6, <2>7, <3>2
    <3> QED BY <3>1, <3>2
  <2>12. NeverOverdrawn' /\ BoundInv'
    <3> SUFFICES ASSUME NEW u \in Tenants
                 PROVE  (/\ balance[u] >= Value(Withdrawn(u) \cap credited)
                         /\ balance[u] <= Opening(u) + Value(Received(u) \cap credited)
                         /\ Value(Withdrawn(u) \cap credited) <= 0)'
      BY DEF NeverOverdrawn, BoundInv
    <3>1. CASE u = t
      <4>1. /\ Value(Received(t) \cap credited)' = 0 /\ Value(Withdrawn(t) \cap credited)' = 0
            /\ balance'[t] = Opening(t)' /\ Opening(t)' \in Nat
        BY <2>5, <2>6, <2>7
      <4>2. (/\ balance[t] >= Value(Withdrawn(t) \cap credited)
             /\ balance[t] <= Opening(t) + Value(Received(t) \cap credited)
             /\ Value(Withdrawn(t) \cap credited) <= 0)'
        BY <4>1
      <4> QED BY <3>1, <4>2
    <3>2. CASE u # t BY <1>c, <2>6, <2>7, <3>2
    <3> QED BY <3>1, <3>2
  <2>13. PgNeverOverstates'
    <3> SUFFICES ASSUME NEW u \in Tenants PROVE (pgBalance[u] <= Granted(u) + topUps[u])'
      BY DEF PgNeverOverstates, Granted
    <3>1. /\ pgBalance[u] <= Granted(u) + topUps[u]
          /\ pgBalance[u] \in Int /\ topUps[u] \in Int /\ Granted(u) \in Int
      BY <1>p
    <3>2. Granted(u)' \in Int /\ Granted(u) <= Granted(u)' BY <2>g
    <3> QED BY <2>1, <3>1, <3>2
  <2> QED BY <2>9, <2>10, <2>11, <2>12, <2>13 DEF FundsInv, BalancesAddUp
<1>13. CASE CommitBatch
  <2>1. /\ UNCHANGED <<account, balance, req, stream, deposits, credited, topUps>>
        /\ sync.pc = "sync"
        /\ \A t \in Tenants : pgBalance'[t] = IF t \in BatchTenants THEN stream[LastEvent(t)].bal
                                              ELSE pgBalance[t]
    BY <1>13 DEF CommitBatch
  <2>2. \A t \in Tenants : /\ Live(t)' = Live(t) /\ Opening(t)' = Opening(t)
                           /\ ChargesOf(t)' = ChargesOf(t) /\ Spent(t)' = Spent(t)
                           /\ DepositsOf(t)' = DepositsOf(t)
                           /\ Value(Received(t))' = Value(Received(t))
                           /\ Value(Received(t) \cap credited)' = Value(Received(t) \cap credited)
                           /\ Value(Withdrawn(t) \cap credited)' = Value(Withdrawn(t) \cap credited)
                           /\ Value(DepositsOf(t) \cap credited)' = Value(DepositsOf(t) \cap credited)
    BY <2>1 DEF Live, Opening, ChargesOf, Spent, DepositsOf, Received, Withdrawn, Value
  <2>3. \A t \in Tenants : Granted(t)' = Granted(t) BY <2>2 DEF Granted
  <2>4. HoldingsInv' BY <1>0, <2>2 DEF HoldingsInv
  <2>5. ReportInv'
    <3>1. ASSUME NEW u \in Tenants
          PROVE  Granted(u) \in Int /\ Granted(u)' \in Int /\ Granted(u) <= Granted(u)'
      <4>1. Granted(u) \in Int /\ Granted(u)' = Granted(u) BY <1>i, <2>3
      <4> QED BY <4>1
    <3> QED BY <1>0, <2>1, <3>1, ReportsKept
  <2>6. Conservation' BY <1>0, <2>1, <2>2 DEF Conservation
  <2>7. NeverOverdrawn' /\ BoundInv' BY <1>0, <2>1, <2>2 DEF NeverOverdrawn, BoundInv
  <2>8. PgNeverOverstates'
    <3> SUFFICES ASSUME NEW t \in Tenants
                 PROVE  (pgBalance[t] <= Opening(t) + Value(Received(t)) + topUps[t])'
      BY DEF PgNeverOverstates
    <3>1. CASE t \notin BatchTenants
      BY <1>0, <2>1, <2>2, <3>1 DEF PgNeverOverstates
    <3>2. CASE t \in BatchTenants
      <4>1. LastEvent(t) \in 1..Len(stream) BY <1>0, <2>1, <3>2, LastEventType
      <4>2. stream[LastEvent(t)].tenant = t BY <1>0, <2>1, <3>2, LastEventTenant
      <4>3. stream[LastEvent(t)].bal <= Granted(t) /\ stream[LastEvent(t)].bal \in Int
        BY <1>0, <1>s, <4>1, <4>2 DEF ReportInv
      <4>4. /\ pgBalance'[t] = stream[LastEvent(t)].bal /\ topUps[t] \in Nat
            /\ Granted(t) \in Nat
        BY <1>0, <1>b, <2>1, <3>2
      <4>5. pgBalance'[t] <= Granted(t) + topUps[t]
        <5> DEFINE p == stream[LastEvent(t)].bal
        <5> HIDE DEF p
        <5> QED BY <4>3, <4>4 DEF p
      <4> QED BY <2>1, <2>2, <4>5 DEF Granted
    <3> QED BY <3>1, <3>2
  <2> QED BY <2>4, <2>5, <2>6, <2>7, <2>8 DEF FundsInv, BalancesAddUp
<1>14. ASSUME NEW c \in Creditors, RecordDeposit(c) PROVE FundsInv'
  <2> DEFINE x == cred[c].msg.tx
             t == cred[c].msg.tenant
             a == cred[c].msg.amount
  <2>1. /\ UNCHANGED <<account, balance, req, stream, credited, topUps>>
        /\ deposits[x] = NoDeposit /\ cred[c].pc = "popped"
        /\ deposits' = [deposits EXCEPT ![x] = [tenant |-> t, amount |-> a]]
        /\ pgBalance' = [pgBalance EXCEPT ![t] = @ + a]
    BY <1>14 DEF RecordDeposit
  <2>2. x \in Txs /\ t \in Tenants /\ a \in Amounts /\ a \in Int /\ Live(t) BY <1>a, <2>1
  <2> HIDE DEF x, t, a
  <2>3. x \notin credited BY <1>0, <2>1 DEF DepositInv
  <2>4. \A u \in Tenants :
          /\ IsFiniteSet(DepositsOf(u)')
          /\ u # t => DepositsOf(u)' = DepositsOf(u)
          /\ Granted(u)' = Granted(u) + (IF u = t /\ a > 0 THEN a ELSE 0)
          /\ Value(DepositsOf(u) \cap credited)' = Value(DepositsOf(u) \cap credited)
          /\ Value(Received(u) \cap credited)' = Value(Received(u) \cap credited)
          /\ Value(Withdrawn(u) \cap credited)' = Value(Withdrawn(u) \cap credited)
    BY <1>0, <2>1, <2>2, <2>3, Recording
  <2>5. \A u \in Tenants : /\ Live(u)' = Live(u) /\ Opening(u)' = Opening(u)
                           /\ ChargesOf(u)' = ChargesOf(u) /\ Spent(u)' = Spent(u)
    BY <2>1 DEF Live, Opening, ChargesOf, Spent
  <2>6. HoldingsInv' BY <1>0, <2>2, <2>4, <2>5 DEF HoldingsInv
  <2>7. ReportInv'
    <3>1. ASSUME NEW u \in Tenants
          PROVE  Granted(u) \in Int /\ Granted(u)' \in Int /\ Granted(u) <= Granted(u)'
      <4>1. Granted(u) \in Int BY <1>i
      <4>2. \/ Granted(u)' = Granted(u) + a /\ a > 0
            \/ Granted(u)' = Granted(u) + 0
        BY <2>4
      <4> QED BY <2>2, <4>1, <4>2
    <3> QED BY <1>0, <2>1, <3>1, ReportsKept
  <2>8. Conservation' BY <1>0, <2>1, <2>4, <2>5 DEF Conservation
  <2>9. NeverOverdrawn' /\ BoundInv'
    BY <1>0, <2>1, <2>4, <2>5 DEF NeverOverdrawn, BoundInv
  <2>10. PgNeverOverstates'
    <3> SUFFICES ASSUME NEW u \in Tenants PROVE (pgBalance[u] <= Granted(u) + topUps[u])'
      BY DEF PgNeverOverstates, Granted
    <3>1. /\ pgBalance[u] <= Granted(u) + topUps[u]
          /\ pgBalance[u] \in Int /\ topUps[u] \in Int /\ Granted(u) \in Int
      BY <1>p
    <3>2. CASE u = t
      <4>1. /\ pgBalance'[u] = pgBalance[u] + a
            /\ Granted(u)' = Granted(u) + (IF a > 0 THEN a ELSE 0)
        BY <1>0, <2>1, <2>2, <2>4, <3>2
      <4>2. CASE a > 0 BY <2>1, <2>2, <3>1, <4>1, <4>2
      <4>3. CASE ~(a > 0) BY <2>1, <2>2, <3>1, <4>1, <4>3
      <4> QED BY <4>2, <4>3
    <3>3. CASE u # t
      <4>1. pgBalance'[u] = pgBalance[u] /\ Granted(u)' = Granted(u) + 0
        BY <1>0, <2>1, <2>2, <2>4, <3>3
      <4> QED BY <2>1, <3>1, <4>1
    <3> QED BY <3>2, <3>3
  <2> QED BY <2>6, <2>7, <2>8, <2>9, <2>10 DEF FundsInv, BalancesAddUp
<1>15. ASSUME NEW c \in Creditors, CreditBalance(c) PROVE FundsInv'
  <2> DEFINE x == cred[c].msg.tx
             t == cred[c].msg.tenant
             a == cred[c].msg.amount
  <2>1. /\ UNCHANGED <<account, req, stream, deposits, pgBalance, topUps>>
        /\ cred[c].pc = "recorded"
        /\ balance' = [balance EXCEPT ![t] = @ + a] /\ credited' = credited \cup {x}
    BY <1>15 DEF CreditBalance
  <2>2. x \in Txs /\ t \in Tenants /\ a \in Amounts /\ a \in Int BY <1>a, <2>1
  <2>3. x \notin credited /\ deposits[x] = [tenant |-> t, amount |-> a]
    BY <1>0, <2>1 DEF DepositInv, CreditsAreExclusive
  <2> HIDE DEF x, t, a
  <2>4. deposits[x] # NoDeposit /\ deposits[x].tenant = t /\ deposits[x].amount = a
    <3>1. deposits[x] \in Deposit BY <2>2, <2>3 DEF Deposit
    <3> QED BY <2>3, <3>1, AbsentAssumption
  <2>5. \A u \in Tenants :
          /\ Value(DepositsOf(u) \cap credited)' =
               Value(DepositsOf(u) \cap credited) + (IF u = t THEN a ELSE 0)
          /\ Value(Received(u) \cap credited)' =
               Value(Received(u) \cap credited) + (IF u = t /\ a > 0 THEN a ELSE 0)
          /\ Value(Withdrawn(u) \cap credited)' =
               Value(Withdrawn(u) \cap credited) + (IF u = t /\ a < 0 THEN a ELSE 0)
    BY <1>0, <2>1, <2>2, <2>3, <2>4, Crediting
  <2>6. \A u \in Tenants : /\ Live(u)' = Live(u) /\ Opening(u)' = Opening(u)
                           /\ ChargesOf(u)' = ChargesOf(u) /\ Spent(u)' = Spent(u)
                           /\ DepositsOf(u)' = DepositsOf(u)
                           /\ Value(Received(u))' = Value(Received(u))
    BY <2>1 DEF Live, Opening, ChargesOf, Spent, DepositsOf, Received, Value
  <2>7. HoldingsInv' BY <1>0, <2>6 DEF HoldingsInv
  <2>8. ReportInv'
    <3>1. ASSUME NEW u \in Tenants
          PROVE  Granted(u) \in Int /\ Granted(u)' \in Int /\ Granted(u) <= Granted(u)'
      <4>1. Granted(u) \in Int /\ Granted(u)' = Granted(u) BY <1>i, <2>6 DEF Granted
      <4> QED BY <4>1
    <3> QED BY <1>0, <2>1, <3>1, ReportsKept
  <2>9. Conservation'
    <3> SUFFICES ASSUME NEW u \in Tenants
                 PROVE  (balance[u] = Opening(u) + Value(DepositsOf(u) \cap credited) - Spent(u))'
      BY DEF Conservation
    <3>1. balance'[u] = balance[u] + (IF u = t THEN a ELSE 0) BY <1>0, <2>1, <2>2
    <3>2. /\ balance[u] = Opening(u) + Value(DepositsOf(u) \cap credited) - Spent(u)
          /\ Opening(u)' = Opening(u) /\ Spent(u)' = Spent(u)
          /\ Value(DepositsOf(u) \cap credited)' =
               Value(DepositsOf(u) \cap credited) + (IF u = t THEN a ELSE 0)
      BY <1>c, <2>5, <2>6
    <3>3. /\ Opening(u) \in Int /\ Spent(u) \in Int
          /\ Value(DepositsOf(u) \cap credited) \in Int
      BY <1>i
    <3>4. CASE u = t BY <2>2, <3>1, <3>2, <3>3, <3>4
    <3>5. CASE u # t BY <3>1, <3>2, <3>3, <3>5
    <3> QED BY <3>4, <3>5
  <2>10. NeverOverdrawn' /\ BoundInv'
    <3> SUFFICES ASSUME NEW u \in Tenants
                 PROVE  (/\ balance[u] >= Value(Withdrawn(u) \cap credited)
                         /\ balance[u] <= Opening(u) + Value(Received(u) \cap credited)
                         /\ Value(Withdrawn(u) \cap credited) <= 0)'
      BY DEF NeverOverdrawn, BoundInv
    <3> DEFINE w == Value(Withdrawn(u) \cap credited)
               v == Value(Received(u) \cap credited)
               o == Opening(u)
    <3>1. /\ balance[u] >= w /\ balance[u] <= o + v /\ w <= 0 /\ balance[u] \in Int
          /\ w \in Int /\ v \in Int /\ o \in Int
      BY <1>c, <1>i
    <3>a. balance'[u] = balance[u] + (IF u = t THEN a ELSE 0)
      BY <1>0, <2>1, <2>2
    <3>2. /\ o' = o /\ w' = w + (IF u = t /\ a < 0 THEN a ELSE 0)
          /\ v' = v + (IF u = t /\ a > 0 THEN a ELSE 0)
          /\ balance'[u] = balance[u] + (IF u = t THEN a ELSE 0)
      BY <2>5, <2>6, <3>a
    <3> HIDE DEF w, v, o
    <3>3. balance'[u] >= w' /\ balance'[u] <= o' + v' /\ w' <= 0
      <4>1. CASE u # t BY <3>1, <3>2, <4>1
      <4>2. CASE u = t /\ a > 0 BY <2>2, <3>1, <3>2, <4>2
      <4>3. CASE u = t /\ a < 0 BY <2>2, <3>1, <3>2, <4>3
      <4>4. CASE u = t /\ a = 0 BY <2>2, <3>1, <3>2, <4>4
      <4> QED BY <2>2, <4>1, <4>2, <4>3, <4>4
    <3> QED BY <3>3 DEF w, v, o
  <2>11. PgNeverOverstates' BY <1>0, <2>1, <2>6 DEF PgNeverOverstates
  <2> QED BY <2>7, <2>8, <2>9, <2>10, <2>11 DEF FundsInv, BalancesAddUp
<1>16. ASSUME NEW t \in Tenants, NEW a \in Amounts, TopUp(t, a) PROVE FundsInv'
  <2>1. /\ UNCHANGED <<account, balance, req, stream, deposits, credited>>
        /\ pgBalance' = [pgBalance EXCEPT ![t] = @ + a]
        /\ topUps' = [topUps EXCEPT ![t] = @ + a] /\ a \in Int
    BY <1>16, PriceAssumption DEF TopUp
  <2>2. \A u \in Tenants : /\ Live(u)' = Live(u) /\ Opening(u)' = Opening(u)
                           /\ ChargesOf(u)' = ChargesOf(u) /\ Spent(u)' = Spent(u)
                           /\ DepositsOf(u)' = DepositsOf(u)
                           /\ Value(Received(u))' = Value(Received(u))
                           /\ Value(Received(u) \cap credited)' = Value(Received(u) \cap credited)
                           /\ Value(Withdrawn(u) \cap credited)' = Value(Withdrawn(u) \cap credited)
                           /\ Value(DepositsOf(u) \cap credited)' = Value(DepositsOf(u) \cap credited)
    BY <2>1 DEF Live, Opening, ChargesOf, Spent, DepositsOf, Received, Withdrawn, Value
  <2>3. \A u \in Tenants : Granted(u)' = Granted(u) BY <2>2 DEF Granted
  <2>4. HoldingsInv' BY <1>0, <2>2 DEF HoldingsInv
  <2>5. ReportInv'
    <3>1. ASSUME NEW u \in Tenants
          PROVE  Granted(u) \in Int /\ Granted(u)' \in Int /\ Granted(u) <= Granted(u)'
      <4>1. Granted(u) \in Int /\ Granted(u)' = Granted(u) BY <1>i, <2>3
      <4> QED BY <4>1
    <3> QED BY <1>0, <2>1, <3>1, ReportsKept
  <2>6. Conservation' BY <1>0, <2>1, <2>2 DEF Conservation
  <2>7. NeverOverdrawn' /\ BoundInv' BY <1>0, <2>1, <2>2 DEF NeverOverdrawn, BoundInv
  <2>8. PgNeverOverstates'
    <3> SUFFICES ASSUME NEW u \in Tenants PROVE (pgBalance[u] <= Granted(u) + topUps[u])'
      BY DEF PgNeverOverstates, Granted
    <3>1. /\ pgBalance[u] <= Granted(u) + topUps[u]
          /\ pgBalance[u] \in Int /\ topUps[u] \in Int /\ Granted(u) \in Int
      BY <1>p
    <3>2. Granted(u)' = Granted(u) BY <2>3
    <3>3. CASE u = t
      <4>1. pgBalance'[u] = pgBalance[u] + a /\ topUps'[u] = topUps[u] + a
        BY <1>0, <2>1, <3>3
      <4> QED BY <2>1, <3>1, <3>2, <4>1
    <3>4. CASE u # t
      <4>1. pgBalance'[u] = pgBalance[u] /\ topUps'[u] = topUps[u] BY <1>0, <2>1, <3>4
      <4> QED BY <3>1, <3>2, <4>1
    <3> QED BY <3>3, <3>4
  <2> QED BY <2>4, <2>5, <2>6, <2>7, <2>8 DEF FundsInv, BalancesAddUp
<1> QED BY <1>1, <1>2, <1>3, <1>4, <1>5, <1>6, <1>7, <1>8, <1>9, <1>10, <1>11, <1>12,
           <1>13, <1>14, <1>15, <1>16 DEF Next

\* Before anything is registered every sum is empty.
LEMMA InitFunds == Init => FundsInv
<1> SUFFICES ASSUME Init PROVE FundsInv OBVIOUS
<1> USE DEF Init
<1>1. Charges = {} /\ \A t \in Tenants : /\ ChargesOf(t) = {} /\ DepositsOf(t) = {}
                                         /\ Received(t) = {} /\ Withdrawn(t) = {}
                                         /\ ~Live(t) /\ Opening(t) = 0
  BY DEF Charges, ChargesOf, DepositsOf, Received, Withdrawn, Live, Opening
<1>2. Value({}) = 0 BY TotalEmpty DEF Value
<1>3. \A t \in Tenants : Spent(t) = 0 BY <1>1, TotalEmpty DEF Spent
<1>4. HoldingsInv BY <1>1, FS_EmptySet DEF HoldingsInv
<1>5. ReportInv BY <1>1 DEF ReportInv
<1>6. Conservation BY <1>1, <1>2, <1>3 DEF Conservation
<1>7. NeverOverdrawn /\ PgNeverOverstates /\ BoundInv
  <2>1. \A t \in Tenants : /\ balance[t] = 0 /\ pgBalance[t] = 0 /\ topUps[t] = 0
                            /\ Opening(t) = 0 /\ Value(Received(t)) = 0
                            /\ Value(Received(t) \cap credited) = 0
                            /\ Value(Withdrawn(t) \cap credited) = 0
    BY <1>1, <1>2
  <2> QED BY <2>1 DEF NeverOverdrawn, PgNeverOverstates, BoundInv
<1> QED BY <1>4, <1>5, <1>6, <1>7 DEF FundsInv, BalancesAddUp

\* In Redis to the cent and in PostgreSQL from above, the balances add up through
\* any number of charges, deposits, top-ups, worker batches, crashes and restarts.
THEOREM Balanced == Spec => []BalancesAddUp
<1>1. FundsInv => BalancesAddUp BY DEF FundsInv
<1> QED BY InitFunds, FundsStep, Invariance, <1>1, PTL DEF Spec

-------------------------------------------------------------------------------
(* Nothing is forgotten, and no alert is doubled.                            *)

\* While nothing failed, faults' = 0 means that nothing failed before.
LEMMA FaultsStay == AccountTypeOK /\ [Next]_vars /\ faults' = 0 => faults = 0
<1> SUFFICES ASSUME AccountTypeOK, [Next]_vars, faults' = 0 PROVE faults = 0
  OBVIOUS
<1>0. faults \in Nat BY DEF AccountTypeOK
<1>1. ASSUME Fault PROVE FALSE BY <1>0, <1>1 DEF Fault
<1>2. CASE UNCHANGED vars BY <1>2 DEF vars
<1>3. ASSUME NEW t \in Tenants,
        \/ RegisterTenant(t) \/ SeedBalance(t) \/ SeedFails(t) \/ WindowExpires(t)
        \/ AlertExpires(t) \/ SyncTenant(t)
      PROVE faults = 0
  BY <1>1, <1>3 DEF RegisterTenant, SeedBalance, SeedFails, WindowExpires, AlertExpires, SyncTenant
<1>4. ASSUME NEW r \in Requests, NEW t \in Tenants, NEW k \in Costs,
        Meter(r, t, k) \/ Refuse(r, t, k)
      PROVE faults = 0
  BY <1>4 DEF Meter, Refuse
<1>5. ASSUME NEW r \in Requests, Publish(r) PROVE faults = 0 BY <1>5 DEF Publish
<1>6. ASSUME NEW S \in SUBSET Requests, RequestsFail(S) PROVE faults = 0
  BY <1>1, <1>6 DEF RequestsFail
<1>7. CASE ReadBatch \/ SetAlert \/ CommitBatch \/ AckBatch \/ SyncFails \/ WorkerRestarts
  BY <1>1, <1>7 DEF ReadBatch, SetAlert, CommitBatch, AckBatch, SyncFails, WorkerRestarts
<1>8. ASSUME NEW x \in Txs, NEW t \in Tenants, NEW a \in Amounts, SubmitDeposit(x, t, a)
      PROVE faults = 0
  BY <1>8 DEF SubmitDeposit
<1>9. ASSUME NEW c \in Creditors, NEW x \in Txs, NEW t \in Tenants, NEW a \in Amounts,
             XrplPayment(c, x, t, a)
      PROVE faults = 0
  BY <1>9 DEF XrplPayment
<1>10. ASSUME NEW c \in Creditors,
         \/ PopDeposit(c) \/ SkipDuplicate(c) \/ RecordDeposit(c)
         \/ CreditBalance(c) \/ ClearAlert(c) \/ CreditorFails(c)
       PROVE faults = 0
  BY <1>1, <1>10 DEF PopDeposit, SkipDuplicate, RecordDeposit, CreditBalance, ClearAlert,
                     CreditorFails
<1>11. ASSUME NEW t \in Tenants, NEW a \in Amounts, TopUp(t, a) PROVE faults = 0
  BY <1>11 DEF TopUp
<1> QED BY <1>2, <1>3, <1>4, <1>5, <1>6, <1>7, <1>8, <1>9, <1>10, <1>11 DEF Next

\* What the worker's cursor passed is acknowledged or in its hands.
ReadIsHeld == \A i \in 1..cursor : i \in acked \/ (sync.pc # "idle" /\ i \in Batch)

\* What was recorded is credited or held by a creditor that will credit it.
RecordedIsHeld ==
  \A x \in Txs : deposits[x] # NoDeposit /\ x \notin credited =>
    \E c \in Creditors : cred[c].pc = "recorded" /\ cred[c].msg.tx = x

\* Without a fault the worker drops no entry it read.
LEMMA ReadStep ==
  TypeOK /\ StreamInv /\ ReadIsHeld /\ [Next]_vars /\ faults' = 0 => ReadIsHeld'
<1> SUFFICES ASSUME TypeOK, StreamInv, ReadIsHeld, [Next]_vars, faults' = 0
             PROVE  ReadIsHeld'
  OBVIOUS
<1> USE DEF ReadIsHeld
<1>0. /\ UsageTypeOK /\ cursor \in Nat /\ Len(stream) \in Nat /\ sync.from \in Nat
      /\ sync.upto \in Nat /\ faults \in Nat
  BY DEF TypeOK, UsageTypeOK, AccountTypeOK
<1>f. ~Fault BY <1>0 DEF Fault
<1>k. ASSUME UNCHANGED <<cursor, acked>>, sync'.pc # "idle" \/ sync.pc = "idle",
             sync'.from = sync.from, sync'.upto = sync.upto
      PROVE  ReadIsHeld'
  BY <1>k DEF Batch
<1>1. CASE UNCHANGED usageVars BY <1>1, <1>k DEF usageVars
<1>2. ASSUME NEW r \in Requests, NEW t \in Tenants, NEW k \in Costs,
             Meter(r, t, k) \/ Refuse(r, t, k)
      PROVE ReadIsHeld'
  BY <1>2, <1>k DEF Meter, Refuse
<1>3. ASSUME NEW r \in Requests, Publish(r) PROVE ReadIsHeld'
  BY <1>3, <1>k DEF Publish
<1>4. ASSUME NEW S \in SUBSET Requests, RequestsFail(S) PROVE ReadIsHeld'
  BY <1>4, <1>f DEF RequestsFail
<1>5. CASE ReadBatch
  <2>1. /\ UNCHANGED acked /\ sync.pc = "idle" /\ sync'.pc = "sync"
        /\ cursor' \in Nat /\ cursor <= cursor'
        /\ sync'.from = cursor /\ sync'.upto = cursor'
    BY <1>0, <1>5, BatchAssumption DEF ReadBatch
  <2>2. Batch' = (cursor + 1)..cursor' BY <2>1 DEF Batch
  <2> QED BY <1>0, <2>1, <2>2
<1>6. ASSUME NEW t \in Tenants, SyncTenant(t) PROVE ReadIsHeld'
  BY <1>0, <1>6, <1>k DEF SyncTenant, UsageTypeOK
<1>7. CASE SetAlert \/ CommitBatch
  <2>1. /\ UNCHANGED <<cursor, acked>> /\ sync'.pc # "idle"
        /\ sync'.from = sync.from /\ sync'.upto = sync.upto
    BY <1>0, <1>7 DEF SetAlert, CommitBatch, UsageTypeOK
  <2> QED BY <2>1, <1>k
<1>8. CASE AckBatch BY <1>8 DEF AckBatch
<1>9. CASE SyncFails \/ WorkerRestarts BY <1>9, <1>f DEF SyncFails, WorkerRestarts
<1> QED BY UsageSteps, <1>1, <1>2, <1>3, <1>4, <1>5, <1>6, <1>7, <1>8, <1>9 DEF UsageNext

\* Without a fault no creditor drops a deposit it recorded.
LEMMA RecordedStep ==
  TypeOK /\ RecordedIsHeld /\ [Next]_vars /\ faults' = 0 => RecordedIsHeld'
<1> SUFFICES ASSUME TypeOK, RecordedIsHeld, [Next]_vars, faults' = 0,
                    NEW x \in Txs, deposits'[x] # NoDeposit, x \notin credited'
             PROVE  \E c \in Creditors : cred'[c].pc = "recorded" /\ cred'[c].msg.tx = x
  BY DEF RecordedIsHeld
<1>0. DepositTypeOK /\ faults \in Nat BY DEF TypeOK, AccountTypeOK
<1>f. ~Fault BY <1>0 DEF Fault
<1>k. ASSUME deposits' = deposits, credited \subseteq credited',
             \A c \in Creditors : cred[c].pc = "recorded" /\ cred[c].msg.tx = x =>
                                  cred'[c].pc = "recorded" /\ cred'[c].msg.tx = x
      PROVE  \E c \in Creditors : cred'[c].pc = "recorded" /\ cred'[c].msg.tx = x
  BY <1>k DEF RecordedIsHeld
<1>1. CASE UNCHANGED depositVars BY <1>1, <1>k DEF depositVars
<1>2. ASSUME NEW y \in Txs, NEW t \in Tenants, NEW a \in Amounts, SubmitDeposit(y, t, a)
      PROVE \E c \in Creditors : cred'[c].pc = "recorded" /\ cred'[c].msg.tx = x
  BY <1>2, <1>k DEF SubmitDeposit
<1>3. ASSUME NEW d \in Creditors,
        \/ \E y \in Txs, t \in Tenants, a \in Amounts : XrplPayment(d, y, t, a)
        \/ PopDeposit(d) \/ SkipDuplicate(d) \/ ClearAlert(d)
      PROVE \E c \in Creditors : cred'[c].pc = "recorded" /\ cred'[c].msg.tx = x
  <2>1. /\ UNCHANGED <<deposits, credited>> /\ cred[d].pc # "recorded"
        /\ \A c \in Creditors : c # d => cred'[c] = cred[c]
    BY <1>0, <1>3 DEF XrplPayment, PopDeposit, SkipDuplicate, ClearAlert, DepositTypeOK
  <2> QED BY <2>1, <1>k
<1>4. ASSUME NEW d \in Creditors, RecordDeposit(d)
      PROVE \E c \in Creditors : cred'[c].pc = "recorded" /\ cred'[c].msg.tx = x
  <2>1. /\ credited' = credited /\ cred[d].pc = "popped"
        /\ cred'[d].pc = "recorded" /\ cred'[d].msg = cred[d].msg
        /\ \A c \in Creditors : c # d => cred'[c] = cred[c]
        /\ \A y \in Txs : y # cred[d].msg.tx => deposits'[y] = deposits[y]
    BY <1>0, <1>4 DEF RecordDeposit, DepositTypeOK
  <2>2. CASE x = cred[d].msg.tx BY <2>1, <2>2
  <2>3. CASE x # cred[d].msg.tx
    <3>1. PICK c \in Creditors : cred[c].pc = "recorded" /\ cred[c].msg.tx = x
      BY <2>1, <2>3 DEF RecordedIsHeld
    <3>2. cred'[c] = cred[c] BY <2>1, <3>1
    <3> QED BY <3>1, <3>2
  <2> QED BY <2>2, <2>3
<1>5. ASSUME NEW d \in Creditors, CreditBalance(d)
      PROVE \E c \in Creditors : cred'[c].pc = "recorded" /\ cred'[c].msg.tx = x
  <2>1. /\ UNCHANGED deposits /\ credited' = credited \cup {cred[d].msg.tx}
        /\ \A c \in Creditors : c # d => cred'[c] = cred[c]
    BY <1>0, <1>5 DEF CreditBalance, DepositTypeOK
  <2> QED BY <2>1, <1>k
<1>6. ASSUME NEW d \in Creditors, CreditorFails(d) PROVE FALSE
  BY <1>6, <1>f DEF CreditorFails
<1>7. CASE WorkerRestarts BY <1>7, <1>f DEF WorkerRestarts
<1> QED BY DepositSteps, <1>1, <1>2, <1>3, <1>4, <1>5, <1>6, <1>7 DEF DepositNext

\* Unless something failed, every entry read is in the worker's hands or acknowledged
\* and every deposit recorded is credited or in a creditor's hands (worker.py).
THEOREM Remembered == Spec => []NothingForgotten
<1>1. NothingForgotten <=> (faults = 0 => ReadIsHeld /\ RecordedIsHeld)
  BY DEF NothingForgotten, ReadIsHeld, RecordedIsHeld
<1>2. Init => NothingForgotten
  BY <1>1 DEF Init, ReadIsHeld, RecordedIsHeld
<1>3. IInv /\ NothingForgotten /\ [Next]_vars => NothingForgotten'
  <2> SUFFICES ASSUME IInv, NothingForgotten, [Next]_vars, faults' = 0
               PROVE  ReadIsHeld' /\ RecordedIsHeld'
    BY DEF NothingForgotten, ReadIsHeld, RecordedIsHeld
  <2>1. TypeOK /\ AccountTypeOK /\ StreamInv BY DEF IInv, TypeOK
  <2>2. faults = 0 BY <2>1, FaultsStay
  <2>3. ReadIsHeld /\ RecordedIsHeld BY <1>1, <2>2
  <2> QED BY <2>1, <2>3, ReadStep, RecordedStep
<1> QED BY <1>2, <1>3, Invariance, PTL DEF Spec

\* The actions that set or clear an alert key, or what the worker found unalerted.
AlertNext ==
  \/ ReadBatch \/ SetAlert \/ CommitBatch \/ AckBatch \/ SyncFails \/ WorkerRestarts
  \/ \E t \in Tenants : SyncTenant(t) \/ AlertExpires(t)
  \/ \E c \in Creditors : ClearAlert(c)

\* Keys and findings change only when the worker checks balances, a key expires
\* or a creditor deletes it.
LEMMA AlertSteps == [Next]_vars => AlertNext \/ UNCHANGED <<alert, sync>>
<1> SUFFICES ASSUME [Next]_vars, ~AlertNext PROVE UNCHANGED <<alert, sync>>
  OBVIOUS
<1> USE DEF redisVars, usageVars
<1>1. CASE UNCHANGED vars BY <1>1 DEF vars
<1>2. ASSUME NEW t \in Tenants,
        RegisterTenant(t) \/ SeedBalance(t) \/ SeedFails(t) \/ WindowExpires(t)
      PROVE UNCHANGED <<alert, sync>>
  BY <1>2 DEF RegisterTenant, SeedBalance, SeedFails, WindowExpires
<1>3. ASSUME NEW r \in Requests, NEW t \in Tenants, NEW k \in Costs,
        Meter(r, t, k) \/ Refuse(r, t, k)
      PROVE UNCHANGED <<alert, sync>>
  BY <1>3 DEF Meter, Refuse
<1>4. ASSUME NEW r \in Requests, Publish(r) PROVE UNCHANGED <<alert, sync>>
  BY <1>4 DEF Publish
<1>5. ASSUME NEW S \in SUBSET Requests, RequestsFail(S) PROVE UNCHANGED <<alert, sync>>
  BY <1>5 DEF RequestsFail
<1>6. ASSUME NEW x \in Txs, NEW t \in Tenants, NEW a \in Amounts, SubmitDeposit(x, t, a)
      PROVE UNCHANGED <<alert, sync>>
  BY <1>6 DEF SubmitDeposit
<1>7. ASSUME NEW c \in Creditors,
        \/ \E x \in Txs, t \in Tenants, a \in Amounts : XrplPayment(c, x, t, a)
        \/ PopDeposit(c) \/ SkipDuplicate(c) \/ RecordDeposit(c)
        \/ CreditBalance(c) \/ CreditorFails(c)
      PROVE UNCHANGED <<alert, sync>>
  BY <1>7 DEF XrplPayment, PopDeposit, SkipDuplicate, RecordDeposit, CreditBalance, CreditorFails
<1>8. ASSUME NEW t \in Tenants, NEW a \in Amounts, TopUp(t, a) PROVE UNCHANGED <<alert, sync>>
  BY <1>8 DEF TopUp
<1> QED BY <1>1, <1>2, <1>3, <1>4, <1>5, <1>6, <1>7, <1>8 DEF Next, AlertNext

\* Between the worker's GET and SET of an alert key nobody else sets it, so no
\* tenant is notified twice while one key lives (check_and_alert_low_balance).
THEOREM Fresh == Spec => []AlertsAreFresh
<1>1. Init => AlertsAreFresh BY DEF Init, IdleSync, AlertsAreFresh
<1>2. IInv /\ AlertsAreFresh /\ [Next]_vars => AlertsAreFresh'
  <2> SUFFICES ASSUME UsageTypeOK, AlertsAreFresh, [Next]_vars PROVE AlertsAreFresh'
    BY DEF IInv, TypeOK
  <2> USE DEF AlertsAreFresh
  <2>1. CASE UNCHANGED <<alert, sync>> BY <2>1
  <2>2. CASE ReadBatch BY <2>2 DEF ReadBatch
  <2>3. CASE SetAlert \/ CommitBatch BY <2>3 DEF SetAlert, CommitBatch, UsageTypeOK
  <2>4. CASE AckBatch \/ SyncFails \/ WorkerRestarts
    BY <2>4 DEF AckBatch, SyncFails, WorkerRestarts, IdleSync
  <2>5. ASSUME NEW t \in Tenants, SyncTenant(t) PROVE AlertsAreFresh'
    BY <2>5 DEF SyncTenant, UsageTypeOK
  <2>6. ASSUME NEW t \in Tenants, AlertExpires(t) PROVE AlertsAreFresh'
    BY <2>6 DEF AlertExpires, usageVars
  <2>7. ASSUME NEW c \in Creditors, ClearAlert(c) PROVE AlertsAreFresh'
    BY <2>7 DEF ClearAlert, usageVars
  <2> QED BY AlertSteps, <2>1, <2>2, <2>3, <2>4, <2>5, <2>6, <2>7 DEF AlertNext
<1> QED BY <1>1, <1>2, Invariance, PTL DEF Spec
-------------------------------------------------------------------------------
(* Refinement.                                                               *)

Opened == {t \in Tenants : Live(t)}

\* Steps that keep what the refinement mapping reads are stuttering steps.
LEMMA AccountStutter ==
  UNCHANGED <<Opened, balance, Charges, deposits, credited, rows>> => UNCHANGED Account!vars
BY DEF Opened, Charges, Account!vars

\* The pipeline starts as an account book with no tenant.
LEMMA InitAccount == Init => Account!Init
<1> SUFFICES ASSUME Init PROVE Account!Init OBVIOUS
<1>1. {t \in Tenants : Live(t)} = {} BY DEF Init, Live
<1>2. {r \in Requests : req[r].pc \in {"charged", "done", "failed"}} = {} BY DEF Init
<1> QED BY <1>1, <1>2 DEF Init, Account!Init

\* Under the invariant every step of the pipeline is one of the account's or none.
LEMMA NextAccount == IInv /\ [Next]_vars => [Account!Next]_(Account!vars)
<1> SUFFICES ASSUME IInv, [Next]_vars, ~UNCHANGED Account!vars PROVE Account!Next
  OBVIOUS
<1> USE DEF redisVars, usageVars, depositVars
<1>0. /\ account \in [Tenants -> {"absent", "created", "seeded", "unseeded"}]
      /\ balance \in [Tenants -> Int] /\ rows \in [Requests -> Nat]
      /\ req \in [Requests -> [pc : {"new", "refused", "charged", "done", "failed"},
                              tenant : Tenants, cost : Nat, bal : Int]]
      /\ UsageTypeOK /\ StreamInv /\ LedgerInv /\ DepositInv /\ BalanceInv
      /\ \A c \in Creditors : cred[c].pc # "idle" => cred[c].msg \in Msg
  BY DEF IInv, TypeOK, AccountTypeOK, UsageTypeOK, DepositTypeOK
<1>s. ASSUME UNCHANGED <<account, balance, deposits, credited, rows>>, Charges' = Charges
      PROVE  FALSE
  BY <1>s, AccountStutter DEF Opened, Live
<1>1. CASE UNCHANGED vars
  BY <1>1, <1>s DEF vars, Charges
<1>2. ASSUME NEW t \in Tenants,
        RegisterTenant(t) \/ WindowExpires(t) \/ AlertExpires(t) \/ SyncTenant(t)
      PROVE Account!Next
  <2>1. UNCHANGED <<balance, deposits, credited, rows, req>>
    BY <1>2 DEF RegisterTenant, WindowExpires, AlertExpires, SyncTenant
  <2>2. Opened' = Opened
    BY <1>0, <1>2 DEF RegisterTenant, WindowExpires, AlertExpires, SyncTenant, Opened, Live
  <2> QED BY <2>1, <2>2, AccountStutter DEF Charges
<1>3. ASSUME NEW t \in Tenants, SeedBalance(t) \/ SeedFails(t) PROVE Account!Next
  <2>1. /\ UNCHANGED <<req, deposits, credited, rows>>
        /\ account[t] = "created"
        /\ account' = [account EXCEPT ![t] = "seeded"] \/ account' = [account EXCEPT ![t] = "unseeded"]
    BY <1>3 DEF SeedBalance, SeedFails
  <2>2. t \notin Opened /\ Opened' = Opened \cup {t}
    BY <1>0, <2>1 DEF Opened, Live
  <2>3. balance' = [balance EXCEPT ![t] = 0] \/ balance' = [balance EXCEPT ![t] = SignupCredit]
    BY <1>0, <1>3, <2>1 DEF SeedBalance, SeedFails, BalanceInv, Live
  <2>4. Charges' = Charges BY <2>1 DEF Charges
  <2>5. Account!Open(t)
    BY <2>1, <2>2, <2>3, <2>4 DEF Account!Open, Opened, Charges
  <2> QED BY <2>5 DEF Account!Next
<1>4. ASSUME NEW r \in Requests, NEW t \in Tenants, NEW k \in Costs, Meter(r, t, k)
      PROVE Account!Next
  <2>1. /\ UNCHANGED <<account, deposits, credited, rows>>
        /\ Live(t) /\ balance[t] >= k /\ balance' = [balance EXCEPT ![t] = @ - k]
        /\ req[r].pc = "new" /\ req'[r].pc = "charged"
        /\ \A q \in Requests : q # r => req'[q] = req[q]
    BY <1>0, <1>4 DEF Meter, Covers
  <2>2. Opened' = Opened /\ t \in Opened BY <2>1 DEF Opened, Live
  <2>3. r \notin Charges /\ Charges' = Charges \cup {r} BY <2>1 DEF Charges
  <2>4. Account!Charge(r, t, k)
    BY <2>1, <2>2, <2>3 DEF Account!Charge, Opened, Charges
  <2> QED BY <2>4 DEF Account!Next
<1>5. ASSUME NEW r \in Requests, Publish(r) \/ \E t \in Tenants, k \in Costs : Refuse(r, t, k)
      PROVE Account!Next
  <2>1. UNCHANGED <<account, balance, deposits, credited, rows>>
    BY <1>5 DEF Publish, Refuse
  <2>2. \A q \in Requests : req'[q].pc \in {"charged", "done", "failed"}
                         <=> req[q].pc \in {"charged", "done", "failed"}
    <3>1. CASE Publish(r) BY <1>0, <3>1 DEF Publish
    <3>2. CASE \E t \in Tenants, k \in Costs : Refuse(r, t, k) BY <1>0, <3>2 DEF Refuse
    <3> QED BY <1>5, <3>1, <3>2
  <2>3. Charges' = Charges BY <2>2 DEF Charges
  <2> QED BY <2>1, <2>3, <1>s
<1>6. ASSUME NEW S \in SUBSET Requests, RequestsFail(S) PROVE Account!Next
  <2>1. UNCHANGED <<account, balance, deposits, credited, rows>> BY <1>6 DEF RequestsFail
  <2>2. Charges' = Charges BY <1>0, <1>6 DEF RequestsFail, Charges
  <2> QED BY <2>1, <2>2, <1>s
<1>7. CASE ReadBatch \/ SetAlert \/ AckBatch \/ SyncFails \/ WorkerRestarts
  <2>1. UNCHANGED <<account, balance, deposits, credited, rows, req>>
    BY <1>7 DEF ReadBatch, SetAlert, AckBatch, SyncFails, WorkerRestarts
  <2> QED BY <2>1, <1>s DEF Charges
<1>8. CASE CommitBatch
  <2>1. /\ UNCHANGED <<account, balance, deposits, credited, req>>
        /\ sync.pc = "sync"
        /\ rows' = [r \in Requests |-> IF r \in BatchRequests THEN rows[r] + 1 ELSE rows[r]]
    BY <1>8 DEF CommitBatch
  <2>2. Batch \subseteq 1..Len(stream)
    BY <1>0, <2>1 DEF Batch, StreamInv, UsageTypeOK
  <2>3. \A i \in Batch : /\ stream[i].req \in Requests /\ rows[stream[i].req] = 0
                        /\ req[stream[i].req].pc = "done"
    BY <1>0, <2>1, <2>2, EventType DEF StreamInv, LedgerInv
  <2>4. \A r \in BatchRequests : r \in Requests /\ rows[r] = 0 /\ req[r].pc = "done"
    BY <2>3 DEF BatchRequests
  <2>5. rows' = [r \in Requests |-> IF r \in BatchRequests THEN 1 ELSE rows[r]]
    BY <2>1, <2>4
  <2>6. BatchRequests \subseteq Charges /\ BatchRequests \subseteq Requests
    BY <2>4 DEF Charges
  <2>7. Opened' = Opened /\ Charges' = Charges BY <2>1 DEF Opened, Live, Charges
  <2>8. Account!Post(BatchRequests)
    BY <2>1, <2>4, <2>5, <2>6, <2>7 DEF Account!Post, Opened, Charges
  <2> QED BY <2>6, <2>8 DEF Account!Next
<1>9. ASSUME NEW x \in Txs, NEW t \in Tenants, NEW a \in Amounts, SubmitDeposit(x, t, a)
      PROVE Account!Next
  BY <1>9, <1>s DEF SubmitDeposit, Charges
<1>10. ASSUME NEW c \in Creditors, NEW x \in Txs, NEW t \in Tenants, NEW a \in Amounts,
              XrplPayment(c, x, t, a)
       PROVE Account!Next
  BY <1>10, <1>s DEF XrplPayment, Charges
<1>11. ASSUME NEW c \in Creditors,
         PopDeposit(c) \/ SkipDuplicate(c) \/ ClearAlert(c) \/ CreditorFails(c)
       PROVE Account!Next
  <2>1. UNCHANGED <<account, balance, deposits, credited, rows, req>>
    BY <1>11 DEF PopDeposit, SkipDuplicate, ClearAlert, CreditorFails
  <2> QED BY <2>1, <1>s DEF Charges
<1>12. ASSUME NEW c \in Creditors, RecordDeposit(c) PROVE Account!Next
  <2> DEFINE m == cred[c].msg
  <2>1. /\ UNCHANGED <<account, balance, req, credited, rows>>
        /\ m \in Msg /\ Live(m.tenant) /\ deposits[m.tx] = NoDeposit
        /\ deposits' = [deposits EXCEPT ![m.tx] = [tenant |-> m.tenant, amount |-> m.amount]]
    BY <1>0, <1>12 DEF RecordDeposit, DepositInv
  <2> HIDE DEF m
  <2>2. m.tx \in Txs /\ m.tenant \in Tenants /\ m.amount \in Amounts BY <2>1 DEF Msg
  <2>3. Opened' = Opened /\ Charges' = Charges /\ m.tenant \in Opened
    BY <2>1, <2>2 DEF Opened, Live, Charges
  <2>4. Account!Record(m.tx, m.tenant, m.amount)
    BY <2>1, <2>3 DEF Account!Record, Opened, Charges
  <2> QED BY <2>2, <2>4 DEF Account!Next
<1>13. ASSUME NEW c \in Creditors, CreditBalance(c) PROVE Account!Next
  <2> DEFINE m == cred[c].msg
  <2>1. /\ UNCHANGED <<account, deposits, req, rows>>
        /\ m \in Msg /\ m.tx \notin credited
        /\ deposits[m.tx] = [tenant |-> m.tenant, amount |-> m.amount]
        /\ balance' = [balance EXCEPT ![m.tenant] = @ + m.amount]
        /\ credited' = credited \cup {m.tx}
    BY <1>0, <1>13 DEF CreditBalance, DepositInv, CreditsAreExclusive
  <2> HIDE DEF m
  <2>2. m.tx \in Txs /\ m.tenant \in Tenants /\ m.amount \in Amounts BY <2>1 DEF Msg
  <2>3. deposits[m.tx] \in Deposit BY <2>1, <2>2 DEF Deposit
  <2>4. deposits[m.tx] # NoDeposit /\ deposits[m.tx].tenant = m.tenant
          /\ deposits[m.tx].amount = m.amount
    BY <2>1, <2>3, AbsentAssumption
  <2>5. Opened' = Opened /\ Charges' = Charges BY <2>1 DEF Opened, Live, Charges
  <2>6. Account!Credit(m.tx)
    BY <2>1, <2>4, <2>5 DEF Account!Credit, Opened, Charges
  <2> QED BY <2>2, <2>6 DEF Account!Next
<1>14. ASSUME NEW t \in Tenants, NEW a \in Amounts, TopUp(t, a) PROVE Account!Next
  BY <1>14, <1>s DEF TopUp, Charges
<1> QED BY <1>1, <1>2, <1>3, <1>4, <1>5, <1>6, <1>7, <1>8, <1>9, <1>10, <1>11, <1>12,
           <1>13, <1>14 DEF Next

\* The pipeline, with any interleaving of requests, worker, creditors and crashes,
\* does what PrepaidAccount promises each tenant.
THEOREM Implementation == Spec => ImplementsAccount
BY InitAccount, Invariance, NextAccount, PTL DEF Spec, ImplementsAccount, Account!Spec
===============================================================================
