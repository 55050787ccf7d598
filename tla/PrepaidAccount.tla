---------------------------- MODULE PrepaidAccount ----------------------------
(***************************************************************************)
(* What the billing system promises each tenant, whatever processes carry  *)
(* it out: a prepaid balance that is only spent while it lasts, to which    *)
(* each recorded deposit is added once, whatever its sign, and a usage      *)
(* ledger that never bills the same request twice.  BillingPipeline         *)
(* implements this specification.                                           *)
(***************************************************************************)
EXTENDS Integers

CONSTANTS
  Tenants,       \* tenant ids
  Requests,      \* metered requests
  Txs,           \* transaction hashes of deposits
  Costs,         \* prices of the metered endpoints
  Amounts,       \* deposit amounts
  SignupCredit,  \* balance written when a tenant registers
  NoDeposit      \* deposits[x] before x is recorded

VARIABLES
  opened,    \* tenants that may spend
  balance,   \* spendable balance of each tenant
  charges,   \* requests that were paid from a balance
  deposits,  \* the recorded deposit of each transaction hash
  credited,  \* transaction hashes whose amount was added to a balance
  rows       \* number of ledger rows of each request

vars == <<opened, balance, charges, deposits, credited, rows>>

Init ==
  /\ opened = {}
  /\ balance = [t \in Tenants |-> 0]
  /\ charges = {}
  /\ deposits = [x \in Txs |-> NoDeposit]
  /\ credited = {}
  /\ rows = [r \in Requests |-> 0]

Open(t) ==
  /\ t \notin opened
  /\ opened' = opened \cup {t}
  /\ \E b \in {0, SignupCredit} : balance' = [balance EXCEPT ![t] = b]
  /\ UNCHANGED <<charges, deposits, credited, rows>>

\* A request is served only against a balance that covers its price.
Charge(r, t, c) ==
  /\ t \in opened
  /\ r \notin charges
  /\ balance[t] >= c
  /\ balance' = [balance EXCEPT ![t] = @ - c]
  /\ charges' = charges \cup {r}
  /\ UNCHANGED <<opened, deposits, credited, rows>>

\* A transaction hash is recorded for one tenant and one amount, for ever.
Record(x, t, a) ==
  /\ t \in opened
  /\ deposits[x] = NoDeposit
  /\ deposits' = [deposits EXCEPT ![x] = [tenant |-> t, amount |-> a]]
  /\ UNCHANGED <<opened, balance, charges, credited, rows>>

\* Only a recorded deposit is credited, once, to the tenant it is recorded for.
Credit(x) ==
  /\ deposits[x] # NoDeposit
  /\ x \notin credited
  /\ balance' = [balance EXCEPT ![deposits[x].tenant] = @ + deposits[x].amount]
  /\ credited' = credited \cup {x}
  /\ UNCHANGED <<opened, charges, deposits, rows>>

\* Ledger rows are written for charged requests that have none.
Post(S) ==
  /\ S \subseteq charges
  /\ \A r \in S : rows[r] = 0
  /\ rows' = [r \in Requests |-> IF r \in S THEN 1 ELSE rows[r]]
  /\ UNCHANGED <<opened, balance, charges, deposits, credited>>

Next ==
  \/ \E S \in SUBSET Requests : Post(S)
  \/ \E t \in Tenants : Open(t)
  \/ \E r \in Requests, t \in Tenants, c \in Costs : Charge(r, t, c)
  \/ \E x \in Txs, t \in Tenants, a \in Amounts : Record(x, t, a)
  \/ \E x \in Txs : Credit(x)

Spec == Init /\ [][Next]_vars
===============================================================================
