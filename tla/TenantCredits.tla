---------------------------- MODULE TenantCredits ----------------------------
(***************************************************************************)
(* One tenant's row of tenant_balances and its low-balance notice: charges  *)
(* of agent runs, top-ups of the payment webhook under a row lock, and the  *)
(* check that runs after a charge or in the administrator's sweep. The      *)
(* check reads the notified flag, sets or resets it and posts the notice in *)
(* separate statements, each committed by itself.                           *)
(***************************************************************************)
EXTENDS Integers

CONSTANTS
  Workers,    \* requests the API serves at a time
  Seed,       \* what a charge seeds an unknown tenant with
  Low,        \* LOW_BALANCE_THRESHOLD_USD
  Charges,    \* costs of an agent run
  Amounts,    \* amounts of a top-up
  MaxCharges, \* bound: charges
  MaxPaid,    \* bound: top-ups
  MaxScans,   \* bound: sweeps
  MaxStops    \* bound: requests that die half way

ASSUME CreditsAssumption ==
  /\ Seed \in Nat /\ Low \in Nat
  /\ Charges \subseteq Nat \ {0} /\ Amounts \subseteq Nat \ {0}
  /\ MaxCharges \in Nat /\ MaxPaid \in Nat /\ MaxScans \in Nat /\ MaxStops \in Nat

VARIABLES
  row,      \* balance_usd, or NoRow
  locker,   \* the worker that holds the row FOR UPDATE, or Free
  notified, \* low_balance_notified; an absent row reads as FALSE
  url,      \* a webhook_url is configured
  ledger,   \* the sum of billing_ledger, negated
  work,     \* each worker: what it does next and the values it read
  done,     \* history: charges, top-ups, sweeps and stops so far
  credited, \* history: what committed top-ups added
  seeded,   \* history: the row came from a charge
  notices,  \* history: notices posted
  resets,   \* history: resets of the flag
  overlap   \* history: two checks were under way at once

creditVars == <<row, locker, notified, url, ledger, work, done, credited, seeded,
                notices, resets, overlap>>

NoRow == -1
Free == "free"
ASSUME WorkersAssumption == Free \notin Workers
Rest == [step |-> "rest", balance |-> 0, amount |-> 0, hook |-> FALSE]
Checks == {"read", "reset", "mark", "post"}
Steps == {"rest", "add", "insert"} \cup Checks

CreditsInit ==
  /\ row = NoRow /\ locker = Free /\ notified = FALSE /\ url \in BOOLEAN
  /\ ledger = 0 /\ work = [w \in Workers |-> Rest]
  /\ done = [charge |-> 0, topUp |-> 0, scan |-> 0, stop |-> 0]
  /\ credited = 0 /\ seeded = FALSE
  /\ notices = 0 /\ resets = 0 /\ overlap = FALSE

Checking(w) == work[w].step \in Checks
Go(w, s) == work' = [work EXCEPT ![w].step = s]
Finish(w) == work' = [work EXCEPT ![w] = Rest]
Count(k) == done' = [done EXCEPT ![k] = @ + 1]

\* check_and_notify_low_balance is called with a balance.
StartCheck(w, b) ==
  /\ work' = [work EXCEPT ![w] = [step |-> "read", balance |-> b, amount |-> 0, hook |-> FALSE]]
  /\ overlap' = (overlap \/ \E v \in Workers \ {w} : Checking(v))

\* What the seeding INSERT leaves in the transaction of a charge.
Seeded == IF row = NoRow THEN Seed ELSE row

\* deduct_tenant_credits up to its commit: seed, conditional UPDATE, ledger entry.
Charge(w, cost) ==
  /\ work[w] = Rest /\ locker = Free /\ done.charge < MaxCharges
  /\ Seeded >= cost
  /\ row' = Seeded - cost /\ ledger' = ledger + cost
  /\ seeded' = (seeded \/ row = NoRow)
  /\ StartCheck(w, Seeded - cost)
  /\ Count("charge")
  /\ UNCHANGED <<locker, notified, url, credited, notices, resets>>

\* The balance does not cover the cost: 402, and the seed is rolled back.
Decline(w, cost) ==
  /\ work[w] = Rest /\ locker = Free /\ done.charge < MaxCharges
  /\ Seeded < cost
  /\ Count("charge")
  /\ UNCHANGED <<row, locker, notified, url, ledger, work, credited, seeded, notices,
                 resets, overlap>>

\* Mistake, not part of CreditsSpec: the SELECT takes no lock.
FindRowUnlocked(w, a) ==
  /\ work[w] = Rest /\ locker = Free /\ done.topUp < MaxPaid
  /\ work' = [work EXCEPT ![w] =
       [step |-> IF row = NoRow THEN "insert" ELSE "add",
        balance |-> row, amount |-> a, hook |-> FALSE]]
  /\ Count("topUp")
  /\ UNCHANGED <<row, locker, notified, url, ledger, credited, seeded, notices, resets,
                 overlap>>

\* handle_payment_webhook: SELECT ... FOR UPDATE, which locks a row that is there.
FindRow(w, a) ==
  /\ work[w] = Rest /\ locker = Free /\ done.topUp < MaxPaid
  /\ work' = [work EXCEPT ![w] =
       [step |-> IF row = NoRow THEN "insert" ELSE "add",
        balance |-> row, amount |-> a, hook |-> FALSE]]
  /\ locker' = IF row = NoRow THEN Free ELSE w
  /\ Count("topUp")
  /\ UNCHANGED <<row, notified, url, ledger, credited, seeded, notices, resets, overlap>>

\* balance_usd += amount on the object that was read, and the commit.
AddTopUp(w) ==
  /\ work[w].step = "add"
  /\ row' = work[w].balance + work[w].amount
  /\ credited' = credited + work[w].amount
  /\ locker' = Free
  /\ Finish(w)
  /\ UNCHANGED <<notified, url, ledger, done, seeded, notices, resets, overlap>>

\* The new object is inserted, or a row has appeared and the commit raises.
InsertRow(w) ==
  /\ work[w].step = "insert" /\ locker = Free
  /\ \/ /\ row = NoRow
        /\ row' = work[w].amount /\ credited' = credited + work[w].amount
     \/ row # NoRow /\ UNCHANGED <<row, credited>>
  /\ Finish(w)
  /\ UNCHANGED <<locker, notified, url, ledger, done, seeded, notices, resets, overlap>>

\* configure_tenant_webhook.
Configure ==
  /\ ~url /\ url' = TRUE
  /\ UNCHANGED <<row, locker, notified, ledger, work, done, credited, seeded, notices,
                 resets, overlap>>

\* scan_all_tenants_low_balance checks the balance of table tenants, another one,
\* when it is low or the flag is set.
Sweep(w) ==
  \E b \in {Low - 1, Low} :
    /\ work[w] = Rest /\ done.scan < MaxScans
    /\ b < Low \/ notified
    /\ StartCheck(w, b)
    /\ Count("scan")
    /\ UNCHANGED <<row, locker, notified, url, ledger, credited, seeded, notices, resets>>

\* The SELECT of the check. It posts to the URL it read here.
ReadFlag(w) ==
  /\ work[w].step = "read"
  /\ LET next == IF work[w].balance >= Low
                 THEN IF notified THEN "reset" ELSE "rest"
                 ELSE IF notified THEN "rest" ELSE "mark"
     IN work' = [work EXCEPT ![w] =
          IF next = "rest" THEN Rest
          ELSE [step |-> next, balance |-> work[w].balance, amount |-> 0, hook |-> url]]
  /\ UNCHANGED <<row, locker, notified, url, ledger, done, credited, seeded, notices,
                 resets, overlap>>

\* Case A: the balance is above the threshold, the flag is cleared.
ResetFlag(w) ==
  /\ work[w].step = "reset"
  /\ notified' = FALSE /\ resets' = resets + 1
  /\ Finish(w)
  /\ UNCHANGED <<row, locker, url, ledger, done, credited, seeded, notices, overlap>>

\* Case B: the flag is set and committed before anything is sent.
MarkFlag(w) ==
  /\ work[w].step = "mark"
  /\ notified' = TRUE
  /\ IF work[w].hook THEN Go(w, "post") ELSE Finish(w)
  /\ UNCHANGED <<row, locker, url, ledger, done, credited, seeded, notices, resets,
                 overlap>>

\* The notice is posted; a failure is logged and nothing tries again.
Post(w) ==
  /\ work[w].step = "post"
  /\ notices' = notices + 1
  /\ Finish(w)
  /\ UNCHANGED <<row, locker, notified, url, ledger, done, credited, seeded, resets,
                 overlap>>

\* A request dies between two statements; the database drops its transaction.
Stop(w) ==
  /\ work[w] # Rest /\ done.stop < MaxStops
  /\ locker' = IF locker = w THEN Free ELSE locker
  /\ Finish(w) /\ Count("stop")
  /\ UNCHANGED <<row, notified, url, ledger, credited, seeded, notices, resets, overlap>>

CreditsNext ==
  \/ Configure
  \/ \E w \in Workers :
       \/ \E cost \in Charges : Charge(w, cost) \/ Decline(w, cost)
       \/ \E a \in Amounts : FindRow(w, a)
       \/ AddTopUp(w) \/ InsertRow(w) \/ Sweep(w)
       \/ ReadFlag(w) \/ ResetFlag(w) \/ MarkFlag(w) \/ Post(w) \/ Stop(w)

CreditsSpec == CreditsInit /\ [][CreditsNext]_creditVars

-------------------------------------------------------------------------------
(* Properties.                                                               *)

CreditWork == [step : Steps, balance : Int, amount : Nat, hook : BOOLEAN]
CreditsTypeOK ==
  /\ row \in Nat \cup {NoRow} /\ locker \in Workers \cup {Free}
  /\ notified \in BOOLEAN /\ url \in BOOLEAN /\ ledger \in Nat
  /\ work \in [Workers -> CreditWork]
  /\ done \in [{"charge", "topUp", "scan", "stop"} -> Nat]
  /\ credited \in Nat /\ seeded \in BOOLEAN
  /\ notices \in Nat /\ resets \in Nat /\ overlap \in BOOLEAN

\* The balance and the ledger account for every top-up that was answered with
\* success, however charges, top-ups and first rows interleave and stop: no update
\* is lost, and nothing is overdrawn (deduct_tenant_credits, handle_payment_webhook).
BalanceAccounted ==
  IF row = NoRow THEN ledger = 0 /\ credited = 0
  ELSE row + ledger = credited + (IF seeded THEN Seed ELSE 0)

\* While checks do not overlap, a tenant gets one notice for each time its balance
\* went low: the flag set before the post, and left set by whatever dies in between,
\* keeps every later charge and sweep quiet until a reset.
OneNoticeAtATime == ~overlap => notices <= resets + 1

\* A tenant's row and its notices, whatever stops half way.
CreditsSound == BalanceAccounted /\ OneNoticeAtATime

\* "Alert already dispatched for this breach session": one notice between two resets,
\* "Mark as notified atomically" (check_and_notify_low_balance).
OneNotice == notices <= resets + 1
===============================================================================
