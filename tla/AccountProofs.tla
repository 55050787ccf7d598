---------------------------- MODULE AccountProofs -----------------------------
(***************************************************************************)
(* Four services that act on a number they read before: the ticket          *)
(* allocator's Sequence, the sweeper's nonce, the balance of a tenant's row, *)
(* and the calls a rate limiter counted. The first two are safe because a    *)
(* number that was overtaken is worth nothing any more, the third because    *)
(* the row stays locked until the number is written back, the fourth         *)
(* because an older clock counts more calls and not fewer.                   *)
(***************************************************************************)
EXTENDS TicketPool, Sweeper, TenantCredits, RateLimits, FiniteSums, TLAPS

-------------------------------------------------------------------------------
(* The ticket pool.                                                          *)

\* SuggestionFits is what makes PoolWithinTarget inductive: a suggestion may be
\* submitted at any later time, so what it would do has to be bounded from the moment
\* the tool answers, for as long as the ledger would still apply it.
PoolInv == PoolTypeOK /\ PoolWithinTarget /\ SuggestionFits

\* No suggestion is out before a bot asks.
LEMMA PoolInitInv == PoolInit => PoolInv
BY PoolAssumption
   DEF PoolInit, PoolInv, PoolTypeOK, PoolWithinTarget, SuggestionFits, Unasked

\* What a node shows is the account as it is or as it was.
LEMMA ShownIsPast ==
  ASSUME PoolInv, NEW view \in Shown
  PROVE /\ view \in [sequence : Nat, tickets : Nat] /\ view.sequence <= sequence
        /\ view.sequence = sequence => tickets <= view.tickets
BY DEF PoolInv, PoolTypeOK, SuggestionFits, Shown, Now

\* Reading the ledger in two requests. A count that hides tickets is either of an older
\* ledger than the sequence, and then known to be short, or the sequence is gone.
LEMMA LookupKeepsPool ==
  ASSUME PoolInv, NEW b \in Bots, ReadInfo(b) \/ Suggest(b) \/ LookupFails(b)
  PROVE PoolInv'
<1> USE PoolAssumption DEF PoolInv, PoolTypeOK, PoolWithinTarget, SuggestionFits, Unasked
<1>1. CASE ReadInfo(b)
  <2>1. PICK view \in Shown : asks' = [asks EXCEPT ![b] =
          [Unasked EXCEPT !.step = "info", !.sequence = view.sequence]]
    BY <1>1 DEF ReadInfo
  <2>2. view.sequence \in Nat /\ view.sequence <= sequence BY ShownIsPast
  <2> QED BY <1>1, <2>1, <2>2 DEF ReadInfo
<1>2. CASE Suggest(b)
  <2>1. PICK view \in Shown : asks' = [asks EXCEPT ![b] =
          IF view.tickets < Target
          THEN [step |-> "advised", sequence |-> asks[b].sequence,
                count |-> Target - view.tickets, missed |-> Unseen(b, view)]
          ELSE Unasked]
    BY <1>2 DEF Suggest
  <2>2. view \in [sequence : Nat, tickets : Nat] /\ view.sequence <= sequence
        /\ (view.sequence = sequence => tickets <= view.tickets)
    BY ShownIsPast
  <2>3. CASE view.tickets < Target
    <3>1. Target - view.tickets \in Nat /\ Unseen(b, view) \in Nat
      BY <2>2, <2>3 DEF Unseen
    <3>2. asks[b].sequence = sequence
            => tickets + (Target - view.tickets) <= Target + Unseen(b, view)
      BY <2>2, <2>3 DEF Unseen
    <3> QED BY <1>2, <2>1, <2>3, <3>1, <3>2 DEF Suggest
  <2>4. CASE ~(view.tickets < Target) BY <1>2, <2>1, <2>4 DEF Suggest
  <2> QED BY <2>3, <2>4
<1>3. CASE LookupFails(b) BY <1>3 DEF LookupFails
<1> QED BY <1>1, <1>2, <1>3

\* A TicketCreate that is applied fits, and takes every other suggestion's sequence away.
LEMMA SubmitKeepsPool ==
  ASSUME PoolInv, NEW b \in Bots, Submit(b)
  PROVE PoolInv'
<1> USE PoolAssumption DEF PoolInv, PoolTypeOK, PoolWithinTarget, SuggestionFits, Unasked
<1>1. CASE asks[b].sequence = sequence /\ asks[b].step = "advised"
  BY <1>1 DEF Submit, Applied, Shown, Now
<1>2. CASE asks[b].sequence # sequence BY <1>2 DEF Submit
<1> QED BY <1>1, <1>2 DEF Submit

\* The invariant of the ticket pool.
LEMMA PoolInvariance == PoolSpec => []PoolInv
<1> USE PoolAssumption DEF PoolInv, PoolTypeOK, PoolWithinTarget, SuggestionFits
<1>1. PoolInv /\ [PoolNext]_poolVars => PoolInv'
  <2> SUFFICES ASSUME PoolInv, [PoolNext]_poolVars PROVE PoolInv'
    OBVIOUS
  <2>1. CASE UseTicket BY <2>1 DEF UseTicket, Applied, Shown, Now
  <2>2. CASE UseSequence BY <2>2 DEF UseSequence, Applied, Shown, Now
  <2>3. ASSUME NEW b \in Bots, ReadInfo(b) \/ Suggest(b) \/ LookupFails(b) PROVE PoolInv'
    BY <2>3, LookupKeepsPool
  <2>4. ASSUME NEW b \in Bots, Submit(b) PROVE PoolInv'
    BY <2>4, SubmitKeepsPool
  <2>5. CASE UNCHANGED poolVars BY <2>5 DEF poolVars
  <2> QED BY <2>1, <2>2, <2>3, <2>4, <2>5 DEF PoolNext
<1> QED BY PoolInitInv, <1>1, PTL DEF PoolSpec

\* Bots that follow the suggestions of get_ticket_pool, at any time and in any order,
\* take the account over its target by no more than a count of an older ledger than the
\* sequence's was short.
THEOREM PoolBounded == PoolSpec => []PoolWithinTarget
<1>1. PoolInv => PoolWithinTarget BY DEF PoolInv
<1> QED BY <1>1, PoolInvariance, PTL

-------------------------------------------------------------------------------
(* The sweeper.                                                              *)

\* No node is ahead of the chain, and neither is a nonce read from one; on Arc the
\* balance that was read covers the gas that is kept back.
ReadsPast ==
  /\ \A r \in Rails : behind[r].nonce <= chain[r].nonce
  /\ daemon.step = "send" => daemon.nonce <= chain[daemon.rail].nonce
  /\ daemon.step \in {"nonce", "send"} /\ daemon.rail = "arc" => daemon.funds > daemon.cap

SweepInv == SweepTypeOK /\ ReadsPast /\ OneSweepWaits

\* The daemon starts asleep and no sweep waits.
LEMMA SweepInitInv == SweepInit => SweepInv
BY SweepAssumption
   DEF SweepInit, SweepInv, SweepTypeOK, ReadsPast, OneSweepWaits, Rails, Asleep

\* The reads of a poll and its errors touch the daemon alone.
DaemonOK ==
  /\ daemon \in [rail : Rails, step : {"balance", "fees", "nonce", "send"},
                 funds : Nat, cap : Nat, nonce : Nat]
  /\ daemon.step = "send" => daemon.nonce <= chain[daemon.rail].nonce
  /\ daemon.step \in {"nonce", "send"} /\ daemon.rail = "arc" => daemon.funds > daemon.cap

\* Going on to the other rail leaves the daemon at the start of its reads.
LEMMA NextRailOK ==
  ASSUME SweepInv, NextRail, UNCHANGED chain
  PROVE DaemonOK'
<1> DEFINE next == IF Here = "base" THEN "arc" ELSE "base"
<1>1. next \in Rails BY DEF Rails
<1>2. daemon' = [rail |-> next, step |-> "balance", funds |-> 0, cap |-> 0, nonce |-> 0]
  BY DEF NextRail, Asleep
<1> QED BY <1>1, <1>2 DEF DaemonOK

\* The reads of a poll keep the invariant, whether they are answered or fail.
LEMMA ReadsKeepSweep ==
  ASSUME SweepInv, ReadBalance \/ ReadFees \/ ReadNonce \/ CallFails
  PROVE SweepInv'
<1> USE SweepAssumption DEF External
<1>1. UNCHANGED <<chain, behind, fee, ether, waiting>>
  BY DEF ReadBalance, ReadFees, ReadNonce, CallFails
<1>2. spent' \in [{"arrivals", "errors", "blocks", "reverts"} -> Nat]
  <2> USE DEF SweepInv, SweepTypeOK
  <2>1. CASE CallFails BY <2>1 DEF CallFails, Spend
  <2>2. CASE ReadBalance \/ ReadFees \/ ReadNonce
    BY <2>2 DEF ReadBalance, ReadFees, ReadNonce
  <2> QED BY <2>1, <2>2
<1>3. DaemonOK'
  <2> USE DEF SweepInv, SweepTypeOK, ReadsPast, Here
  <2>1. CASE NextRail BY <2>1, <1>1, NextRailOK
  <2>2. ASSUME NEW a \in Answers(Here),
               daemon' = [daemon EXCEPT !.step = "fees", !.funds = a.funds]
        PROVE DaemonOK'
    <3>1. a.funds \in Nat BY DEF Answers
    <3> QED BY <1>1, <2>2, <3>1 DEF DaemonOK
  <2>3. ASSUME ReadFees, ~NextRail PROVE DaemonOK'
    <3>1. 2 * fee + Tip \in Nat OBVIOUS
    <3>2. /\ daemon' = [daemon EXCEPT !.step = "nonce", !.cap = 2 * fee + Tip]
          /\ daemon.rail = "arc" => daemon.funds > 2 * fee + Tip
      BY <2>3 DEF ReadFees, Rails
    <3> QED BY <1>1, <3>1, <3>2 DEF DaemonOK
  <2>4. ASSUME daemon.step = "nonce", NEW a \in Answers(Here),
               daemon' = [daemon EXCEPT !.step = "send", !.nonce = a.nonce]
        PROVE DaemonOK'
    <3>1. a.nonce \in Nat /\ a.nonce <= chain[Here].nonce BY DEF Answers
    <3> QED BY <1>1, <2>4, <3>1 DEF DaemonOK
  <2>5. CASE ReadBalance BY <2>1, <2>2, <2>5 DEF ReadBalance
  <2>6. CASE ReadNonce BY <2>4, <2>6 DEF ReadNonce
  <2>7. CASE CallFails BY <2>1, <2>7 DEF CallFails
  <2>8. CASE ReadFees BY <2>1, <2>3, <2>8
  <2> QED BY <2>5, <2>6, <2>7, <2>8
<1> QED BY <1>1, <1>2, <1>3 DEF SweepInv, SweepTypeOK, ReadsPast, OneSweepWaits, DaemonOK

\* A node takes a nonce that is not used up, and one that was read is not beyond it: the
\* sweep has the nonce of the chain, and is taken only where no other one waits with it.
LEMMA SendKeepsSweep ==
  ASSUME SweepInv, Send
  PROVE SweepInv'
<1> USE SweepAssumption DEF SweepInv, SweepTypeOK, ReadsPast, OneSweepWaits, Rails
<1>1. daemon' = [Asleep EXCEPT !.rail = IF Here = "base" THEN "arc" ELSE "base"]
      /\ UNCHANGED <<chain, behind, fee, ether, spent>>
  BY DEF Send, NextRail, External
<1>2. CASE ~Accepted BY <1>1, <1>2 DEF Send, Asleep, Here
<1>3. CASE Accepted
  <2>1. daemon.nonce = chain[Here].nonce
    BY <1>3 DEF Accepted, Send, Here
  <2>2. Held = waiting[Here] BY <2>1 DEF Held, Here
  <2>3. waiting' = [waiting EXCEPT ![Here] = {Payload}] BY <1>3, <2>2 DEF Send
  <2>4. Payload \in [nonce : Nat, cap : Nat, tip : Nat, value : Nat]
    BY DEF Payload, Send, Here
  <2>5. Payload.nonce = chain[Here].nonce BY <2>1 DEF Payload
  <2> QED BY <1>1, <2>3, <2>4, <2>5 DEF Asleep, Here
<1> QED BY <1>2, <1>3

\* A block uses the nonce up, and with it the only transaction that waits.
LEMMA MineKeepsSweep ==
  ASSUME SweepInv, NEW r \in Rails, Mine(r)
  PROVE SweepInv'
<1> USE SweepAssumption DEF SweepInv, SweepTypeOK, ReadsPast, OneSweepWaits, Rails
<1>1. PICK t \in waiting[r] : Include(r, t)
  BY DEF Mine
<1> DEFINE gone == IF Fits(r, t) THEN Takes(r, t) ELSE 0
<1>p. Price(t) \in Nat /\ Price(t) <= t.cap
  BY DEF Price
<1>2. gone \in Nat /\ gone <= chain[r].funds
  BY <1>p DEF Fits, Takes
<1>3. chain' = [chain EXCEPT ![r] = [funds |-> chain[r].funds - gone,
                                     nonce |-> chain[r].nonce + 1]]
      /\ behind' = [behind EXCEPT ![r] = chain[r]] /\ UNCHANGED <<fee, daemon>>
  BY <1>1 DEF Include
<1>4. waiting' = [waiting EXCEPT ![r] = {}]
  <2>1. {u \in waiting[r] : u.nonce > t.nonce} = {} BY <1>1
  <2> QED BY <1>1, <2>1 DEF Include
<1>5. ether' \in 0..Ether BY <1>1, <1>p DEF Include
<1>6. spent' \in [{"arrivals", "errors", "blocks", "reverts"} -> Nat] BY <1>1 DEF Include
<1> HIDE DEF gone
<1> QED BY <1>2, <1>3, <1>4, <1>5, <1>6

\* The invariant of the sweeper.
LEMMA SweepInvariance == SweepSpec => []SweepInv
<1>1. SweepInv /\ [SweepNext]_sweepVars => SweepInv'
  <2> SUFFICES ASSUME SweepInv, [SweepNext]_sweepVars PROVE SweepInv'
    OBVIOUS
  <2> USE SweepAssumption DEF SweepInv, SweepTypeOK, ReadsPast, OneSweepWaits, Rails
  <2>1. CASE Poll BY <2>1, ReadsKeepSweep, SendKeepsSweep DEF Poll
  <2>2. CASE CallFails BY <2>2, ReadsKeepSweep
  <2>3. CASE FeeMoves BY <2>3 DEF FeeMoves, Spend
  <2>4. CASE CatchUp BY <2>4 DEF CatchUp
  <2>5. ASSUME NEW r \in Rails, Mine(r) PROVE SweepInv' BY <2>5, MineKeepsSweep
  <2>6. ASSUME NEW r \in Rails, Arrive(r) PROVE SweepInv' BY <2>6 DEF Arrive, Spend
  <2>7. CASE UNCHANGED sweepVars BY <2>7 DEF sweepVars
  <2> QED BY <2>1, <2>2, <2>3, <2>4, <2>5, <2>6, <2>7 DEF SweepNext
<1> QED BY SweepInitInv, <1>1, PTL DEF SweepSpec

\* Polls that run while a sweep waits never queue another behind it (the nonce of the
\* latest block, in sweep_base and sweep_arc).
THEOREM SweepsNeverQueue == SweepSpec => []OneSweepWaits
<1>1. SweepInv => OneSweepWaits BY DEF SweepInv
<1> QED BY <1>1, SweepInvariance, PTL

-------------------------------------------------------------------------------
(* A tenant's row. The balance: whoever holds the row lock has read the     *)
(* balance the row still has, since charges and inserts wait for it         *)
(* (RowInv). The notices: while checks do not overlap, the flag and the step *)
(* of the only check say whether the notice of this breach is still to be    *)
(* posted (NoticeInv).                                                      *)

RowInv ==
  /\ \A w \in Workers : work[w].step = "add" <=> locker = w
  /\ \A w \in Workers : locker = w => row # NoRow /\ work[w].balance = row
  /\ row = NoRow => ~seeded
  /\ BalanceAccounted

OneCheck == \A v, w \in Workers : Checking(v) /\ Checking(w) => v = w
Owed == \E w \in Workers : work[w].step = "post"
FlagTells ==
  /\ ~notified => notices <= resets
  /\ notified => notices <= resets + 1
  /\ Owed => notified /\ notices <= resets
  /\ \A w \in Workers : work[w].step = "reset" => notified
  /\ \A w \in Workers : work[w].step = "mark" => ~notified
NoticeInv == ~overlap => OneCheck /\ FlagTells

CreditsInv == CreditsTypeOK /\ RowInv /\ NoticeInv

\* No request is at work at the start.
LEMMA CreditsInitInv == CreditsInit => CreditsInv
<1> SUFFICES ASSUME CreditsInit PROVE CreditsInv
  OBVIOUS
<1> USE CreditsAssumption, WorkersAssumption DEF CreditsInit
<1>1. CreditsTypeOK
  <2>1. Rest \in CreditWork BY DEF Rest, CreditWork, Steps
  <2>2. work \in [Workers -> CreditWork] BY <2>1
  <2>3. done \in [{"charge", "topUp", "scan", "stop"} -> Nat] OBVIOUS
  <2> QED BY <2>2, <2>3 DEF CreditsTypeOK
<1>2. RowInv BY DEF RowInv, BalanceAccounted, Rest
<1>3. NoticeInv BY DEF NoticeInv, OneCheck, FlagTells, Owed, Checking, Rest, Checks
<1> QED BY <1>1, <1>2, <1>3 DEF CreditsInv

-------------------------------------------------------------------------------
(* Types.                                                                    *)

\* Every store keeps values of its type, and a balance is never negative.
LEMMA CreditsTypeStep ==
  ASSUME CreditsInv, [CreditsNext]_creditVars
  PROVE CreditsTypeOK'
<1> USE CreditsAssumption DEF CreditsInv, CreditsTypeOK, CreditWork, Rest, Steps, Checks
<1>0. \A w \in Workers : work[w] \in CreditWork OBVIOUS
<1>1. CASE Configure BY <1>1 DEF Configure
<1>2. ASSUME NEW w \in Workers, NEW cost \in Charges, Charge(w, cost) PROVE CreditsTypeOK'
  <2>1. Seeded \in Nat /\ cost \in Nat BY DEF Seeded
  <2>2. Seeded >= cost BY <1>2 DEF Charge
  <2>3. Seeded - cost \in Nat BY <2>1, <2>2
  <2> QED BY <1>2, <2>1, <2>3 DEF Charge, StartCheck, Count
<1>3. ASSUME NEW w \in Workers, NEW cost \in Charges, Decline(w, cost) PROVE CreditsTypeOK'
  BY <1>3 DEF Decline, Count
<1>4. ASSUME NEW w \in Workers, NEW a \in Amounts, FindRow(w, a) PROVE CreditsTypeOK'
  <2>1. row \in Int /\ a \in Nat BY DEF NoRow
  <2> QED BY <1>4, <2>1 DEF FindRow, Count
<1>5. ASSUME NEW w \in Workers, AddTopUp(w) PROVE CreditsTypeOK'
  <2>1. work[w].balance + work[w].amount \in Nat /\ credited + work[w].amount \in Nat
    BY <1>0, <1>5 DEF AddTopUp, RowInv, NoRow
  <2> QED BY <1>5, <2>1 DEF AddTopUp, Finish
<1>6. ASSUME NEW w \in Workers, InsertRow(w) PROVE CreditsTypeOK'
  BY <1>0, <1>6 DEF InsertRow, Finish
<1>7. ASSUME NEW w \in Workers, Sweep(w) PROVE CreditsTypeOK'
  BY <1>7 DEF Sweep, StartCheck, Count
<1>8. ASSUME NEW w \in Workers, ReadFlag(w) PROVE CreditsTypeOK'
  BY <1>0, <1>8 DEF ReadFlag
<1>9. ASSUME NEW w \in Workers, ResetFlag(w) PROVE CreditsTypeOK'
  <2>1. resets + 1 \in Nat OBVIOUS
  <2>2. Rest \in CreditWork OBVIOUS
  <2>3. work' \in [Workers -> CreditWork] BY <1>9, <2>2 DEF ResetFlag, Finish
  <2> QED BY <1>9, <2>1, <2>3 DEF ResetFlag
<1>10. ASSUME NEW w \in Workers, MarkFlag(w) PROVE CreditsTypeOK'
  <2>1. work' \in [Workers -> CreditWork]
    <3>1. CASE work[w].hook BY <1>0, <1>10, <3>1 DEF MarkFlag, Go
    <3>2. CASE ~work[w].hook
      <4>1. Rest \in CreditWork OBVIOUS
      <4> QED BY <1>10, <3>2, <4>1 DEF MarkFlag, Finish
    <3> QED BY <3>1, <3>2
  <2> QED BY <1>10, <2>1 DEF MarkFlag
<1>11. ASSUME NEW w \in Workers, Post(w) PROVE CreditsTypeOK'
  BY <1>11 DEF Post, Finish
<1>12. ASSUME NEW w \in Workers, Stop(w) PROVE CreditsTypeOK'
  BY <1>12 DEF Stop, Finish, Count
<1>13. CASE UNCHANGED creditVars BY <1>13 DEF creditVars
<1> QED BY <1>1, <1>2, <1>3, <1>4, <1>5, <1>6, <1>7, <1>8, <1>9, <1>10, <1>11, <1>12, <1>13
        DEF CreditsNext

-------------------------------------------------------------------------------
(* The balance.                                                              *)

\* Only the holder of the lock, or a worker that finds it free, writes the row.
LEMMA RowStep ==
  ASSUME CreditsInv, CreditsTypeOK', [CreditsNext]_creditVars
  PROVE RowInv'
<1> USE CreditsAssumption, WorkersAssumption DEF CreditsInv, CreditsTypeOK, RowInv, BalanceAccounted
<1>0. \A w \in Workers : work[w] \in CreditWork /\ work'[w] \in CreditWork OBVIOUS
<1>1. CASE Configure BY <1>1 DEF Configure
<1>2. ASSUME NEW w \in Workers, NEW cost \in Charges, Charge(w, cost) PROVE RowInv'
  <2>1. \A v \in Workers : work'[v].step # "add"
    BY <1>2 DEF Charge, StartCheck
  <2>2. locker' = Free BY <1>2 DEF Charge
  <2>3. row \in Int /\ ledger \in Nat /\ credited \in Nat /\ cost \in Nat BY DEF NoRow
  <2>4. row' # NoRow BY <1>2, <2>3 DEF Charge, Seeded, NoRow
  <2>5. BalanceAccounted'
    <3>1. row' = Seeded - cost /\ ledger' = ledger + cost /\ credited' = credited
          /\ seeded' = (seeded \/ row = NoRow)
      BY <1>2 DEF Charge
    <3>2. CASE row = NoRow
      <4>1. seeded' BY <3>1, <3>2
      <4>2. ledger = 0 /\ credited = 0 BY <3>2
      <4>3. row' + ledger' = credited' + Seed BY <2>3, <3>1, <3>2, <4>2 DEF Seeded
      <4> QED BY <2>4, <4>1, <4>3
    <3>3. CASE row # NoRow
      <4>1. seeded' <=> seeded BY <3>1, <3>3
      <4>2. row' + ledger' = row + ledger BY <2>3, <3>1, <3>3 DEF Seeded
      <4>3. credited' = credited BY <3>1
      <4> QED BY <2>4, <3>3, <4>1, <4>2, <4>3
    <3> QED BY <3>2, <3>3
  <2> QED BY <2>1, <2>2, <2>4, <2>5
<1>3. ASSUME NEW w \in Workers, NEW cost \in Charges, Decline(w, cost) PROVE RowInv'
  BY <1>3 DEF Decline
<1>4. ASSUME NEW w \in Workers, NEW a \in Amounts, FindRow(w, a) PROVE RowInv'
  BY <1>4 DEF FindRow, Rest
<1>5. ASSUME NEW w \in Workers, AddTopUp(w) PROVE RowInv'
  <2>1. locker = w /\ row # NoRow /\ work[w].balance = row BY <1>5 DEF AddTopUp
  <2>2. \A v \in Workers : work'[v].step # "add" BY <1>5, <2>1 DEF AddTopUp, Finish, Rest
  <2>3. locker' = Free /\ ledger' = ledger /\ seeded' = seeded
        /\ row' = row + work[w].amount /\ credited' = credited + work[w].amount
    BY <1>5, <2>1 DEF AddTopUp
  <2>4. row \in Nat /\ ledger \in Nat /\ credited \in Nat /\ work[w].amount \in Nat
    BY <1>0, <2>1 DEF CreditWork
  <2>5. row' # NoRow BY <2>3, <2>4 DEF NoRow
  <2>6. BalanceAccounted' BY <2>1, <2>3, <2>4, <2>5
  <2> QED BY <2>2, <2>3, <2>5, <2>6
<1>6. ASSUME NEW w \in Workers, InsertRow(w) PROVE RowInv'
  BY <1>0, <1>6 DEF InsertRow, Finish, NoRow, CreditWork, Rest
<1>7. ASSUME NEW w \in Workers, Sweep(w) PROVE RowInv'
  BY <1>7 DEF Sweep, StartCheck, Rest
<1>8. ASSUME NEW w \in Workers, ReadFlag(w) PROVE RowInv'
  BY <1>8 DEF ReadFlag, Rest
<1>9. ASSUME NEW w \in Workers, ResetFlag(w) PROVE RowInv'
  BY <1>9 DEF ResetFlag, Finish, Rest
<1>10. ASSUME NEW w \in Workers, MarkFlag(w) PROVE RowInv'
  BY <1>0, <1>10 DEF MarkFlag, Finish, Go, Rest, CreditWork
<1>11. ASSUME NEW w \in Workers, Post(w) PROVE RowInv'
  BY <1>11 DEF Post, Finish, Rest
<1>12. ASSUME NEW w \in Workers, Stop(w) PROVE RowInv'
  BY <1>12 DEF Stop, Finish, Rest
<1>13. CASE UNCHANGED creditVars BY <1>13 DEF creditVars
<1> QED BY <1>1, <1>2, <1>3, <1>4, <1>5, <1>6, <1>7, <1>8, <1>9, <1>10, <1>11, <1>12, <1>13
        DEF CreditsNext

-------------------------------------------------------------------------------
(* The notices.                                                              *)

\* A step of a check, of a reset or of a charge keeps one notice to a breach.
LEMMA NoticeStep ==
  ASSUME CreditsInv, CreditsTypeOK', [CreditsNext]_creditVars
  PROVE NoticeInv'
<1> USE DEF CreditsInv, CreditsTypeOK, NoticeInv, OneCheck, FlagTells, Owed, Checking, Checks
<1>0. \A w \in Workers : work[w] \in CreditWork /\ work'[w] \in CreditWork OBVIOUS
<1>1. CASE Configure BY <1>1 DEF Configure
<1>2. ASSUME NEW w \in Workers, NEW cost \in Charges, Charge(w, cost) PROVE NoticeInv'
  BY <1>2 DEF Charge, StartCheck, Rest
<1>3. ASSUME NEW w \in Workers, NEW cost \in Charges, Decline(w, cost) PROVE NoticeInv'
  BY <1>3 DEF Decline
<1>4. ASSUME NEW w \in Workers, NEW a \in Amounts, FindRow(w, a) PROVE NoticeInv'
  BY <1>4 DEF FindRow, Rest
<1>5. ASSUME NEW w \in Workers, AddTopUp(w) PROVE NoticeInv'
  BY <1>5 DEF AddTopUp, Finish, Rest
<1>6. ASSUME NEW w \in Workers, InsertRow(w) PROVE NoticeInv'
  BY <1>6 DEF InsertRow, Finish, Rest
<1>7. ASSUME NEW w \in Workers, Sweep(w) PROVE NoticeInv'
  <2>1. PICK b \in {Low - 1, Low} : StartCheck(w, b) BY <1>7 DEF Sweep
  <2>2. UNCHANGED <<notified, notices, resets>> /\ work[w] = Rest BY <1>7 DEF Sweep
  <2>3. \A v \in Workers : v # w => work'[v] = work[v] BY <2>1 DEF StartCheck
  <2>4. work'[w].step = "read" BY <2>1 DEF StartCheck
  <2>5. CASE overlap' BY <2>5
  <2>6. CASE ~overlap'
    <3>1. ~overlap /\ \A v \in Workers \ {w} : ~Checking(v)
      BY <2>1, <2>6 DEF StartCheck
    <3>2. OneCheck' BY <2>3, <3>1
    <3>3. Owed' => Owed BY <2>3, <2>4
    <3>4. FlagTells' BY <2>2, <2>3, <2>4, <3>1, <3>3
    <3> QED BY <3>2, <3>4
  <2> QED BY <2>5, <2>6
<1>8. ASSUME NEW w \in Workers, ReadFlag(w) PROVE NoticeInv'
  BY <1>8 DEF ReadFlag, Rest
<1>9. ASSUME NEW w \in Workers, ResetFlag(w) PROVE NoticeInv'
  BY <1>9 DEF ResetFlag, Finish, Rest
<1>10. ASSUME NEW w \in Workers, MarkFlag(w) PROVE NoticeInv'
  BY <1>0, <1>10 DEF MarkFlag, Finish, Go, Rest, CreditWork
<1>11. ASSUME NEW w \in Workers, Post(w) PROVE NoticeInv'
  BY <1>11 DEF Post, Finish, Rest
<1>12. ASSUME NEW w \in Workers, Stop(w) PROVE NoticeInv'
  BY <1>12 DEF Stop, Finish, Rest
<1>13. CASE UNCHANGED creditVars BY <1>13 DEF creditVars
<1> QED BY <1>1, <1>2, <1>3, <1>4, <1>5, <1>6, <1>7, <1>8, <1>9, <1>10, <1>11, <1>12, <1>13
        DEF CreditsNext

-------------------------------------------------------------------------------


\* The invariant of a tenant's credits.
LEMMA CreditsInvariance == CreditsSpec => []CreditsInv
<1>1. CreditsInv /\ [CreditsNext]_creditVars => CreditsInv'
  BY CreditsTypeStep, RowStep, NoticeStep DEF CreditsInv
<1> QED BY CreditsInitInv, <1>1, PTL DEF CreditsSpec

\* deduct_tenant_credits, handle_payment_webhook and check_and_notify_low_balance, any
\* number of them at once: no update of a tenant's row is lost, and one notice at a time
\* is posted for a breach while checks do not overlap.
THEOREM CreditsAccounted == CreditsSpec => []CreditsSound
<1>1. CreditsInv => CreditsSound
  BY CreditsAssumption
     DEF CreditsInv, CreditsTypeOK, RowInv, NoticeInv, FlagTells, CreditsSound, OneNoticeAtATime
<1> QED BY <1>1, CreditsInvariance, PTL

-------------------------------------------------------------------------------
(* The rate limits. Every call that was let through and is still in the      *)
(* window has a place in the list (or its instant one in the sorted set), so *)
(* the places that are taken bound the calls (ListInv, RedisInv). In Redis   *)
(* that survives a slow transaction, which trims by an older clock and so    *)
(* trims less, and the expiry of the key, which comes a second after its     *)
(* last instant left the window.                                             *)

Finite == IsFiniteSet(recent) /\ IsFiniteSet(members)
Past == \A c \in recent \cup grants : c.n <= calls /\ c.at <= now

\* A list has no more places than the limit, one for each call of the window that was
\* let through; the advice of a refusal outlasts one of them.
ListInv ==
  site # "redis" =>
    /\ Cardinality(recent) <= Limit
    /\ \A c \in grants : now - c.at < W => c \in recent
    /\ hint # NoHint => \E o \in recent : hint + Ticks >= o.at + W
    /\ ListLimit

\* The sorted set holds every instant of the window that was let through, and its key
\* expires after the last of them has left it.
RedisInv ==
  site = "redis" =>
    /\ \A i \in Instances : flight[i] # Idle => flight[i] <= now /\ now - flight[i] <= Skew
    /\ \A c \in grants :
         c.at + W + Ticks <= expireAt /\ (now - c.at < W => c.at \in members)
    /\ members # {} => now < expireAt
    /\ hint # NoHint => hint + Ticks = expireAt
    /\ RedisLimit

LimitInv == LimitTypeOK /\ Finite /\ Past /\ ListInv /\ RedisInv

\* The window in clock ticks.
LEMMA WType == W \in Nat
BY LimitAssumption DEF W

\* No call was let through at the start.
LEMMA LimitInitInv == LimitInit => LimitInv
<1> SUFFICES ASSUME LimitInit PROVE LimitInv
  OBVIOUS
<1> USE LimitAssumption, WType DEF LimitInit
<1>1. LimitTypeOK BY DEF LimitTypeOK, NoHint
<1>2. Finite BY FS_EmptySet DEF Finite
<1>3. Past BY DEF Past
<1>4. ListInv BY FS_EmptySet DEF ListInv, ListLimit
<1>5. RedisInv
  <2>1. RedisLimit
    <3> SUFFICES ASSUME NEW t \in 0..MaxTime
        PROVE Cardinality({u \in {c.at : c \in grants} : u <= t /\ u > t - (W - Skew)}) <= Limit
      BY DEF RedisLimit
    <3>1. {u \in {c.at : c \in grants} : u <= t /\ u > t - (W - Skew)} = {} OBVIOUS
    <3> QED BY <3>1, FS_EmptySet
  <2> QED BY <2>1 DEF RedisInv
<1> QED BY <1>1, <1>2, <1>3, <1>4, <1>5 DEF LimitInv

-------------------------------------------------------------------------------
(* What the code computes from the list.                                     *)

\* The calls still in the window are some of the finite list.
LEMMA KeptFinite ==
  ASSUME LimitInv
  PROVE  /\ Kept \subseteq recent /\ IsFiniteSet(Kept) /\ Cardinality(Kept) \in Nat
         /\ Cardinality(recent) \in Nat /\ Cardinality(Kept) <= Cardinality(recent)
<1>1. Kept \in SUBSET recent BY DEF Kept
<1> QED BY <1>1, FS_Subset, FS_CardinalityType DEF LimitInv, Finite

\* A list that is full has an oldest call.
LEMMA OldestIsKept ==
  ASSUME LimitInv, Cardinality(Kept) >= Limit
  PROVE  Oldest \in Kept
<1> DEFINE T == {c.n : c \in Kept}
<1>1. Kept # {} BY FS_EmptySet, LimitAssumption
<1>2. \A c \in Kept : c.n \in Nat BY DEF LimitInv, LimitTypeOK, Kept, Call
<1>3. T \in SUBSET Nat /\ T # {} BY <1>1, <1>2
<1>4. PICK x \in T : \A y \in T : x <= y
  <2> HIDE DEF T
  <2> QED BY <1>3, NatHasLeast
<1>5. \E c \in Kept : \A d \in Kept : c.n <= d.n BY <1>4
<1> QED BY <1>5 DEF Oldest

\* int() cuts off less than a second.
LEMMA WholeSeconds ==
  ASSUME NEW x \in Nat
  PROVE  x \div Ticks \in Nat /\ Ticks * (x \div Ticks) + Ticks > x
         /\ Ticks * (x \div Ticks) \in Nat
BY LimitAssumption

\* After the advised wait and a second, the oldest call is out of the window.
LEMMA RetryIsEnough ==
  ASSUME LimitInv, Cardinality(Kept) >= Limit
  PROVE  /\ RetryIn \in Nat /\ Ticks * RetryIn \in Nat
         /\ now + Ticks * RetryIn + Ticks >= Oldest.at + W
<1>1. Oldest \in Kept BY OldestIsKept
<1>2. Oldest.at \in Nat /\ now \in Nat /\ now - Oldest.at < W /\ Oldest.at <= now
  BY <1>1, LimitAssumption DEF LimitInv, LimitTypeOK, Past, Kept, Call
<1> DEFINE x == W - (now - Oldest.at)
<1>3. x \in Nat BY <1>2, WType
<1>4. Ticks * (x \div Ticks) + Ticks > x /\ Ticks * (x \div Ticks) \in Nat /\ x \div Ticks \in Nat
  <2> HIDE DEF x
  <2> QED BY <1>3, WholeSeconds
<1>5. RetryIn = x \div Ticks BY DEF RetryIn
<1> QED BY <1>2, <1>4, <1>5, WType, LimitAssumption

-------------------------------------------------------------------------------
(* The lists of one process.                                                 *)

\* A call that takes a place, whether or not it is let through after that.
LEMMA PlaceTaken ==
  ASSUME LimitInv, NEW s \in Sites \ {"redis"}, InProcess(s), Cardinality(Kept) < Limit,
         recent' = Kept \cup {This}, grants' = grants \/ grants' = grants \cup {This},
         hint' = NoHint
  PROVE  LimitInv'
<1> USE LimitAssumption, WType DEF LimitInv
<1>1. site = s /\ calls' = calls + 1 /\ calls + 1 \in 1..MaxCalls
      /\ UNCHANGED <<site, now, members, expireAt, flight>>
  BY DEF InProcess, LimitTypeOK
<1>2. This \in Call /\ This.n = calls + 1 /\ This.at = now
  BY <1>1 DEF LimitTypeOK, This, Call
<1>3. Kept \subseteq recent /\ IsFiniteSet(Kept) /\ Cardinality(Kept) \in Nat BY KeptFinite
<1>4. IsFiniteSet(recent') /\ Cardinality(recent') <= Limit /\ Cardinality(recent') \in Nat
  <2>1. IsFiniteSet(recent') /\ Cardinality(recent') =
           IF This \in Kept THEN Cardinality(Kept) ELSE Cardinality(Kept) + 1
    BY <1>3, FS_AddElement
  <2>2. Cardinality(Kept) + 1 <= Limit BY <1>3
  <2> QED BY <1>3, <2>1, <2>2
<1>5. LimitTypeOK' BY <1>1, <1>2, <1>3 DEF LimitTypeOK
<1>6. Finite' BY <1>1, <1>4 DEF Finite
<1>7. Past'
  BY <1>1, <1>2, <1>3 DEF Past, LimitTypeOK, Call
<1>8. \A c \in grants' : now - c.at < W => c \in recent'
  BY <1>1, <1>2 DEF ListInv, Kept
<1>9. ListLimit'
  <2> SUFFICES ASSUME NEW c \in grants'
               PROVE  Cardinality({d \in grants' : d.n <= c.n /\ d.at > c.at - W}) <= Limit
    BY DEF ListLimit, W
  <2>1. \A d \in grants : d.n \in Nat /\ d.n <= calls /\ d.at \in Nat
    BY DEF Past, LimitTypeOK, Call
  <2>2. CASE c \in grants
    <3>1. {d \in grants' : d.n <= c.n /\ d.at > c.at - W}
            = {d \in grants : d.n <= c.n /\ d.at > c.at - W}
      BY <1>2, <2>1, <2>2 DEF LimitTypeOK
    <3> QED BY <1>1, <2>2, <3>1 DEF ListInv, ListLimit
  <2>3. CASE c = This
    <3> DEFINE S == {d \in grants' : d.n <= c.n /\ d.at > c.at - W}
    <3>1. \A d \in S : d \in recent'
      <4> TAKE d \in S
      <4>1. d \in grants' /\ d.at > now - W /\ d.at \in Int /\ now \in Int
        BY <1>2, <2>1, <2>3 DEF LimitTypeOK
      <4> QED BY <1>1, <1>8, <4>1
    <3> HIDE DEF S
    <3>2. S \in SUBSET recent' BY <3>1
    <3>3. Cardinality(S) <= Cardinality(recent') /\ IsFiniteSet(S) BY <1>4, <3>2, FS_Subset
    <3>4. Cardinality(S) \in Nat BY <3>3, FS_CardinalityType
    <3>5. Cardinality(S) <= Limit BY <1>4, <3>3, <3>4
    <3> QED BY <3>5 DEF S
  <2> QED BY <2>2, <2>3
<1>10. ListInv' BY <1>1, <1>4, <1>8, <1>9 DEF ListInv, NoHint, W
<1>11. RedisInv' BY <1>1 DEF RedisInv
<1> QED BY <1>5, <1>6, <1>7, <1>10, <1>11

\* A call that takes none, with the advice it is given.
LEMMA NoPlaceTaken ==
  ASSUME LimitInv, NEW s \in Sites \ {"redis"}, InProcess(s),
         recent' = Kept \/ recent' = recent, grants' = grants,
         \/ hint' = NoHint
         \/ /\ Cardinality(Kept) >= Limit /\ hint' \in Nat
            /\ hint' + Ticks >= Oldest.at + W
  PROVE  LimitInv'
<1> USE LimitAssumption, WType DEF LimitInv
<1>1. site = s /\ calls' = calls + 1 /\ calls + 1 \in 1..MaxCalls
      /\ UNCHANGED <<site, now, members, expireAt, flight>>
  BY DEF InProcess, LimitTypeOK
<1>2. Kept \subseteq recent /\ IsFiniteSet(Kept) /\ Cardinality(Kept) \in Nat
      /\ Cardinality(recent) \in Nat /\ Cardinality(Kept) <= Cardinality(recent)
  BY KeptFinite
<1>3. Kept \subseteq recent' /\ recent' \subseteq recent BY <1>2
<1>4. LimitTypeOK' BY <1>1, <1>3 DEF LimitTypeOK, NoHint
<1>5. Finite' BY <1>1, <1>2 DEF Finite
<1>6. Past' BY <1>1, <1>3 DEF Past, LimitTypeOK, Call
<1>7. ListInv'
  <2>1. Cardinality(recent') <= Limit BY <1>1, <1>2 DEF ListInv
  <2>2. \A c \in grants : now - c.at < W => c \in recent' BY <1>1, <1>3 DEF ListInv, Kept
  <2>3. hint' # NoHint => \E o \in recent' : hint' + Ticks >= o.at + W
    BY <1>3, OldestIsKept
  <2>4. ListLimit' BY <1>1 DEF ListInv, ListLimit, W
  <2> QED BY <1>1, <2>1, <2>2, <2>3, <2>4 DEF ListInv, W
<1>8. RedisInv' BY <1>1 DEF RedisInv
<1> QED BY <1>4, <1>5, <1>6, <1>7, <1>8

\* A call at the sandbox's list or at a key's list keeps the invariant.
LEMMA ListStep ==
  ASSUME LimitInv,
         \/ SandboxCall
         \/ \E funded, withinQuota \in BOOLEAN : KeyCall(funded, withinQuota)
         \/ MiddlewareCall
  PROVE  LimitInv'
<1> USE DEF Sites
<1>0. Cardinality(Kept) \in Nat /\ Limit \in Nat /\ now \in Nat /\ Ticks \in Nat
  BY KeptFinite, LimitAssumption DEF LimitInv, LimitTypeOK
<1>1. CASE SandboxCall
  <2>1. InProcess("sandbox") BY <1>1 DEF SandboxCall
  <2>2. CASE Cardinality(Kept) < Limit /\ Admit
    BY <2>1, <2>2, PlaceTaken DEF Admit
  <2>3. CASE Cardinality(Kept) >= Limit /\ hint' = now + Ticks * RetryIn
             /\ UNCHANGED <<recent, grants>>
    <3>1. hint' \in Nat /\ hint' + Ticks >= Oldest.at + W BY <1>0, <2>3, RetryIsEnough
    <3> QED BY <2>1, <2>3, <3>1, NoPlaceTaken
  <2> QED BY <1>1, <2>2, <2>3 DEF SandboxCall
<1>2. ASSUME NEW funded \in BOOLEAN, NEW withinQuota \in BOOLEAN,
             KeyCall(funded, withinQuota)
      PROVE  LimitInv'
  <2>1. InProcess("key") /\ hint' = NoHint BY <1>2 DEF KeyCall
  <2>2. CASE recent' = Kept \cup {This} /\ KeySlot
             /\ (grants' = grants \/ grants' = grants \cup {This})
    BY <2>1, <2>2, PlaceTaken DEF KeySlot
  <2>3. CASE (recent' = Kept \/ recent' = recent) /\ grants' = grants
    BY <2>1, <2>3, NoPlaceTaken
  <2> QED BY <1>2, <2>2, <2>3 DEF KeyCall
<1>3. CASE MiddlewareCall
  <2>1. InProcess("middleware") BY <1>3 DEF MiddlewareCall
  <2>2. CASE Cardinality(Kept) < Limit /\ Admit
    BY <2>1, <2>2, PlaceTaken DEF Admit
  <2>3. CASE Cardinality(Kept) >= Limit /\ recent' = Kept /\ UNCHANGED grants
             /\ hint' = now + Ticks * (IF RetryIn > 1 THEN RetryIn ELSE 1)
    <3>1. RetryIn \in Nat /\ Ticks * RetryIn \in Nat
          /\ now + Ticks * RetryIn + Ticks >= Oldest.at + W
      BY <2>3, RetryIsEnough
    <3>2. Oldest.at \in Nat
      BY <2>3, OldestIsKept, LimitAssumption DEF LimitInv, LimitTypeOK, Kept, Call
    <3>3. CASE RetryIn > 1
      <4>1. hint' = now + Ticks * RetryIn BY <2>3, <3>3
      <4>2. hint' \in Nat /\ hint' + Ticks >= Oldest.at + W BY <1>0, <3>1, <4>1
      <4> QED BY <2>1, <2>3, <4>2, NoPlaceTaken
    <3>4. CASE ~(RetryIn > 1)
      <4>1. hint' = now + Ticks BY <1>0, <2>3, <3>4
      <4>2. Ticks * RetryIn <= Ticks
        <5>1. RetryIn = 0 \/ RetryIn = 1 BY <3>1, <3>4
        <5> QED BY <1>0, <5>1
      <4>3. hint' \in Nat /\ hint' + Ticks >= Oldest.at + W
        BY <1>0, <3>1, <3>2, <4>1, <4>2, WType
      <4> QED BY <2>1, <2>3, <4>3, NoPlaceTaken
    <3> QED BY <3>3, <3>4
  <2> QED BY <1>3, <2>2, <2>3 DEF MiddlewareCall
<1> QED BY <1>1, <1>2, <1>3

-------------------------------------------------------------------------------
(* The sorted set in Redis.                                                  *)

\* The instants whose calls were let through, in a window that ends with t.
Instants(t) == {u \in {c.at : c \in grants} : u <= t /\ u > t - (W - Skew)}

\* An instance that reads the clock keeps it: nothing is trimmed yet.
LEMMA ReadClockStep ==
  ASSUME LimitInv, NEW i \in Instances, ReadClock(i)
  PROVE  LimitInv'
<1> USE LimitAssumption, WType DEF LimitInv, ReadClock
<1>1. LimitTypeOK' BY DEF LimitTypeOK
<1>2. Finite' /\ Past' /\ ListInv' BY DEF Finite, Past, ListInv
<1>3. RedisLimit' BY DEF RedisInv, RedisLimit, W
<1>4. \A j \in Instances : flight'[j] # Idle => flight'[j] <= now' /\ now' - flight'[j] <= Skew
  BY DEF LimitTypeOK, RedisInv
<1>5. RedisInv' BY <1>3, <1>4 DEF RedisInv, W
<1> QED BY <1>1, <1>2, <1>5

\* Whatever clock it trims by, a transaction counts every instant of the window that ends
\* with its own time, shortened by the time it was under way.
LEMMA TransactKeepsLimit ==
  ASSUME LimitInv, NEW i \in Instances, Transact(i),
         NEW kept, kept = {t \in members : t > flight[i] - W},
         Cardinality(kept) < Limit,
         \A c \in grants' : c \in grants \/ c.at = flight[i],
         grants \subseteq grants'
  PROVE  RedisLimit'
<1> USE LimitAssumption, WType
<1> DEFINE at == flight[i]
<1>1. site = "redis" /\ at \in 0..MaxTime /\ at <= now /\ now - at <= Skew /\ now \in Nat
  BY DEF Transact, LimitInv, LimitTypeOK, RedisInv
<1>2. \A c \in grants : c.at \in Nat /\ c.at <= now
  BY DEF LimitInv, LimitTypeOK, Past, Call
<1>3. IsFiniteSet(kept) /\ Cardinality(kept) \in Nat
  <2>1. kept \in SUBSET members OBVIOUS
  <2> QED BY <2>1, FS_Subset, FS_CardinalityType DEF LimitInv, Finite
<1>4. IsFiniteSet(kept \cup {at}) /\ Cardinality(kept \cup {at}) <= Limit
      /\ Cardinality(kept \cup {at}) \in Nat
  <2>1. IsFiniteSet(kept \cup {at}) /\ Cardinality(kept \cup {at}) =
           IF at \in kept THEN Cardinality(kept) ELSE Cardinality(kept) + 1
    BY <1>3, FS_AddElement
  <2>2. Cardinality(kept) + 1 <= Limit BY <1>3
  <2> QED BY <1>3, <2>1, <2>2
<1>5. SUFFICES ASSUME NEW t \in 0..MaxTime PROVE Cardinality(Instants(t)') <= Limit
  BY DEF RedisLimit, Instants
<1>6. Instants(t)' = {u \in {c.at : c \in grants'} : u <= t /\ u > t - (W - Skew)}
  BY DEF Instants, W
<1>7. \A u \in Instants(t)' : u \in Instants(t) \/ u = at
  BY <1>6 DEF Instants
<1>8. CASE at \notin Instants(t)'
  <2>1. Instants(t)' = Instants(t) BY <1>6, <1>7, <1>8 DEF Instants
  <2> QED BY <1>1, <2>1 DEF LimitInv, RedisInv, RedisLimit, Instants
<1>9. CASE at \in Instants(t)'
  <2>1. at <= t BY <1>6, <1>9
  <2>2. \A u \in Instants(t)' : u \in kept \cup {at}
    <3> SUFFICES ASSUME NEW u \in Instants(t)', u # at PROVE u \in kept
      OBVIOUS
    <3>1. PICK c \in grants : c.at = u BY <1>7 DEF Instants
    <3>2. u > t - (W - Skew) BY <1>6
    <3>3. now - u < W /\ u > at - W
      BY <1>1, <1>2, <2>1, <3>1, <3>2
    <3>4. u \in members BY <1>1, <3>1, <3>3 DEF LimitInv, RedisInv
    <3> QED BY <3>3, <3>4
  <2>3. Instants(t)' \in SUBSET (kept \cup {at}) BY <2>2
  <2>4. IsFiniteSet(Instants(t)') /\ Cardinality(Instants(t)') <= Cardinality(kept \cup {at})
    BY <1>4, <2>3, FS_Subset
  <2>5. Cardinality(Instants(t)') \in Nat BY <2>4, FS_CardinalityType
  <2> QED BY <1>4, <2>4, <2>5
<1> QED BY <1>8, <1>9

\* The transaction of an instance keeps it, with the clock it read before.
LEMMA TransactStep ==
  ASSUME LimitInv, NEW i \in Instances, Transact(i)
  PROVE  LimitInv'
<1> USE LimitAssumption, WType
<1> DEFINE at == flight[i]
           kept == {t \in members : t > at - W}
           granted == Cardinality(kept) < Limit /\ hint' = NoHint
                      /\ grants' = grants \cup {[n |-> calls + 1, at |-> at]}
           refused == hint' = now + W /\ grants' = grants
<1>1. site = "redis" /\ at # Idle /\ calls' = calls + 1 /\ calls < MaxCalls
      /\ members' = kept \cup {at} /\ expireAt' = now + W + Ticks
      /\ flight' = [flight EXCEPT ![i] = Idle] /\ UNCHANGED <<site, now, recent>>
      /\ (granted \/ refused)
  BY DEF Transact
<1>2. at \in 0..MaxTime /\ at <= now /\ now - at <= Skew /\ now \in Nat /\ calls \in Nat
      /\ calls + 1 \in 1..MaxCalls
  BY <1>1 DEF LimitInv, LimitTypeOK, RedisInv
<1>3. \A c \in grants' : c \in grants \/ (c \in Call /\ c.n = calls + 1 /\ c.at = at)
  BY <1>1, <1>2 DEF Call
<1>4. \A c \in grants : c \in Call /\ c.n \in Nat /\ c.at \in Nat /\ c.n <= calls /\ c.at <= now
  BY DEF LimitInv, LimitTypeOK, Past, Call
<1>5. hint' \in Nat \cup {NoHint} BY <1>1, <1>2 DEF NoHint
<1>6. kept \subseteq members OBVIOUS
<1>7. RedisLimit'
  <2>1. CASE granted
    <3>1. grants \subseteq grants' BY <2>1
    <3> QED BY <1>3, <2>1, <3>1, TransactKeepsLimit
  <2>2. CASE refused BY <1>1, <2>2 DEF LimitInv, RedisInv, RedisLimit, W
  <2> QED BY <1>1, <2>1, <2>2
<1>8. \A c \in grants' : now - c.at < W => c.at \in members'
  BY <1>1, <1>2, <1>3, <1>4 DEF LimitInv, RedisInv
<1>9. hint' # NoHint => hint' + Ticks = expireAt' BY <1>1, <1>2 DEF NoHint
<1> HIDE DEF granted, refused
<1>10. LimitTypeOK'
  <2>1. grants' \subseteq Call BY <1>3, <1>4
  <2>2. members' \subseteq 0..MaxTime BY <1>1, <1>2, <1>6 DEF LimitInv, LimitTypeOK
  <2>3. flight' \in [Instances -> {Idle} \cup 0..MaxTime] BY <1>1 DEF LimitInv, LimitTypeOK
  <2> HIDE DEF kept, at
  <2> QED BY <1>1, <1>2, <1>5, <2>1, <2>2, <2>3 DEF LimitInv, LimitTypeOK
<1>11. Finite'
  <2>1. kept \in SUBSET members BY <1>6
  <2>2. IsFiniteSet(kept) BY <2>1, FS_Subset DEF LimitInv, Finite
  <2> QED BY <1>1, <2>2, FS_AddElement DEF LimitInv, Finite
<1>12. Past'
  <2>1. \A c \in recent : c.n \in Nat /\ c.n <= calls /\ c.at <= now
    BY DEF LimitInv, LimitTypeOK, Past, Call
  <2> HIDE DEF kept, at
  <2> QED BY <1>1, <1>2, <1>3, <1>4, <2>1 DEF Past
<1>13. ListInv' BY <1>1 DEF ListInv
<1>14. RedisInv'
  <2>1. \A j \in Instances :
          flight'[j] # Idle => flight'[j] <= now' /\ now' - flight'[j] <= Skew
    BY <1>1 DEF LimitInv, LimitTypeOK, RedisInv
  <2>2. \A c \in grants' : c.at + W + Ticks <= expireAt'
    BY <1>1, <1>2, <1>3, <1>4
  <2>3. now' < expireAt' BY <1>1, <1>2
  <2> HIDE DEF kept, at
  <2> QED BY <1>1, <1>7, <1>8, <1>9, <2>1, <2>2, <2>3 DEF RedisInv, W
<1> QED BY <1>10, <1>11, <1>12, <1>13, <1>14 DEF LimitInv

\* Time that passes takes calls out of the window and may let the key expire.
LEMMA TickStep ==
  ASSUME LimitInv, Tick
  PROVE  LimitInv'
<1> USE LimitAssumption, WType DEF LimitInv
<1>1. now \in Nat /\ now' = now + 1 /\ now < MaxTime
      /\ UNCHANGED <<site, calls, recent, expireAt, flight, grants, hint>>
      /\ members' = IF now + 1 >= expireAt THEN {} ELSE members
  BY DEF Tick, LimitTypeOK
<1>2. \A c \in grants \cup recent : c.at \in Nat /\ c.n \in Nat /\ c.at <= now
  BY DEF LimitTypeOK, Past, Call
<1>3. LimitTypeOK'
  <2>1. members' \subseteq 0..MaxTime BY <1>1 DEF LimitTypeOK
  <2>2. now' \in 0..MaxTime BY <1>1
  <2> QED BY <1>1, <2>1, <2>2 DEF LimitTypeOK
<1>4. Finite' BY <1>1, FS_EmptySet DEF Finite
<1>5. Past' BY <1>1, <1>2 DEF Past
<1>6. ListInv' BY <1>1, <1>2 DEF ListInv, ListLimit, W
<1>7. ASSUME site = "redis" PROVE RedisInv'
  <2>1. \A j \in Instances :
          flight'[j] # Idle => flight'[j] <= now' /\ now' - flight'[j] <= Skew
    BY <1>1, <1>7 DEF Tick, LimitTypeOK, RedisInv, Idle
  <2>2. \A c \in grants : now' - c.at < W => c.at \in members'
    <3> SUFFICES ASSUME NEW c \in grants, now' - c.at < W PROVE c.at \in members'
      OBVIOUS
    <3>1. c.at \in members /\ c.at + W + Ticks <= expireAt BY <1>1, <1>2, <1>7 DEF RedisInv
    <3>2. now + 1 < expireAt BY <1>1, <1>2, <3>1 DEF LimitTypeOK
    <3> QED BY <1>1, <3>1, <3>2 DEF LimitTypeOK
  <2>3. members' # {} => now' < expireAt' BY <1>1 DEF LimitTypeOK
  <2>4. RedisLimit' BY <1>1, <1>7 DEF RedisInv, RedisLimit, W
  <2> QED BY <1>1, <1>7, <2>1, <2>2, <2>3, <2>4 DEF RedisInv, W
<1>8. ASSUME site # "redis" PROVE RedisInv'
  BY <1>1, <1>8 DEF RedisInv
<1> QED BY <1>3, <1>4, <1>5, <1>6, <1>7, <1>8

-------------------------------------------------------------------------------

\* The oldest call is out of the window once the advised wait is over.
LEMMA RoomAfterWait == LimitInv => RetryFindsRoom
<1> SUFFICES ASSUME LimitInv, hint # NoHint, now >= hint + Ticks
    PROVE IF site = "redis" THEN Cardinality({t \in members : t > now - W}) < Limit
          ELSE Cardinality(Kept) < Limit
  BY DEF RetryFindsRoom
<1> USE LimitAssumption, WType DEF LimitInv
<1>1. now \in Nat /\ hint \in Nat /\ expireAt \in Nat BY DEF LimitTypeOK
<1>2. CASE site = "redis"
  <2>1. members = {} BY <1>1, <1>2 DEF RedisInv
  <2>2. {t \in members : t > now - W} = {} BY <2>1
  <2> QED BY <1>2, <2>2, FS_EmptySet
<1>3. CASE site # "redis"
  <2>1. PICK o \in recent : hint + Ticks >= o.at + W BY <1>3 DEF ListInv
  <2>2. o.at \in Nat BY DEF LimitTypeOK, Call
  <2>3. o \notin Kept BY <1>1, <2>1, <2>2 DEF Kept
  <2>4. Kept \in SUBSET (recent \ {o}) BY <2>3, KeptFinite
  <2>5. IsFiniteSet(recent \ {o}) /\ Cardinality(recent \ {o}) = Cardinality(recent) - 1
    BY FS_RemoveElement DEF Finite
  <2>6. Cardinality(Kept) <= Cardinality(recent \ {o}) BY <2>4, <2>5, FS_Subset
  <2> QED BY <1>3, <2>5, <2>6, KeptFinite DEF ListInv
<1> QED BY <1>2, <1>3


\* The invariant of the limiters.
LEMMA LimitInvariance == LimitSpec => []LimitInv
<1>1. LimitInv /\ [LimitNext]_limitVars => LimitInv'
  <2> SUFFICES ASSUME LimitInv, [LimitNext]_limitVars PROVE LimitInv'
    OBVIOUS
  <2>1. CASE UNCHANGED limitVars
    BY <2>1 DEF limitVars, LimitInv, LimitTypeOK, Finite, Past, ListInv, ListLimit, RedisInv,
                RedisLimit, W
  <2> QED BY <2>1, TickStep, ListStep, ReadClockStep, TransactStep DEF LimitNext
<1> QED BY LimitInitInv, <1>1, PTL DEF LimitSpec

\* enforce_sandbox_limit, check_rate_limit of a key, RateLimitMiddleware and the limiter in
\* Redis: no window admits more than the limit, and the advised wait is long enough.
THEOREM LimitersAreSound == LimitSpec => []LimiterSound
<1>1. LimitInv => LimiterSound
  BY RoomAfterWait DEF LimitInv, ListInv, RedisInv, LimiterSound, LimitHolds
<1> QED BY <1>1, LimitInvariance, PTL
===============================================================================
