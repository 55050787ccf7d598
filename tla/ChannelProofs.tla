----------------------------- MODULE ChannelProofs -----------------------------
(***************************************************************************)
(* Proofs about ChannelClaims and ChannelSettler.                           *)
(***************************************************************************)
EXTENDS ChannelSettler, TLAPS

-------------------------------------------------------------------------------
(* The invariant.                                                            *)

\* A channel none of whose claims were checked at once has one claim in check, which
\* exceeds the totals before it, and these grow from what was served to what is
\* claimed.
OneByOne(c) ==
  /\ served[c] <= voucher[c] /\ voucher[c] <= claimed[c]
  /\ \A r \in InCheck : Chan(r) = c =>
       /\ \A q \in InCheck : Chan(q) = c => q = r
       /\ req[r].pc = "verify" => req[r].amt >= claimed[c] + req[r].price
       /\ req[r].pc = "save" => req[r].amt = claimed[c] /\ req[r].amt >= voucher[c] + req[r].price

ClaimsInv == \A c \in Channels \ overlapped : OneByOne(c)

\* Transactions in the ledger's queue that nobody awaits.
Lost == IF settler.pc = "await" THEN Len(pending) - 1 ELSE Len(pending)

\* The awaited transaction is the last in the queue; each lost one cost a fault; what
\* is about to be recorded was redeemed.
SettlerInv ==
  /\ settler.pc = "await" => Len(pending) > 0 /\ pending[Len(pending)] = settler.tx
  /\ settler.pc = "redeemed" => settler.tx.to # Vault /\ settler.tx.amt <= redeemed[settler.tx.to]
  /\ settler.pc = "pay" => settler.tx.to = Vault
  /\ Lost <= faults
  /\ SettledWasRedeemed

\* The sweep tx leaves the reserve and the margin of the present balance.
Exact(tx) == wallet = tx.amt + Reserve + Margin

Sweeping == settler.pc = "pay" \/ (settler.pc = "await" /\ settler.tx.to = Vault)

\* With one fault at most, a sweep that was lost is still exact, and one in hand is
\* exact, or the lost transaction came first and left enough or too little for it.
SweepInv ==
  faults <= 1 =>
    /\ (Lost = 1 /\ Head(pending).to = Vault) => Exact(Head(pending))
    /\ Sweeping =>
         /\ settler.tx.amt > Reserve + Margin
         /\ \/ Exact(settler.tx)
            \/ /\ Lost = 0 /\ faults = 1
               /\ wallet + Fee >= settler.tx.amt + Reserve + Margin \/ wallet < settler.tx.amt + Fee

IInv == TypeOK /\ ClaimsInv /\ SettlerInv /\ SweepInv

-------------------------------------------------------------------------------
(* Types.                                                                    *)

\* A request that moves keeps its client.
LEMMA ReqType ==
  ASSUME ClaimsTypeOK, NEW r \in Requests,
         NEW pc \in {"new", "sent", "verify", "save", "served", "refused", "failed"}, NEW held \in BOOLEAN,
         req' = [req EXCEPT ![r].pc = pc, ![r].held = held]
  PROVE  req' \in [Requests -> RequestRecord]
<1>1. [req[r] EXCEPT !.pc = pc, !.held = held] \in RequestRecord BY DEF ClaimsTypeOK, RequestRecord
<1> QED BY <1>1 DEF ClaimsTypeOK

\* Every request is paid over a channel.
LEMMA ChanType == ASSUME ClaimsTypeOK, NEW r \in Requests PROVE Chan(r) \in Channels
  BY DEF ClaimsTypeOK, RequestRecord, Chan

\* The fields of a request.
LEMMA RequestType ==
  ASSUME ClaimsTypeOK, NEW r \in Requests
  PROVE  req[r].by \in Payers /\ req[r].amt \in Nat /\ req[r].price \in Nat
<1>1. req[r] \in RequestRecord BY DEF ClaimsTypeOK
<1>2. req[r].by \in Payers /\ req[r].amt \in Nat BY <1>1 DEF RequestRecord
<1>3. req[r].price \in Prices \cup {0} BY <1>1 DEF RequestRecord
<1>4. req[r].price \in Nat BY <1>3, PriceAssumption
<1> QED BY <1>2, <1>4

\* A client that signs a larger total keeps the types.
LEMMA SendType ==
  ASSUME ClaimsTypeOK, NEW r \in Requests, NEW cost \in Prices, NEW price \in Prices, Send(r, cost, price)
  PROVE  ClaimsTypeOK'
<1> DEFINE p == req[r].by
           total == payer[p].signed + cost
<1>1. p \in Payers /\ payer[p] \in [chan : Channels, signed : Nat] BY RequestType DEF ClaimsTypeOK
<1>2. total \in Nat BY <1>1, PriceAssumption
<1>3. payer' \in [Payers -> [chan : Channels, signed : Nat]] BY <1>1, <1>2 DEF Send, ClaimsTypeOK
<1>4. [req[r] EXCEPT !.pc = "sent", !.amt = total, !.price = price, !.held = TRUE] \in RequestRecord
  BY <1>2 DEF ClaimsTypeOK, RequestRecord
<1>5. req' = [req EXCEPT ![r] = [req[r] EXCEPT !.pc = "sent", !.amt = total, !.price = price, !.held = TRUE]]
  BY DEF Send, ClaimsTypeOK, RequestRecord
<1>6. req' \in [Requests -> RequestRecord] BY <1>4, <1>5 DEF ClaimsTypeOK
<1> QED BY <1>3, <1>6 DEF Send, ClaimsTypeOK

\* So does a request that goes on to its next step.
LEMMA MoveType ==
  ASSUME ClaimsTypeOK, NEW r \in Requests, NEW pc \in {"verify", "save"},
         req' = [req EXCEPT ![r].pc = pc]
  PROVE  req' \in [Requests -> RequestRecord]
<1>1. [req[r] EXCEPT !.pc = pc] \in RequestRecord BY DEF ClaimsTypeOK, RequestRecord
<1> QED BY <1>1 DEF ClaimsTypeOK

\* Every step of the claims keeps their types.
LEMMA ClaimsType == ASSUME ClaimsTypeOK, ClaimsNext PROVE ClaimsTypeOK'
<1>1. ASSUME NEW r \in Requests, NEW price \in Prices, Call(r, price) PROVE ClaimsTypeOK'
  BY <1>1, SendType DEF Call
<1>2. ASSUME NEW r \in Requests, NEW cost \in Prices, NEW price \in Prices, CallTool(r, cost, price)
      PROVE  ClaimsTypeOK'
  BY <1>2, SendType DEF CallTool
<1>3. ASSUME NEW r \in Requests, GiveUp(r) PROVE ClaimsTypeOK'
  <2>1. req' \in [Requests -> RequestRecord] BY <1>3 DEF GiveUp, ClaimsTypeOK, RequestRecord
  <2> QED BY <1>3, <2>1 DEF GiveUp, Fault, ClaimsTypeOK
<1>4. ASSUME NEW r \in Requests, CheckDelta(r) PROVE ClaimsTypeOK'
  <2>1. req' \in [Requests -> RequestRecord] BY <1>4, MoveType DEF CheckDelta
  <2>2. overlapped' \in SUBSET Channels BY <1>4, ChanType DEF CheckDelta, ClaimsTypeOK
  <2> QED BY <1>4, <2>1, <2>2 DEF CheckDelta, ClaimsTypeOK
<1>5. ASSUME NEW r \in Requests, RefuseDelta(r) \/ RefuseSignature(r) PROVE ClaimsTypeOK'
  <2>1. req' \in [Requests -> RequestRecord] BY <1>5, ReqType DEF RefuseDelta, RefuseSignature, Answer
  <2> QED BY <1>5, <2>1 DEF RefuseDelta, RefuseSignature, ClaimsTypeOK
<1>6. ASSUME NEW r \in Requests, Consume(r) PROVE ClaimsTypeOK'
  <2>1. req' \in [Requests -> RequestRecord] BY <1>6, MoveType DEF Consume
  <2>2. claimed' \in [Channels -> Nat] BY <1>6, RequestType DEF Consume, ClaimsTypeOK
  <2> QED BY <1>6, <2>1, <2>2 DEF Consume, ClaimsTypeOK
<1>7. ASSUME NEW r \in Requests, Admit(r) PROVE ClaimsTypeOK'
  <2>1. req' \in [Requests -> RequestRecord] BY <1>7, ReqType DEF Admit, Answer
  <2>2. voucher' \in [Channels -> Nat] BY <1>7, RequestType DEF Admit, ClaimsTypeOK
  <2>3. served' \in [Channels -> Nat]
    <3>1. Chan(r) \in Channels /\ req[r].price \in Nat BY ChanType, RequestType
    <3>2. served[Chan(r)] + req[r].price \in Nat BY <3>1 DEF ClaimsTypeOK
    <3> QED BY <1>7, <3>2 DEF Admit, ClaimsTypeOK
  <2> QED BY <1>7, <2>1, <2>2, <2>3 DEF Admit, ClaimsTypeOK
<1>8. ASSUME NEW r \in Requests, Fail(r) PROVE ClaimsTypeOK'
  <2>1. req' \in [Requests -> RequestRecord] BY <1>8, ReqType DEF Fail, Answer
  <2>2. claimed' \in [Channels -> Nat] /\ voucher' \in [Channels -> Nat]
    BY <1>8, RequestType DEF Fail, ClaimsTypeOK
  <2> QED BY <1>8, <2>1, <2>2 DEF Fail, Fault, ClaimsTypeOK
<1>9. CASE GatewayRestarts
  <2>1. req' \in [Requests -> RequestRecord]
    <3>1. \A r \in Requests : [req[r] EXCEPT !.pc = "failed", !.held = FALSE] \in RequestRecord
      BY DEF ClaimsTypeOK, RequestRecord
    <3>2. req \in [Requests -> RequestRecord] BY DEF ClaimsTypeOK
    <3> QED BY <1>9, <3>1, <3>2 DEF GatewayRestarts
  <2>2. UNCHANGED <<payer, claimed, voucher, served, overlapped>> /\ faults' = faults + 1
    BY <1>9 DEF GatewayRestarts, Fault
  <2> QED BY <2>1, <2>2 DEF ClaimsTypeOK
<1> QED BY <1>1, <1>2, <1>3, <1>4, <1>5, <1>6, <1>7, <1>8, <1>9 DEF ClaimsNext

\* The fields of the settler.
LEMMA SettlerType ==
  ASSUME TypeOK
  PROVE  /\ settler.pc \in {"sleep", "scan", "await", "redeemed", "balance", "pay"}
         /\ settler.todo \in SUBSET Channels /\ settler.tx \in Tx
         /\ settler.tx.to \in Channels \cup {Vault} /\ settler.tx.amt \in Nat
         /\ settler = [pc |-> settler.pc, todo |-> settler.todo, tx |-> settler.tx]
  BY DEF TypeOK, Tx

\* The head of the queue and what is behind it.
LEMMA QueueType ==
  ASSUME TypeOK, pending # <<>>
  PROVE  /\ Head(pending) \in Tx /\ Tail(pending) \in Seq(Tx)
         /\ Len(pending) \in Nat \ {0} /\ Len(Tail(pending)) = Len(pending) - 1
         /\ Head(pending) = pending[1]
         /\ Len(pending) > 1 => Head(Tail(pending)) = pending[2]
                                /\ Tail(pending)[Len(pending) - 1] = pending[Len(pending)]
  BY DEF TypeOK

\* The settler goes on with its channels after a transaction.
LEMMA CarryType == ASSUME TypeOK, NEW tx \in Tx PROVE Carry(tx) \in [pc : {"sleep", "scan"}, todo : SUBSET Channels, tx : Tx]
  BY SettlerType DEF Carry, Asleep, Tx

\* Every step keeps the types.
LEMMA TypeStep == TypeOK /\ [Next]_vars => TypeOK'
<1> SUFFICES ASSUME TypeOK, [Next]_vars PROVE TypeOK'
  OBVIOUS
<1> USE SettlerType
<1>1. CASE ClaimsNext /\ UNCHANGED settlerVars
  BY <1>1, ClaimsType DEF settlerVars, TypeOK
<1>2. CASE Wake
  BY <1>2 DEF Wake, claimVars, TypeOK, ClaimsTypeOK
<1>3. ASSUME NEW c \in Channels, Skip(c) PROVE TypeOK'
  BY <1>3 DEF Skip, claimVars, TypeOK, ClaimsTypeOK
<1>4. ASSUME NEW c \in Channels, SubmitClaim(c) PROVE TypeOK'
  <2>1. [to |-> c, amt |-> voucher[c]] \in Tx BY DEF Tx, TypeOK, ClaimsTypeOK
  <2>2. pending' \in Seq(Tx) BY <1>4, <2>1 DEF SubmitClaim, TypeOK
  <2> QED BY <1>4, <2>1, <2>2 DEF SubmitClaim, claimVars, TypeOK, ClaimsTypeOK
<1>5. CASE Record
  <2>1. settled' \in [Channels -> Nat] BY <1>5 DEF Record, TypeOK
  <2> QED BY <1>5, <2>1 DEF Record, claimVars, TypeOK, ClaimsTypeOK
<1>6. CASE EndScan
  BY <1>6 DEF EndScan, claimVars, TypeOK, ClaimsTypeOK
<1>7. CASE ReadBalance
  <2>1. Asleep \in [pc : {"sleep"}, todo : SUBSET Channels, tx : Tx] BY DEF Asleep, Tx
  <2>2. Excess >= SweepThreshold => [to |-> Vault, amt |-> Excess - Margin] \in Tx
    BY WalletAssumption DEF Excess, Tx, TypeOK
  <2> QED BY <1>7, <2>1, <2>2 DEF ReadBalance, claimVars, TypeOK, ClaimsTypeOK
<1>8. CASE SubmitSweep
  <2>1. pending' \in Seq(Tx) BY <1>8 DEF SubmitSweep, TypeOK
  <2> QED BY <1>8, <2>1 DEF SubmitSweep, claimVars, TypeOK, ClaimsTypeOK
<1>9. CASE StepFails
  <2>1. settler' \in [pc : {"sleep", "scan"}, todo : SUBSET Channels, tx : Tx]
    <3>1. CASE settler' = Carry(settler.tx) BY <3>1, CarryType
    <3>2. CASE \E c \in settler.todo : settler' = [settler EXCEPT !.todo = @ \ {c}] /\ settler.pc = "scan"
      BY <3>2 DEF TypeOK
    <3> QED BY <1>9, <3>1, <3>2 DEF StepFails
  <2>2. /\ UNCHANGED <<payer, req, claimed, voucher, served, overlapped, settled, redeemed, wallet, pending>>
        /\ faults' = faults + 1
    BY <1>9 DEF StepFails, Fault
  <2>3. ClaimsTypeOK' BY <2>2 DEF TypeOK, ClaimsTypeOK
  <2>4. settler' \in [pc : {"sleep", "scan", "await", "redeemed", "balance", "pay"},
                      todo : SUBSET Channels, tx : Tx]
    BY <2>1
  <2> QED BY <2>2, <2>3, <2>4 DEF TypeOK
<1>10. CASE CycleFails
  <2>1. Asleep \in [pc : {"sleep"}, todo : SUBSET Channels, tx : Tx] BY DEF Asleep, Tx
  <2>2. /\ UNCHANGED <<payer, req, claimed, voucher, served, overlapped, settled, redeemed, wallet, pending>>
        /\ settler' = Asleep /\ faults' = faults + 1
    BY <1>10 DEF CycleFails, Fault
  <2>3. ClaimsTypeOK' BY <2>2 DEF TypeOK, ClaimsTypeOK
  <2>4. settler' \in [pc : {"sleep", "scan", "await", "redeemed", "balance", "pay"},
                      todo : SUBSET Channels, tx : Tx]
    BY <2>1, <2>2
  <2> QED BY <2>2, <2>3, <2>4 DEF TypeOK
<1>11. CASE Apply
  <2> DEFINE tx == Head(pending)
  <2>1. tx \in Tx /\ Tail(pending) \in Seq(Tx) /\ tx.amt \in Nat BY <1>11, QueueType DEF Apply, Tx
  <2>2. Redeems(tx) => tx.to \in Channels /\ redeemed[tx.to] \in Nat /\ redeemed[tx.to] < tx.amt
    BY <2>1 DEF Redeems, Tx, TypeOK
  <2>3. wallet' \in Nat
    <3>1. wallet \in Nat /\ Fee \in Nat /\ wallet >= Fee BY <1>11, WalletAssumption DEF Apply, TypeOK
    <3>2. CASE Redeems(tx)
      <4>1. wallet' = wallet - Fee + (tx.amt - redeemed[tx.to]) BY <1>11, <3>2 DEF Apply
      <4> QED BY <2>1, <2>2, <3>1, <3>2, <4>1
    <3>3. CASE ~Redeems(tx) /\ Sweeps(tx)
      <4>1. wallet' = wallet - Fee + (0 - tx.amt) BY <1>11, <3>3 DEF Apply
      <4>2. tx.amt + Fee <= wallet BY <3>3 DEF Sweeps
      <4> QED BY <2>1, <3>1, <4>1, <4>2
    <3>4. CASE ~Redeems(tx) /\ ~Sweeps(tx)
      <4>1. wallet' = wallet - Fee + 0 BY <1>11, <3>4 DEF Apply
      <4> QED BY <3>1, <4>1
    <3> QED BY <3>2, <3>3, <3>4
  <2>4. redeemed' \in [Channels -> Nat] BY <1>11, <2>1, <2>2 DEF Apply, TypeOK
  <2>5. settler' \in [pc : {"sleep", "scan", "await", "redeemed", "balance", "pay"},
                      todo : SUBSET Channels, tx : Tx]
    BY <1>11, <2>1, CarryType DEF Apply
  <2> QED BY <1>11, <2>1, <2>3, <2>4, <2>5 DEF Apply, claimVars, TypeOK, ClaimsTypeOK
<1>12. CASE Expire
  <2>1. Tail(pending) \in Seq(Tx) /\ Head(pending) \in Tx BY <1>12, QueueType DEF Expire
  <2>2. settler' \in [pc : {"sleep", "scan", "await", "redeemed", "balance", "pay"},
                      todo : SUBSET Channels, tx : Tx]
    BY <1>12, <2>1, CarryType DEF Expire
  <2>3. faults' \in Nat BY <1>12 DEF Expire, Fault, TypeOK, ClaimsTypeOK
  <2> QED BY <1>12, <2>1, <2>2, <2>3 DEF Expire, TypeOK, ClaimsTypeOK
<1>13. CASE UNCHANGED vars
  BY <1>13 DEF vars, claimVars, settlerVars, TypeOK, ClaimsTypeOK
<1> QED
  BY <1>1, <1>2, <1>3, <1>4, <1>5, <1>6, <1>7, <1>8, <1>9, <1>10, <1>11, <1>12, <1>13 DEF Next, SettlerStep

\* The initial states are of the types.
LEMMA TypeInit == Init => TypeOK
<1> SUFFICES ASSUME Init PROVE TypeOK
  OBVIOUS
<1>1. payer \in [Payers -> [chan : Channels, signed : Nat]] BY StartAssumption DEF Init, ClaimsInit
<1>2. \A p \in Payers : [pc |-> "new", by |-> p, amt |-> 0, price |-> 0, held |-> FALSE] \in RequestRecord
  BY DEF RequestRecord
<1>3. req \in [Requests -> RequestRecord] BY <1>2 DEF Init, ClaimsInit
<1> QED BY <1>1, <1>3, WalletAssumption DEF Init, ClaimsInit, Asleep, Tx, TypeOK, ClaimsTypeOK

-------------------------------------------------------------------------------
(* The claims.                                                               *)

\* What OneByOne reads of request q stays.
SameClaim(q) ==
  req'[q].pc = req[q].pc /\ req'[q].amt = req[q].amt /\ req'[q].price = req[q].price /\ Chan(q)' = Chan(q)

SameTotals(c) == claimed'[c] = claimed[c] /\ voucher'[c] = voucher[c] /\ served'[c] = served[c]

\* A channel that gets no claim into check, and whose totals stay.
LEMMA Calm ==
  ASSUME NEW c \in Channels, OneByOne(c), SameTotals(c),
         \A q \in InCheck' : Chan(q)' = c => q \in InCheck /\ SameClaim(q)
  PROVE  OneByOne(c)'
<1>1. ASSUME NEW r \in InCheck', Chan(r)' = c
      PROVE  /\ \A q \in InCheck' : Chan(q)' = c => q = r
             /\ req'[r].pc = "verify" => req'[r].amt >= claimed'[c] + req'[r].price
             /\ req'[r].pc = "save" => req'[r].amt = claimed'[c] /\ req'[r].amt >= voucher'[c] + req'[r].price
  <2>1. r \in InCheck /\ SameClaim(r) /\ Chan(r) = c BY <1>1 DEF SameClaim
  <2>2. \A q \in InCheck' : Chan(q)' = c => q \in InCheck /\ Chan(q) = c BY DEF SameClaim
  <2> QED BY <2>1, <2>2 DEF OneByOne, SameClaim, SameTotals
<1>2. served'[c] <= voucher'[c] /\ voucher'[c] <= claimed'[c] BY DEF OneByOne, SameTotals
<1> QED BY <1>1, <1>2 DEF OneByOne

\* A step of request r that leaves the clients' channels alone.
StepOf(r, pc) ==
  /\ \A q \in Requests : q # r => req'[q] = req[q]
  /\ req'[r].pc = pc /\ req'[r].amt = req[r].amt /\ req'[r].price = req[r].price
  /\ \A q \in Requests : Chan(q)' = Chan(q)

\* An answer or a next step of a request changes nothing else of the requests.
LEMMA Moves ==
  ASSUME ClaimsTypeOK, NEW r \in Requests, NEW pc, payer' = payer,
         Answer(r, pc) \/ req' = [req EXCEPT ![r].pc = pc]
  PROVE  StepOf(r, pc)
<1>1. req'[r].pc = pc /\ req'[r].amt = req[r].amt /\ req'[r].price = req[r].price /\ req'[r].by = req[r].by
  BY DEF ClaimsTypeOK, RequestRecord, Answer
<1>2. \A q \in Requests : q # r => req'[q] = req[q] BY DEF ClaimsTypeOK, Answer
<1>3. \A q \in Requests : Chan(q)' = Chan(q) BY <1>1, <1>2 DEF Chan
<1> QED BY <1>1, <1>2, <1>3 DEF StepOf

\* A request that leaves the checks, or stays out of them.
LEMMA Leaves ==
  ASSUME NEW c \in Channels, OneByOne(c), SameTotals(c), NEW r \in Requests,
         NEW pc \in {"new", "sent", "served", "refused", "failed"}, StepOf(r, pc)
  PROVE  OneByOne(c)'
<1>1. ASSUME NEW q \in InCheck', Chan(q)' = c PROVE q \in InCheck /\ SameClaim(q)
  <2>1. q \in Requests /\ req'[q].pc \in {"verify", "save"} BY <1>1 DEF InCheck
  <2>2. q # r BY <2>1 DEF StepOf
  <2> QED BY <2>1, <2>2 DEF StepOf, InCheck, SameClaim
<1> QED BY <1>1, Calm

\* A step of a request of another channel.
LEMMA Elsewhere ==
  ASSUME NEW c \in Channels, OneByOne(c), SameTotals(c), NEW r \in Requests, NEW pc, StepOf(r, pc), Chan(r) # c
  PROVE  OneByOne(c)'
<1>1. ASSUME NEW q \in InCheck', Chan(q)' = c PROVE q \in InCheck /\ SameClaim(q)
  <2>1. q \in Requests /\ req'[q].pc \in {"verify", "save"} BY <1>1 DEF InCheck
  <2>2. q # r BY <1>1, <2>1 DEF StepOf
  <2> QED BY <2>1, <2>2 DEF StepOf, InCheck, SameClaim
<1> QED BY <1>1, Calm

\* A new claim is more than what its client signed before.
LEMMA SendClaims ==
  ASSUME ClaimsTypeOK, NEW r \in Requests, NEW cost, NEW price, Send(r, cost, price),
         NEW c \in Channels, OneByOne(c)
  PROVE  OneByOne(c)'
<1>1. \A p \in Payers : payer'[p].chan = payer[p].chan BY DEF Send, ClaimsTypeOK
<1>2. \A q \in Requests : req'[q].by = req[q].by /\ req[q].by \in Payers
  BY DEF Send, ClaimsTypeOK, RequestRecord
<1>3. \A q \in Requests : Chan(q)' = Chan(q) BY <1>1, <1>2 DEF Chan
<1>4. \A q \in Requests : q # r => req'[q] = req[q] BY DEF Send, ClaimsTypeOK
<1>5. req'[r].pc = "sent" BY DEF Send, ClaimsTypeOK, RequestRecord
<1>6. ASSUME NEW q \in InCheck', Chan(q)' = c PROVE q \in InCheck /\ SameClaim(q)
  <2>1. q \in Requests /\ req'[q].pc \in {"verify", "save"} BY <1>6 DEF InCheck
  <2> QED BY <1>3, <1>4, <1>5, <2>1 DEF InCheck, SameClaim
<1> QED BY <1>6, Calm DEF Send, SameTotals

\* A check that no other overlaps reads the totals its claim is compared with.
LEMMA CheckClaims ==
  ASSUME ClaimsTypeOK, NEW r \in Requests, CheckDelta(r), NEW c \in Channels \ overlapped', OneByOne(c)
  PROVE  OneByOne(c)'
<1>1. StepOf(r, "verify") BY Moves DEF CheckDelta
<1>2. SameTotals(c) BY DEF CheckDelta, SameTotals
<1>3. CASE Chan(r) # c BY <1>1, <1>2, <1>3, Elsewhere
<1>4. CASE Chan(r) = c
  <2>1. \A q \in InCheck : Chan(q) # c BY <1>4 DEF CheckDelta
  <2>2. \A q \in InCheck' : Chan(q)' = c => q = r BY <1>1, <2>1 DEF StepOf, InCheck
  <2>3. req[r].amt >= claimed[c] + req[r].price
    <3>1. req[r].amt - claimed[c] >= req[r].price BY <1>4 DEF CheckDelta, Delta
    <3> QED BY <3>1, RequestType DEF ClaimsTypeOK
  <2>4. req'[r].pc = "verify" /\ req'[r].amt >= claimed'[c] + req'[r].price
    BY <1>1, <1>2, <2>3 DEF StepOf, SameTotals
  <2>5. served'[c] <= voucher'[c] /\ voucher'[c] <= claimed'[c] BY <1>2 DEF OneByOne, SameTotals
  <2> QED BY <2>2, <2>4, <2>5 DEF OneByOne
<1> QED BY <1>3, <1>4

\* What a channel has in check is the request that moves.
LEMMA Alone ==
  ASSUME NEW c \in Channels, OneByOne(c), NEW r \in InCheck, Chan(r) = c, NEW pc, StepOf(r, pc)
  PROVE  \A q \in InCheck' : Chan(q)' = c => q = r
  BY DEF OneByOne, StepOf, InCheck

\* A claim that is verified holds its place until it is saved.
LEMMA ConsumeClaims ==
  ASSUME ClaimsTypeOK, NEW r \in Requests, Consume(r), NEW c \in Channels, OneByOne(c)
  PROVE  OneByOne(c)'
<1>1. StepOf(r, "save") BY Moves DEF Consume
<1>2. CASE Chan(r) # c
  <2>1. SameTotals(c) BY <1>2, ChanType DEF Consume, SameTotals, ClaimsTypeOK
  <2> QED BY <1>1, <1>2, <2>1, Elsewhere
<1>3. CASE Chan(r) = c
  <2>1. claimed'[c] = req[r].amt /\ voucher'[c] = voucher[c] /\ served'[c] = served[c]
    BY <1>3 DEF Consume, ClaimsTypeOK
  <2>2. r \in InCheck /\ req[r].pc = "verify" BY DEF Consume, InCheck
  <2>3. req[r].amt >= claimed[c] + req[r].price /\ served[c] <= voucher[c] /\ voucher[c] <= claimed[c]
    BY <1>3, <2>2 DEF OneByOne
  <2>4. /\ req[r].amt \in Nat /\ req[r].price \in Nat
        /\ claimed[c] \in Nat /\ voucher[c] \in Nat /\ served[c] \in Nat
    BY RequestType DEF ClaimsTypeOK
  <2>5. req[r].amt >= voucher[c] + req[r].price /\ voucher[c] <= req[r].amt BY <2>3, <2>4
  <2>6. \A q \in InCheck' : Chan(q)' = c => q = r BY <1>1, <1>3, <2>2, Alone
  <2>7. req'[r].pc = "save" /\ req'[r].amt = req[r].amt /\ req'[r].price = req[r].price BY <1>1 DEF StepOf
  <2> QED BY <2>1, <2>3, <2>5, <2>6, <2>7 DEF OneByOne
<1> QED BY <1>2, <1>3

\* A request in check whose step ends its checks: only the totals are left to look at.
LEMMA Last ==
  ASSUME NEW c \in Channels, OneByOne(c), NEW r \in InCheck, Chan(r) = c,
         NEW pc \in {"served", "failed"}, StepOf(r, pc),
         served'[c] <= voucher'[c], voucher'[c] <= claimed'[c]
  PROVE  OneByOne(c)'
<1>1. \A q \in InCheck' : Chan(q)' = c => q = r BY Alone
<1>2. r \notin InCheck' BY DEF StepOf, InCheck
<1> QED BY <1>1, <1>2 DEF OneByOne

\* The saved total covers the call that is served.
LEMMA AdmitClaims ==
  ASSUME ClaimsTypeOK, NEW r \in Requests, Admit(r), NEW c \in Channels, OneByOne(c)
  PROVE  OneByOne(c)'
<1>1. StepOf(r, "served") BY Moves DEF Admit
<1>2. CASE Chan(r) # c
  <2>1. SameTotals(c) BY <1>2, ChanType DEF Admit, SameTotals, ClaimsTypeOK
  <2> QED BY <1>1, <1>2, <2>1, Elsewhere
<1>3. CASE Chan(r) = c
  <2>1. claimed'[c] = claimed[c] /\ voucher'[c] = req[r].amt /\ served'[c] = served[c] + req[r].price
    BY <1>3 DEF Admit, ClaimsTypeOK
  <2>2. r \in InCheck /\ req[r].pc = "save" BY DEF Admit, InCheck
  <2>3. req[r].amt = claimed[c] /\ req[r].amt >= voucher[c] + req[r].price /\ served[c] <= voucher[c]
    BY <1>3, <2>2 DEF OneByOne
  <2>4. req[r].amt \in Nat /\ req[r].price \in Nat /\ voucher[c] \in Nat /\ served[c] \in Nat
    BY RequestType DEF ClaimsTypeOK
  <2>5. served'[c] <= voucher'[c] /\ voucher'[c] <= claimed'[c] BY <2>1, <2>3, <2>4
  <2> QED BY <1>1, <1>3, <2>2, <2>5, Last
<1> QED BY <1>2, <1>3

\* A failed request gives its place up and serves nothing.
LEMMA FailClaims ==
  ASSUME ClaimsTypeOK, NEW r \in Requests, Fail(r), NEW c \in Channels, OneByOne(c)
  PROVE  OneByOne(c)'
<1>1. StepOf(r, "failed") BY Moves DEF Fail
<1>2. CASE Chan(r) # c
  <2>1. SameTotals(c) BY <1>2, ChanType DEF Fail, SameTotals, ClaimsTypeOK
  <2> QED BY <1>1, <1>2, <2>1, Elsewhere
<1>3. CASE Chan(r) = c /\ UNCHANGED <<claimed, voucher>>
  <2>1. SameTotals(c) BY <1>3 DEF Fail, SameTotals
  <2> QED BY <1>1, <2>1, Leaves
<1>4. CASE Chan(r) = c /\ ~UNCHANGED <<claimed, voucher>>
  <2>1. r \in InCheck BY <1>4 DEF Fail, InCheck
  <2>2. /\ req[r].amt \in Nat /\ req[r].price \in Nat
        /\ claimed[c] \in Nat /\ voucher[c] \in Nat /\ served[c] \in Nat
    BY RequestType DEF ClaimsTypeOK
  <2>3. \/ req[r].pc = "verify" /\ claimed'[c] = req[r].amt /\ voucher'[c] = voucher[c]
        \/ req[r].pc = "save" /\ voucher'[c] = req[r].amt /\ claimed'[c] = claimed[c]
    BY <1>4 DEF Fail, ClaimsTypeOK
  <2>4. served'[c] = served[c] BY DEF Fail
  <2>5. served[c] <= voucher[c] /\ voucher[c] <= claimed[c]
    BY DEF OneByOne
  <2>6. /\ req[r].pc = "verify" => req[r].amt >= claimed[c] + req[r].price
        /\ req[r].pc = "save" => req[r].amt = claimed[c] /\ req[r].amt >= voucher[c] + req[r].price
    BY <1>4, <2>1 DEF OneByOne
  <2>7. served'[c] <= voucher'[c] /\ voucher'[c] <= claimed'[c]
    <3>1. CASE req[r].pc = "verify" BY <2>2, <2>3, <2>4, <2>5, <2>6, <3>1
    <3>2. CASE req[r].pc = "save" BY <2>2, <2>3, <2>4, <2>5, <2>6, <3>2
    <3> QED BY <2>3, <3>1, <3>2
  <2> QED BY <1>1, <1>4, <2>1, <2>7, Last
<1> QED BY <1>2, <1>3, <1>4

\* No other step, of the gateway or the settler, touches a claim in check.
LEMMA ClaimsStep == TypeOK /\ ClaimsInv /\ [Next]_vars => ClaimsInv'
<1> SUFFICES ASSUME TypeOK, ClaimsInv, [Next]_vars, NEW c \in Channels \ overlapped'
             PROVE  OneByOne(c)'
  BY DEF ClaimsInv
<1>0. ClaimsTypeOK BY DEF TypeOK
<1>1. overlapped \subseteq overlapped'
  <2>1. CASE ClaimsNext
    <3>1. ASSUME NEW r \in Requests, CheckDelta(r) PROVE overlapped \subseteq overlapped'
      BY <3>1 DEF CheckDelta
    <3>2. ASSUME NEW r \in Requests, NEW cost, NEW price, Send(r, cost, price) PROVE overlapped' = overlapped
      BY <3>2 DEF Send
    <3>3. ASSUME NEW r \in Requests,
                 GiveUp(r) \/ RefuseDelta(r) \/ RefuseSignature(r) \/ Consume(r) \/ Admit(r) \/ Fail(r)
          PROVE  overlapped' = overlapped
      BY <3>3 DEF GiveUp, RefuseDelta, RefuseSignature, Consume, Admit, Fail
    <3>4. GatewayRestarts => overlapped' = overlapped BY DEF GatewayRestarts
    <3> QED BY <2>1, <3>1, <3>2, <3>3, <3>4 DEF ClaimsNext, Call, CallTool
  <2>2. CASE SettlerStep \/ StepFails \/ CycleFails \/ Apply \/ Expire \/ UNCHANGED vars
    BY <2>2 DEF SettlerStep, vars, claimVars, Wake, EndScan, Record, ReadBalance, SubmitSweep, Skip,
       SubmitClaim, StepFails, CycleFails, Apply, Expire
  <2> QED BY <2>1, <2>2 DEF Next
<1>2. OneByOne(c) BY <1>1 DEF ClaimsInv
<1>3. CASE UNCHANGED <<payer, req, claimed, voucher, served>>
  <2>1. \A q \in InCheck' : q \in InCheck /\ SameClaim(q) BY <1>3 DEF InCheck, SameClaim, Chan
  <2>2. SameTotals(c) BY <1>3 DEF SameTotals
  <2> QED BY <1>2, <2>1, <2>2, Calm
<1>4. ASSUME NEW r \in Requests, NEW cost, NEW price, Send(r, cost, price) PROVE OneByOne(c)'
  BY <1>0, <1>2, <1>4, SendClaims
<1>5. ASSUME NEW r \in Requests, GiveUp(r) PROVE OneByOne(c)'
  <2>1. \A q \in Requests : req'[q].pc = req[q].pc /\ req'[q].amt = req[q].amt
                             /\ req'[q].price = req[q].price /\ req'[q].by = req[q].by
    BY <1>0, <1>5 DEF GiveUp, ClaimsTypeOK, RequestRecord
  <2>2. \A q \in InCheck' : q \in InCheck /\ SameClaim(q) BY <1>5, <2>1 DEF GiveUp, InCheck, SameClaim, Chan
  <2>3. SameTotals(c) BY <1>5 DEF GiveUp, SameTotals
  <2> QED BY <1>2, <2>2, <2>3, Calm
<1>6. ASSUME NEW r \in Requests, RefuseDelta(r) \/ RefuseSignature(r) PROVE OneByOne(c)'
  <2>1. StepOf(r, "refused") BY <1>0, <1>6, Moves DEF RefuseDelta, RefuseSignature
  <2>2. SameTotals(c) BY <1>6 DEF RefuseDelta, RefuseSignature, SameTotals
  <2> QED BY <1>2, <2>1, <2>2, Leaves
<1>7. CASE GatewayRestarts
  <2>1. InCheck' = {} BY <1>0, <1>7 DEF GatewayRestarts, InCheck, ClaimsTypeOK, RequestRecord
  <2>2. SameTotals(c) BY <1>7 DEF GatewayRestarts, SameTotals
  <2> QED BY <1>2, <2>1, <2>2, Calm
<1>8. ASSUME NEW r \in Requests, CheckDelta(r) \/ Consume(r) \/ Admit(r) \/ Fail(r) PROVE OneByOne(c)'
  BY <1>0, <1>2, <1>8, CheckClaims, ConsumeClaims, AdmitClaims, FailClaims
<1>9. CASE ClaimsNext
  BY <1>4, <1>5, <1>6, <1>7, <1>8, <1>9 DEF ClaimsNext, Call, CallTool
<1>10. CASE SettlerStep \/ StepFails \/ CycleFails \/ Apply \/ Expire \/ UNCHANGED vars
  <2>1. UNCHANGED <<payer, req, claimed, voucher, served>>
    BY <1>10 DEF SettlerStep, vars, claimVars, Wake, EndScan, Record, ReadBalance, SubmitSweep, Skip,
       SubmitClaim, StepFails, CycleFails, Apply, Expire
  <2> QED BY <1>3, <2>1
<1> QED BY <1>9, <1>10 DEF Next

-------------------------------------------------------------------------------
(* The settler.                                                              *)

\* Faults are only added to; the clients and the gateway leave the settler alone.
LEMMA FaultSteps ==
  ASSUME TypeOK, [Next]_vars
  PROVE  /\ faults \in Nat /\ faults' \in Nat /\ faults' >= faults
         /\ StepFails \/ CycleFails => faults' = faults + 1
<1>1. faults \in Nat BY DEF TypeOK, ClaimsTypeOK
<1>2. faults' = faults \/ faults' = faults + 1
  <2>1. CASE ClaimsNext
    <3>1. ASSUME NEW r \in Requests, NEW cost, NEW price, Send(r, cost, price) PROVE faults' = faults
      BY <3>1 DEF Send
    <3>2. ASSUME NEW r \in Requests, CheckDelta(r) \/ RefuseDelta(r) \/ RefuseSignature(r) \/ Consume(r) \/ Admit(r)
          PROVE  faults' = faults
      BY <3>2 DEF CheckDelta, RefuseDelta, RefuseSignature, Consume, Admit
    <3>3. ASSUME NEW r \in Requests, GiveUp(r) \/ Fail(r) PROVE faults' = faults + 1
      BY <3>3 DEF GiveUp, Fail, Fault
    <3>4. GatewayRestarts => faults' = faults + 1 BY DEF GatewayRestarts, Fault
    <3> QED BY <2>1, <3>1, <3>2, <3>3, <3>4 DEF ClaimsNext, Call, CallTool
  <2>2. CASE SettlerStep
    BY <2>2 DEF SettlerStep, claimVars, Wake, EndScan, Record, ReadBalance, SubmitSweep, Skip, SubmitClaim
  <2>3. CASE StepFails \/ CycleFails \/ Apply \/ Expire \/ UNCHANGED vars
    BY <2>3 DEF vars, claimVars, StepFails, CycleFails, Apply, Expire, Fault
  <2> QED BY <2>1, <2>2, <2>3 DEF Next
<1>3. StepFails \/ CycleFails => faults' = faults + 1 BY DEF StepFails, CycleFails, Fault
<1> QED BY <1>1, <1>2, <1>3

\* Where the settler is after a transaction, or without one.
LEMMA CarryTo == ASSUME TypeOK, NEW tx PROVE Carry(tx).pc \in {"sleep", "scan"} /\ Asleep.pc = "sleep"
  BY SettlerType DEF Carry, Asleep

\* Every step keeps what the settler recorded within what the ledger paid.
LEMMA SettlerStepInv == TypeOK /\ SettlerInv /\ [Next]_vars => SettlerInv'
<1> SUFFICES ASSUME TypeOK, SettlerInv, [Next]_vars PROVE SettlerInv'
  OBVIOUS
<1> USE SettlerType, FaultSteps
<1>0. Len(pending) \in Nat BY DEF TypeOK
<1>1. CASE UNCHANGED settlerVars
  BY <1>0, <1>1 DEF settlerVars, SettlerInv, SettledWasRedeemed, Lost
<1>2. CASE Wake \/ EndScan \/ (\E c \in Channels : Skip(c))
  BY <1>0, <1>2 DEF Wake, EndScan, Skip, claimVars, SettlerInv, SettledWasRedeemed, Lost
<1>3. ASSUME NEW tx \in Tx, settler.pc # "await", pending' = Append(pending, tx),
             settler'.pc = "await", settler'.tx = tx, UNCHANGED <<settled, redeemed, faults>>
      PROVE  SettlerInv'
  <2>1. Len(pending') = Len(pending) + 1 /\ pending'[Len(pending) + 1] = tx BY <1>3 DEF TypeOK
  <2> QED BY <1>0, <1>3, <2>1 DEF SettlerInv, SettledWasRedeemed, Lost
<1>4. ASSUME NEW c \in Channels, SubmitClaim(c) PROVE SettlerInv'
  <2>1. [to |-> c, amt |-> voucher[c]] \in Tx BY DEF Tx, TypeOK, ClaimsTypeOK
  <2> QED BY <1>3, <1>4, <2>1 DEF SubmitClaim, claimVars
<1>5. CASE SubmitSweep
  BY <1>3, <1>5 DEF SubmitSweep, claimVars
<1>6. CASE Record
  <2>1. \A c \in Channels : settled'[c] <= redeemed'[c]
    BY <1>6 DEF Record, SettlerInv, SettledWasRedeemed, TypeOK
  <2> QED BY <1>0, <1>6, <2>1 DEF Record, claimVars, SettlerInv, SettledWasRedeemed, Lost
<1>7. CASE ReadBalance
  BY <1>0, <1>7, CarryTo DEF ReadBalance, claimVars, SettlerInv, SettledWasRedeemed, Lost
<1>8. CASE StepFails \/ CycleFails
  <2>1. settler'.pc \in {"sleep", "scan"} BY <1>8, CarryTo DEF StepFails, CycleFails
  <2>2. UNCHANGED <<settled, redeemed, pending>> /\ faults' = faults + 1
    BY <1>8 DEF StepFails, CycleFails
  <2> QED BY <1>0, <2>1, <2>2 DEF SettlerInv, SettledWasRedeemed, Lost
<1>9. CASE Apply
  <2> DEFINE tx == Head(pending)
  <2>1. pending # <<>> /\ pending' = Tail(pending) /\ UNCHANGED <<settled, faults>>
    BY <1>9 DEF Apply, claimVars
  <2>2. tx \in Tx /\ tx = pending[1] /\ Len(pending) \in Nat \ {0} /\ Len(pending') = Len(pending) - 1
    BY <2>1, QueueType
  <2>3. Redeems(tx) => /\ tx.to \in Channels /\ redeemed' = [redeemed EXCEPT ![tx.to] = tx.amt]
                       /\ redeemed[tx.to] < tx.amt /\ tx.to # Vault
    BY <1>9, <2>2 DEF Apply, Redeems, Tx
  <2>4. ~Redeems(tx) => redeemed' = redeemed BY <1>9 DEF Apply
  <2>5. \A c \in Channels : settled'[c] <= redeemed'[c] /\ redeemed[c] <= redeemed'[c]
    <3>1. \A c \in Channels : redeemed[c] \in Nat /\ settled[c] \in Nat /\ settled[c] <= redeemed[c]
      BY DEF SettlerInv, SettledWasRedeemed, TypeOK
    <3>2. tx.amt \in Nat BY <2>2 DEF Tx
    <3>3. \A c \in Channels : redeemed'[c] = redeemed[c] \/ (redeemed'[c] = tx.amt /\ redeemed[c] < tx.amt)
      BY <2>3, <2>4 DEF TypeOK
    <3> QED BY <2>1, <3>1, <3>2, <3>3
  <2>6. CASE Awaited
    <3>1. tx = settler.tx BY <2>2, <2>6 DEF Awaited, SettlerInv
    <3>2. Len(pending') = 0 BY <2>2, <2>6 DEF Awaited
    <3>3. CASE Redeems(tx)
      <4>1. settler'.pc = "redeemed" /\ settler'.tx = tx BY <1>9, <2>6, <3>1, <3>3 DEF Apply
      <4>2. redeemed'[tx.to] = tx.amt BY <2>3, <3>3 DEF TypeOK
      <4>3. tx.amt \in Nat BY <2>2 DEF Tx
      <4> QED BY <2>1, <2>3, <2>5, <3>2, <3>3, <4>1, <4>2, <4>3 DEF SettlerInv, SettledWasRedeemed, Lost
    <3>4. CASE ~Redeems(tx)
      <4>1. settler'.pc \in {"sleep", "scan"} BY <1>9, <2>6, <3>4, CarryTo DEF Apply
      <4> QED BY <2>1, <2>5, <3>2, <4>1 DEF SettlerInv, SettledWasRedeemed, Lost
    <3> QED BY <3>3, <3>4
  <2>7. CASE ~Awaited
    <3>1. settler' = settler BY <1>9, <2>7 DEF Apply
    <3>2. settler.pc = "await" => Len(pending') > 0 /\ pending'[Len(pending')] = settler.tx
      <4>1. settler.pc = "await" => Len(pending) > 1 BY <2>2, <2>7 DEF Awaited
      <4> QED BY <2>1, <2>2, <4>1, QueueType DEF SettlerInv
    <3>3. Lost' <= faults' BY <2>1, <2>2, <3>1 DEF SettlerInv, Lost
    <3>4. settler.pc = "redeemed" => settler.tx.to # Vault /\ settler.tx.amt <= redeemed'[settler.tx.to]
      <4> SUFFICES ASSUME settler.pc = "redeemed"
                   PROVE  settler.tx.to # Vault /\ settler.tx.amt <= redeemed'[settler.tx.to]
        OBVIOUS
      <4>1. settler.tx.to \in Channels /\ settler.tx.amt <= redeemed[settler.tx.to] BY DEF SettlerInv
      <4>2. redeemed[settler.tx.to] \in Nat /\ redeemed'[settler.tx.to] \in Nat
        BY <4>1, TypeStep DEF TypeOK
      <4>3. settler.tx.to # Vault BY DEF SettlerInv
      <4> QED BY <2>5, <4>1, <4>2, <4>3
    <3> QED BY <2>5, <3>1, <3>2, <3>3, <3>4 DEF SettlerInv, SettledWasRedeemed
  <2> QED BY <2>6, <2>7
<1>10. CASE Expire
  <2>1. pending # <<>> /\ pending' = Tail(pending) /\ UNCHANGED <<settled, redeemed>>
    BY <1>10 DEF Expire
  <2>2. Len(pending) \in Nat \ {0} /\ Len(pending') = Len(pending) - 1 BY <2>1, QueueType
  <2>3. CASE Awaited
    <3>1. settler'.pc \in {"sleep", "scan"} BY <1>10, <2>3, CarryTo DEF Expire
    <3>2. Len(pending') = 0 BY <2>2, <2>3 DEF Awaited
    <3> QED BY <2>1, <3>1, <3>2 DEF SettlerInv, SettledWasRedeemed, Lost
  <2>4. CASE ~Awaited
    <3>1. settler' = settler BY <1>10, <2>4 DEF Expire
    <3>2. settler.pc = "await" => Len(pending') > 0 /\ pending'[Len(pending')] = settler.tx
      <4>1. settler.pc = "await" => Len(pending) > 1 BY <2>2, <2>4 DEF Awaited
      <4> QED BY <2>1, <2>2, <4>1, QueueType DEF SettlerInv
    <3>3. Lost' <= faults' BY <2>1, <2>2, <3>1 DEF SettlerInv, Lost
    <3> QED BY <2>1, <3>1, <3>2, <3>3 DEF SettlerInv, SettledWasRedeemed
  <2> QED BY <2>3, <2>4
<1> QED
  BY <1>1, <1>2, <1>4, <1>5, <1>6, <1>7, <1>8, <1>9, <1>10 DEF Next, SettlerStep, vars, settlerVars

-------------------------------------------------------------------------------
(* The sweep.                                                                *)

\* A step that leaves the queue, the wallet and the transaction in hand alone.
LEMMA SweepFrame ==
  ASSUME TypeOK, SweepInv, faults' \in Nat, faults' >= faults,
         wallet' = wallet, pending' = pending, Lost' = Lost,
         Sweeping' => Sweeping /\ settler'.tx = settler.tx
  PROVE  SweepInv'
<1>1. faults \in Nat BY DEF TypeOK, ClaimsTypeOK
<1> QED BY <1>1 DEF SweepInv, Exact

\* With one fault at most, one transaction at most is lost.
LEMMA OneLost ==
  ASSUME TypeOK, SettlerInv, faults <= 1
  PROVE  /\ faults \in Nat /\ Len(pending) \in Nat
         /\ Lost \in {0, 1} /\ (faults = 0 => Lost = 0)
         /\ Len(pending) = (IF settler.pc = "await" THEN Lost + 1 ELSE Lost)
<1>1. faults \in Nat /\ Len(pending) \in Nat BY DEF TypeOK, ClaimsTypeOK
<1>2. CASE settler.pc = "await"
  <2>1. Lost = Len(pending) - 1 /\ Len(pending) > 0 /\ Lost <= faults BY <1>2 DEF SettlerInv, Lost
  <2> QED BY <1>1, <1>2, <2>1
<1>3. CASE settler.pc # "await"
  <2>1. Lost = Len(pending) /\ Lost <= faults BY <1>3 DEF SettlerInv, Lost
  <2> QED BY <1>1, <1>3, <2>1
<1> QED BY <1>2, <1>3

\* What is submitted comes after what is lost.
LEMMA SweepSubmit ==
  ASSUME TypeOK, SettlerInv, SweepInv, faults' = faults, wallet' = wallet,
         NEW tx \in Tx, settler.pc # "await", pending' = Append(pending, tx),
         settler'.pc = "await", settler'.tx = tx,
         tx.to = Vault => Sweeping /\ settler.tx = tx
  PROVE  SweepInv'
<1>1. Len(pending) \in Nat /\ Len(pending') = Len(pending) + 1 /\ (Len(pending) > 0 => Head(pending') = Head(pending))
  BY DEF TypeOK
<1>2. Lost' = Lost /\ Lost = Len(pending) BY <1>1 DEF Lost
<1>3. Sweeping' => Sweeping /\ settler.tx = tx BY DEF Sweeping
<1> QED BY <1>1, <1>2, <1>3 DEF SweepInv, Exact

\* A sweep is computed from the balance.
LEMMA SweepRead == ASSUME TypeOK, SettlerInv, SweepInv, ReadBalance PROVE SweepInv'
<1>1. wallet' = wallet /\ pending' = pending /\ faults' = faults BY DEF ReadBalance, claimVars
<1>2. settler.pc = "balance" /\ settler'.pc \in {"sleep", "pay"} BY SettlerType, CarryTo DEF ReadBalance
<1>3. Lost' = Lost BY <1>1, <1>2 DEF Lost
<1>4. Sweeping' => settler'.tx.amt = wallet - Reserve - Margin /\ wallet - Reserve >= SweepThreshold
  BY <1>2, SettlerType DEF Sweeping, ReadBalance, Excess, Asleep
<1>5. Sweeping' => settler'.tx.amt > Reserve + Margin /\ wallet = settler'.tx.amt + Reserve + Margin
  BY <1>4, WalletAssumption DEF TypeOK
<1> QED BY <1>1, <1>3, <1>5 DEF SweepInv, Exact

\* A step that fails may lose the transaction in hand, which is exact as nothing
\* was lost before it.
LEMMA SweepLost ==
  ASSUME TypeOK, SettlerInv, SweepInv, faults' = faults + 1, wallet' = wallet, pending' = pending,
         settler'.pc \in {"sleep", "scan"}
  PROVE  SweepInv'
<1>1. ~Sweeping' BY DEF Sweeping
<1>2. ASSUME faults' <= 1, Lost' = 1, Head(pending).to = Vault PROVE Exact(Head(pending))
  <2>1. faults = 0 /\ Lost = 0 BY <1>2, OneLost DEF TypeOK, ClaimsTypeOK
  <2>2. Len(pending) = 1 BY <1>2 DEF Lost
  <2>3. settler.pc = "await" /\ settler.tx = Head(pending)
    BY <2>1, <2>2, QueueType DEF SettlerInv, Lost, TypeOK
  <2> QED BY <1>2, <2>1, <2>3 DEF SweepInv, Sweeping
<1> QED BY <1>1, <1>2 DEF SweepInv, Exact

\* The head of the queue is lost if it is not awaited.
LEMMA HeadLost == ASSUME TypeOK, SettlerInv, faults <= 1, pending # <<>>, ~Awaited PROVE Lost = 1
<1>1. Len(pending) \in Nat \ {0} BY QueueType
<1>2. CASE settler.pc = "await"
  <2>1. Len(pending) # 1 BY <1>2 DEF Awaited
  <2> QED BY <1>1, <1>2, <2>1, OneLost
<1>3. CASE settler.pc # "await" BY <1>1, <1>3, OneLost
<1> QED BY <1>2, <1>3

\* The head of the queue leaves it, applied or not.
LEMMA QueueStep ==
  ASSUME TypeOK, SettlerInv, pending # <<>>, pending' = Tail(pending),
         (settler' = settler /\ ~Awaited) \/ (Awaited /\ settler'.pc \in {"sleep", "scan", "redeemed"})
  PROVE  /\ Awaited => Lost = 0 /\ Lost' = 0 /\ ~Sweeping' /\ settler.tx = Head(pending)
         /\ ~Awaited => Lost' = Lost - 1 /\ settler' = settler /\ (Sweeping' <=> Sweeping)
<1>1. Len(pending) \in Nat \ {0} /\ Len(pending') = Len(pending) - 1 /\ Head(pending) = pending[1] BY QueueType
<1>2. CASE Awaited BY <1>1, <1>2 DEF Awaited, Lost, Sweeping, SettlerInv
<1>3. CASE ~Awaited BY <1>1, <1>3 DEF Lost, Sweeping
<1> QED BY <1>2, <1>3

\* A transaction that is applied is the first of those that wait.
LEMMA ApplyQueue ==
  ASSUME TypeOK, Apply
  PROVE  /\ pending # <<>> /\ pending' = Tail(pending) /\ faults' = faults
         /\ (settler' = settler /\ ~Awaited) \/ (Awaited /\ settler'.pc \in {"sleep", "scan", "redeemed"})
  BY SettlerType, CarryTo DEF Apply, claimVars

\* So is one that expires, and nothing is paid.
LEMMA ExpireQueue ==
  ASSUME TypeOK, Expire
  PROVE  /\ pending # <<>> /\ pending' = Tail(pending) /\ wallet' = wallet
         /\ (settler' = settler /\ ~Awaited) \/ (Awaited /\ settler'.pc \in {"sleep", "scan", "redeemed"})
  BY SettlerType, CarryTo DEF Expire

\* What a transaction does to the wallet.
LEMMA WalletStep ==
  ASSUME TypeOK, Apply
  PROVE  /\ wallet \in Nat /\ wallet' \in Nat /\ Head(pending).amt \in Nat
         /\ \/ wallet' >= wallet - Fee
            \/ /\ Head(pending).to = Vault /\ Head(pending).amt + Fee <= wallet
               /\ wallet' = wallet - Fee - Head(pending).amt
<1> DEFINE tx == Head(pending)
<1>1. tx \in Tx /\ tx.amt \in Nat /\ wallet \in Nat /\ wallet >= Fee BY QueueType DEF Apply, Tx, TypeOK
<1>2. wallet' \in Nat
  <2>1. TypeOK' BY TypeStep DEF Next
  <2> QED BY <2>1 DEF TypeOK
<1>3. CASE Redeems(tx)
  <2>1. wallet' = wallet - Fee + (tx.amt - redeemed[tx.to]) BY <1>3 DEF Apply
  <2>2. tx.to \in Channels /\ redeemed[tx.to] < tx.amt BY <1>1, <1>3 DEF Redeems, Tx
  <2>3. redeemed[tx.to] \in Nat BY <2>2 DEF TypeOK
  <2>4. wallet' >= wallet - Fee BY <1>1, <2>1, <2>2, <2>3, WalletAssumption
  <2> QED BY <1>1, <1>2, <2>4
<1>4. CASE ~Redeems(tx) /\ Sweeps(tx)
  <2>1. wallet' = wallet - Fee + (0 - tx.amt) BY <1>4 DEF Apply
  <2>2. wallet' = wallet - Fee - tx.amt BY <1>1, <2>1, WalletAssumption
  <2> QED BY <1>1, <1>2, <1>4, <2>2 DEF Sweeps
<1>5. CASE ~Redeems(tx) /\ ~Sweeps(tx)
  <2>1. wallet' = wallet - Fee + 0 BY <1>5 DEF Apply
  <2> QED BY <1>1, <1>2, <2>1, WalletAssumption
<1> QED BY <1>3, <1>4, <1>5

\* A lost transaction that is applied leaves enough for the sweep in hand, or too
\* little if it was a sweep too.
LEMMA SweepApply == ASSUME TypeOK, SettlerInv, SweepInv, Apply PROVE SweepInv'
<1> DEFINE tx == Head(pending)
<1>1. SUFFICES ASSUME faults <= 1 PROVE SweepInv'
  BY ApplyQueue DEF SweepInv, TypeOK, ClaimsTypeOK
<1>2. Lost' = 0
  <2>1. CASE Awaited BY <2>1, ApplyQueue, QueueStep
  <2>2. CASE ~Awaited
    <3>1. Lost' = Lost - 1 BY <2>2, ApplyQueue, QueueStep
    <3>2. Lost = 1 BY <1>1, <2>2, ApplyQueue, HeadLost
    <3> QED BY <3>1, <3>2
  <2> QED BY <2>1, <2>2
<1>3. ASSUME Sweeping'
      PROVE  /\ settler'.tx.amt > Reserve + Margin
             /\ \/ Exact(settler.tx)'
                \/ /\ faults = 1
                   /\ \/ wallet' + Fee >= settler'.tx.amt + Reserve + Margin
                      \/ wallet' < settler'.tx.amt + Fee
  <2>1. ~Awaited /\ settler' = settler /\ Sweeping /\ Lost' = Lost - 1 BY <1>3, ApplyQueue, QueueStep
  <2>2. Lost = 1 /\ faults = 1 BY <1>1, <1>2, <2>1, OneLost
  <2>3. /\ settler.tx.amt > Reserve + Margin /\ Exact(settler.tx)
        /\ tx.to = Vault => Exact(tx)
    BY <1>1, <2>1, <2>2 DEF SweepInv
  <2>4. CASE wallet' >= wallet - Fee
    BY <2>1, <2>2, <2>3, <2>4, WalletStep, SettlerType, WalletAssumption DEF Exact
  <2>5. CASE tx.to = Vault /\ wallet' = wallet - Fee - tx.amt
    <3>1. wallet = tx.amt + Reserve + Margin BY <2>3, <2>5 DEF Exact
    <3>2. wallet' = Reserve + Margin - Fee BY <2>5, <3>1, WalletStep, WalletAssumption
    <3>3. wallet' < settler.tx.amt + Fee BY <2>3, <3>2, SettlerType, WalletAssumption
    <3> QED BY <2>1, <2>2, <2>3, <3>3
  <2> QED BY <2>4, <2>5, WalletStep
<1>4. faults' = faults BY ApplyQueue
<1> QED BY <1>2, <1>3, <1>4 DEF SweepInv

\* A sweep that expires leaves the wallet as it was.
LEMMA SweepExpire == ASSUME TypeOK, SettlerInv, SweepInv, Expire PROVE SweepInv'
<1>0. faults \in Nat /\ faults' \in Nat /\ faults' >= faults BY DEF Expire, Fault, TypeOK, ClaimsTypeOK
<1>1. SUFFICES ASSUME faults <= 1 PROVE SweepInv'
  BY <1>0 DEF SweepInv
<1>2. Lost' = 0
  <2>1. CASE Awaited BY <2>1, ExpireQueue, QueueStep
  <2>2. CASE ~Awaited
    <3>1. Lost' = Lost - 1 BY <2>2, ExpireQueue, QueueStep
    <3>2. Lost = 1 BY <1>1, <2>2, ExpireQueue, HeadLost
    <3> QED BY <3>1, <3>2
  <2> QED BY <2>1, <2>2
<1>3. Sweeping' => Lost = 1 /\ Sweeping /\ settler' = settler BY <1>1, <1>2, ExpireQueue, QueueStep, OneLost
<1>4. Sweeping' => settler'.tx.amt > Reserve + Margin /\ Exact(settler.tx)'
  BY <1>1, <1>3, ExpireQueue DEF SweepInv, Exact
<1> QED BY <1>2, <1>4 DEF SweepInv

\* Every step keeps the reserve within the reach of the sweeps that wait.
LEMMA SweepStep == TypeOK /\ SettlerInv /\ SweepInv /\ [Next]_vars => SweepInv'
<1> SUFFICES ASSUME TypeOK, SettlerInv, SweepInv, [Next]_vars PROVE SweepInv'
  OBVIOUS
<1> USE SettlerType, FaultSteps
<1>1. CASE UNCHANGED settlerVars
  BY <1>1, SweepFrame DEF settlerVars, Lost, Sweeping
<1>2. CASE Wake \/ EndScan \/ (\E c \in Channels : Skip(c)) \/ Record
  <2>1. settler.pc \in {"sleep", "scan", "redeemed"} /\ settler'.pc \in {"scan", "balance"}
    BY <1>2 DEF Wake, EndScan, Skip, Record
  <2>2. wallet' = wallet /\ pending' = pending BY <1>2 DEF Wake, EndScan, Skip, Record
  <2> QED BY <2>1, <2>2, SweepFrame DEF Lost, Sweeping
<1>3. ASSUME NEW c \in Channels, SubmitClaim(c) PROVE SweepInv'
  <2>1. [to |-> c, amt |-> voucher[c]] \in Tx /\ c # Vault BY VaultAssumption DEF Tx, TypeOK, ClaimsTypeOK
  <2> QED BY <1>3, <2>1, SweepSubmit DEF SubmitClaim, claimVars
<1>4. CASE SubmitSweep
  BY <1>4, SweepSubmit DEF SubmitSweep, claimVars, Sweeping
<1>5. CASE ReadBalance
  BY <1>5, SweepRead
<1>6. CASE StepFails \/ CycleFails
  BY <1>6, CarryTo, SweepLost DEF StepFails, CycleFails
<1>7. CASE Apply \/ Expire
  BY <1>7, SweepApply, SweepExpire
<1> QED BY <1>1, <1>2, <1>3, <1>4, <1>5, <1>6, <1>7 DEF Next, SettlerStep, vars, settlerVars

-------------------------------------------------------------------------------
(* The theorems.                                                             *)

\* The inductive invariant holds in every state.
LEMMA Invariance == Spec => []IInv
<1>1. Init => IInv
  <2> SUFFICES ASSUME Init PROVE IInv
    OBVIOUS
  <2>1. TypeOK BY TypeInit
  <2>2. ClaimsInv
    <3>1. InCheck = {} BY DEF Init, ClaimsInit, InCheck
    <3>2. \A c \in Channels : served[c] = 0 /\ voucher[c] = 0 /\ claimed[c] = 0 BY DEF Init, ClaimsInit
    <3>3. ASSUME NEW c \in Channels PROVE OneByOne(c)
      <4>1. served[c] <= voucher[c] /\ voucher[c] <= claimed[c] BY <3>2
      <4>2. \A r : r \notin InCheck BY <3>1
      <4> QED BY <4>1, <4>2 DEF OneByOne
    <3> QED BY <3>3 DEF ClaimsInv
  <2>3. settler.pc = "sleep" /\ pending = <<>> /\ faults = 0 /\ Lost = 0
    BY DEF Init, ClaimsInit, Asleep, Lost
  <2>4. SettlerInv BY <2>3 DEF Init, SettlerInv, SettledWasRedeemed
  <2>5. SweepInv BY <2>3 DEF SweepInv, Sweeping
  <2> QED BY <2>1, <2>2, <2>4, <2>5 DEF IInv
<1>2. IInv /\ [Next]_vars => IInv'
  BY TypeStep, ClaimsStep, SettlerStepInv, SweepStep DEF IInv
<1> QED BY <1>1, <1>2, PTL DEF Spec

\* Every state is of its type: no balance of the ledger and no total goes negative.
THEOREM TypeCorrect == Spec => []TypeOK
<1>1. IInv => TypeOK BY DEF IInv
<1> QED BY <1>1, Invariance, PTL

\* Whatever fails, and however long a client waits, a channel whose claims were never
\* checked two at once is covered by the claim the treasury holds.
THEOREM Paid == Spec => []ServedIsPaid
<1>1. IInv => ServedIsPaid BY DEF IInv, ClaimsInv, OneByOne, ServedIsPaid
<1> QED BY <1>1, Invariance, PTL

\* What is recorded as settled was redeemed on the ledger.
THEOREM Settled == Spec => []SettledWasRedeemed
<1>1. IInv => SettledWasRedeemed BY DEF IInv, SettlerInv
<1> QED BY <1>1, Invariance, PTL

\* A sweep leaves the reserve, even after one of unknown outcome.
THEOREM Reserved == Spec => ReserveKept
<1>1. ASSUME IInv, [Next]_vars, wallet' < wallet - Fee, faults <= 1 PROVE wallet' >= Reserve - Fee
  <2> DEFINE tx == Head(pending)
  <2>1. TypeOK /\ SettlerInv /\ SweepInv /\ wallet \in Nat BY <1>1 DEF IInv, TypeOK
  <2>2. Apply
    <3>1. wallet' # wallet BY <1>1, <2>1, WalletAssumption
    <3> QED
      BY <1>1, <3>1 DEF Next, SettlerStep, vars, settlerVars, Wake, EndScan, Record, ReadBalance, SubmitSweep,
         Skip, SubmitClaim, StepFails, CycleFails, Expire
  <2>3. tx.to = Vault /\ tx.amt + Fee <= wallet /\ wallet' = wallet - Fee - tx.amt /\ tx.amt \in Nat
    <3>1. ~(wallet' >= wallet - Fee)
      <4>1. wallet' \in Nat BY <2>1, <2>2, WalletStep
      <4> QED BY <1>1, <2>1, <4>1, WalletAssumption
    <3> QED BY <2>1, <2>2, <3>1, WalletStep
  <2>4. Exact(tx) \/ wallet + Fee >= tx.amt + Reserve + Margin
    <3>1. CASE Awaited
      <4>1. settler.tx = tx /\ settler.pc = "await" BY <2>1, <2>2, <3>1, ApplyQueue, QueueStep DEF Awaited
      <4>2. Sweeping BY <2>3, <4>1 DEF Sweeping
      <4>3. Exact(settler.tx) \/ wallet + Fee >= settler.tx.amt + Reserve + Margin \/ wallet < settler.tx.amt + Fee
        BY <1>1, <2>1, <4>2 DEF SweepInv
      <4> QED BY <2>1, <2>3, <4>1, <4>3, WalletAssumption
    <3>2. CASE ~Awaited
      <4>1. Lost = 1 BY <1>1, <2>1, <2>2, <3>2, ApplyQueue, HeadLost
      <4> QED BY <1>1, <2>1, <2>3, <4>1 DEF SweepInv
    <3> QED BY <3>1, <3>2
  <2> QED BY <2>1, <2>3, <2>4, WalletAssumption DEF Exact
<1>2. IInv /\ [Next]_vars => [(wallet' < wallet - Fee /\ faults <= 1) => wallet' >= Reserve - Fee]_vars
  BY <1>1
<1> QED BY <1>2, Invariance, PTL DEF Spec, ReserveKept
===============================================================================
