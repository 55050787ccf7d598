------------------------------- MODULE Sweeper -------------------------------
(***************************************************************************)
(* The daemon that empties the hot wallet on two rails, one after the       *)
(* other: an ERC-20 balance on Base, paid for with the ETH of the wallet,   *)
(* and the native balance of Arc, which also pays the gas. Each JSON-RPC    *)
(* call is answered by the first node that works, and nodes may lag behind  *)
(* the chain. A transaction waits in the nodes' pool until a block takes    *)
(* it; one with the same nonce replaces it only if it raises both its fee   *)
(* cap and its tip, and every sweep offers the same tip.                    *)
(***************************************************************************)
EXTENDS Integers

CONSTANTS
  Threshold,    \* MIN_BASE_USDC_THRESHOLD, MIN_ARC_USDC_THRESHOLD
  Transfer,     \* what arrives in the wallet at a time
  Tip,          \* gas times max_priority_fee, the same for every sweep
  TopFee,       \* bound: gas times base fee of a block
  Ether,        \* ETH of the wallet, in the same unit
  MaxArrivals,  \* bound: deposits
  MaxErrors,    \* bound: calls that all nodes fail
  MaxBlocks     \* bound: changes of the fee

ASSUME SweepAssumption ==
  /\ Threshold \in Nat \ {0} /\ Transfer \in Nat \ {0} /\ TopFee \in Nat \ {0}
  /\ Tip \in Nat /\ Ether \in Nat /\ MaxArrivals \in Nat /\ MaxErrors \in Nat /\ MaxBlocks \in Nat

VARIABLES
  chain,    \* each rail: funds of the wallet, its nonce
  behind,   \* each rail: what the slowest node shows of that
  waiting,  \* each rail: transactions in the pool
  fee,      \* gas times base fee
  ether,    \* ETH left on Base
  daemon,   \* the rail it is at, its next call, and what it read
  spent     \* counters: arrivals, errors, blocks, and sweeps that reverted

sweepVars == <<chain, behind, waiting, fee, ether, daemon, spent>>

Rails == {"base", "arc"}
Asleep == [rail |-> "base", step |-> "balance", funds |-> 0, cap |-> 0, nonce |-> 0]

SweepInit ==
  /\ chain = [r \in Rails |-> [funds |-> 0, nonce |-> 0]]
  /\ behind = chain
  /\ waiting = [r \in Rails |-> {}]
  /\ fee \in 1..TopFee /\ ether = Ether
  /\ daemon = Asleep
  /\ spent = [arrivals |-> 0, errors |-> 0, blocks |-> 0, reverts |-> 0]

Spend(k) == spent' = [spent EXCEPT ![k] = @ + 1]
Here == daemon.rail
Answers(r) == {chain[r], behind[r]}

\* run_sweeper_loop goes on with the other rail, whatever became of this one.
NextRail ==
  daemon' = [Asleep EXCEPT !.rail = IF Here = "base" THEN "arc" ELSE "base"]
Then(step) == daemon' = [daemon EXCEPT !.step = step]
External == UNCHANGED <<chain, behind, fee, ether>>

\* eth_getBalance, and eth_call of balanceOf: nothing to do below the threshold.
ReadBalance ==
  /\ daemon.step = "balance"
  /\ \E a \in Answers(Here) :
       IF a.funds >= Threshold
       THEN daemon' = [daemon EXCEPT !.step = "fees", !.funds = a.funds]
       ELSE NextRail
  /\ External /\ UNCHANGED <<waiting, spent>>

\* get_gas_estimates: twice the base fee and the tip, and whether the wallet can pay it.
ReadFees ==
  /\ daemon.step = "fees"
  /\ LET cap == 2 * fee + Tip
         enough == IF Here = "base" THEN ether >= cap ELSE daemon.funds > cap
     IN IF enough THEN daemon' = [daemon EXCEPT !.step = "nonce", !.cap = cap] ELSE NextRail
  /\ External /\ UNCHANGED <<waiting, spent>>

\* Mistake, not part of SweepSpec: the nonce counts the waiting transactions.
ReadNoncePending ==
  /\ daemon.step = "nonce"
  /\ daemon' = [daemon EXCEPT !.step = "send",
       !.nonce = IF waiting[Here] = {} THEN chain[Here].nonce ELSE chain[Here].nonce + 1]
  /\ External /\ UNCHANGED <<waiting, spent>>

\* eth_getTransactionCount of the latest block.
ReadNonce ==
  /\ daemon.step = "nonce"
  /\ \E a \in Answers(Here) : daemon' = [daemon EXCEPT !.step = "send", !.nonce = a.nonce]
  /\ External /\ UNCHANGED <<waiting, spent>>

\* What is sent: all of the balance on Base, the balance less the gas on Arc.
Payload == [nonce |-> daemon.nonce, cap |-> daemon.cap, tip |-> Tip,
            value |-> IF Here = "base" THEN daemon.funds ELSE daemon.funds - daemon.cap]
Held == {t \in waiting[Here] : t.nonce = daemon.nonce}

\* The node takes a transaction the account can pay, and in place of one with its nonce
\* only if both its cap and its tip are higher.
Accepted ==
  /\ daemon.nonce >= chain[Here].nonce
  /\ \A t \in Held : Payload.cap > t.cap /\ Payload.tip > t.tip
  /\ IF Here = "base" THEN ether >= daemon.cap ELSE chain["arc"].funds >= daemon.funds

\* sign_eip1559_transaction and eth_sendRawTransaction: "nonce too low", "replacement
\* underpriced" and the like are an answer without a result, an error of all nodes.
Send ==
  /\ daemon.step = "send"
  /\ waiting' = IF Accepted
                THEN [waiting EXCEPT ![Here] = (@ \ Held) \cup {Payload}] ELSE waiting
  /\ NextRail
  /\ External /\ UNCHANGED spent

\* Mistake, not part of SweepSpec: the loop does not catch what a rail raises.
CallFailsDies ==
  /\ spent.errors < MaxErrors /\ daemon.step # "dead"
  /\ Spend("errors") /\ Then("dead")
  /\ External /\ UNCHANGED waiting

\* All nodes fail a call, or the key service does; run_sweeper_loop prints the error.
CallFails ==
  /\ spent.errors < MaxErrors
  /\ Spend("errors") /\ NextRail
  /\ External /\ UNCHANGED waiting

\* What a block charges for the gas, and what it takes from the wallet's funds, if they
\* cover it.
Price(t) == IF fee + t.tip < t.cap THEN fee + t.tip ELSE t.cap
Takes(r, t) == IF r = "base" THEN t.value ELSE t.value + Price(t)
Fits(r, t) == chain[r].funds >= Takes(r, t)

\* A block takes the transaction with the account's nonce, if its cap reaches the base
\* fee and the account covers the cap. A transfer on Base of more than is left reverts,
\* and its gas is gone.
Include(r, t) ==
  /\ t.nonce = chain[r].nonce /\ t.cap >= fee
  /\ IF r = "arc" THEN chain[r].funds >= t.value + t.cap ELSE ether >= t.cap
  /\ chain' = [chain EXCEPT ![r] =
       [funds |-> chain[r].funds - (IF Fits(r, t) THEN Takes(r, t) ELSE 0),
        nonce |-> chain[r].nonce + 1]]
  /\ behind' = [behind EXCEPT ![r] = chain[r]]
  /\ waiting' = [waiting EXCEPT ![r] = {u \in waiting[r] : u.nonce > t.nonce}]
  /\ ether' = IF r = "base" THEN ether - Price(t) ELSE ether
  /\ spent' = [spent EXCEPT !.reverts = @ + (IF Fits(r, t) THEN 0 ELSE 1)]
  /\ UNCHANGED <<fee, daemon>>
Mine(r) == \E t \in waiting[r] : Include(r, t)

\* A payer's transfer arrives.
Arrive(r) ==
  /\ spent.arrivals < MaxArrivals
  /\ chain' = [chain EXCEPT ![r].funds = @ + Transfer]
  /\ behind' = [behind EXCEPT ![r] = chain[r]]
  /\ Spend("arrivals")
  /\ UNCHANGED <<waiting, fee, ether, daemon>>

FeeMoves ==
  /\ spent.blocks < MaxBlocks
  /\ fee' \in 1..TopFee
  /\ Spend("blocks")
  /\ UNCHANGED <<chain, behind, waiting, ether, daemon>>

\* The slow nodes catch up.
CatchUp ==
  /\ behind # chain /\ behind' = chain
  /\ UNCHANGED <<chain, waiting, fee, ether, daemon, spent>>

Poll == ReadBalance \/ ReadFees \/ ReadNonce \/ Send
SweepNext ==
  \/ Poll \/ CallFails \/ FeeMoves \/ CatchUp
  \/ \E r \in Rails : Mine(r) \/ Arrive(r)

SweepSpec == SweepInit /\ [][SweepNext]_sweepVars

-------------------------------------------------------------------------------
(* Properties.                                                               *)

SweepTypeOK ==
  /\ chain \in [Rails -> [funds : Nat, nonce : Nat]]
  /\ behind \in [Rails -> [funds : Nat, nonce : Nat]]
  /\ waiting \in [Rails -> SUBSET [nonce : Nat, cap : Nat, tip : Nat, value : Nat]]
  /\ fee \in 1..TopFee /\ ether \in 0..Ether
  /\ daemon \in [rail : Rails, step : {"balance", "fees", "nonce", "send"},
                 funds : Nat, cap : Nat, nonce : Nat]
  /\ spent \in [{"arrivals", "errors", "blocks", "reverts"} -> Nat]

\* Polls that run while a sweep waits never queue a second one behind it: each rail has
\* at most one transaction waiting, and it is the next the chain can take (the nonce of
\* the latest block, sweep_base and sweep_arc).
OneSweepWaits ==
  \A r \in Rails : \A t \in waiting[r] :
    t.nonce = chain[r].nonce /\ \A u \in waiting[r] : u = t

\* The base fee has passed the cap of a waiting sweep: no block takes it, and no later
\* poll replaces it, since every sweep offers the same tip.
Stranded == \E r \in Rails : \E t \in waiting[r] : t.cap < fee

\* Funds over the threshold are swept in the end, through errors, lagging nodes, moving
\* fees and sweeps that revert, unless the ETH for the gas runs out or the base fee
\* stays above the cap of the sweep that waits.
FundsSwept ==
  []<>(ether < 2 * TopFee + Tip \/ Stranded \/ \A r \in Rails : chain[r].funds < Threshold)
===============================================================================
