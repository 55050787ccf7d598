---------------------------- MODULE ChannelSettler ----------------------------
(***************************************************************************)
(* The settler of app/layer4_ledgers/settler.py, run every minute by        *)
(* worker.py: it redeems the saved claims of ChannelClaims on the ledger    *)
(* and sweeps the hot wallet to the cold vault.  The ledger is external: it  *)
(* applies the wallet's transactions in order, or lets them expire.         *)
(***************************************************************************)
EXTENDS ChannelClaims, Sequences

CONSTANTS
  Vault,           \* COLD_VAULT_ADDRESS
  Funds,           \* drops each channel holds on the ledger
  Threshold,       \* CLAIM_THRESHOLD_DROPS
  Reserve,         \* HOT_WALLET_RESERVE_DROPS
  SweepThreshold,  \* SWEEP_THRESHOLD_DROPS
  Margin,          \* the 12 drops a sweep leaves for its fee
  Fee,             \* the ledger's fee
  HotBalance       \* the hot wallet's balance at the start

ASSUME FundsAssumption == Funds \in [Channels -> Nat]
ASSUME VaultAssumption == Vault \notin Channels
ASSUME ThresholdAssumption == Threshold \in Nat \ {0}
ASSUME WalletAssumption ==
  /\ Reserve \in Nat /\ SweepThreshold \in Nat /\ Margin \in Nat /\ Fee \in Nat /\ HotBalance \in Nat
  /\ Fee <= Margin /\ Reserve + 2 * Margin < SweepThreshold

VARIABLES
  settled,   \* xrpl:channel:{c}:settled_drops
  settler,   \* the loop: where it is, the channels to visit, the transaction in hand
  redeemed,  \* ledger: the balance paid out of each channel
  wallet,    \* ledger: the hot wallet's balance
  pending    \* ledger: transactions submitted and not yet applied

settlerVars == <<settled, settler, redeemed, wallet, pending>>
vars == <<claimVars, settlerVars>>

Tx == [to : Channels \cup {Vault}, amt : Nat]
Asleep == [pc |-> "sleep", todo |-> {}, tx |-> [to |-> Vault, amt |-> 0]]

TypeOK ==
  /\ ClaimsTypeOK
  /\ settled \in [Channels -> Nat]
  /\ settler \in [pc : {"sleep", "scan", "await", "redeemed", "balance", "pay"},
                  todo : SUBSET Channels, tx : Tx]
  /\ redeemed \in [Channels -> Nat]
  /\ wallet \in Nat
  /\ pending \in Seq(Tx)

Init ==
  /\ ClaimsInit
  /\ settled = [c \in Channels |-> 0]
  /\ settler = Asleep
  /\ redeemed = [c \in Channels |-> 0]
  /\ wallet = HotBalance
  /\ pending = <<>>

-------------------------------------------------------------------------------
(* Plausible mistakes in the definitions below; none is part of Spec.        *)

\* A claim that has just reached the threshold is left.
DueBeyond(c) == voucher[c] - settled[c] > Threshold

\* The reserve is not subtracted.
ExcessOfAll == wallet

\* Any excess is swept.
SweepAlways ==
  /\ settler.pc = "balance"
  /\ settler' = [settler EXCEPT !.pc = "pay", !.tx = [to |-> Vault, amt |-> wallet - Reserve - Margin]]
  /\ UNCHANGED <<claimVars, settled, redeemed, wallet, pending>>

\* Whatever becomes of a claim, it is recorded as settled.
CarryRecorded(tx) == IF tx.to = Vault THEN Asleep ELSE [settler EXCEPT !.pc = "redeemed"]

-------------------------------------------------------------------------------
(* The settler.                                                              *)

\* SCAN returns every key that is there throughout; one that is not yet there
\* when it is visited is skipped.
Wake ==
  /\ settler.pc = "sleep"
  /\ settler' = [settler EXCEPT !.pc = "scan", !.todo = Channels]
  /\ UNCHANGED <<claimVars, settled, redeemed, wallet, pending>>

Due(c) == voucher[c] - settled[c] >= Threshold

Skip(c) ==
  /\ settler.pc = "scan" /\ c \in settler.todo
  /\ ~Due(c)
  /\ settler' = [settler EXCEPT !.todo = @ \ {c}]
  /\ UNCHANGED <<claimVars, settled, redeemed, wallet, pending>>

\* HGETALL latest_claim and GET settled_drops, which nobody else writes; the claim
\* is submitted and its outcome awaited.
SubmitClaim(c) ==
  LET tx == [to |-> c, amt |-> voucher[c]]
  IN /\ settler.pc = "scan" /\ c \in settler.todo
     /\ Due(c)
     /\ settler' = [pc |-> "await", todo |-> settler.todo \ {c}, tx |-> tx]
     /\ pending' = Append(pending, tx)
     /\ UNCHANGED <<claimVars, settled, redeemed, wallet>>

\* tesSUCCESS: SET settled_drops.
Record ==
  /\ settler.pc = "redeemed"
  /\ settler' = [settler EXCEPT !.pc = "scan"]
  /\ settled' = [settled EXCEPT ![settler.tx.to] = settler.tx.amt]
  /\ UNCHANGED <<claimVars, redeemed, wallet, pending>>

EndScan ==
  /\ settler.pc = "scan" /\ settler.todo = {}
  /\ settler' = [settler EXCEPT !.pc = "balance"]
  /\ UNCHANGED <<claimVars, settled, redeemed, wallet, pending>>

Excess == wallet - Reserve

\* AccountInfo: the excess is swept when there is enough of it.
ReadBalance ==
  /\ settler.pc = "balance"
  /\ settler' = IF Excess >= SweepThreshold
                THEN [settler EXCEPT !.pc = "pay", !.tx = [to |-> Vault, amt |-> Excess - Margin]]
                ELSE Asleep
  /\ UNCHANGED <<claimVars, settled, redeemed, wallet, pending>>

SubmitSweep ==
  /\ settler.pc = "pay"
  /\ settler' = [settler EXCEPT !.pc = "await"]
  /\ pending' = Append(pending, settler.tx)
  /\ UNCHANGED <<claimVars, settled, redeemed, wallet>>

\* Where the loop goes when a transaction of its own is done with or has raised.
Carry(tx) == IF tx.to = Vault THEN Asleep ELSE [settler EXCEPT !.pc = "scan"]

\* Submitting raises before anything is sent, or the connection is lost while
\* the outcome is awaited, or settled_drops is not written.
StepFails ==
  /\ \/ /\ settler.pc \in {"await", "redeemed", "pay"}
        /\ settler' = Carry(settler.tx)
     \/ /\ settler.pc = "scan"
        /\ \E c \in settler.todo : Due(c) /\ settler' = [settler EXCEPT !.todo = @ \ {c}]
  /\ Fault
  /\ UNCHANGED <<payer, req, claimed, voucher, served, overlapped, settled, redeemed, wallet, pending>>

\* A cycle ends by an exception (Redis, AccountInfo), or the worker restarts.
CycleFails ==
  /\ settler.pc # "sleep"
  /\ settler' = Asleep
  /\ Fault
  /\ UNCHANGED <<payer, req, claimed, voucher, served, overlapped, settled, redeemed, wallet, pending>>

-------------------------------------------------------------------------------
(* The ledger.                                                               *)

\* The settler awaits the transaction at the head: the one it submitted last.
Awaited == settler.pc = "await" /\ Len(pending) = 1

Redeems(tx) == tx.to # Vault /\ redeemed[tx.to] < tx.amt /\ tx.amt <= Funds[tx.to]
Sweeps(tx) == tx.to = Vault /\ tx.amt + Fee <= wallet

\* The head is applied, with success or not; it costs the fee either way.
Apply ==
  LET tx == Head(pending)
  IN /\ pending # <<>>
     /\ wallet >= Fee
     /\ pending' = Tail(pending)
     /\ redeemed' = IF Redeems(tx) THEN [redeemed EXCEPT ![tx.to] = tx.amt] ELSE redeemed
     /\ wallet' = wallet - Fee + (IF Redeems(tx) THEN tx.amt - redeemed[tx.to]
                                  ELSE IF Sweeps(tx) THEN 0 - tx.amt ELSE 0)
     /\ settler' = IF ~Awaited THEN settler
                   ELSE IF Redeems(tx) THEN [settler EXCEPT !.pc = "redeemed"] ELSE Carry(tx)
     /\ UNCHANGED <<claimVars, settled>>

\* The head expires: submit_and_wait raises.
Expire ==
  /\ pending # <<>>
  /\ pending' = Tail(pending)
  /\ settler' = IF Awaited THEN Carry(Head(pending)) ELSE settler
  /\ IF wallet >= Fee THEN Fault ELSE UNCHANGED faults
  /\ UNCHANGED <<payer, req, claimed, voucher, served, overlapped, settled, redeemed, wallet>>

SettlerStep ==
  \/ Wake \/ EndScan \/ Record \/ ReadBalance \/ SubmitSweep
  \/ \E c \in Channels : Skip(c) \/ SubmitClaim(c)

Next ==
  \/ ClaimsNext /\ UNCHANGED settlerVars
  \/ SettlerStep
  \/ StepFails \/ CycleFails
  \/ Apply \/ Expire

Spec == Init /\ [][Next]_vars
Fairness == WF_vars(SettlerStep) /\ WF_vars(Apply)
FairSpec == Spec /\ Fairness

-------------------------------------------------------------------------------
(* Properties.                                                               *)

\* settled_drops never runs ahead of the ledger, whichever outcome is lost, so what
\* it hides from the settler was really redeemed.
SettledWasRedeemed == \A c \in Channels : settled[c] <= redeemed[c]

\* A sweep leaves the reserve in the hot wallet, short of the fees of what was
\* pending when the balance was read, even if the sweep before it was taken for
\* failed and is paid after all: the thresholds make the second one too large.
ReserveKept ==
  [][(wallet' < wallet - Fee /\ faults <= 1) => wallet' >= Reserve - Fee]_vars

\* A saved claim that the channel can pay and that is worth redeeming does not stay
\* so: it is redeemed, or a later one replaces it, or the wallet cannot pay the fee.
\* A failed cycle, a lost outcome or a channel that cannot pay stops no other.
VouchersAreRedeemed ==
  \A c \in Channels : \A v \in 1..Funds[c] :
    (voucher[c] = v /\ v - redeemed[c] >= Threshold)
      ~> (v - redeemed[c] < Threshold \/ voucher[c] # v \/ wallet < Fee)
===============================================================================
