----------------------------- MODULE ChannelClaims -----------------------------
(***************************************************************************)
(* Calls of the tools paid by claims on XRPL payment channels: the clients  *)
(* (sdk/bristlecone_x402.py, xylem_client.py) sign a growing total, and     *)
(* verify_and_consume_claim admits a request whose claim exceeds the last   *)
(* one by the price.  A channel stands for its identifier after             *)
(* upper().strip(), the form of every key; amounts are drops.               *)
(***************************************************************************)
EXTENDS Integers

CONSTANTS
  Channels,       \* payment channels
  SdkPayers,      \* clients that ask for the price first (bristlecone_x402.py)
  XylemPayers,    \* clients that are told the price (xylem_client.py)
  Requests,       \* paid requests
  Prices,         \* TOOL_PRICING_DROPS
  Starts,         \* initial_drops_spent: the totals SDK clients may start from
  MaxFaults       \* bound on failures

Payers == SdkPayers \cup XylemPayers

ASSUME PriceAssumption == Prices \subseteq Nat
ASSUME StartAssumption == Starts \subseteq Nat

VARIABLES
  payer,       \* each client: its channel and the total it has signed
  req,         \* each request: its client, its claim, where it is, who still waits
  claimed,     \* xrpl:channel:{c}:claimed_drops
  voucher,     \* xrpl:channel:{c}:latest_claim, 0 while there is none
  served,      \* history: the prices of the requests a channel paid
  overlapped,  \* history: channels two of whose claims were checked at once
  faults

claimVars == <<payer, req, claimed, voucher, served, overlapped, faults>>

Chan(r) == payer[req[r].by].chan

\* Requests between the read of claimed_drops and the write of latest_claim.
InCheck == {r \in Requests : req[r].pc \in {"verify", "save"}}

RequestRecord ==
  [pc : {"new", "sent", "verify", "save", "served", "refused", "failed"},
   by : Payers, amt : Nat, price : Prices \cup {0}, held : BOOLEAN]

ClaimsTypeOK ==
  /\ payer \in [Payers -> [chan : Channels, signed : Nat]]
  /\ req \in [Requests -> RequestRecord]
  /\ claimed \in [Channels -> Nat]
  /\ voucher \in [Channels -> Nat]
  /\ served \in [Channels -> Nat]
  /\ overlapped \in SUBSET Channels
  /\ faults \in Nat

ClaimsInit ==
  /\ payer \in [Payers -> [chan : Channels, signed : Starts]]
  /\ \A p \in Payers \ SdkPayers : payer[p].signed = 0
  /\ req \in [Requests -> {[pc |-> "new", by |-> p, amt |-> 0, price |-> 0, held |-> FALSE] : p \in Payers}]
  /\ claimed = [c \in Channels |-> 0]
  /\ voucher = [c \in Channels |-> 0]
  /\ served = [c \in Channels |-> 0]
  /\ overlapped = {}
  /\ faults = 0

Fault == faults < MaxFaults /\ faults' = faults + 1

-------------------------------------------------------------------------------
(* The clients.                                                              *)

\* The client is inside a call.
Busy(p) == \E r \in Requests : req[r].by = p /\ req[r].held

\* The total grows by the cost, is signed, and is sent with a request whose route
\* costs `price`.
Send(r, cost, price) ==
  LET p == req[r].by
      total == payer[p].signed + cost
  IN /\ req[r].pc = "new"
     /\ ~Busy(p)
     /\ payer' = [payer EXCEPT ![p].signed = total]
     /\ req' = [req EXCEPT ![r].pc = "sent", ![r].amt = total, ![r].price = price, ![r].held = TRUE]
     /\ UNCHANGED <<claimed, voucher, served, overlapped, faults>>

\* The first POST, without headers, is answered by the price and changes nothing.
Call(r, price) == req[r].by \in SdkPayers /\ Send(r, price, price)

CallTool(r, cost, price) == req[r].by \in XylemPayers /\ Send(r, cost, price)

\* The client's timeout: the request goes on without it.
GiveUp(r) ==
  /\ req[r].held
  /\ req' = [req EXCEPT ![r].held = FALSE]
  /\ Fault
  /\ UNCHANGED <<payer, claimed, voucher, served, overlapped>>

-------------------------------------------------------------------------------
(* The middleware.  Reads and writes of Redis and the question to the XRPL   *)
(* node are steps of their own: other requests run in between.               *)

Answer(r, pc) == req' = [req EXCEPT ![r].pc = pc, ![r].held = FALSE]

\* A plausible mistake in Delta; not part of Spec: the claim is taken by itself.
DeltaFromZero(r) == req[r].amt

Delta(r) == req[r].amt - claimed[Chan(r)]

\* The claim exceeds what is claimed by the price, and is sent to be verified.
CheckDelta(r) ==
  /\ req[r].pc = "sent"
  /\ Delta(r) >= req[r].price
  /\ req' = [req EXCEPT ![r].pc = "verify"]
  /\ overlapped' = IF \E q \in InCheck : Chan(q) = Chan(r) THEN overlapped \cup {Chan(r)} ELSE overlapped
  /\ UNCHANGED <<payer, claimed, voucher, served, faults>>

RefuseDelta(r) ==
  /\ req[r].pc = "sent"
  /\ Delta(r) < req[r].price
  /\ Answer(r, "refused")
  /\ UNCHANGED <<payer, claimed, voucher, served, overlapped, faults>>

\* The node does not verify the signature, or does not answer.
RefuseSignature(r) ==
  /\ req[r].pc = "verify"
  /\ Answer(r, "refused")
  /\ UNCHANGED <<payer, claimed, voucher, served, overlapped, faults>>

\* The node verified the signature: SET claimed_drops.
Consume(r) ==
  /\ req[r].pc = "verify"
  /\ req' = [req EXCEPT ![r].pc = "save"]
  /\ claimed' = [claimed EXCEPT ![Chan(r)] = req[r].amt]
  /\ UNCHANGED <<payer, voucher, served, overlapped, faults>>

\* HSET latest_claim; the request goes on to the tool, whose metering is bypassed.
Admit(r) ==
  /\ req[r].pc = "save"
  /\ Answer(r, "served")
  /\ voucher' = [voucher EXCEPT ![Chan(r)] = req[r].amt]
  /\ served' = [served EXCEPT ![Chan(r)] = @ + req[r].price]
  /\ UNCHANGED <<payer, claimed, overlapped, faults>>

\* The request does not arrive, or a Redis command of it raises, whether Redis
\* carried it out or not.
Fail(r) ==
  /\ req[r].pc \in {"sent", "verify", "save"}
  /\ Answer(r, "failed")
  /\ \/ UNCHANGED <<claimed, voucher>>
     \/ /\ req[r].pc = "verify"
        /\ claimed' = [claimed EXCEPT ![Chan(r)] = req[r].amt]
        /\ UNCHANGED voucher
     \/ /\ req[r].pc = "save"
        /\ voucher' = [voucher EXCEPT ![Chan(r)] = req[r].amt]
        /\ UNCHANGED claimed
  /\ Fault
  /\ UNCHANGED <<payer, served, overlapped>>

\* The gateway stops: its requests are answered by a closed connection.
GatewayRestarts ==
  /\ \E r \in Requests : req[r].pc \in {"sent", "verify", "save"}
  /\ req' = [r \in Requests |->
               IF req[r].pc \in {"sent", "verify", "save"}
               THEN [req[r] EXCEPT !.pc = "failed", !.held = FALSE] ELSE req[r]]
  /\ Fault
  /\ UNCHANGED <<payer, claimed, voucher, served, overlapped>>

ClaimsNext ==
  \/ \E r \in Requests :
       \/ \E price \in Prices : Call(r, price)
       \/ \E cost, price \in Prices : CallTool(r, cost, price)
       \/ GiveUp(r)
       \/ CheckDelta(r) \/ RefuseDelta(r)
       \/ RefuseSignature(r) \/ Consume(r) \/ Admit(r)
       \/ Fail(r)
  \/ GatewayRestarts

-------------------------------------------------------------------------------
(* Properties.                                                               *)

\* What a channel's claims are: "cumulative drops authorized across the channel
\* session".  The last claim saved covers the prices of all the requests it and
\* its predecessors paid for.
CumulativeClaims == \A c \in Channels : served[c] <= voucher[c]

\* The same, while no two claims of the channel are checked at once: whatever is
\* refused, fails halfway, times out or restarts, the treasury holds a claim for
\* every drop's worth it served, because claimed_drops and latest_claim only grow
\* and each request finds the total of all those before it.
ServedIsPaid == \A c \in Channels \ overlapped : served[c] <= voucher[c]
===============================================================================
