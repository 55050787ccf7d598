---------------------------- MODULE ChainListener ----------------------------
(***************************************************************************)
(* The payment listeners of app/main.py: one loop per network follows the   *)
(* chain through an RpcCircuitBreaker, and process_deposit turns every      *)
(* transfer to the treasury into credits.                                   *)
(*                                                                         *)
(* Blocks without a transfer to the treasury are left out of the chain, and *)
(* the chain is final.  A node answers a kind of call or it does not;       *)
(* passing failures and restarts are faults.  Delays are left out.          *)
(***************************************************************************)
EXTENDS Integers, Sequences

CONSTANTS
  Networks,   \* "base" and "arc"
  Ranged,     \* networks whose logs are fetched for a whole range at once
  Settings,   \* networks whose treasury address is configured, as a set of sets
  Tenants,    \* what tenant_address:{sender} can name
  Labels,     \* names of the transactions within a block
  Blocks,     \* what a block can hold: sequences of transfers
  Absent,     \* credits[t] of a tenant without a hash field
  Worth,      \* credits a transfer buys
  Nodes,      \* number of endpoints of a network's pool
  Pools,      \* what the endpoints of a pool may be able to answer
  Threshold,  \* failure_threshold
  MaxRange,   \* MAX_BLOCK_RANGE_PER_CYCLE
  MaxBlocks,  \* bound: blocks mined on each network
  MaxFaults   \* bound: passing failures and restarts

Transfer == [tx : Labels, tenant : Tenants]

ASSUME NetworkAssumption == Ranged \subseteq Networks /\ Settings \subseteq SUBSET Networks
ASSUME BlockAssumption == \A b \in Blocks : b \in Seq(Transfer) /\ b # <<>>
ASSUME PoolAssumption == Nodes \in Nat \ {0} /\ Threshold \in Nat \ {0} /\ MaxRange \in Nat \ {0}
ASSUME ServingAssumption == Pools \subseteq [0..(Nodes - 1) -> SUBSET {"head", "logs"}]
ASSUME CreditAssumption == Absent \notin Int /\ Worth \in Nat
ASSUME BoundAssumption == MaxBlocks \in Nat /\ MaxFaults \in Nat

VARIABLES
  chain,      \* the blocks of each network
  serves,     \* the calls each endpoint answers
  listener,   \* locals of each loop and of its breaker
  start,      \* history: block from which each loop follows the chain
  credits,    \* Redis tenant:{t} credits
  balance,    \* Redis balance:{t}
  confirmed,  \* Redis tx_confirmed:{hash}
  hashed,     \* history: number of HINCRBYs made for each hash
  strung,     \* history: number of INCRBYs made for each hash
  given,      \* history: credits each tenant was given
  faults      \* bounded count of faults

depositVars == <<credits, balance, confirmed, hashed, strung, given>>
chainVars == <<chain, serves, listener, start, depositVars, faults>>

Calls == {"head", "logs"}
Hashes == Networks \X (1..MaxBlocks) \X Labels

\* A loop whose treasury is not configured returns at once.
NewListener(on) == [pc |-> IF on THEN "start" ELSE "off", last |-> 0, target |-> 0, blk |-> 0,
                    pos |-> 0, node |-> 0, fails |-> 0]

ChainInit ==
  /\ chain = [n \in Networks |-> <<>>]
  /\ serves \in [Networks -> Pools]
  /\ \E on \in Settings : listener = [n \in Networks |-> NewListener(n \in on)]
  /\ start = [n \in Networks |-> 0]
  /\ credits = [t \in Tenants |-> Absent]
  /\ balance = [t \in Tenants |-> 0]
  /\ confirmed = {}
  /\ hashed = [h \in Hashes |-> 0]
  /\ strung = [h \in Hashes |-> 0]
  /\ given = [t \in Tenants |-> 0]
  /\ faults = 0

Fault == faults < MaxFaults /\ faults' = faults + 1

\* HINCRBY of a field that may be missing.
Plus(v, k) == (IF v = Absent THEN 0 ELSE v) + k

Depositing(n) == listener[n].pc \in {"check", "hash", "string", "mark"}
CallOf(n) == IF listener[n].pc = "fetch" THEN "logs" ELSE "head"
Served(n) == CallOf(n) \in serves[n][listener[n].node]

\* The transfer a loop is crediting, and its transaction's hash.
Current(n) == chain[n][listener[n].blk][listener[n].pos]
Hash(n) == <<n, listener[n].blk, Current(n).tx>>

\* The loop goes on to the next transfer, block or cycle; the cursor moves when
\* the whole range is done.
NextTransfer(n) ==
  LET l == listener[n]
  IN CASE l.pos < Len(chain[n][l.blk]) -> [l EXCEPT !.pc = "check", !.pos = @ + 1]
       [] l.pos >= Len(chain[n][l.blk]) /\ l.blk < l.target ->
            [l EXCEPT !.pc = IF n \in Ranged THEN "check" ELSE "fetch", !.blk = @ + 1, !.pos = 1]
       [] OTHER -> [l EXCEPT !.pc = "poll", !.last = l.target]

-------------------------------------------------------------------------------
(* Plausible mistakes in the actions below; none is part of Spec.            *)

\* The cursor moves before the range is credited.
PollAhead(n) ==
  LET l == listener[n]
      head == Len(chain[n])
      target == IF head < l.last + MaxRange THEN head ELSE l.last + MaxRange
  IN /\ l.pc \in {"start", "poll"} /\ Served(n)
     /\ listener' = [listener EXCEPT ![n] =
          IF l.pc = "start" THEN [l EXCEPT !.pc = "poll", !.last = head, !.fails = 0]
          ELSE IF head > l.last
          THEN [l EXCEPT !.pc = "fetch", !.last = target, !.target = target, !.blk = l.last + 1,
                         !.pos = 1, !.fails = 0]
          ELSE [l EXCEPT !.fails = 0]]
     /\ start' = IF l.pc = "start" THEN [start EXCEPT ![n] = head] ELSE start
     /\ UNCHANGED <<chain, serves, depositVars, faults>>

\* The confirmation is not looked at.
CheckNothing(n) ==
  /\ listener[n].pc = "check"
  /\ listener' = [listener EXCEPT ![n].pc = "hash"]
  /\ UNCHANGED <<chain, serves, start, depositVars, faults>>

\* The hash is confirmed before the credits are added.
MarkFirst(n) ==
  /\ listener[n].pc = "check"
  /\ IF Hash(n) \in confirmed
     THEN listener' = [listener EXCEPT ![n] = NextTransfer(n)] /\ UNCHANGED confirmed
     ELSE listener' = [listener EXCEPT ![n].pc = "hash"] /\ confirmed' = confirmed \cup {Hash(n)}
  /\ UNCHANGED <<chain, serves, start, credits, balance, hashed, strung, given, faults>>

\* Threshold failures do not change the node.
NodeSticks(n) ==
  listener' = [listener EXCEPT
    ![n].pc = IF @ = "start" THEN "start" ELSE "poll",
    ![n].fails = IF @ < Threshold THEN @ + 1 ELSE Threshold]

\* The pool's index does not wrap around.
RotateOff(n) ==
  listener' = [listener EXCEPT
    ![n].pc = IF @ = "start" THEN "start" ELSE "poll",
    ![n].fails = IF @ < Threshold THEN @ + 1 ELSE Threshold,
    ![n].node = IF listener[n].fails + 1 >= Threshold THEN @ + 1 ELSE @]

-------------------------------------------------------------------------------
(* The chain and the process.                                                *)

Mine(n, b) ==
  /\ listener[n].pc # "off" /\ Len(chain[n]) < MaxBlocks
  /\ chain' = [chain EXCEPT ![n] = Append(@, b)]
  /\ UNCHANGED <<serves, listener, start, depositVars, faults>>

\* An endpoint goes down for good.
NodeDies(n, i) ==
  /\ serves[n][i] # {} /\ listener[n].pc # "off" /\ Fault
  /\ serves' = [serves EXCEPT ![n][i] = {}]
  /\ UNCHANGED <<chain, listener, start, depositVars>>

\* The cursor, the breaker and the deposits in progress live in memory.
ListenersRestart ==
  /\ Fault
  /\ listener' = [n \in Networks |-> NewListener(listener[n].pc # "off")]
  /\ UNCHANGED <<chain, serves, start, depositVars>>

-------------------------------------------------------------------------------
(* base_payment_listener_loop and arc_payment_listener_loop.                 *)

\* The head of the chain: the first one is where the loop begins, a later one
\* gives the range of the cycle.  A success closes the breaker.
Poll(n) ==
  LET l == listener[n]
      head == Len(chain[n])
  IN /\ l.pc \in {"start", "poll"} /\ Served(n)
     /\ listener' = [listener EXCEPT ![n] =
          IF l.pc = "start" THEN [l EXCEPT !.pc = "poll", !.last = head, !.fails = 0]
          ELSE IF head > l.last
          THEN [l EXCEPT !.pc = "fetch", !.blk = l.last + 1, !.pos = 1, !.fails = 0,
                         !.target = IF head < l.last + MaxRange THEN head ELSE l.last + MaxRange]
          ELSE [l EXCEPT !.fails = 0]]
     /\ start' = IF l.pc = "start" THEN [start EXCEPT ![n] = head] ELSE start
     /\ UNCHANGED <<chain, serves, depositVars, faults>>

\* The logs of the range, or the next block of it.
Fetch(n) ==
  /\ listener[n].pc = "fetch" /\ Served(n)
  /\ listener' = [listener EXCEPT ![n].pc = "check", ![n].fails = 0]
  /\ UNCHANGED <<chain, serves, start, depositVars, faults>>

\* record_failure and the loop's except clause: after Threshold failures in a
\* row every further one moves on to the next node; only a success resets them.
FailOver(n) ==
  listener' = [listener EXCEPT
    ![n].pc = IF @ = "start" THEN "start" ELSE "poll",
    ![n].fails = IF @ < Threshold THEN @ + 1 ELSE Threshold,
    ![n].node = IF listener[n].fails + 1 >= Threshold THEN (@ + 1) % Nodes ELSE @]

CallRefused(n) ==
  /\ listener[n].pc \in {"start", "poll", "fetch"} /\ ~Served(n)
  /\ FailOver(n)
  /\ UNCHANGED <<chain, serves, start, depositVars, faults>>

CallFails(n) ==
  /\ listener[n].pc \in {"start", "poll", "fetch"} /\ Fault
  /\ FailOver(n)
  /\ UNCHANGED <<chain, serves, start, depositVars>>

-------------------------------------------------------------------------------
(* process_deposit.                                                          *)

\* GET tx_confirmed: a confirmed transaction is skipped.
CheckDeposit(n) ==
  /\ listener[n].pc = "check"
  /\ listener' = IF Hash(n) \in confirmed
                 THEN [listener EXCEPT ![n] = NextTransfer(n)]
                 ELSE [listener EXCEPT ![n].pc = "hash"]
  /\ UNCHANGED <<chain, serves, start, depositVars, faults>>

\* HINCRBY tenant:{t} credits.
CreditHash(n) ==
  LET t == Current(n).tenant
  IN /\ listener[n].pc = "hash"
     /\ credits' = [credits EXCEPT ![t] = Plus(@, Worth)]
     /\ hashed' = [hashed EXCEPT ![Hash(n)] = @ + 1]
     /\ given' = [given EXCEPT ![t] = @ + Worth]
     /\ listener' = [listener EXCEPT ![n].pc = "string"]
     /\ UNCHANGED <<chain, serves, start, balance, confirmed, strung, faults>>

\* INCRBY balance:{t}.
CreditString(n) ==
  /\ listener[n].pc = "string"
  /\ balance' = [balance EXCEPT ![Current(n).tenant] = @ + Worth]
  /\ strung' = [strung EXCEPT ![Hash(n)] = @ + 1]
  /\ listener' = [listener EXCEPT ![n].pc = "mark"]
  /\ UNCHANGED <<chain, serves, start, credits, confirmed, hashed, given, faults>>

\* SET tx_confirmed.
MarkConfirmed(n) ==
  /\ listener[n].pc = "mark"
  /\ confirmed' = confirmed \cup {Hash(n)}
  /\ listener' = [listener EXCEPT ![n] = NextTransfer(n)]
  /\ UNCHANGED <<chain, serves, start, credits, balance, hashed, strung, given, faults>>

\* A Redis command raises: the cycle ends, its range will be read again.
DepositFails(n) ==
  /\ Depositing(n) /\ Fault
  /\ listener' = [listener EXCEPT ![n].pc = "poll"]
  /\ UNCHANGED <<chain, serves, start, depositVars>>

-------------------------------------------------------------------------------
Listen(n) == Poll(n) \/ Fetch(n) \/ CallRefused(n)
Deposit(n) == CheckDeposit(n) \/ CreditHash(n) \/ CreditString(n) \/ MarkConfirmed(n)

ChainNext ==
  \/ \E n \in Networks, b \in Blocks : Mine(n, b)
  \/ \E n \in Networks, i \in 0..(Nodes - 1) : NodeDies(n, i)
  \/ \E n \in Networks : Listen(n) \/ CallFails(n) \/ Deposit(n) \/ DepositFails(n)

-------------------------------------------------------------------------------
(* Properties.                                                               *)

ListenerRecord ==
  [pc : {"off", "start", "poll", "fetch", "check", "hash", "string", "mark"}, last : Nat, target : Nat,
   blk : Nat, pos : Nat, node : 0..(Nodes - 1), fails : 0..Threshold]

\* Every variable holds the kind of value the loops and Redis keep.
ChainTypeOK ==
  /\ chain \in [Networks -> Seq(Blocks)]
  /\ serves \in [Networks -> [0..(Nodes - 1) -> SUBSET Calls]]
  /\ listener \in [Networks -> ListenerRecord]
  /\ start \in [Networks -> Nat]
  /\ credits \in [Tenants -> Int \cup {Absent}] /\ balance \in [Tenants -> Nat]
  /\ confirmed \subseteq Hashes
  /\ hashed \in [Hashes -> Nat] /\ strung \in [Hashes -> Nat]
  /\ given \in [Tenants -> Nat] /\ faults \in Nat

\* The cursor never passes a transaction that was not dealt with: whatever
\* fails, every transaction between where the loop began and last_block is confirmed.
CursorCovers ==
  \A n \in Networks : listener[n].pc \notin {"off", "start"} =>
    \A b \in (start[n] + 1)..listener[n].last :
      \A p \in 1..Len(chain[n][b]) : <<n, b, chain[n][b][p].tx>> \in confirmed

\* A confirmed transaction was credited in both of the tenant's balances.
ConfirmedIsCredited == \A h \in confirmed : hashed[h] > 0 /\ strung[h] > 0

\* Only failures credit a transaction again, and each at most once more.
RepeatsNeedFailures ==
  \A h \in Hashes : hashed[h] <= 1 + faults /\ strung[h] <= hashed[h]

\* Some node of a network answers every call.
SomeNode(n) == \E i \in 0..(Nodes - 1) : serves[n][i] = Calls

\* Some does, and no other answers eth_blockNumber alone.
WholeNodes(n) == SomeNode(n) /\ \A i \in 0..(Nodes - 1) : serves[n][i] # {"head"}

\* Block b is mined past where the loop began: it is the loop's to credit.
Due(n, b) == listener[n].pc # "off" /\ b > start[n] /\ b <= Len(chain[n])
Confirmed(n, b) ==
  b <= Len(chain[n]) /\ \A p \in 1..Len(chain[n][b]) : <<n, b, chain[n][b][p].tx>> \in confirmed

\* A transfer is credited, through passing failures and past dead nodes, unless
\* the loop begins after it, at the start or when the process is restarted.
TransfersAreCredited ==
  \A n \in Networks, b \in 1..MaxBlocks :
    WholeNodes(n) /\ Due(n, b) ~> ~WholeNodes(n) \/ b <= start[n] \/ Confirmed(n, b)

\* "Resilient breaker handles backoff and node rotation internally": the same as
\* long as one node answers every call, whatever the others answer.
NodesRotate ==
  \A n \in Networks, b \in 1..MaxBlocks :
    SomeNode(n) /\ Due(n, b) ~> ~SomeNode(n) \/ b <= start[n] \/ Confirmed(n, b)
===============================================================================
