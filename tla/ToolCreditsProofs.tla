--------------------------- MODULE ToolCreditsProofs ---------------------------
(***************************************************************************)
(* What ToolCredits' runs show of the listeners and of the credits on small *)
(* instances, proved for all constants: type correctness, the cursor, the   *)
(* order of process_deposit's steps, and the credits' sums.                 *)
(*                                                                         *)
(* IInv has a part for each listener (LoopInv: where it is in the chain,    *)
(* what it has passed, and what the transaction in hand was credited) and   *)
(* one for each tenant (LedgerInv).                                         *)
(***************************************************************************)
EXTENDS ToolCredits, FiniteSetTheorems, TLAPS

\* A range is in work.
Working == {"fetch", "check", "hash", "string", "mark"}
Running(n) == listener[n].pc \notin {"off", "start"}

\* The loop is inside the chain, and inside its range while it works on one.
Where(n) ==
  LET l == listener[n]
  IN /\ l.last <= Len(chain[n]) /\ Len(chain[n]) <= MaxBlocks
     /\ Running(n) => start[n] <= l.last
     /\ l.pc \in Working => /\ l.last < l.blk /\ l.blk <= l.target /\ l.target <= Len(chain[n])
                            /\ l.pos \in 1..Len(chain[n][l.blk])

\* The transaction of transfer p of block b is confirmed.
Dealt(n, b, p) == <<n, b, chain[n][b][p].tx>> \in confirmed

\* What the loop has passed is confirmed: the blocks up to the cursor or before
\* the one in work, and the transfers before the one in hand.
Passed(n) ==
  LET l == listener[n]
  IN /\ Running(n) =>
          \A b \in (start[n] + 1)..(IF l.pc \in Working THEN l.blk - 1 ELSE l.last) :
            \A p \in 1..Len(chain[n][b]) : Dealt(n, b, p)
     /\ l.pc \in Working => \A p \in 1..(l.pos - 1) : Dealt(n, l.blk, p)

\* The loop has added the hash in hand to tenant:{t} and not confirmed it.
Holds(n, h) == listener[n].pc \in {"string", "mark"} /\ h = Hash(n)

\* A hash is credited before it is confirmed, and again only after a failure.
Credited(n) ==
  \A b \in 1..MaxBlocks, x \in Labels :
    LET h == <<n, b, x>>
    IN /\ h \in confirmed => hashed[h] > 0 /\ strung[h] > 0
       /\ strung[h] <= hashed[h] /\ hashed[h] <= 1 + faults
       /\ h \notin confirmed /\ ~Holds(n, h) => hashed[h] <= faults

\* The increments follow each other.
Staged(n) ==
  /\ listener[n].pc \in {"hash", "string", "mark"} => Hash(n) \notin confirmed
  /\ listener[n].pc = "string" => strung[Hash(n)] < hashed[Hash(n)]
  /\ listener[n].pc = "mark" => 0 < strung[Hash(n)]

LoopOK(n) == Where(n) /\ Passed(n) /\ Credited(n) /\ Staged(n)
LoopInv == \A n \in Networks : LoopOK(n)

\* A missing field was never touched; one that exists adds up.  Each call served
\* has taken a credit the tenant had.
TenantOK(t) ==
  /\ IF credits[t] = Absent THEN t \notin seeded /\ given[t] = 0 /\ taken[t] = 0
     ELSE credits[t] = Funds(t) - taken[t]
  /\ Cardinality(Charged(t)) <= Funds(t) /\ Cardinality(Charged(t)) <= taken[t]
LedgerInv == \A t \in Tenants : TenantOK(t)

IInv == TypeOK /\ LoopInv /\ LedgerInv

-------------------------------------------------------------------------------
(* The transfers of a chain, and the next one.                               *)

\* What a loop has in hand is a transfer of its chain.
LEMMA InHand ==
  ASSUME TypeOK, NEW n \in Networks, Where(n), listener[n].pc \in Working
  PROVE  /\ listener[n].blk \in 1..MaxBlocks /\ listener[n].blk \in 1..Len(chain[n])
         /\ listener[n].pos \in 1..Len(chain[n][listener[n].blk])
         /\ Current(n) \in Transfer /\ Hash(n) \in Hashes
<1> DEFINE l == listener[n]
<1>1. l \in ListenerRecord /\ chain[n] \in Seq(Blocks) /\ MaxBlocks \in Nat
  BY BoundAssumption DEF TypeOK, ChainTypeOK
<1>2. Len(chain[n]) \in Nat /\ l.blk \in Nat /\ l.last \in Nat /\ l.target \in Nat
  BY <1>1 DEF ListenerRecord
<1>3. l.blk \in 1..Len(chain[n]) /\ l.blk \in 1..MaxBlocks /\ l.pos \in 1..Len(chain[n][l.blk])
  BY <1>2, <1>1 DEF Where
<1>4. chain[n][l.blk] \in Blocks
  BY <1>1, <1>3
<1>5. chain[n][l.blk] \in Seq(Transfer)
  BY <1>4, BlockAssumption
<1>6. Current(n) \in Transfer
  BY <1>3, <1>5 DEF Current
<1> QED BY <1>3, <1>6 DEF Hash, Hashes, Transfer

\* Every block has a first transfer.
LEMMA FirstTransfer ==
  ASSUME TypeOK, NEW n \in Networks, NEW b \in 1..Len(chain[n])
  PROVE  chain[n][b] \in Seq(Transfer) /\ Len(chain[n][b]) \in Nat /\ 1 \in 1..Len(chain[n][b])
<1>1. chain[n] \in Seq(Blocks) BY DEF TypeOK, ChainTypeOK
<1>2. chain[n][b] \in Blocks BY <1>1
<1>3. chain[n][b] \in Seq(Transfer) /\ chain[n][b] # <<>> BY <1>2, BlockAssumption
<1> QED BY <1>3

\* A transfer on a chain has one of the hashes.
LEMMA TxOf ==
  ASSUME TypeOK, NEW n \in Networks, NEW b \in 1..Len(chain[n]), NEW p \in 1..Len(chain[n][b])
  PROVE  chain[n][b][p].tx \in Labels
<1>1. chain[n][b] \in Seq(Transfer) BY FirstTransfer
<1>2. chain[n][b][p] \in Transfer BY <1>1
<1> QED BY <1>2 DEF Transfer

\* The records NextTransfer makes.
LEMMA NextRecords ==
  ASSUME NEW l \in ListenerRecord
  PROVE  /\ [l EXCEPT !.pc = "check", !.pos = l.pos + 1] \in ListenerRecord
         /\ \A pc \in {"check", "fetch"} :
              [l EXCEPT !.pc = pc, !.blk = l.blk + 1, !.pos = 1] \in ListenerRecord
         /\ [l EXCEPT !.pc = "poll", !.last = l.target] \in ListenerRecord
<1>1. l.blk + 1 \in Nat /\ l.pos + 1 \in Nat /\ l.target \in Nat /\ 1 \in Nat
  BY DEF ListenerRecord
<1> QED BY <1>1 DEF ListenerRecord

\* NextTransfer: the next transfer of the block, the first of the next block, or
\* the end of the range.
LEMMA NextCases ==
  ASSUME TypeOK, NEW n \in Networks, Where(n), listener[n].pc \in Working
  PROVE  LET l == listener[n]
             len == Len(chain[n][l.blk])
         IN /\ NextTransfer(n) \in ListenerRecord
            /\ \/ /\ l.pos < len
                  /\ NextTransfer(n) = [l EXCEPT !.pc = "check", !.pos = @ + 1]
               \/ /\ l.pos = len /\ l.blk < l.target
                  /\ \E pc \in {"check", "fetch"} :
                       NextTransfer(n) = [l EXCEPT !.pc = pc, !.blk = @ + 1, !.pos = 1]
               \/ /\ l.pos = len /\ l.blk = l.target
                  /\ NextTransfer(n) = [l EXCEPT !.pc = "poll", !.last = l.target]
<1> DEFINE l == listener[n]
           len == Len(chain[n][l.blk])
<1>1. l \in ListenerRecord BY DEF TypeOK, ChainTypeOK
<1>2. /\ l.blk \in Nat /\ l.pos \in Nat /\ l.last \in Nat /\ l.target \in Nat
      /\ l.pos \in 1..len /\ l.blk <= l.target /\ len \in Nat
  BY <1>1, InHand, FirstTransfer DEF ListenerRecord, Where
<1>3. CASE l.pos < len
  <2>1. NextTransfer(n) = [l EXCEPT !.pc = "check", !.pos = @ + 1]
    BY <1>2, <1>3 DEF NextTransfer
  <2>2. [l EXCEPT !.pc = "check", !.pos = @ + 1] \in ListenerRecord
    BY <1>1, NextRecords
  <2> QED BY <1>3, <2>1, <2>2
<1>4. CASE l.pos = len /\ l.blk < l.target
  <2> DEFINE pc == IF n \in Ranged THEN "check" ELSE "fetch"
  <2>1. pc \in {"check", "fetch"} OBVIOUS
  <2>2. NextTransfer(n) = [l EXCEPT !.pc = pc, !.blk = @ + 1, !.pos = 1]
    BY <1>4, <1>2 DEF NextTransfer
  <2> HIDE DEF pc
  <2>3. [l EXCEPT !.pc = pc, !.blk = @ + 1, !.pos = 1] \in ListenerRecord
    BY <1>1, <2>1, NextRecords
  <2> QED BY <1>4, <2>1, <2>2, <2>3
<1>5. CASE l.pos = len /\ l.blk = l.target
  <2>1. NextTransfer(n) = [l EXCEPT !.pc = "poll", !.last = l.target]
    BY <1>5, <1>2 DEF NextTransfer
  <2>2. [l EXCEPT !.pc = "poll", !.last = l.target] \in ListenerRecord
    BY <1>1, NextRecords
  <2> QED BY <1>5, <2>1, <2>2
<1> QED BY <1>2, <1>3, <1>4, <1>5

-------------------------------------------------------------------------------
(* Type correctness.                                                         *)

\* A loop's record replaced by another.
LEMMA LoopType ==
  ASSUME TypeOK, NEW n \in Networks, NEW r \in ListenerRecord,
         listener' = [listener EXCEPT ![n] = r]
  PROVE  listener' \in [Networks -> ListenerRecord]
BY DEF TypeOK, ChainTypeOK

\* The locals of a loop that starts.
LEMMA NewType ==
  ASSUME NEW on
  PROVE  NewListener(on) \in ListenerRecord
BY PoolAssumption DEF NewListener, ListenerRecord

\* Poll moves a loop inside its type.
LEMMA PollType ==
  ASSUME TypeOK, NEW n \in Networks, Poll(n)
  PROVE  listener' \in [Networks -> ListenerRecord] /\ start' \in [Networks -> Nat]
<1> DEFINE l == listener[n]
           head == Len(chain[n])
           target == IF head < l.last + MaxRange THEN head ELSE l.last + MaxRange
<1>1. l \in ListenerRecord /\ head \in Nat /\ l.last \in Nat /\ target \in Nat
  BY PoolAssumption DEF TypeOK, ChainTypeOK, ListenerRecord
<1>2. 0 \in 0..Threshold /\ l.last + 1 \in Nat /\ 1 \in Nat
  BY <1>1, PoolAssumption
<1>3. CASE l.pc = "start"
  <2>1. listener' = [listener EXCEPT ![n] = [l EXCEPT !.pc = "poll", !.last = head, !.fails = 0]]
    BY <1>3 DEF Poll
  <2>2. [l EXCEPT !.pc = "poll", !.last = head, !.fails = 0] \in ListenerRecord
    BY <1>1, <1>2 DEF ListenerRecord
  <2>3. start' = [start EXCEPT ![n] = head]
    BY <1>3 DEF Poll
  <2> QED BY <1>1, <2>1, <2>2, <2>3, LoopType DEF TypeOK, ChainTypeOK
<1>4. CASE l.pc = "poll" /\ head > l.last
  <2>1. listener' = [listener EXCEPT ![n] = [l EXCEPT !.pc = "fetch", !.blk = l.last + 1,
                                                      !.pos = 1, !.fails = 0, !.target = target]]
    BY <1>4 DEF Poll
  <2> HIDE DEF target
  <2>2. [l EXCEPT !.pc = "fetch", !.blk = l.last + 1, !.pos = 1, !.fails = 0, !.target = target]
          \in ListenerRecord
    BY <1>1, <1>2 DEF ListenerRecord
  <2>3. start' = start
    BY <1>4 DEF Poll
  <2> QED BY <2>1, <2>2, <2>3, LoopType DEF TypeOK, ChainTypeOK
<1>5. CASE l.pc = "poll" /\ ~(head > l.last)
  <2>1. listener' = [listener EXCEPT ![n] = [l EXCEPT !.fails = 0]] /\ start' = start
    BY <1>5 DEF Poll
  <2>2. [l EXCEPT !.fails = 0] \in ListenerRecord
    BY <1>1, <1>2 DEF ListenerRecord
  <2> QED BY <2>1, <2>2, LoopType DEF TypeOK, ChainTypeOK
<1> QED BY <1>3, <1>4, <1>5 DEF Poll

\* FailOver moves a loop inside its type, and back to the beginning of a cycle.
LEMMA FailOverType ==
  ASSUME TypeOK, NEW n \in Networks, FailOver(n)
  PROVE  /\ listener' \in [Networks -> ListenerRecord]
         /\ \E pc \in {"start", "poll"}, fails \in 0..Threshold, node \in 0..(Nodes - 1) :
              /\ pc = "start" <=> listener[n].pc = "start"
              /\ listener' = [listener EXCEPT ![n] = [listener[n] EXCEPT !.pc = pc, !.fails = fails,
                                                                        !.node = node]]
<1> DEFINE l == listener[n]
           pc == IF l.pc = "start" THEN "start" ELSE "poll"
           fails == IF l.fails < Threshold THEN l.fails + 1 ELSE Threshold
           node == IF l.fails + 1 >= Threshold THEN (l.node + 1) % Nodes ELSE l.node
<1>1. l \in ListenerRecord /\ listener \in [Networks -> ListenerRecord]
  BY DEF TypeOK, ChainTypeOK
<1>2. l.fails \in 0..Threshold /\ l.node \in 0..(Nodes - 1)
  BY <1>1 DEF ListenerRecord
<1>3. fails \in 0..Threshold
  BY <1>2, PoolAssumption
<1>4. (l.node + 1) % Nodes \in 0..(Nodes - 1)
  BY <1>2, PoolAssumption
<1>5. node \in 0..(Nodes - 1)
  BY <1>2, <1>4
<1>6. pc \in {"start", "poll"} /\ (pc = "start" <=> l.pc = "start")
  OBVIOUS
<1>7. listener' = [listener EXCEPT ![n] = [l EXCEPT !.pc = pc, !.fails = fails, !.node = node]]
  BY <1>1 DEF FailOver, ListenerRecord
<1> HIDE DEF pc, fails, node
<1>8. [l EXCEPT !.pc = pc, !.fails = fails, !.node = node] \in ListenerRecord
  BY <1>1, <1>3, <1>5, <1>6 DEF ListenerRecord
<1> QED BY <1>3, <1>5, <1>6, <1>7, <1>8, LoopType

\* Another pc leaves a loop inside its type.
LEMMA PcType ==
  ASSUME TypeOK, NEW n \in Networks, NEW pc \in {"poll", "check", "hash", "string", "mark"},
         listener' = [listener EXCEPT ![n].pc = pc]
  PROVE  listener' \in [Networks -> ListenerRecord]
<1>1. listener[n] \in ListenerRecord BY DEF TypeOK, ChainTypeOK
<1>2. [listener[n] EXCEPT !.pc = pc] \in ListenerRecord BY <1>1 DEF ListenerRecord
<1>3. listener' = [listener EXCEPT ![n] = [listener[n] EXCEPT !.pc = pc]] OBVIOUS
<1> QED BY <1>2, <1>3, LoopType

\* The steps of a request leave the listeners alone.
LEMMA ToolSteps ==
  ASSUME NEW r \in ToolCalls, UseTool(r) \/ Meter(r)
  PROVE  /\ UNCHANGED <<chain, serves, listener, start, balance, confirmed, hashed, strung, given>>
         /\ faults' = faults \/ faults' = faults + 1
BY DEF UseTool, Meter, AdmitByKey, AdmitByTx, Challenge, CallTool, Seed, Deduct, DeductFails,
       chainVars, depositVars, Fault

\* Every step leaves the listeners of their type.
LEMMA ListenerType == TypeOK /\ LoopInv /\ [Next]_vars => listener' \in [Networks -> ListenerRecord]
<1> SUFFICES ASSUME TypeOK, LoopInv, [Next]_vars
             PROVE  listener' \in [Networks -> ListenerRecord]
  OBVIOUS
<1>1. listener \in [Networks -> ListenerRecord] BY DEF TypeOK, ChainTypeOK
<1>2. ASSUME NEW n \in Networks, NEW b \in Blocks, Mine(n, b) PROVE listener' = listener
  BY <1>2 DEF Mine
<1>3. ASSUME NEW n \in Networks, NEW i \in 0..(Nodes - 1), NodeDies(n, i) PROVE listener' = listener
  BY <1>3 DEF NodeDies
<1>4. ASSUME NEW n \in Networks,
             Listen(n) \/ CallFails(n) \/ Deposit(n) \/ DepositFails(n)
      PROVE  listener' \in [Networks -> ListenerRecord]
  <2>1. Where(n) BY DEF LoopInv, LoopOK
  <2>2. CASE Poll(n) BY <2>2, PollType
  <2>3. CASE Fetch(n)
    <3>1. listener' = [listener EXCEPT ![n] = [listener[n] EXCEPT !.pc = "check", !.fails = 0]]
      BY <2>3, <1>1 DEF Fetch
    <3>2. listener[n] \in ListenerRecord /\ 0 \in 0..Threshold BY <1>1, PoolAssumption
    <3>3. [listener[n] EXCEPT !.pc = "check", !.fails = 0] \in ListenerRecord
      BY <3>2 DEF ListenerRecord
    <3> QED BY <3>1, <3>3, LoopType
  <2>4. CASE CallRefused(n) \/ CallFails(n) BY <2>4, FailOverType DEF CallRefused, CallFails
  <2>5. CASE CheckDeposit(n)
    <3>1. CASE Hash(n) \in confirmed
      <4>1. NextTransfer(n) \in ListenerRecord
        BY <2>1, <2>5, NextCases DEF CheckDeposit, Working
      <4> QED BY <2>5, <3>1, <4>1, LoopType DEF CheckDeposit
    <3>2. CASE Hash(n) \notin confirmed BY <2>5, <3>2, PcType DEF CheckDeposit
    <3> QED BY <3>1, <3>2
  <2>6. CASE CreditHash(n) BY <2>6, PcType DEF CreditHash
  <2>7. CASE CreditString(n) BY <2>7, PcType DEF CreditString
  <2>8. CASE MarkConfirmed(n)
    <3>1. NextTransfer(n) \in ListenerRecord
      BY <2>1, <2>8, NextCases DEF MarkConfirmed, Working
    <3> QED BY <2>8, <3>1, LoopType DEF MarkConfirmed
  <2>9. CASE DepositFails(n) BY <2>9, PcType DEF DepositFails
  <2> QED BY <1>4, <2>2, <2>3, <2>4, <2>5, <2>6, <2>7, <2>8, <2>9 DEF Listen, Deposit
<1>5. CASE Restart
  BY <1>5, NewType DEF Restart, ListenersRestart
<1>6. ASSUME NEW r \in ToolCalls, UseTool(r) \/ Meter(r) PROVE listener' = listener
  BY <1>6, ToolSteps
<1>7. CASE UNCHANGED vars BY <1>1, <1>7 DEF vars, chainVars
<1> QED BY <1>1, <1>2, <1>3, <1>4, <1>5, <1>6, <1>7 DEF Next, ChainNext

\* The deposit of a transfer keeps the stores' types.
LEMMA DepositType ==
  ASSUME TypeOK, NEW n \in Networks, Where(n), Deposit(n)
  PROVE  /\ credits' \in [Tenants -> Int \cup {Absent}] /\ balance' \in [Tenants -> Nat]
         /\ confirmed' \subseteq Hashes
         /\ hashed' \in [Hashes -> Nat] /\ strung' \in [Hashes -> Nat]
         /\ given' \in [Tenants -> Nat]
         /\ \A t \in Tenants : credits[t] \in Int => credits'[t] \in Int
<1>1. Current(n) \in Transfer /\ Hash(n) \in Hashes
  BY InHand DEF Deposit, CheckDeposit, CreditHash, CreditString, MarkConfirmed, Working
<1>2. Current(n).tenant \in Tenants BY <1>1 DEF Transfer
<1>3. CASE CheckDeposit(n) BY <1>3 DEF CheckDeposit, depositVars, TypeOK, ChainTypeOK
<1>4. CASE CreditHash(n)
  <2> DEFINE t == Current(n).tenant
  <2>1. credits[t] \in Int \cup {Absent} /\ given[t] \in Nat /\ hashed[Hash(n)] \in Nat
    BY <1>1, <1>2 DEF TypeOK, ChainTypeOK
  <2>2. Plus(credits[t], Worth) \in Int BY <2>1, CreditAssumption DEF Plus
  <2>3. given[t] + Worth \in Nat /\ hashed[Hash(n)] + 1 \in Nat BY <2>1, CreditAssumption
  <2> QED BY <1>1, <1>2, <1>4, <2>2, <2>3 DEF CreditHash, TypeOK, ChainTypeOK
<1>5. CASE CreditString(n)
  <2>1. balance[Current(n).tenant] + Worth \in Nat /\ strung[Hash(n)] + 1 \in Nat
    BY <1>1, <1>2, CreditAssumption DEF TypeOK, ChainTypeOK
  <2> QED BY <1>1, <1>2, <1>5, <2>1 DEF CreditString, TypeOK, ChainTypeOK
<1>6. CASE MarkConfirmed(n) BY <1>1, <1>6 DEF MarkConfirmed, TypeOK, ChainTypeOK
<1> QED BY <1>3, <1>4, <1>5, <1>6 DEF Deposit

\* The steps of a request keep its type and those of the stores it changes.
LEMMA ToolType ==
  ASSUME TypeOK, NEW r \in ToolCalls, UseTool(r) \/ Meter(r)
  PROVE  TypeOK'
<1> DEFINE t == tool[r].tenant
           ToolOK == tool' \in [ToolCalls ->
             [pc : {"new", "admitted", "seeded", "bypassed", "served", "refused"}, tenant : Tenants]]
<1>1. /\ tool \in [ToolCalls ->
           [pc : {"new", "admitted", "seeded", "bypassed", "served", "refused"}, tenant : Tenants]]
      /\ t \in Tenants
  BY DEF TypeOK
<1>2. ASSUME NEW to \in {"admitted", "seeded", "bypassed", "served", "refused"}, Move(r, to)
      PROVE  /\ ToolOK /\ tool'[r].tenant = t
             /\ tool'[r].pc = to /\ \A q \in ToolCalls \ {r} : tool'[q] = tool[q]
  BY <1>1, <1>2 DEF Move
<1>3. UNCHANGED <<chain, serves, listener, start, balance, confirmed, hashed, strung, given>>
      /\ faults' \in Nat
  <2>1. faults \in Nat BY DEF TypeOK, ChainTypeOK
  <2> QED BY <2>1, ToolSteps
<1>4. CASE UseTool(r)
  <2>1. \E to \in {"admitted", "bypassed", "refused"} : Move(r, to)
    BY <1>4 DEF UseTool, AdmitByKey, AdmitByTx, Challenge, CallTool
  <2>2. credits' = credits /\ seeded' = seeded /\ taken' = taken
    BY <1>4 DEF UseTool, AdmitByKey, AdmitByTx, Challenge, CallTool, chainVars, depositVars
  <2> QED BY <1>1, <1>2, <1>3, <2>1, <2>2 DEF TypeOK, ChainTypeOK
<1>5. CASE Seed(r)
  <2>1. Move(r, "seeded") BY <1>5 DEF Seed
  <2>2. taken' = taken /\ seeded' \subseteq Tenants BY <1>1, <1>5 DEF Seed, TypeOK
  <2>3. /\ credits' \in [Tenants -> Int \cup {Absent}] /\ credits'[t] \in Int
        /\ \A u \in Tenants : credits[u] \in Int => credits'[u] \in Int
    <3>1. credits \in [Tenants -> Int \cup {Absent}] /\ Trial \in Int
      BY TrialAssumption DEF TypeOK, ChainTypeOK
    <3>2. CASE credits[t] = Absent
      <4>1. credits' = [credits EXCEPT ![t] = Trial] BY <1>5, <3>2 DEF Seed
      <4> QED BY <1>1, <3>1, <4>1
    <3>3. CASE credits[t] # Absent
      <4>1. credits' = credits BY <1>5, <3>3 DEF Seed
      <4> QED BY <1>1, <3>1, <3>3, <4>1
    <3> QED BY <3>2, <3>3
  <2> QED BY <1>1, <1>2, <1>3, <2>1, <2>2, <2>3 DEF TypeOK, ChainTypeOK
<1>6. CASE Deduct(r)
  <2>1. credits[t] \in Int /\ taken[t] \in Nat BY <1>1, <1>6 DEF Deduct, TypeOK
  <2>2. \E to \in {"served", "refused"} : Move(r, to) BY <1>6 DEF Deduct
  <2>3. credits' = [credits EXCEPT ![t] = @ - 1] /\ taken' = [taken EXCEPT ![t] = @ + 1]
        /\ seeded' = seeded
    BY <1>6 DEF Deduct
  <2>4. /\ credits' \in [Tenants -> Int \cup {Absent}] /\ taken' \in [Tenants -> Nat]
        /\ \A u \in Tenants : credits[u] \in Int => credits'[u] \in Int
    BY <1>1, <2>1, <2>3 DEF TypeOK, ChainTypeOK
  <2> QED BY <1>1, <1>2, <1>3, <2>2, <2>3, <2>4, ZenonT(30) DEF TypeOK, ChainTypeOK
<1>7. CASE DeductFails(r)
  <2>1. Move(r, "bypassed") /\ UNCHANGED <<credits, seeded, taken>>
    BY <1>7 DEF DeductFails, depositVars
  <2> QED BY <1>1, <1>2, <1>3, <2>1 DEF TypeOK, ChainTypeOK
<1> QED BY <1>4, <1>5, <1>6, <1>7 DEF Meter

\* A restart ends requests and changes nothing else of theirs.
LEMMA RestartType ==
  ASSUME TypeOK, Restart
  PROVE  /\ tool' \in [ToolCalls ->
               [pc : {"new", "admitted", "seeded", "bypassed", "served", "refused"}, tenant : Tenants]]
         /\ \A r \in ToolCalls : tool'[r].pc # "seeded"
<1>1. \A r \in ToolCalls :
        tool[r] \in [pc : {"new", "admitted", "seeded", "bypassed", "served", "refused"}, tenant : Tenants]
  BY DEF TypeOK
<1> QED BY <1>1 DEF Restart

\* Every step keeps the types.
LEMMA TypeStep == TypeOK /\ LoopInv /\ [Next]_vars => TypeOK'
<1> SUFFICES ASSUME TypeOK, LoopInv, [Next]_vars PROVE TypeOK'
  OBVIOUS
<1>0. listener' \in [Networks -> ListenerRecord] BY ListenerType
<1>1. ASSUME NEW n \in Networks, NEW b \in Blocks, Mine(n, b), UNCHANGED toolVars PROVE TypeOK'
  <2>1. Append(chain[n], b) \in Seq(Blocks) BY DEF TypeOK, ChainTypeOK
  <2> QED BY <1>1, <2>1 DEF Mine, toolVars, depositVars, TypeOK, ChainTypeOK
<1>2. ASSUME NEW n \in Networks, NEW i \in 0..(Nodes - 1), NodeDies(n, i), UNCHANGED toolVars
      PROVE  TypeOK'
  <2>1. serves' \in [Networks -> [0..(Nodes - 1) -> SUBSET Calls]]
    BY <1>2 DEF NodeDies, TypeOK, ChainTypeOK
  <2> QED BY <1>2, <2>1 DEF NodeDies, Fault, toolVars, depositVars, TypeOK, ChainTypeOK
<1>3. ASSUME NEW n \in Networks, Listen(n) \/ CallFails(n) \/ DepositFails(n), UNCHANGED toolVars
      PROVE  TypeOK'
  <2>1. UNCHANGED <<chain, serves, depositVars>> /\ (faults' = faults \/ faults' = faults + 1)
    BY <1>3 DEF Listen, Poll, Fetch, CallRefused, CallFails, DepositFails, Fault
  <2>2. start' \in [Networks -> Nat]
    <3>1. CASE Poll(n) BY <3>1, PollType
    <3>2. CASE ~Poll(n)
      BY <1>3, <3>2 DEF Listen, Fetch, CallRefused, CallFails, DepositFails, TypeOK, ChainTypeOK
    <3> QED BY <3>1, <3>2
  <2> QED BY <1>0, <1>3, <2>1, <2>2 DEF toolVars, depositVars, TypeOK, ChainTypeOK
<1>4. ASSUME NEW n \in Networks, Deposit(n), UNCHANGED toolVars PROVE TypeOK'
  <2>1. UNCHANGED <<chain, serves, start, faults>>
    BY <1>4 DEF Deposit, CheckDeposit, CreditHash, CreditString, MarkConfirmed
  <2>2. Where(n) BY DEF LoopInv, LoopOK
  <2> QED BY <1>0, <1>4, <2>1, <2>2, DepositType DEF toolVars, TypeOK, ChainTypeOK
<1>5. CASE Restart
  <2>1. UNCHANGED <<chain, serves, start, depositVars, seeded, taken>> /\ faults' = faults + 1
    BY <1>5 DEF Restart, ListenersRestart, Fault
  <2> QED BY <1>0, <1>5, <2>1, RestartType DEF depositVars, TypeOK, ChainTypeOK
<1>6. ASSUME NEW r \in ToolCalls, UseTool(r) \/ Meter(r) PROVE TypeOK'
  BY <1>6, ToolType
<1>7. CASE UNCHANGED vars
  BY <1>7 DEF vars, chainVars, toolVars, depositVars, TypeOK, ChainTypeOK
<1> QED BY <1>1, <1>2, <1>3, <1>4, <1>5, <1>6, <1>7 DEF Next, ChainNext

-------------------------------------------------------------------------------
(* The listeners.                                                            *)

\* The chain of network n keeps its blocks.
Extends(n) ==
  /\ Len(chain[n]) <= Len(chain'[n]) /\ Len(chain'[n]) \in Nat /\ Len(chain'[n]) <= MaxBlocks
  /\ \A b \in 1..Len(chain[n]) : chain'[n][b] = chain[n][b]

\* Nothing of loop n's changes but that blocks are mined: its locals, its hashes.
SameLoop(n) ==
  /\ listener'[n] = listener[n] /\ start'[n] = start[n] /\ Extends(n)
  /\ \A b \in 1..MaxBlocks, x \in Labels :
       LET h == <<n, b, x>>
       IN hashed'[h] = hashed[h] /\ strung'[h] = strung[h] /\ (h \in confirmed' <=> h \in confirmed)

\* A loop none of whose state changes stays as it should be: faults only grow.
LEMMA Frame ==
  ASSUME TypeOK, NEW n \in Networks, LoopOK(n), SameLoop(n), faults' \in Nat, faults' >= faults
  PROVE  LoopOK(n)'
<1> DEFINE l == listener[n]
<1>0. /\ l.last \in Nat /\ l.blk \in Nat /\ l.target \in Nat /\ l.pos \in Nat /\ start[n] \in Nat
      /\ Len(chain[n]) \in Nat /\ Len(chain'[n]) \in Nat
  BY DEF TypeOK, ChainTypeOK, ListenerRecord, SameLoop, Extends
<1>1. Where(n)'
  <2>1. l.pc \in Working => chain'[n][l.blk] = chain[n][l.blk]
    BY InHand DEF LoopOK, SameLoop, Extends
  <2>2. /\ listener'[n] = l /\ start'[n] = start[n]
        /\ Len(chain[n]) <= Len(chain'[n]) /\ Len(chain'[n]) <= MaxBlocks
    BY DEF SameLoop, Extends
  <2>3. l.last <= Len(chain'[n]) BY <1>0, <2>2 DEF LoopOK, Where
  <2>4. Running(n)' => start'[n] <= listener'[n].last
    BY <2>2 DEF LoopOK, Where, Running
  <2>5. l.pc \in Working =>
          /\ l.last < l.blk /\ l.blk <= l.target /\ l.target <= Len(chain'[n])
          /\ l.pos \in 1..Len(chain'[n][l.blk])
    BY <1>0, <2>1, <2>2, SMTT(30) DEF LoopOK, Where
  <2> QED BY <2>2, <2>3, <2>4, <2>5 DEF Where
<1>2. listener'[n].pc \in Working => Hash(n)' = Hash(n)
  <2> SUFFICES ASSUME l.pc \in Working PROVE Hash(n)' = Hash(n)
    BY DEF SameLoop
  <2>1. chain'[n][l.blk] = chain[n][l.blk]
    BY InHand DEF LoopOK, SameLoop, Extends
  <2> QED BY <2>1 DEF SameLoop, Hash, Current
<1>3. \A b \in 1..Len(chain[n]), p \in Nat :
        p \in 1..Len(chain[n][b]) => (Dealt(n, b, p)' <=> Dealt(n, b, p))
  <2> SUFFICES ASSUME NEW b \in 1..Len(chain[n]), NEW p \in 1..Len(chain[n][b])
               PROVE  Dealt(n, b, p)' <=> Dealt(n, b, p)
    OBVIOUS
  <2>1. chain[n][b][p].tx \in Labels BY TxOf
  <2>2. b \in 1..MaxBlocks
    <3>1. Len(chain[n]) <= MaxBlocks BY DEF LoopOK, Where
    <3>2. Len(chain[n]) \in Nat BY DEF TypeOK, ChainTypeOK
    <3> QED BY <3>1, <3>2, BoundAssumption
  <2> QED BY <2>1, <2>2 DEF Dealt, SameLoop, Extends
<1>4. Passed(n)'
  <2>1. /\ l \in ListenerRecord /\ start[n] \in Nat /\ Len(chain[n]) \in Nat
        /\ l.last \in Nat /\ l.blk \in Nat /\ l.pos \in Nat /\ l.target \in Nat
    BY DEF TypeOK, ChainTypeOK, ListenerRecord
  <2>2. ASSUME Running(n)', NEW b \in (start[n] + 1)..(IF l.pc \in Working THEN l.blk - 1 ELSE l.last),
               NEW p \in 1..Len(chain'[n][b])
        PROVE  Dealt(n, b, p)'
    <3>1. Running(n) BY <2>2 DEF Running, SameLoop
    <3>2. b \in 1..Len(chain[n])
      <4>1. CASE l.pc \in Working BY <2>1, <2>2, <4>1, SMTT(30) DEF LoopOK, Where
      <4>2. CASE l.pc \notin Working BY <2>1, <2>2, <4>2 DEF LoopOK, Where
      <4> QED BY <4>1, <4>2
    <3>3. chain'[n][b] = chain[n][b] BY <3>2 DEF SameLoop, Extends
    <3>4. Dealt(n, b, p) BY <3>1, <3>3 DEF LoopOK, Passed
    <3>5. p \in Nat /\ p \in 1..Len(chain[n][b]) BY <3>2, <3>3, FirstTransfer
    <3> QED BY <1>3, <3>2, <3>4, <3>5
  <2>3. ASSUME l.pc \in Working, NEW p \in 1..(l.pos - 1), NEW b, b = l.blk PROVE Dealt(n, b, p)'
    <3>1. Dealt(n, b, p) BY <2>3 DEF LoopOK, Passed
    <3>2. b \in 1..Len(chain[n]) BY <2>3, InHand DEF LoopOK
    <3>3. p \in 1..Len(chain[n][b]) /\ p \in Nat
      BY <2>1, <2>3, <3>2, InHand, FirstTransfer DEF LoopOK
    <3> QED BY <1>3, <3>1, <3>2, <3>3
  <2> QED BY <2>2, <2>3 DEF Passed, SameLoop
<1>5. Credited(n)'
  <2> SUFFICES ASSUME NEW b \in 1..MaxBlocks, NEW x \in Labels
               PROVE  LET h == <<n, b, x>>
                      IN /\ h \in confirmed' => hashed'[h] > 0 /\ strung'[h] > 0
                         /\ strung'[h] <= hashed'[h] /\ hashed'[h] <= 1 + faults'
                         /\ h \notin confirmed' /\ ~Holds(n, h)' => hashed'[h] <= faults'
    BY DEF Credited
  <2> DEFINE h == <<n, b, x>>
  <2>1. h \in Hashes BY DEF Hashes
  <2>2. hashed[h] \in Nat /\ strung[h] \in Nat /\ faults \in Nat BY <2>1 DEF TypeOK, ChainTypeOK
  <2>3. hashed'[h] = hashed[h] /\ strung'[h] = strung[h] /\ (h \in confirmed' <=> h \in confirmed)
    BY DEF SameLoop
  <2>4. Holds(n, h)' <=> Holds(n, h) BY <1>2 DEF Holds, SameLoop, Working
  <2>5. /\ h \in confirmed => hashed[h] > 0 /\ strung[h] > 0
        /\ strung[h] <= hashed[h] /\ hashed[h] <= 1 + faults
        /\ h \notin confirmed /\ ~Holds(n, h) => hashed[h] <= faults
    BY DEF LoopOK, Credited
  <2>6. /\ h \in confirmed' => hashed'[h] > 0 /\ strung'[h] > 0
        /\ strung'[h] <= hashed'[h] /\ hashed'[h] <= 1 + faults'
        /\ h \notin confirmed' /\ ~Holds(n, h)' => hashed'[h] <= faults'
    <3> HIDE DEF h
    <3> QED BY <2>2, <2>3, <2>4, <2>5
  <2> QED BY <2>6
<1>6. Staged(n)'
  <2>1. CASE listener[n].pc \notin {"hash", "string", "mark"}
    BY <2>1 DEF Staged, SameLoop
  <2>2. CASE listener[n].pc \in {"hash", "string", "mark"}
    <3>1. Hash(n)' = Hash(n) BY <1>2, <2>2 DEF SameLoop, Working
    <3>2. \E b \in 1..MaxBlocks, x \in Labels : Hash(n) = <<n, b, x>>
      BY <2>2, InHand DEF Hash, Transfer, Working, LoopOK
    <3>3. /\ hashed'[Hash(n)] = hashed[Hash(n)] /\ strung'[Hash(n)] = strung[Hash(n)]
          /\ Hash(n) \in confirmed' <=> Hash(n) \in confirmed
      BY <3>2 DEF SameLoop
    <3> QED BY <3>1, <3>3 DEF Staged, SameLoop, LoopOK
  <2> QED BY <2>1, <2>2
<1> QED BY <1>1, <1>4, <1>5, <1>6 DEF LoopOK

\* A loop's numbers.
LEMMA Numbers ==
  ASSUME TypeOK, NEW n \in Networks
  PROVE  /\ listener[n] \in ListenerRecord
         /\ listener[n].last \in Nat /\ listener[n].blk \in Nat /\ listener[n].target \in Nat
         /\ listener[n].pos \in Nat /\ start[n] \in Nat /\ Len(chain[n]) \in Nat
BY DEF TypeOK, ChainTypeOK, ListenerRecord

\* The chain, and where the loop began, stay; confirmations are never taken back.
Onward(n) == chain'[n] = chain[n] /\ start'[n] = start[n] /\ confirmed \subseteq confirmed'

\* The loop stays at its place in the range.
LEMMA StillIn ==
  ASSUME TypeOK, NEW n \in Networks, LoopOK(n), Onward(n),
         listener[n].pc \in Working, listener'[n].pc \in Working,
         listener'[n].last = listener[n].last, listener'[n].blk = listener[n].blk,
         listener'[n].target = listener[n].target, listener'[n].pos = listener[n].pos
  PROVE  Where(n)' /\ Passed(n)'
<1>1. Where(n)' BY Numbers DEF LoopOK, Where, Onward, Running, Working
<1>2. Passed(n)'
  <2>1. \A b \in (start[n] + 1)..(listener[n].blk - 1) : \A p \in 1..Len(chain[n][b]) : Dealt(n, b, p)
    BY DEF LoopOK, Passed, Running, Working
  <2>2. \A p \in 1..(listener[n].pos - 1) : Dealt(n, listener[n].blk, p)
    BY DEF LoopOK, Passed
  <2> QED BY <2>1, <2>2 DEF Passed, Dealt, Onward
<1> QED BY <1>1, <1>2

\* The loop goes back to the beginning of a cycle.
LEMMA BackToPoll ==
  ASSUME TypeOK, NEW n \in Networks, LoopOK(n), Onward(n),
         listener[n].pc # "off", listener'[n].pc \in {"start", "poll"},
         listener'[n].pc = "start" <=> listener[n].pc = "start",
         listener'[n].last = listener[n].last
  PROVE  Where(n)' /\ Passed(n)'
<1>1. Where(n)' BY Numbers DEF LoopOK, Where, Onward, Running, Working
<1>2. Passed(n)'
  <2> SUFFICES ASSUME listener'[n].pc = "poll",
                      NEW b \in (start[n] + 1)..listener[n].last, NEW p \in 1..Len(chain[n][b])
               PROVE  Dealt(n, b, p)'
    BY DEF Passed, Onward, Running, Working
  <2>1. Running(n) BY DEF Running
  <2>2. b \in (start[n] + 1)..(IF listener[n].pc \in Working THEN listener[n].blk - 1
                               ELSE listener[n].last)
    BY Numbers DEF LoopOK, Where
  <2>3. Dealt(n, b, p) BY <2>1, <2>2 DEF LoopOK, Passed
  <2> QED BY <2>3 DEF Dealt, Onward
<1> QED BY <1>1, <1>2

\* The loop is at transfer pos of block blk, and has dealt with what is before it.
LEMMA PassedWhen ==
  ASSUME NEW n \in Networks, Onward(n), NEW blk, NEW pos,
         listener'[n].pc \in Working, listener'[n].blk = blk, listener'[n].pos = pos,
         \A b \in (start[n] + 1)..(blk - 1) : \A p \in 1..Len(chain[n][b]) : Dealt(n, b, p)',
         \A p \in 1..(pos - 1) : Dealt(n, blk, p)'
  PROVE  Passed(n)'
<1>1. chain'[n] = chain[n] /\ start'[n] = start[n] BY DEF Onward
<1> QED BY <1>1 DEF Passed, Working

\* The transfer in hand is dealt with and the loop goes on to the next one.
LEMMA Advance ==
  ASSUME TypeOK, NEW n \in Networks, LoopOK(n), Onward(n), listener[n].pc \in Working,
         listener'[n] = NextTransfer(n), Hash(n) \in confirmed'
  PROVE  Where(n)' /\ Passed(n)' /\ listener'[n].pc \in {"check", "fetch", "poll"}
<1> DEFINE l == listener[n]
           m == listener'[n]
           len == Len(chain[n][l.blk])
<1>1. /\ l \in ListenerRecord /\ m \in ListenerRecord /\ Where(n)
      /\ l.pos \in 1..len /\ l.blk \in 1..Len(chain[n]) /\ len \in Nat
  BY Numbers, InHand, NextCases, FirstTransfer DEF LoopOK
<1>2. Running(n) /\ start[n] <= l.last /\ l.last < l.blk /\ l.blk <= l.target /\ l.target <= Len(chain[n])
  BY DEF LoopOK, Where, Running, Working
<1>4. ASSUME NEW b, b = l.blk, NEW p \in 1..l.pos PROVE Dealt(n, b, p)'
  <2>1. CASE p = l.pos BY <1>4, <2>1 DEF Hash, Current, Dealt, Onward
  <2>2. CASE p \in 1..(l.pos - 1)
    <3>1. Dealt(n, b, p) BY <1>4, <2>2 DEF LoopOK, Passed
    <3> QED BY <3>1 DEF Dealt, Onward
  <2> QED BY <1>1, <2>1, <2>2
<1>5. /\ l.last \in Nat /\ l.blk \in Nat /\ l.target \in Nat /\ l.pos \in Nat /\ start[n] \in Nat
      /\ Len(chain[n]) \in Nat /\ Len(chain[n]) <= MaxBlocks
      /\ chain'[n] = chain[n] /\ start'[n] = start[n]
  BY Numbers, SMTT(30) DEF LoopOK, Where, Onward
<1>6. CASE l.pos < len /\ m = [l EXCEPT !.pc = "check", !.pos = l.pos + 1]
  <2>1. m.pc = "check" /\ m.last = l.last /\ m.blk = l.blk /\ m.target = l.target /\ m.pos = l.pos + 1
    BY <1>1, <1>6 DEF ListenerRecord
  <2>2. l.pos + 1 \in 1..len /\ l.pos + 1 - 1 = l.pos BY <1>1, <1>5, <1>6, SMTT(30)
  <2>3. Where(n)' BY <1>2, <1>5, <2>1, <2>2 DEF Where, Running, Working
  <2>4. Passed(n)'
    <3>1. PICK blk, pos : blk = l.blk /\ pos = l.pos + 1 OBVIOUS
    <3>2. ASSUME NEW b \in (start[n] + 1)..(blk - 1), NEW p \in 1..Len(chain[n][b])
          PROVE  Dealt(n, b, p)'
      BY <1>2, <3>1, <3>2 DEF LoopOK, Passed, Dealt, Onward
    <3>3. ASSUME NEW p \in 1..(pos - 1) PROVE Dealt(n, blk, p)'
      <4>1. p \in 1..l.pos BY <1>5, <3>1
      <4> QED BY <1>4, <3>1, <4>1
    <3>4. listener'[n].blk = blk /\ listener'[n].pos = pos BY <2>1, <3>1
    <3> QED BY <2>1, <3>2, <3>3, <3>4, PassedWhen DEF Working
  <2> QED BY <2>1, <2>3, <2>4
<1>7. ASSUME l.pos = len, l.blk < l.target,
             NEW pc \in {"check", "fetch"}, m = [l EXCEPT !.pc = pc, !.blk = l.blk + 1, !.pos = 1]
      PROVE  Where(n)' /\ Passed(n)' /\ m.pc \in {"check", "fetch", "poll"}
  <2>1. m.pc = pc /\ m.last = l.last /\ m.blk = l.blk + 1 /\ m.target = l.target /\ m.pos = 1
    BY <1>1, <1>7 DEF ListenerRecord
  <2>2. l.blk + 1 \in 1..Len(chain[n]) /\ l.blk + 1 <= l.target BY <1>2, <1>5, <1>7
  <2>3. 1 \in 1..Len(chain[n][l.blk + 1]) BY <2>2, FirstTransfer
  <2>4. Where(n)' BY <1>2, <1>5, <2>1, <2>2, <2>3 DEF Where, Running, Working
  <2>5. Passed(n)'
    <3>1. PICK blk : blk = l.blk + 1 OBVIOUS
    <3>2. ASSUME NEW b \in (start[n] + 1)..(blk - 1), NEW p \in 1..Len(chain[n][b])
          PROVE  Dealt(n, b, p)'
      <4>1. CASE b = l.blk BY <1>4, <1>7, <3>2, <4>1
      <4>2. CASE b \in (start[n] + 1)..(l.blk - 1)
        BY <1>2, <3>2, <4>2 DEF LoopOK, Passed, Dealt, Onward
      <4> QED BY <1>5, <3>1, <4>1, <4>2, SMTT(30)
    <3>3. \A p \in 1..(1 - 1) : Dealt(n, blk, p)' OBVIOUS
    <3> QED BY <2>1, <3>1, <3>2, <3>3, PassedWhen DEF Working
  <2> QED BY <2>1, <2>4, <2>5
<1>8. CASE l.pos = len /\ l.blk = l.target /\ m = [l EXCEPT !.pc = "poll", !.last = l.target]
  <2>1. m.pc = "poll" /\ m.last = l.target
    BY <1>1, <1>8 DEF ListenerRecord
  <2>2. Where(n)' BY <1>2, <1>5, <2>1 DEF Where, Running, Working
  <2>3. ASSUME NEW b \in (start[n] + 1)..l.target, NEW p \in 1..Len(chain[n][b])
        PROVE  Dealt(n, b, p)'
    <3>1. CASE b = l.blk BY <1>4, <1>8, <2>3, <3>1
    <3>2. CASE b \in (start[n] + 1)..(l.blk - 1)
      BY <1>2, <2>3, <3>2 DEF LoopOK, Passed, Dealt, Onward
    <3> QED BY <1>5, <1>8, <3>1, <3>2
  <2>4. Passed(n)' BY <1>5, <2>1, <2>3 DEF Passed, Working
  <2> QED BY <2>1, <2>2, <2>4
<1> QED BY <1>1, <1>6, <1>7, <1>8, NextCases

\* The counts of a hash that is not touched stay right, unless the loop drops the
\* hash it holds without a failure.
LEMMA QuietCredits ==
  ASSUME TypeOK, NEW n \in Networks, Credited(n), UNCHANGED <<hashed, strung, confirmed>>,
         faults' \in Nat, faults' >= faults,
         listener[n].pc \in {"string", "mark"} => faults' = faults + 1
  PROVE  Credited(n)'
<1> SUFFICES ASSUME NEW b \in 1..MaxBlocks, NEW x \in Labels
             PROVE  LET h == <<n, b, x>>
                    IN /\ h \in confirmed' => hashed'[h] > 0 /\ strung'[h] > 0
                       /\ strung'[h] <= hashed'[h] /\ hashed'[h] <= 1 + faults'
                       /\ h \notin confirmed' /\ ~Holds(n, h)' => hashed'[h] <= faults'
  BY DEF Credited
<1> DEFINE h == <<n, b, x>>
<1>1. hashed[h] \in Nat /\ strung[h] \in Nat /\ faults \in Nat
  BY DEF Hashes, TypeOK, ChainTypeOK
<1>2. /\ h \in confirmed => hashed[h] > 0 /\ strung[h] > 0
      /\ strung[h] <= hashed[h] /\ hashed[h] <= 1 + faults
      /\ h \notin confirmed /\ ~Holds(n, h) => hashed[h] <= faults
  BY DEF Credited
<1>3. listener[n].pc \notin {"string", "mark"} => ~Holds(n, h)
  BY DEF Holds
<1>4. /\ h \in confirmed' => hashed'[h] > 0 /\ strung'[h] > 0
      /\ strung'[h] <= hashed'[h] /\ hashed'[h] <= 1 + faults'
      /\ h \notin confirmed' /\ ~Holds(n, h)' => hashed'[h] <= faults'
  <2> HIDE DEF h
  <2> QED BY <1>1, <1>2, <1>3
<1> QED BY <1>4

\* The counts of the hash in hand.
LEMMA HandCounts ==
  ASSUME TypeOK, NEW n \in Networks, LoopOK(n), listener[n].pc \in {"hash", "string", "mark"}
  PROVE  /\ Hash(n) \in Hashes /\ Hash(n) \notin confirmed
         /\ hashed[Hash(n)] \in Nat /\ strung[Hash(n)] \in Nat /\ faults \in Nat
         /\ strung[Hash(n)] <= hashed[Hash(n)] /\ hashed[Hash(n)] <= 1 + faults
         /\ listener[n].pc = "hash" => hashed[Hash(n)] <= faults
<1>1. Hash(n) \in Hashes /\ Hash(n) \notin confirmed
  BY InHand DEF LoopOK, Working, Staged
<1>2. hashed[Hash(n)] \in Nat /\ strung[Hash(n)] \in Nat /\ faults \in Nat
  BY <1>1 DEF TypeOK, ChainTypeOK
<1>3. PICK b \in 1..MaxBlocks, x \in Labels : Hash(n) = <<n, b, x>>
  BY InHand DEF LoopOK, Working, Hash, Transfer
<1>4. listener[n].pc = "hash" => ~Holds(n, Hash(n)) BY DEF Holds
<1> QED BY <1>1, <1>2, <1>3, <1>4 DEF LoopOK, Credited

\* Only the counts of the hash in hand change.
LEMMA OneHash ==
  ASSUME TypeOK, NEW n \in Networks, LoopOK(n), listener[n].pc \in {"hash", "string", "mark"},
         UNCHANGED faults,
         \A h \in Hashes \ {Hash(n)} :
           hashed'[h] = hashed[h] /\ strung'[h] = strung[h] /\ (h \in confirmed' <=> h \in confirmed),
         LET h == Hash(n)
         IN /\ h \in confirmed' => hashed'[h] > 0 /\ strung'[h] > 0
            /\ strung'[h] <= hashed'[h] /\ hashed'[h] <= 1 + faults
            /\ \/ h \in confirmed'
               \/ listener'[n].pc \in {"string", "mark"} /\ Hash(n)' = h
  PROVE  Credited(n)'
<1> SUFFICES ASSUME NEW b \in 1..MaxBlocks, NEW x \in Labels
             PROVE  LET h == <<n, b, x>>
                    IN /\ h \in confirmed' => hashed'[h] > 0 /\ strung'[h] > 0
                       /\ strung'[h] <= hashed'[h] /\ hashed'[h] <= 1 + faults'
                       /\ h \notin confirmed' /\ ~Holds(n, h)' => hashed'[h] <= faults'
  BY DEF Credited
<1> DEFINE h == <<n, b, x>>
<1>1. h \in Hashes BY DEF Hashes
<1>2. CASE h = Hash(n) BY <1>2 DEF Holds
<1>3. CASE h # Hash(n)
  <2>1. /\ h \in confirmed => hashed[h] > 0 /\ strung[h] > 0
        /\ strung[h] <= hashed[h] /\ hashed[h] <= 1 + faults
        /\ h \notin confirmed => hashed[h] <= faults
    BY <1>3 DEF LoopOK, Credited, Holds
  <2>2. hashed'[h] = hashed[h] /\ strung'[h] = strung[h] /\ (h \in confirmed' <=> h \in confirmed)
    BY <1>1, <1>3
  <2> QED BY <2>1, <2>2
<1> QED BY <1>2, <1>3

\* What a loop does keeps it as it should be.
LEMMA LoopSteps ==
  ASSUME TypeOK, TypeOK', NEW n \in Networks, LoopOK(n),
         Listen(n) \/ CallFails(n) \/ Deposit(n) \/ DepositFails(n)
  PROVE  LoopOK(n)'
<1> DEFINE l == listener[n]
<1>0. /\ listener \in [Networks -> ListenerRecord] /\ chain' = chain
      /\ faults \in Nat /\ faults' \in Nat /\ Where(n) /\ Passed(n) /\ Credited(n) /\ Staged(n)
  BY DEF TypeOK, ChainTypeOK, LoopOK, Listen, Poll, Fetch, CallRefused, CallFails, Deposit,
         CheckDeposit, CreditHash, CreditString, MarkConfirmed, DepositFails
<1>1. CASE Poll(n)
  <2> DEFINE head == Len(chain[n])
             target == IF head < l.last + MaxRange THEN head ELSE l.last + MaxRange
  <2>1. UNCHANGED <<hashed, strung, confirmed, faults>> /\ l.pc \in {"start", "poll"}
    BY <1>1 DEF Poll, depositVars
  <2>2. Credited(n)' BY <1>0, <2>1, QuietCredits
  <2>3. CASE l.pc = "start"
    <3>1. listener'[n] = [l EXCEPT !.pc = "poll", !.last = head, !.fails = 0] /\ start'[n] = head
      BY <1>0, <1>1, <2>3 DEF Poll, TypeOK, ChainTypeOK
    <3>2. listener'[n].pc = "poll" /\ listener'[n].last = head
      BY <1>0, <3>1 DEF ListenerRecord
    <3>3. Where(n)' BY <1>0, <3>1, <3>2, Numbers DEF Where, Running, Working
    <3>4. Passed(n)' BY <1>0, <3>1, <3>2, Numbers DEF Passed, Working
    <3> QED BY <2>2, <3>2, <3>3, <3>4 DEF LoopOK, Staged
  <2>4. CASE l.pc = "poll" /\ head > l.last
    <3>1. /\ listener'[n] = [l EXCEPT !.pc = "fetch", !.blk = l.last + 1, !.pos = 1, !.fails = 0,
                                      !.target = target]
          /\ start'[n] = start[n]
      BY <1>0, <1>1, <2>4 DEF Poll
    <3>2. /\ listener'[n].pc = "fetch" /\ listener'[n].last = l.last
          /\ listener'[n].blk = l.last + 1 /\ listener'[n].pos = 1 /\ listener'[n].target = target
      <4> HIDE DEF target
      <4> QED BY <1>0, <3>1 DEF ListenerRecord
    <3>3. l.last + 1 \in 1..Len(chain[n]) /\ l.last + 1 <= target /\ target <= Len(chain[n])
      BY <2>4, Numbers, PoolAssumption
    <3>4. 1 \in 1..Len(chain[n][l.last + 1]) BY <3>3, FirstTransfer
    <3>5. Where(n)'
      <4> HIDE DEF target
      <4> QED BY <1>0, <2>4, <3>1, <3>2, <3>3, <3>4, Numbers DEF Where, Running, Working
    <3>6. Passed(n)'
      <4>1. PICK blk, pos : blk = l.last + 1 /\ pos = 1 OBVIOUS
      <4>2. ASSUME NEW b \in (start[n] + 1)..(blk - 1), NEW p \in 1..Len(chain[n][b])
            PROVE  Dealt(n, b, p)'
        <5>1. b \in (start[n] + 1)..l.last BY <4>1, Numbers
        <5>2. Dealt(n, b, p) BY <1>0, <2>4, <5>1 DEF Passed, Running, Working
        <5> QED BY <1>0, <2>1, <5>2 DEF Dealt
      <4>3. \A p \in 1..(pos - 1) : Dealt(n, blk, p)' BY <4>1
      <4>4. Onward(n) BY <1>0, <2>1, <3>1 DEF Onward
      <4>5. listener'[n].blk = blk /\ listener'[n].pos = pos BY <3>2, <4>1
      <4> QED BY <3>2, <4>2, <4>3, <4>4, <4>5, PassedWhen DEF Working
    <3> QED BY <2>2, <3>2, <3>5, <3>6 DEF LoopOK, Staged
  <2>5. CASE l.pc = "poll" /\ ~(head > l.last)
    <3>1. listener'[n] = [l EXCEPT !.fails = 0] /\ start'[n] = start[n]
      BY <1>0, <1>1, <2>5 DEF Poll
    <3>2. listener'[n].pc = "poll" /\ listener'[n].last = l.last
      BY <1>0, <2>5, <3>1 DEF ListenerRecord
    <3>3. Onward(n) BY <1>0, <2>1, <3>1 DEF Onward
    <3>4. Where(n)' /\ Passed(n)' BY <2>5, <3>2, <3>3, BackToPoll
    <3> QED BY <2>2, <3>2, <3>4 DEF LoopOK, Staged
  <2> QED BY <2>1, <2>3, <2>4, <2>5
<1>2. CASE Fetch(n)
  <2>1. UNCHANGED <<hashed, strung, confirmed, faults, start>> /\ l.pc = "fetch"
    BY <1>2 DEF Fetch, depositVars
  <2>2. listener'[n] = [l EXCEPT !.pc = "check", !.fails = 0] BY <1>0, <1>2 DEF Fetch
  <2>3. /\ listener'[n].pc = "check" /\ listener'[n].last = l.last /\ listener'[n].blk = l.blk
        /\ listener'[n].target = l.target /\ listener'[n].pos = l.pos
    BY <1>0, <2>2 DEF ListenerRecord
  <2>4. Credited(n)' BY <1>0, <2>1, QuietCredits
  <2>5. Onward(n) BY <1>0, <2>1 DEF Onward
  <2>6. Where(n)' /\ Passed(n)' BY <2>1, <2>3, <2>5, StillIn DEF Working
  <2> QED BY <2>3, <2>4, <2>6 DEF LoopOK, Staged
<1>3. CASE CallRefused(n) \/ CallFails(n) \/ DepositFails(n)
  <2>1. /\ UNCHANGED <<hashed, strung, confirmed, start>> /\ faults' >= faults
        /\ l.pc \in {"string", "mark"} => faults' = faults + 1
        /\ l.pc # "off"
    BY <1>0, <1>3 DEF CallRefused, CallFails, DepositFails, Depositing, Fault, depositVars
  <2>2. /\ listener'[n].pc \in {"start", "poll"} /\ (listener'[n].pc = "start" <=> l.pc = "start")
        /\ listener'[n].last = l.last
    <3>1. CASE DepositFails(n)
      BY <1>0, <3>1 DEF DepositFails, Depositing, ListenerRecord
    <3>2. CASE CallRefused(n) \/ CallFails(n)
      <4>1. FailOver(n) BY <3>2 DEF CallRefused, CallFails
      <4>2. PICK pc \in {"start", "poll"}, fails \in 0..Threshold, node \in 0..(Nodes - 1) :
              /\ pc = "start" <=> l.pc = "start"
              /\ listener' = [listener EXCEPT ![n] = [l EXCEPT !.pc = pc, !.fails = fails, !.node = node]]
        BY <4>1, FailOverType
      <4>3. listener'[n] = [l EXCEPT !.pc = pc, !.fails = fails, !.node = node] BY <1>0, <4>2
      <4> QED BY <1>0, <4>2, <4>3 DEF ListenerRecord
    <3> QED BY <1>3, <3>1, <3>2
  <2>3. Credited(n)' BY <1>0, <2>1, QuietCredits
  <2>4. Onward(n) BY <1>0, <2>1 DEF Onward
  <2>5. Where(n)' /\ Passed(n)' BY <2>1, <2>2, <2>4, BackToPoll
  <2> QED BY <2>2, <2>3, <2>5 DEF LoopOK, Staged
<1>4. CASE CheckDeposit(n)
  <2>1. UNCHANGED <<hashed, strung, confirmed, faults, start>> /\ l.pc = "check"
    BY <1>4 DEF CheckDeposit, depositVars
  <2>2. Credited(n)' BY <1>0, <2>1, QuietCredits
  <2>3. Onward(n) BY <1>0, <2>1 DEF Onward
  <2>4. CASE Hash(n) \in confirmed
    <3>1. listener'[n] = NextTransfer(n) BY <1>0, <1>4, <2>4 DEF CheckDeposit
    <3>2. Where(n)' /\ Passed(n)' /\ listener'[n].pc \in {"check", "fetch", "poll"}
      BY <2>1, <2>3, <2>4, <3>1, Advance DEF Working
    <3> QED BY <2>2, <3>2 DEF LoopOK, Staged
  <2>5. CASE Hash(n) \notin confirmed
    <3>1. listener'[n] = [l EXCEPT !.pc = "hash"] BY <1>0, <1>4, <2>5 DEF CheckDeposit
    <3>2. /\ listener'[n].pc = "hash" /\ listener'[n].last = l.last /\ listener'[n].blk = l.blk
          /\ listener'[n].target = l.target /\ listener'[n].pos = l.pos
      BY <1>0, <3>1 DEF ListenerRecord
    <3>3. Where(n)' /\ Passed(n)' BY <2>1, <2>3, <3>2, StillIn DEF Working
    <3>4. Hash(n)' = Hash(n) BY <1>0, <3>2 DEF Hash, Current
    <3>5. Staged(n)' BY <2>1, <2>5, <3>2, <3>4 DEF Staged
    <3> QED BY <2>2, <3>3, <3>5 DEF LoopOK
  <2> QED BY <2>4, <2>5
<1>5. CASE CreditHash(n) \/ CreditString(n)
  <2>1. PICK pc \in {"string", "mark"} : /\ listener' = [listener EXCEPT ![n].pc = pc]
                                        /\ l.pc = (IF pc = "string" THEN "hash" ELSE "string")
    BY <1>5 DEF CreditHash, CreditString
  <2>2. UNCHANGED <<confirmed, faults, start>> /\ l.pc \in {"hash", "string"}
    BY <1>5 DEF CreditHash, CreditString
  <2>3. /\ listener'[n].pc = pc /\ listener'[n].last = l.last /\ listener'[n].blk = l.blk
        /\ listener'[n].target = l.target /\ listener'[n].pos = l.pos
    BY <1>0, <2>1 DEF ListenerRecord
  <2>4. Onward(n) BY <1>0, <2>2 DEF Onward
  <2>5. Where(n)' /\ Passed(n)' BY <2>2, <2>3, <2>4, StillIn DEF Working
  <2>6. Hash(n)' = Hash(n) BY <1>0, <2>3 DEF Hash, Current
  <2>7. /\ Hash(n) \in Hashes /\ Hash(n) \notin confirmed
        /\ hashed[Hash(n)] \in Nat /\ strung[Hash(n)] \in Nat
        /\ strung[Hash(n)] <= hashed[Hash(n)] /\ hashed[Hash(n)] <= 1 + faults
        /\ l.pc = "hash" => hashed[Hash(n)] <= faults
        /\ l.pc = "string" => strung[Hash(n)] < hashed[Hash(n)]
    BY <2>2, HandCounts DEF LoopOK, Staged
  <2>8. /\ \A h \in Hashes \ {Hash(n)} : hashed'[h] = hashed[h] /\ strung'[h] = strung[h]
        /\ IF pc = "string"
           THEN hashed'[Hash(n)] = hashed[Hash(n)] + 1 /\ strung'[Hash(n)] = strung[Hash(n)]
           ELSE strung'[Hash(n)] = strung[Hash(n)] + 1 /\ hashed'[Hash(n)] = hashed[Hash(n)]
    <3>1. hashed \in [Hashes -> Nat] /\ strung \in [Hashes -> Nat] BY DEF TypeOK, ChainTypeOK
    <3>2. CASE CreditHash(n)
      <4>1. pc = "string" /\ strung' = strung /\ hashed' = [hashed EXCEPT ![Hash(n)] = @ + 1]
        BY <2>1, <3>2 DEF CreditHash
      <4> QED BY <2>7, <3>1, <4>1
    <3>3. CASE CreditString(n)
      <4>1. pc = "mark" /\ hashed' = hashed /\ strung' = [strung EXCEPT ![Hash(n)] = @ + 1]
        BY <2>1, <3>3 DEF CreditString
      <4> QED BY <2>7, <3>1, <4>1
    <3> QED BY <1>5, <3>2, <3>3
  <2>9. /\ strung'[Hash(n)] <= hashed'[Hash(n)] /\ hashed'[Hash(n)] <= 1 + faults
        /\ pc = "string" => strung'[Hash(n)] < hashed'[Hash(n)]
        /\ pc = "mark" => 0 < strung'[Hash(n)]
    BY <1>0, <2>1, <2>7, <2>8
  <2>10. Credited(n)'
    BY <2>2, <2>3, <2>6, <2>7, <2>8, <2>9, OneHash
  <2>11. Staged(n)' BY <2>2, <2>3, <2>6, <2>7, <2>9 DEF Staged
  <2> QED BY <2>5, <2>10, <2>11 DEF LoopOK
<1>6. CASE MarkConfirmed(n)
  <2>1. /\ UNCHANGED <<hashed, strung, faults, start>> /\ l.pc = "mark"
        /\ confirmed' = confirmed \cup {Hash(n)} /\ listener'[n] = NextTransfer(n)
    BY <1>0, <1>6 DEF MarkConfirmed
  <2>2. Onward(n) BY <1>0, <2>1 DEF Onward
  <2>3. Where(n)' /\ Passed(n)' /\ listener'[n].pc \in {"check", "fetch", "poll"}
    BY <2>1, <2>2, Advance DEF Working
  <2>4. /\ strung[Hash(n)] \in Nat /\ hashed[Hash(n)] \in Nat /\ 0 < strung[Hash(n)]
        /\ strung[Hash(n)] <= hashed[Hash(n)] /\ hashed[Hash(n)] <= 1 + faults
    BY <2>1, HandCounts DEF LoopOK, Staged
  <2>5. hashed[Hash(n)] > 0 BY <2>4
  <2>6. \A h \in Hashes \ {Hash(n)} :
          hashed'[h] = hashed[h] /\ strung'[h] = strung[h] /\ (h \in confirmed' <=> h \in confirmed)
    BY <2>1
  <2>7. /\ Hash(n) \in confirmed' /\ hashed'[Hash(n)] > 0 /\ strung'[Hash(n)] > 0
        /\ strung'[Hash(n)] <= hashed'[Hash(n)] /\ hashed'[Hash(n)] <= 1 + faults
    BY <2>1, <2>4, <2>5
  <2>8. Credited(n)'
    <3>1. l.pc \in {"hash", "string", "mark"} /\ UNCHANGED faults BY <2>1
    <3> QED BY <2>6, <2>7, <3>1, OneHash
  <2> QED BY <2>3, <2>8 DEF LoopOK, Staged
<1> QED BY <1>1, <1>2, <1>3, <1>4, <1>5, <1>6 DEF Listen, Deposit

\* A loop whose variables all stay is the same.
LEMMA Unmoved ==
  ASSUME TypeOK, LoopInv, NEW n \in Networks, listener'[n] = listener[n], start'[n] = start[n],
         chain'[n] = chain[n],
         \A h \in Hashes : h[1] = n =>
           hashed'[h] = hashed[h] /\ strung'[h] = strung[h] /\ (h \in confirmed' <=> h \in confirmed)
  PROVE  SameLoop(n)
<1>1. Extends(n) BY Numbers DEF Extends, LoopInv, LoopOK, Where
<1>2. \A b \in 1..MaxBlocks, x \in Labels : <<n, b, x>> \in Hashes /\ <<n, b, x>>[1] = n
  BY DEF Hashes
<1> QED BY <1>1, <1>2 DEF SameLoop

\* Every step keeps what a listener knows of the blocks its cursor passed.
LEMMA LoopStep == TypeOK /\ LoopInv /\ [Next]_vars => LoopInv'
<1> SUFFICES ASSUME TypeOK, LoopInv, [Next]_vars PROVE LoopInv'
  OBVIOUS
<1>0. TypeOK' /\ listener \in [Networks -> ListenerRecord] /\ faults \in Nat /\ faults' \in Nat
  BY TypeStep DEF TypeOK, ChainTypeOK
<1>1. ASSUME faults' >= faults, \A n \in Networks : SameLoop(n) PROVE LoopInv'
  BY <1>0, <1>1, Frame DEF LoopInv
<1>2. ASSUME faults' >= faults, UNCHANGED <<chain, listener, start, hashed, strung, confirmed>>
      PROVE  LoopInv'
  BY <1>1, <1>2, Unmoved
<1>3. ASSUME NEW n \in Networks, NEW b \in Blocks, Mine(n, b) PROVE LoopInv'
  <2>1. UNCHANGED <<listener, start, faults, hashed, strung, confirmed>> BY <1>3 DEF Mine, depositVars
  <2>2. ASSUME NEW m \in Networks PROVE SameLoop(m)
    <3>1. CASE m # n
      <4>1. chain'[m] = chain[m] BY <1>3, <3>1 DEF Mine, TypeOK, ChainTypeOK
      <4> QED BY <2>1, <4>1, Unmoved
    <3>2. CASE m = n
      <4>1. chain[n] \in Seq(Blocks) /\ MaxBlocks \in Nat /\ Len(chain[n]) < MaxBlocks
        BY <1>3, BoundAssumption DEF Mine, TypeOK, ChainTypeOK
      <4>2. chain'[n] = Append(chain[n], b) BY <1>3 DEF Mine, TypeOK, ChainTypeOK
      <4>3. Extends(n) BY <4>1, <4>2 DEF Extends
      <4> QED BY <2>1, <3>2, <4>3 DEF SameLoop
    <3> QED BY <3>1, <3>2
  <2> QED BY <1>0, <1>1, <2>1, <2>2
<1>4. ASSUME NEW n \in Networks, NEW i \in 0..(Nodes - 1), NodeDies(n, i) PROVE LoopInv'
  BY <1>0, <1>2, <1>4 DEF NodeDies, Fault, depositVars
<1>5. ASSUME NEW n \in Networks, Listen(n) \/ CallFails(n) \/ Deposit(n) \/ DepositFails(n)
      PROVE  LoopInv'
  <2>1. LoopOK(n)' BY <1>0, <1>5, LoopSteps DEF LoopInv
  <2>2. faults' >= faults /\ chain' = chain
    BY <1>0, <1>5 DEF Listen, Poll, Fetch, CallRefused, CallFails, Deposit, CheckDeposit, CreditHash,
                      CreditString, MarkConfirmed, DepositFails, Fault
  <2>3. ASSUME NEW m \in Networks, m # n PROVE SameLoop(m)
    <3>1. listener'[m] = listener[m]
      BY <1>0, <1>5, <2>3 DEF Listen, Poll, Fetch, CallRefused, CallFails, Deposit, CheckDeposit,
                              CreditHash, CreditString, MarkConfirmed, DepositFails, FailOver
    <3>2. start'[m] = start[m]
      BY <1>5, <2>3 DEF Listen, Poll, Fetch, CallRefused, CallFails, Deposit, CheckDeposit,
                        CreditHash, CreditString, MarkConfirmed, DepositFails, TypeOK, ChainTypeOK
    <3>3. ASSUME NEW h \in Hashes, h[1] = m
          PROVE  hashed'[h] = hashed[h] /\ strung'[h] = strung[h] /\ (h \in confirmed' <=> h \in confirmed)
      <4>1. Hash(n) # h BY <2>3, <3>3 DEF Hash
      <4> QED BY <1>5, <4>1 DEF Listen, Poll, Fetch, CallRefused, CallFails, Deposit, CheckDeposit,
                                CreditHash, CreditString, MarkConfirmed, DepositFails, depositVars,
                                TypeOK, ChainTypeOK
    <3> QED BY <2>2, <3>1, <3>2, <3>3, Unmoved
  <2>4. ASSUME NEW m \in Networks, m # n PROVE LoopOK(m)'
    BY <1>0, <2>2, <2>3, <2>4, Frame DEF LoopInv
  <2> QED BY <2>1, <2>4 DEF LoopInv
<1>6. CASE Restart
  <2> SUFFICES ASSUME NEW n \in Networks PROVE LoopOK(n)'
    BY DEF LoopInv
  <2>1. UNCHANGED <<chain, start, hashed, strung, confirmed>> /\ faults' = faults + 1
    BY <1>6 DEF Restart, ListenersRestart, Fault, depositVars
  <2>2. listener'[n].pc \in {"off", "start"} /\ listener'[n].last = 0
    BY <1>6 DEF Restart, ListenersRestart, NewListener
  <2>3. Credited(n)' BY <1>0, <2>1, QuietCredits DEF LoopInv, LoopOK
  <2>4. Where(n)' BY <2>1, <2>2, Numbers DEF LoopInv, LoopOK, Where, Running, Working
  <2>5. Passed(n)' /\ Staged(n)' BY <2>2 DEF Passed, Staged, Running, Working
  <2> QED BY <2>3, <2>4, <2>5 DEF LoopOK
<1>7. ASSUME NEW r \in ToolCalls, UseTool(r) \/ Meter(r) PROVE LoopInv'
  BY <1>0, <1>2, <1>7, ToolSteps
<1>8. CASE UNCHANGED vars
  BY <1>0, <1>2, <1>8 DEF vars, chainVars, depositVars
<1> QED BY <1>3, <1>4, <1>5, <1>6, <1>7, <1>8 DEF Next, ChainNext

-------------------------------------------------------------------------------
(* The credits.                                                              *)

\* The amounts of a tenant.
LEMMA Amounts ==
  ASSUME TypeOK, NEW t \in Tenants
  PROVE  /\ given[t] \in Nat /\ taken[t] \in Nat /\ Trial \in Nat /\ Funds(t) \in Nat
         /\ credits[t] \in Int \cup {Absent} /\ Absent \notin Int
         /\ IsFiniteSet(Charged(t)) /\ Cardinality(Charged(t)) \in Nat
<1>1. given[t] \in Nat /\ taken[t] \in Nat /\ credits[t] \in Int \cup {Absent} /\ Trial \in Nat
  BY TrialAssumption DEF TypeOK, ChainTypeOK
<1>2. Funds(t) \in Nat BY <1>1 DEF Funds
<1>3. Charged(t) \subseteq ToolCalls BY DEF Charged
<1>4. IsFiniteSet(Charged(t)) BY <1>3, CallAssumption, FS_Subset
<1> QED BY <1>1, <1>2, <1>4, CreditAssumption, FS_CardinalityType

\* No request of the tenant's is served or stops being so.
SameCharged ==
  \A r \in ToolCalls :
    /\ tool'[r].tenant = tool[r].tenant
    /\ tool'[r].pc = "served" <=> tool[r].pc = "served"

\* What a tenant was charged changes with its served calls alone.
LEMMA ChargedKept ==
  ASSUME SameCharged, NEW t \in Tenants
  PROVE  Charged(t)' = Charged(t)
<1>1. ASSUME NEW r \in ToolCalls
      PROVE  (tool'[r].tenant = t /\ tool'[r].pc = "served") <=> (tool[r].tenant = t /\ tool[r].pc = "served")
  <2>1. tool'[r].tenant = tool[r].tenant /\ (tool'[r].pc = "served" <=> tool[r].pc = "served")
    BY DEF SameCharged
  <2> QED BY <2>1
<1>2. \A r : r \in Charged(t)' <=> r \in Charged(t)
  BY <1>1 DEF Charged
<1> QED BY <1>2 DEF Charged

\* A tenant none of whose amounts changes stays as it should be.
LEMMA TenantFrame ==
  ASSUME NEW t \in Tenants, TenantOK(t), SameCharged,
         credits'[t] = credits[t], given'[t] = given[t], taken'[t] = taken[t],
         t \in seeded' <=> t \in seeded
  PROVE  TenantOK(t)'
BY ChargedKept DEF TenantOK, Funds

\* A request that is not served after its step was not served before.
LEMMA MoveKept ==
  ASSUME TypeOK, NEW r \in ToolCalls, tool[r].pc # "served",
         NEW to \in {"admitted", "seeded", "bypassed", "refused"}, Move(r, to)
  PROVE  SameCharged
<1>1. tool \in [ToolCalls -> [pc : {"new", "admitted", "seeded", "bypassed", "served", "refused"},
                             tenant : Tenants]]
  BY DEF TypeOK
<1> QED BY <1>1 DEF Move, SameCharged

\* A deposit adds the same to the credits and to what the tenant was given.
LEMMA DepositLedger ==
  ASSUME TypeOK, LedgerInv, NEW n \in Networks, Where(n), CreditHash(n), UNCHANGED toolVars
  PROVE  LedgerInv'
<1> SUFFICES ASSUME NEW t \in Tenants PROVE TenantOK(t)'
  BY DEF LedgerInv
<1>1. SameCharged /\ seeded' = seeded /\ taken' = taken BY DEF SameCharged, toolVars
<1>2. TenantOK(t) BY DEF LedgerInv
<1>3. CASE t # Current(n).tenant
  <2>1. credits'[t] = credits[t] /\ given'[t] = given[t]
    BY <1>3 DEF CreditHash, TypeOK, ChainTypeOK
  <2> QED BY <1>1, <1>2, <2>1, TenantFrame
<1>4. CASE t = Current(n).tenant
  <2>1. credits'[t] = Plus(credits[t], Worth) /\ given'[t] = given[t] + Worth
    BY <1>4 DEF CreditHash, TypeOK, ChainTypeOK
  <2>2. Worth \in Nat BY CreditAssumption
  <2>3. Funds(t)' = Funds(t) + Worth BY <1>1, <2>1, <2>2, Amounts DEF Funds
  <2>4. Charged(t)' = Charged(t) BY <1>1, ChargedKept
  <2>5. credits'[t] # Absent /\ credits'[t] = Funds(t)' - taken'[t]
    <3>1. CASE credits[t] = Absent
      <4>1. Funds(t) = 0 /\ taken[t] = 0 BY <1>2, <3>1 DEF TenantOK, Funds
      <4>2. credits'[t] = 0 + Worth BY <2>1, <3>1 DEF Plus
      <4> QED BY <1>1, <2>2, <2>3, <4>1, <4>2, Amounts
    <3>2. CASE credits[t] # Absent
      <4>1. credits[t] = Funds(t) - taken[t] BY <1>2, <3>2 DEF TenantOK
      <4>2. credits'[t] = credits[t] + Worth BY <2>1, <3>2 DEF Plus
      <4> QED BY <1>1, <2>2, <2>3, <4>1, <4>2, Amounts
    <3> QED BY <3>1, <3>2
  <2>6. Cardinality(Charged(t)) <= Funds(t)' /\ Cardinality(Charged(t)) <= taken'[t]
    BY <1>1, <1>2, <2>2, <2>3, Amounts DEF TenantOK
  <2> QED BY <2>4, <2>5, <2>6 DEF TenantOK
<1> QED BY <1>3, <1>4

\* The trial is added to a tenant that has nothing.
LEMMA SeedLedger ==
  ASSUME TypeOK, LedgerInv, NEW r \in ToolCalls, Seed(r)
  PROVE  LedgerInv'
<1> DEFINE u == tool[r].tenant
<1> SUFFICES ASSUME NEW t \in Tenants PROVE TenantOK(t)'
  BY DEF LedgerInv
<1>1. SameCharged BY MoveKept DEF Seed
<1>2. TenantOK(t) /\ given' = given /\ taken' = taken BY DEF LedgerInv, Seed
<1>3. CASE t = u /\ credits[u] = Absent
  <2>1. credits'[t] = Trial /\ seeded' = seeded \cup {t}
    BY <1>3 DEF Seed, TypeOK, ChainTypeOK
  <2>2. t \notin seeded /\ given[t] = 0 /\ taken[t] = 0 /\ Funds(t) = 0
    BY <1>2, <1>3 DEF TenantOK, Funds
  <2>3. Funds(t)' = Trial BY <1>2, <2>1, <2>2, Amounts DEF Funds
  <2>4. Charged(t)' = Charged(t) BY <1>1, ChargedKept
  <2>5. Cardinality(Charged(t)) <= 0 BY <1>2, <2>2 DEF TenantOK
  <2>6. credits'[t] # Absent /\ credits'[t] = Funds(t)' - taken'[t]
    BY <1>2, <2>1, <2>2, <2>3, Amounts
  <2>7. Cardinality(Charged(t)) <= Funds(t)' /\ Cardinality(Charged(t)) <= taken'[t]
    BY <1>2, <2>2, <2>3, <2>5, Amounts
  <2> QED BY <2>4, <2>6, <2>7 DEF TenantOK
<1>4. CASE ~(t = u /\ credits[u] = Absent)
  <2>1. credits'[t] = credits[t] /\ (t \in seeded' <=> t \in seeded)
    BY <1>4 DEF Seed, TypeOK, ChainTypeOK
  <2> QED BY <1>1, <1>2, <2>1, TenantFrame
<1> QED BY <1>3, <1>4

\* A credit is taken; the call is served if there was one.
LEMMA DeductLedger ==
  ASSUME TypeOK, LedgerInv, NEW r \in ToolCalls, Deduct(r)
  PROVE  LedgerInv'
<1> DEFINE u == tool[r].tenant
<1> SUFFICES ASSUME NEW t \in Tenants PROVE TenantOK(t)'
  BY DEF LedgerInv
<1>1. /\ tool \in [ToolCalls -> [pc : {"new", "admitted", "seeded", "bypassed", "served", "refused"},
                                tenant : Tenants]]
      /\ u \in Tenants /\ credits[u] \in Int /\ tool[r].pc = "seeded"
  BY DEF Deduct, TypeOK
<1>2. TenantOK(t) /\ given' = given /\ seeded' = seeded BY DEF LedgerInv, Deduct
<1>3. Funds(t)' = Funds(t) BY <1>2 DEF Funds
<1>4. tool' = [tool EXCEPT ![r].pc = IF credits[u] - 1 < 0 THEN "refused" ELSE "served"]
  BY DEF Deduct, Move
<1>5. CASE t # u
  <2>1. credits'[t] = credits[t] /\ taken'[t] = taken[t]
    BY <1>5 DEF Deduct, TypeOK, ChainTypeOK
  <2>2. Charged(t)' = Charged(t) BY <1>1, <1>4, <1>5 DEF Charged
  <2> QED BY <1>2, <1>3, <2>1, <2>2 DEF TenantOK
<1>6. CASE t = u
  <2>1. credits'[t] = credits[t] - 1 /\ taken'[t] = taken[t] + 1
    BY <1>1, <1>6 DEF Deduct, TypeOK, ChainTypeOK
  <2>2. credits[t] = Funds(t) - taken[t] BY <1>1, <1>2, <1>6, Amounts DEF TenantOK
  <2>3. credits'[t] # Absent /\ credits'[t] = Funds(t)' - taken'[t]
    BY <1>3, <2>1, <2>2, Amounts
  <2>4. CASE credits[t] - 1 < 0
    <3>1. Charged(t)' = Charged(t) BY <1>1, <1>4, <1>6, <2>4 DEF Charged
    <3>2. Cardinality(Charged(t)) <= Funds(t)' /\ Cardinality(Charged(t)) <= taken'[t]
      BY <1>2, <1>3, <2>1, Amounts DEF TenantOK
    <3> QED BY <2>3, <3>1, <3>2 DEF TenantOK
  <2>5. CASE ~(credits[t] - 1 < 0)
    <3>1. Charged(t)' = Charged(t) \cup {r} BY <1>1, <1>4, <1>6, <2>5 DEF Charged
    <3>2. r \notin Charged(t) BY <1>1 DEF Charged
    <3>3. Cardinality(Charged(t) \cup {r}) = Cardinality(Charged(t)) + 1
      BY <3>2, Amounts, FS_AddElement
    <3>4. Cardinality(Charged(t)) + 1 <= taken'[t] /\ taken'[t] <= Funds(t)'
      BY <1>2, <1>3, <2>1, <2>2, <2>5, Amounts DEF TenantOK
    <3>5. Cardinality(Charged(t) \cup {r}) <= Funds(t)' /\ Cardinality(Charged(t) \cup {r}) <= taken'[t]
      BY <1>3, <2>1, <3>3, <3>4, Amounts
    <3> QED BY <2>3, <3>1, <3>5 DEF TenantOK
  <2> QED BY <2>4, <2>5
<1> QED BY <1>5, <1>6

\* Every step keeps the credits equal to what was given less what was taken.
LEMMA LedgerStep == TypeOK /\ LoopInv /\ LedgerInv /\ [Next]_vars => LedgerInv'
<1> SUFFICES ASSUME TypeOK, LoopInv, LedgerInv, [Next]_vars PROVE LedgerInv'
  OBVIOUS
<1>1. ASSUME SameCharged, UNCHANGED <<credits, given, taken, seeded>> PROVE LedgerInv'
  BY <1>1, TenantFrame DEF LedgerInv
<1>2. UNCHANGED toolVars => SameCharged /\ UNCHANGED <<taken, seeded>>
  BY DEF toolVars, SameCharged
<1>3. ASSUME NEW n \in Networks, NEW b \in Blocks, Mine(n, b), UNCHANGED toolVars PROVE LedgerInv'
  BY <1>1, <1>2, <1>3 DEF Mine, depositVars
<1>4. ASSUME NEW n \in Networks, NEW i \in 0..(Nodes - 1), NodeDies(n, i), UNCHANGED toolVars
      PROVE  LedgerInv'
  BY <1>1, <1>2, <1>4 DEF NodeDies, depositVars
<1>5. ASSUME NEW n \in Networks, Listen(n) \/ CallFails(n) \/ DepositFails(n), UNCHANGED toolVars
      PROVE  LedgerInv'
  BY <1>1, <1>2, <1>5 DEF Listen, Poll, Fetch, CallRefused, CallFails, DepositFails, depositVars
<1>6. ASSUME NEW n \in Networks, Deposit(n), UNCHANGED toolVars PROVE LedgerInv'
  <2>1. Where(n) BY DEF LoopInv, LoopOK
  <2>2. CASE CreditHash(n) BY <1>6, <2>1, <2>2, DepositLedger
  <2>3. CASE CheckDeposit(n) \/ CreditString(n) \/ MarkConfirmed(n)
    BY <1>1, <1>2, <1>6, <2>3 DEF CheckDeposit, CreditString, MarkConfirmed, depositVars
  <2> QED BY <1>6, <2>2, <2>3 DEF Deposit
<1>7. CASE Restart
  <2>1. UNCHANGED <<credits, given, taken, seeded>>
    BY <1>7 DEF Restart, ListenersRestart, depositVars
  <2>2. \A r \in ToolCalls :
          tool[r] \in [pc : {"new", "admitted", "seeded", "bypassed", "served", "refused"}, tenant : Tenants]
    BY DEF TypeOK
  <2>3. SameCharged BY <1>7, <2>2 DEF Restart, SameCharged
  <2> QED BY <1>1, <2>1, <2>3
<1>8. ASSUME NEW r \in ToolCalls, UseTool(r) PROVE LedgerInv'
  <2>1. /\ tool[r].pc # "served" /\ UNCHANGED <<credits, given, taken, seeded>>
        /\ \E to \in {"admitted", "bypassed", "refused"} : Move(r, to)
    BY <1>8 DEF UseTool, AdmitByKey, AdmitByTx, Challenge, CallTool, chainVars, depositVars
  <2> QED BY <1>1, <2>1, MoveKept
<1>9. ASSUME NEW r \in ToolCalls, DeductFails(r) PROVE LedgerInv'
  <2>1. tool[r].pc # "served" /\ UNCHANGED <<credits, given, taken, seeded>> /\ Move(r, "bypassed")
    BY <1>9 DEF DeductFails, depositVars
  <2> QED BY <1>1, <2>1, MoveKept
<1>10. ASSUME NEW r \in ToolCalls, Meter(r) PROVE LedgerInv'
  BY <1>9, <1>10, SeedLedger, DeductLedger DEF Meter
<1>11. CASE UNCHANGED vars
  BY <1>1, <1>2, <1>11 DEF vars, chainVars, depositVars, toolVars
<1> QED BY <1>3, <1>4, <1>5, <1>6, <1>7, <1>8, <1>10, <1>11 DEF Next, ChainNext

-------------------------------------------------------------------------------
(* The theorems.                                                             *)

\* The initial states are within the invariant.
LEMMA InitInv == Init => IInv
<1> SUFFICES ASSUME Init PROVE IInv
  OBVIOUS
<1>1. /\ chain = [n \in Networks |-> <<>>] /\ start = [n \in Networks |-> 0] /\ confirmed = {}
      /\ hashed = [h \in Hashes |-> 0] /\ strung = [h \in Hashes |-> 0] /\ faults = 0
      /\ credits = [t \in Tenants |-> Absent] /\ balance = [t \in Tenants |-> 0]
      /\ given = [t \in Tenants |-> 0] /\ taken = [t \in Tenants |-> 0] /\ seeded = {}
  BY DEF Init, ChainInit
<1>2. PICK on \in Settings : listener = [n \in Networks |-> NewListener(n \in on)]
  BY DEF Init, ChainInit
<1>3. listener \in [Networks -> ListenerRecord] BY <1>2, NewType
<1>4. \A n \in Networks : listener[n].pc \in {"off", "start"} /\ listener[n].last = 0
  BY <1>2 DEF NewListener
<1>5. serves \in [Networks -> [0..(Nodes - 1) -> SUBSET Calls]]
  BY ServingAssumption DEF Init, ChainInit, Calls
<1>6. tool \in [ToolCalls -> [pc : {"new"}, tenant : Tenants]]
  BY DEF Init
<1>7. TypeOK BY <1>1, <1>3, <1>5, <1>6 DEF TypeOK, ChainTypeOK
<1>8. ASSUME NEW n \in Networks PROVE LoopOK(n)
  <2>1. chain[n] = <<>> /\ start[n] = 0 /\ Len(chain[n]) = 0 BY <1>1
  <2>2. Where(n) BY <1>4, <2>1, BoundAssumption DEF Where, Running, Working
  <2>3. Passed(n) /\ Staged(n) BY <1>4 DEF Passed, Staged, Running, Working
  <2>4. Credited(n) BY <1>1 DEF Credited, Hashes
  <2> QED BY <2>2, <2>3, <2>4 DEF LoopOK
<1>9. ASSUME NEW t \in Tenants PROVE TenantOK(t)
  <2>1. Charged(t) = {} BY <1>6 DEF Charged
  <2>2. Cardinality(Charged(t)) = 0 BY <2>1, FS_EmptySet
  <2>3. Funds(t) = 0 /\ taken[t] = 0 BY <1>1 DEF Funds
  <2> QED BY <1>1, <2>2, <2>3 DEF TenantOK
<1> QED BY <1>7, <1>8, <1>9 DEF IInv, LoopInv, LedgerInv

\* The inductive invariant holds in every state.
LEMMA Invariance == Spec => []IInv
<1>1. IInv /\ [Next]_vars => IInv' BY TypeStep, LoopStep, LedgerStep DEF IInv
<1> QED BY <1>1, InitInv, PTL DEF Spec

\* Type correctness of the listeners, the credits and the requests.
THEOREM TypeCorrect == Spec => []TypeOK
<1>1. IInv => TypeOK BY DEF IInv
<1> QED BY <1>1, Invariance, PTL

\* Whatever fails and however often, no loop's cursor passes a transaction that
\* is not confirmed.
THEOREM Covered == Spec => []CursorCovers
<1>1. IInv => CursorCovers
  <2> SUFFICES ASSUME IInv, NEW n \in Networks, listener[n].pc \notin {"off", "start"},
                      NEW b \in (start[n] + 1)..listener[n].last, NEW p \in 1..Len(chain[n][b])
               PROVE  Dealt(n, b, p)
    BY DEF CursorCovers, Dealt
  <2>1. TypeOK /\ LoopOK(n) BY DEF IInv, LoopInv
  <2>2. Running(n) BY DEF Running
  <2>3. b \in (start[n] + 1)..(IF listener[n].pc \in Working THEN listener[n].blk - 1
                               ELSE listener[n].last)
    BY <2>1, Numbers DEF LoopOK, Where
  <2> QED BY <2>1, <2>2, <2>3 DEF LoopOK, Passed
<1> QED BY <1>1, Invariance, PTL

\* What the invariant of the loops says of one hash.
LEMMA HashCounted ==
  ASSUME IInv, NEW h \in Hashes
  PROVE  /\ h \in confirmed => hashed[h] > 0 /\ strung[h] > 0
         /\ hashed[h] <= 1 + faults /\ strung[h] <= hashed[h]
<1>1. PICK n \in Networks, b \in 1..MaxBlocks, x \in Labels : h = <<n, b, x>>
  BY DEF Hashes
<1> QED BY <1>1 DEF IInv, LoopInv, LoopOK, Credited

\* A hash is counted more than once only if something failed in between, and no more
\* often by INCRBY than by HINCRBY (process_deposit).
THEOREM Credits == Spec => []RepeatsNeedFailures
<1>1. IInv => RepeatsNeedFailures BY HashCounted DEF RepeatsNeedFailures
<1> QED BY <1>1, Invariance, PTL

\* A hash is confirmed only after both of its increments, whatever fails or restarts.
THEOREM ConfirmedLast == Spec => []ConfirmedIsCredited
<1>1. IInv => ConfirmedIsCredited
  BY HashCounted DEF ConfirmedIsCredited, IInv, TypeOK, ChainTypeOK
<1> QED BY <1>1, Invariance, PTL

\* Deposits and trials are neither lost nor overwritten by the calls that race them.
THEOREM Ledger == Spec => []CreditsAddUp
<1>1. IInv => CreditsAddUp BY DEF IInv, LedgerInv, TenantOK, CreditsAddUp, Funds
<1> QED BY <1>1, Invariance, PTL

\* A tenant's calls are served within what it was given (deduct_credit).
THEOREM Within == Spec => []ServedWithinFunds
<1>1. IInv => ServedWithinFunds
  BY DEF IInv, LedgerInv, TenantOK, ServedWithinFunds, Funds
<1> QED BY <1>1, Invariance, PTL
===============================================================================
