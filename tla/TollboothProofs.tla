---------------------------- MODULE TollboothProofs ----------------------------
(***************************************************************************)
(* Proofs about Tollbooth: what its threads hold, which requests they       *)
(* serve, and that its challenges are those of OneShotChallenge.           *)
(***************************************************************************)
EXTENDS Tollbooth, TLAPS

\* What the store holds was issued with that expiry and has admitted nothing.
StoreInv ==
  \A n \in Nonces :
    /\ store[n] # Absent => expiry[n] = store[n] /\ admits[n] = 0
    /\ admits[n] > 0 => expiry[n] # Absent

\* A thread about to answer 200 is the only one to do so for its nonce.
GrantInv ==
  \A k \in Threads : thread[k].pc = "answering" /\ thread[k].ans = "ok" =>
    LET n == thread[k].nonce
    IN /\ n \in Nonces /\ admits[n] = 1
       /\ \A j \in Threads \ {k} :
            thread[j].pc = "answering" /\ thread[j].ans = "ok" => thread[j].nonce # n
       /\ \A c \in Calls : call[c].pc = "served" => call[c].nonce # n

\* A served call has a nonce.
ServedInv == \A c \in Calls : call[c].pc = "served" => call[c].nonce \in Nonces

Inv == TypeOK /\ StoreInv /\ HeldOnce /\ GrantInv /\ ServedInv /\ ServedForOwnPayment

\* The record an idle thread keeps.
LEMMA IdleType ==
  /\ IdleThread.pc = "idle" /\ IdleThread.ans = "none"
  /\ IdleThread \in ThreadRecord
BY CallAssumption DEF IdleThread, ThreadRecord

\* Init satisfies the invariant.
LEMMA InitInv == Init => Inv
BY IdleType DEF CallRecord, Equipped, Init, Inv, TypeOK, StoreInv, HeldOnce, GrantInv, ServedInv,
                ServedForOwnPayment, Times

-------------------------------------------------------------------------------
(* Types.                                                                    *)

\* The invariant's conjuncts about threads, in one formula.
ThreadsOK == thread \in [Threads -> ThreadRecord] /\ \A k \in Threads : Equipped(thread[k])

\* Replacing one thread's record by one with what its step needs.
LEMMA ThreadUpdate ==
  ASSUME ThreadsOK, NEW k \in Threads, NEW r \in ThreadRecord,
         Equipped(r),
         thread' = [thread EXCEPT ![k] = r]
  PROVE  ThreadsOK'
<1>1. thread' \in [Threads -> ThreadRecord] BY DEF ThreadsOK
<1>2. ASSUME NEW j \in Threads PROVE Equipped(thread'[j])
  BY DEF ThreadsOK
<1> QED BY <1>1, <1>2 DEF ThreadsOK, Equipped

\* A thread that takes up a request keeps a nonce, or is to issue one.
LEMMA StartType ==
  ASSUME TypeOK, NEW k \in Threads, NEW c \in Calls, NEW n \in Nonces \cup {NoNonce},
         NEW o \in BOOLEAN, Start(k, c, n, o)
  PROVE  ThreadsOK'
<1>1. ThreadsOK BY DEF TypeOK, ThreadsOK
<1>2. CASE n = NoNonce
  <2> DEFINE r == [pc |-> "issuing", call |-> c, nonce |-> n, time |-> now + TTL, orig |-> o,
                   ans |-> "none"]
  <2>1. r \in ThreadRecord BY ClockAssumption DEF TypeOK, ThreadRecord
  <2>2. thread' = [thread EXCEPT ![k] = r] BY <1>2 DEF Start
  <2>3. Equipped(r) BY DEF Equipped
  <2> HIDE DEF r
  <2> QED BY <1>1, <2>1, <2>2, <2>3, ThreadUpdate
<1>3. CASE n # NoNonce
  <2> DEFINE r == [pc |-> "checking", call |-> c, nonce |-> n, time |-> now, orig |-> o,
                   ans |-> "none"]
  <2>1. r \in ThreadRecord BY DEF TypeOK, ThreadRecord
  <2>2. thread' = [thread EXCEPT ![k] = r] BY <1>3 DEF Start
  <2>3. Equipped(r) BY <1>3 DEF Equipped
  <2> HIDE DEF r
  <2> QED BY <1>1, <2>1, <2>2, <2>3, ThreadUpdate
<1> QED BY <1>2, <1>3

\* A thread goes on with the same request: pc and answer change, nothing else does.
LEMMA MoveType ==
  ASSUME TypeOK, NEW k \in Threads, NEW pc \in {"verifying", "answering"},
         NEW ans \in {"none", "challenge", "ok", "refused"},
         IF pc = "verifying" THEN thread[k].nonce \in Nonces ELSE ans # "none",
         thread' = [thread EXCEPT ![k] = [thread[k] EXCEPT !.pc = pc, !.ans = ans]]
  PROVE  ThreadsOK'
<1> DEFINE r == [thread[k] EXCEPT !.pc = pc, !.ans = ans]
<1>1. ThreadsOK BY DEF TypeOK, ThreadsOK
<1>2. thread[k] \in ThreadRecord BY DEF TypeOK
<1>3. r \in ThreadRecord BY <1>2 DEF ThreadRecord
<1>4. r.pc = pc /\ r.nonce = thread[k].nonce /\ r.ans = ans BY <1>2 DEF ThreadRecord
<1>6. Equipped(r) BY <1>4 DEF Equipped
<1>5. thread' = [thread EXCEPT ![k] = r] OBVIOUS
<1> HIDE DEF r
<1> QED BY <1>1, <1>3, <1>5, <1>6, ThreadUpdate

\* A thread is done with its request.
LEMMA DoneType ==
  ASSUME TypeOK, NEW k \in Threads, NEW ans \in {"ok", "refused"},
         thread' = [thread EXCEPT ![k].pc = "answering", ![k].ans = ans]
  PROVE  ThreadsOK'
<1>1. ans # "none" OBVIOUS
<1>2. thread' = [thread EXCEPT ![k] = [thread[k] EXCEPT !.pc = "answering", !.ans = ans]]
  BY DEF TypeOK
<1> QED BY <1>1, <1>2, MoveType

\* Types are preserved by every step.
LEMMA TypeStep == TypeOK /\ [Next]_vars => TypeOK'
<1> SUFFICES ASSUME TypeOK, [Next]_vars PROVE TypeOK'
  OBVIOUS
<1> DEFINE StoresOK == /\ now \in Nat /\ faults \in Nat
                       /\ store \in [Nonces -> Times] /\ expiry \in [Nonces -> Times]
                       /\ purge \in Times /\ admits \in [Nonces -> Nat]
           CallsOK == call \in [Calls -> CallRecord]
<1>a. ThreadsOK /\ StoresOK /\ CallsOK BY DEF TypeOK, ThreadsOK
<1>b. SUFFICES ThreadsOK' /\ StoresOK' /\ CallsOK' BY DEF TypeOK, ThreadsOK
<1>c. ThreadsOK /\ thread' = thread => ThreadsOK' BY DEF ThreadsOK, Equipped
<1> USE ClockAssumption DEF Fault
<1>1. ASSUME NEW c \in Calls, Ask(c) \/ Sign(c) \/ SignerFails(c) \/ ConnectionLost(c)
      PROVE ThreadsOK' /\ StoresOK' /\ CallsOK'
  <2>1. ThreadsOK' BY <1>1, <1>a, <1>c DEF Ask, Sign, SignerFails, ConnectionLost
  <2>2. StoresOK' BY <1>1, <1>a DEF Ask, Sign, SignerFails, ConnectionLost
  <2>3. CallsOK' BY <1>1, <1>a DEF Ask, Sign, SignerFails, ConnectionLost, CallRecord
  <2> QED BY <2>1, <2>2, <2>3
<1>2. ASSUME NEW k \in Threads, NEW c \in Calls, Accept(k, c)
      PROVE ThreadsOK' /\ StoresOK' /\ CallsOK'
  <2>1. call[c].nonce \in Nonces \cup {NoNonce} BY <1>a DEF CallRecord
  <2>2. Start(k, c, call[c].nonce, TRUE) BY <1>2 DEF Accept
  <2>3. ThreadsOK' BY <2>1, <2>2, StartType
  <2>4. StoresOK' BY <1>2, <1>a DEF Accept
  <2>5. CallsOK' BY <1>2, <1>a, ZenonT(30) DEF Accept, CallRecord
  <2> QED BY <2>3, <2>4, <2>5
<1>3. ASSUME NEW k \in Threads, NEW c \in Calls, NEW n \in Nonces \cup {NoNonce},
             Duplicate(k, c, n)
      PROVE ThreadsOK' /\ StoresOK' /\ CallsOK'
  <2>1. Start(k, c, n, FALSE) BY <1>3 DEF Duplicate
  <2>2. ThreadsOK' BY <2>1, StartType
  <2> QED BY <1>3, <1>a, <2>2 DEF Duplicate
<1>4. ASSUME NEW k \in Threads, NEW n \in Nonces, Issue(k, n)
      PROVE ThreadsOK' /\ StoresOK' /\ CallsOK'
  <2> DEFINE r == [[[thread[k] EXCEPT !.pc = "answering"] EXCEPT !.nonce = n]
                    EXCEPT !.ans = "challenge"]
  <2>1. thread[k] \in ThreadRecord BY <1>a DEF ThreadsOK
  <2>2. r \in ThreadRecord BY <2>1 DEF ThreadRecord
  <2>3. Equipped(r) BY <2>1 DEF ThreadRecord, Equipped
  <2>4. thread' = [thread EXCEPT ![k] = r] BY <1>4, <1>a DEF Issue, ThreadsOK
  <2>5. ThreadsOK'
    <3> HIDE DEF r
    <3> QED BY <1>a, <2>2, <2>3, <2>4, ThreadUpdate
  <2>6. thread[k].time \in Times BY <2>1 DEF ThreadRecord, Times
  <2>7. StoresOK' BY <1>4, <1>a, <2>6 DEF Issue
  <2>8. CallsOK' BY <1>4, <1>a DEF Issue
  <2> QED BY <2>5, <2>7, <2>8
<1>5. ASSUME NEW k \in Threads, Consume(k)
      PROVE ThreadsOK' /\ StoresOK' /\ CallsOK'
  <2>1. thread[k] \in ThreadRecord /\ thread[k].nonce \in Nonces
    BY <1>a, <1>5 DEF ThreadsOK, Equipped, Consume
  <2>2. ThreadsOK'
    <3>1. CASE thread' = [thread EXCEPT ![k].pc = "verifying"]
      <4>1. thread' = [thread EXCEPT ![k] = [thread[k] EXCEPT !.pc = "verifying",
                                                              !.ans = thread[k].ans]]
        BY <3>1, <2>1, <1>a DEF ThreadsOK, ThreadRecord
      <4>2. thread[k].ans \in {"none", "challenge", "ok", "refused"} BY <2>1 DEF ThreadRecord
      <4> QED BY <4>1, <4>2, <2>1, MoveType
    <3>2. CASE thread' = [thread EXCEPT ![k].pc = "answering", ![k].ans = "refused"]
      BY <3>2, DoneType
    <3> QED BY <1>5, <3>1, <3>2 DEF Consume
  <2>3. StoresOK' BY <1>5, <1>a DEF Consume, Times
  <2>4. CallsOK' BY <1>5, <1>a DEF Consume
  <2> QED BY <2>2, <2>3, <2>4
<1>6. ASSUME NEW k \in Threads, Authorize(k) \/ RefuseProof(k)
      PROVE ThreadsOK' /\ StoresOK' /\ CallsOK'
  <2>1. \/ thread' = [thread EXCEPT ![k].pc = "answering", ![k].ans = "ok"]
        \/ thread' = [thread EXCEPT ![k].pc = "answering", ![k].ans = "refused"]
    BY <1>6, Zenon DEF Authorize, RefuseProof
  <2>2. ThreadsOK' BY <2>1, DoneType
  <2>3. thread[k].nonce \in Nonces
    BY <1>6, <1>a DEF Authorize, RefuseProof, ThreadsOK, Equipped
  <2>4. StoresOK' BY <1>6, <1>a, <2>3 DEF Authorize, RefuseProof
  <2>5. CallsOK' BY <1>6, <1>a DEF Authorize, RefuseProof
  <2> QED BY <2>2, <2>4, <2>5
<1>7. ASSUME NEW k \in Threads, Answer(k)
      PROVE ThreadsOK' /\ StoresOK' /\ CallsOK'
  <2>1. thread' = [thread EXCEPT ![k] = IdleThread] BY <1>7 DEF Answer
  <2>2. ThreadsOK' BY <1>a, <2>1, IdleType, ThreadUpdate DEF Equipped
  <2>3. StoresOK' BY <1>7, <1>a DEF Answer
  <2>4. CallsOK'
    <3> DEFINE th == thread[k]
    <3>1. th.ans \in {"none", "challenge", "ok", "refused"}
          /\ th.nonce \in Nonces \cup {NoNonce} /\ th.call \in Calls
      BY <1>a DEF ThreadsOK, ThreadRecord
    <3>2. CASE th.orig /\ Waiting(th.call)
      <4>1. th.ans # "none" BY <1>a, <1>7 DEF ThreadsOK, Equipped, Answer
      <4> DEFINE d == [[call[th.call] EXCEPT !.nonce = th.nonce] EXCEPT !.pc = Outcome(th.ans)]
      <4>2. Outcome(th.ans) \in {"challenged", "served", "failed"} BY <3>1, <4>1 DEF Outcome
      <4>3. call' = [call EXCEPT ![th.call].nonce = th.nonce, ![th.call].pc = Outcome(th.ans)]
        BY <1>7, <3>2, Zenon DEF Answer
      <4>4. call' = [call EXCEPT ![th.call] = d]
        BY <4>3, <3>1, <1>a DEF CallRecord
      <4>5. d \in CallRecord BY <1>a, <3>1, <4>2 DEF CallRecord
      <4> HIDE DEF d
      <4> QED BY <4>4, <4>5, <1>a
    <3>3. CASE ~(th.orig /\ Waiting(th.call)) BY <3>3, <1>7, <1>a DEF Answer
    <3> QED BY <3>2, <3>3
  <2> QED BY <2>2, <2>3, <2>4
<1>8. ASSUME PurgeRead \/ PurgeSweep \/ Tick
      PROVE ThreadsOK' /\ StoresOK' /\ CallsOK'
  <2>1. ThreadsOK' BY <1>8, <1>a, <1>c DEF PurgeRead, PurgeSweep, Tick
  <2>2. StoresOK' BY <1>8, <1>a DEF PurgeRead, PurgeSweep, Tick, Times
  <2>3. CallsOK' BY <1>8, <1>a DEF PurgeRead, PurgeSweep, Tick
  <2> QED BY <2>1, <2>2, <2>3
<1>9. ASSUME Restart PROVE ThreadsOK' /\ StoresOK' /\ CallsOK'
  <2>1. ThreadsOK' BY <1>9, IdleType DEF Restart, ThreadsOK, Equipped
  <2>2. StoresOK' BY <1>9, <1>a DEF Restart, Times
  <2>3. CallsOK'
    <3>1. ASSUME NEW c \in Calls PROVE call'[c] \in CallRecord
      <4>1. [call[c] EXCEPT !.pc = "failed"] \in CallRecord BY <1>a DEF CallRecord
      <4>2. call[c] \in CallRecord BY <1>a
      <4>3. call'[c] = [call[c] EXCEPT !.pc = "failed"] \/ call'[c] = call[c]
        BY <1>9 DEF Restart
      <4> QED BY <4>1, <4>2, <4>3
    <3>2. call' = [c \in Calls |-> call'[c]] BY <1>9 DEF Restart
    <3> QED BY <3>1, <3>2
  <2> QED BY <2>1, <2>2, <2>3
<1>10. ASSUME UNCHANGED vars PROVE ThreadsOK' /\ StoresOK' /\ CallsOK'
  BY <1>10, <1>a, <1>c DEF vars
<1> QED BY <1>1, <1>2, <1>3, <1>4, <1>5, <1>6, <1>7, <1>8, <1>9, <1>10 DEF Next

-------------------------------------------------------------------------------
(* What holds of the nonces in the store, held by a thread, and paid for.    *)

\* The invariant without the types.
Claims == StoreInv /\ HeldOnce /\ GrantInv /\ ServedInv /\ ServedForOwnPayment

\* No step of these changes which calls are served, nor for which nonce.
SameServed ==
  \A c \in Calls : call'[c].pc = "served" =>
    call[c].pc = "served" /\ call'[c].nonce = call[c].nonce

\* Thread k verifies nothing and is not about to answer 200; no other moves.
Harmless(k) ==
  /\ thread'[k].pc # "verifying"
  /\ ~(thread'[k].pc = "answering" /\ thread'[k].ans = "ok")
  /\ \A j \in Threads \ {k} : thread'[j] = thread[j]

\* A step that only takes a thread out of the way preserves what is claimed.
LEMMA HarmlessStep ==
  ASSUME Claims, NEW k \in Threads, Harmless(k), SameServed,
         UNCHANGED <<store, expiry, admits>>
  PROVE  Claims'
<1>1. StoreInv' BY DEF Claims, StoreInv
<1>2. HeldOnce' BY DEF Claims, HeldOnce, Harmless
<1>3. GrantInv' BY DEF Claims, GrantInv, Harmless, SameServed
<1>4. ServedInv' /\ ServedForOwnPayment'
  BY DEF Claims, ServedInv, ServedForOwnPayment, SameServed
<1> QED BY <1>1, <1>2, <1>3, <1>4 DEF Claims

\* A step that moves no thread and at most takes nonces out of the store.
LEMMA StillStep ==
  ASSUME TypeOK, Claims, \A j \in Threads : thread'[j] = thread[j], SameServed,
         \A n \in Nonces : store'[n] \in {store[n], Absent}, UNCHANGED <<expiry, admits>>
  PROVE  Claims'
<1>1. StoreInv' BY DEF Claims, StoreInv
<1>2. HeldOnce' BY DEF Claims, HeldOnce, TypeOK, Equipped
<1>3. GrantInv' BY DEF Claims, GrantInv, SameServed
<1>4. ServedInv' /\ ServedForOwnPayment'
  BY DEF Claims, ServedInv, ServedForOwnPayment, SameServed
<1> QED BY <1>1, <1>2, <1>3, <1>4 DEF Claims

\* A nonce enters the store once.
LEMMA IssueStep ==
  ASSUME Inv, NEW k \in Threads, NEW n \in Nonces, Issue(k, n)
  PROVE  Claims'
<1>1. /\ expiry[n] = Absent /\ thread[k].time \in Nat /\ admits[n] \in Nat
      /\ store' = [store EXCEPT ![n] = thread[k].time]
      /\ expiry' = [expiry EXCEPT ![n] = thread[k].time]
      /\ UNCHANGED <<call, admits>>
  BY DEF Inv, TypeOK, ThreadRecord, Issue
<1>2. /\ \A j \in Threads \ {k} : thread'[j] = thread[j]
      /\ thread'[k].pc = "answering" /\ thread'[k].ans = "challenge"
  BY DEF Inv, TypeOK, ThreadRecord, Issue
<1>3. admits[n] = 0 /\ thread[k].time # Absent
  BY <1>1, ExpiryAssumption DEF Inv, StoreInv
<1>4. StoreInv' BY <1>1, <1>3 DEF Inv, StoreInv, TypeOK
<1>5. HeldOnce'
  BY <1>1, <1>2 DEF Inv, HeldOnce, TypeOK, Equipped
<1>6. GrantInv' BY <1>1, <1>2 DEF Inv, GrantInv
<1>7. ServedInv' /\ ServedForOwnPayment' BY <1>1 DEF Inv, ServedInv, ServedForOwnPayment
<1> QED BY <1>4, <1>5, <1>6, <1>7 DEF Claims

\* A nonce is consumed once.
LEMMA ConsumeStep ==
  ASSUME Inv, NEW k \in Threads, Consume(k)
  PROVE  Claims'
<1> DEFINE n == thread[k].nonce
<1>1. /\ n \in Nonces
      /\ store' = [store EXCEPT ![n] = Absent]
      /\ UNCHANGED <<call, expiry, admits>>
  BY DEF Inv, TypeOK, Equipped, Consume
<1>2. \A m \in Nonces : store'[m] \in {store[m], Absent} BY <1>1 DEF Inv, TypeOK
<1>3. StoreInv' BY <1>1, <1>2 DEF Inv, StoreInv
<1>4. ServedInv' /\ ServedForOwnPayment' BY <1>1 DEF Inv, ServedInv, ServedForOwnPayment
<1>5. CASE store[n] # Absent /\ thread[k].time <= store[n]
  <2>1. /\ \A j \in Threads \ {k} : thread'[j] = thread[j]
        /\ thread'[k].pc = "verifying" /\ thread'[k].nonce = n
        /\ thread'[k].time = thread[k].time
    BY <1>5 DEF Inv, TypeOK, ThreadRecord, Consume
  <2>2. expiry[n] = store[n] /\ admits[n] = 0 /\ store'[n] = Absent
    BY <1>1, <1>5 DEF Inv, StoreInv, TypeOK
  <2>3. \A j \in Threads : thread[j].pc = "verifying" => thread[j].nonce \in Nonces \ {n}
    BY <1>5 DEF Inv, HeldOnce, TypeOK, Equipped
  <2>4. HeldOnce' BY <1>1, <1>2, <1>5, <2>1, <2>2, <2>3 DEF Inv, HeldOnce
  <2>5. GrantInv' BY <1>1, <2>1 DEF Inv, GrantInv
  <2> QED BY <1>3, <1>4, <2>4, <2>5 DEF Claims
<1>6. CASE ~(store[n] # Absent /\ thread[k].time <= store[n])
  <2>1. /\ \A j \in Threads \ {k} : thread'[j] = thread[j]
        /\ thread'[k].pc = "answering" /\ thread'[k].ans = "refused"
    BY <1>6 DEF Inv, TypeOK, ThreadRecord, Consume
  <2>2. HeldOnce' BY <1>1, <1>2, <2>1 DEF Inv, HeldOnce, TypeOK, Equipped
  <2>3. GrantInv' BY <1>1, <2>1 DEF Inv, GrantInv
  <2> QED BY <1>3, <1>4, <2>2, <2>3 DEF Claims
<1> QED BY <1>5, <1>6

\* A held nonce admits its one request.
LEMMA AuthorizeStep ==
  ASSUME Inv, NEW k \in Threads, Authorize(k)
  PROVE  Claims'
<1> DEFINE n == thread[k].nonce
<1>1. /\ n \in Nonces /\ thread[k].pc = "verifying"
      /\ admits' = [admits EXCEPT ![n] = @ + 1]
      /\ UNCHANGED <<store, call, expiry>>
  BY DEF Inv, TypeOK, Equipped, Authorize
<1>2. /\ \A j \in Threads \ {k} : thread'[j] = thread[j]
      /\ thread'[k].pc = "answering" /\ thread'[k].ans = "ok" /\ thread'[k].nonce = n
  BY DEF Inv, TypeOK, ThreadRecord, Authorize
<1>3. /\ store[n] = Absent /\ admits[n] = 0 /\ expiry[n] # Absent
      /\ \A j \in Threads \ {k} : thread[j].pc = "verifying" => thread[j].nonce # n
  BY <1>1 DEF Inv, HeldOnce
<1>4. admits'[n] = 1 /\ \A m \in Nonces \ {n} : admits'[m] = admits[m]
  BY <1>1, <1>3 DEF Inv, TypeOK
<1>5. \A c \in Calls : call[c].pc = "served" => call[c].nonce \in Nonces \ {n}
  BY <1>3 DEF Inv, ServedInv, ServedForOwnPayment
<1>6. \A j \in Threads : thread[j].pc = "answering" /\ thread[j].ans = "ok" =>
        thread[j].nonce \in Nonces \ {n}
  BY <1>3 DEF Inv, GrantInv
<1>7. StoreInv' BY <1>1, <1>3, <1>4 DEF Inv, StoreInv
<1>8. HeldOnce' BY <1>1, <1>2, <1>3, <1>4 DEF Inv, HeldOnce, TypeOK, Equipped
<1>9. GrantInv' BY <1>1, <1>2, <1>4, <1>5, <1>6 DEF Inv, GrantInv
<1>10. ServedInv' /\ ServedForOwnPayment'
  BY <1>1, <1>4, <1>5 DEF Inv, ServedInv, ServedForOwnPayment
<1> QED BY <1>7, <1>8, <1>9, <1>10 DEF Claims

\* A call is served for the nonce its thread had admitted.
LEMMA AnswerStep ==
  ASSUME Inv, NEW k \in Threads, Answer(k)
  PROVE  Claims'
<1> DEFINE th == thread[k]
<1>1. /\ th.pc = "answering" /\ th.call \in Calls /\ th.ans \in {"challenge", "ok", "refused"}
      /\ UNCHANGED <<store, expiry, admits>>
  BY DEF Inv, TypeOK, ThreadRecord, Equipped, Answer
<1>2. Harmless(k)
  BY IdleType DEF Inv, TypeOK, Answer, Harmless
<1>3. CASE th.orig /\ Waiting(th.call) /\ th.ans = "ok"
  <2>1. /\ th.nonce \in Nonces /\ admits[th.nonce] = 1
        /\ \A j \in Threads \ {k} :
             thread[j].pc = "answering" /\ thread[j].ans = "ok" => thread[j].nonce # th.nonce
        /\ \A c \in Calls : call[c].pc = "served" => call[c].nonce # th.nonce
    BY <1>1, <1>3 DEF Inv, GrantInv
  <2>2. call' = [call EXCEPT ![th.call].nonce = th.nonce, ![th.call].pc = Outcome(th.ans)]
    BY <1>3, Zenon DEF Answer
  <2>3. /\ \A c \in Calls \ {th.call} : call'[c] = call[c]
        /\ call'[th.call].nonce = th.nonce
    BY <2>2, <1>1 DEF Inv, TypeOK, CallRecord
  <2>4. ServedInv' BY <2>1, <2>3 DEF Inv, ServedInv
  <2>5. ServedForOwnPayment' BY <1>1, <2>1, <2>3 DEF Inv, ServedForOwnPayment
  <2>6. GrantInv' BY <1>1, <1>2, <2>1, <2>3 DEF Inv, GrantInv, Harmless
  <2>7. HeldOnce' BY <1>1, <1>2 DEF Inv, HeldOnce, Harmless
  <2>8. StoreInv' BY <1>1 DEF Inv, StoreInv
  <2> QED BY <2>4, <2>5, <2>6, <2>7, <2>8 DEF Claims
<1>4. CASE ~(th.orig /\ Waiting(th.call) /\ th.ans = "ok")
  <2>1. SameServed
    <3>1. CASE th.orig /\ Waiting(th.call)
      <4>1. call' = [call EXCEPT ![th.call].nonce = th.nonce, ![th.call].pc = Outcome(th.ans)]
        BY <3>1, Zenon DEF Answer
      <4>2. Outcome(th.ans) # "served" BY <1>1, <1>4, <3>1 DEF Outcome
      <4> QED BY <4>1, <4>2, <1>1 DEF SameServed, Inv, TypeOK, CallRecord
    <3>2. CASE ~(th.orig /\ Waiting(th.call))
      BY <3>2 DEF Answer, SameServed
    <3> QED BY <3>1, <3>2
  <2> QED BY <1>1, <1>2, <2>1, HarmlessStep DEF Inv, Claims
<1> QED BY <1>3, <1>4

\* Every step preserves the invariant.
LEMMA InvStep == Inv /\ [Next]_vars => Inv'
<1> SUFFICES ASSUME Inv, [Next]_vars PROVE Claims'
  BY TypeStep DEF Inv, Claims
<1>a. Claims /\ TypeOK BY DEF Inv, Claims
<1>1. ASSUME NEW c \in Calls, Ask(c) \/ Sign(c) \/ SignerFails(c) \/ ConnectionLost(c)
      PROVE Claims'
  <2>1. SameServed
    BY <1>1, <1>a DEF Ask, Sign, SignerFails, ConnectionLost, SameServed, TypeOK, CallRecord
  <2> QED BY <1>1, <1>a, <2>1, StillStep DEF Ask, Sign, SignerFails, ConnectionLost
<1>2. ASSUME NEW k \in Threads, NEW c \in Calls, Accept(k, c) PROVE Claims'
  <2>1. Harmless(k) BY <1>2, <1>a DEF Accept, Start, Harmless, TypeOK
  <2>2. SameServed BY <1>2, <1>a DEF Accept, SameServed, TypeOK, CallRecord
  <2> QED BY <1>2, <1>a, <2>1, <2>2, HarmlessStep DEF Accept
<1>3. ASSUME NEW k \in Threads, NEW c \in Calls, NEW n \in Nonces \cup {NoNonce},
             Duplicate(k, c, n)
      PROVE Claims'
  <2>1. Harmless(k) BY <1>3, <1>a DEF Duplicate, Start, Harmless, TypeOK
  <2>2. SameServed BY <1>3 DEF Duplicate, SameServed
  <2> QED BY <1>3, <1>a, <2>1, <2>2, HarmlessStep DEF Duplicate
<1>4. ASSUME NEW k \in Threads, RefuseProof(k) PROVE Claims'
  <2>1. Harmless(k) BY <1>4, <1>a DEF RefuseProof, Harmless, TypeOK, ThreadRecord
  <2>2. SameServed BY <1>4 DEF RefuseProof, SameServed
  <2> QED BY <1>4, <1>a, <2>1, <2>2, HarmlessStep DEF RefuseProof
<1>5. ASSUME PurgeRead \/ PurgeSweep \/ Tick \/ UNCHANGED vars PROVE Claims'
  <2>1. \A n \in Nonces : store'[n] \in {store[n], Absent}
    BY <1>5 DEF PurgeRead, PurgeSweep, Tick, vars
  <2>2. SameServed BY <1>5 DEF PurgeRead, PurgeSweep, Tick, vars, SameServed
  <2> QED BY <1>5, <1>a, <2>1, <2>2, StillStep DEF PurgeRead, PurgeSweep, Tick, vars
<1>6. ASSUME Restart PROVE Claims'
  <2>1. /\ \A k \in Threads : thread'[k].pc = "idle"
        /\ \A n \in Nonces : store'[n] = Absent
        /\ UNCHANGED <<expiry, admits>>
    BY <1>6, IdleType DEF Restart
  <2>2. SameServed
    <3>1. ASSUME NEW c \in Calls, call'[c].pc = "served" PROVE call'[c] = call[c]
      <4>1. call[c] \in CallRecord BY <1>a DEF TypeOK
      <4>2. [call[c] EXCEPT !.pc = "failed"].pc = "failed" BY <4>1 DEF CallRecord
      <4>3. call'[c] = [call[c] EXCEPT !.pc = "failed"] \/ call'[c] = call[c]
        BY <1>6 DEF Restart
      <4> QED BY <3>1, <4>2, <4>3
    <3> QED BY <3>1 DEF SameServed
  <2>3. StoreInv' BY <2>1, <1>a DEF Claims, StoreInv
  <2>4. HeldOnce' /\ GrantInv' BY <2>1 DEF HeldOnce, GrantInv
  <2>5. ServedInv' /\ ServedForOwnPayment'
    BY <2>1, <2>2, <1>a DEF Claims, ServedInv, ServedForOwnPayment, SameServed
  <2> QED BY <2>3, <2>4, <2>5 DEF Claims
<1> QED
  BY <1>1, <1>2, <1>3, <1>4, <1>5, <1>6, IssueStep, ConsumeStep, AuthorizeStep, AnswerStep
     DEF Next

\* purge_expired's clock never runs ahead of time.
PurgeInv == purge # Absent => purge <= now

\* Every step preserves it.
LEMMA PurgeStep == TypeOK /\ PurgeInv /\ [Next]_vars => PurgeInv'
<1> SUFFICES ASSUME TypeOK, PurgeInv, [Next]_vars PROVE PurgeInv'
  OBVIOUS
<1>1. \/ UNCHANGED <<purge, now>>
      \/ purge' = Absent
      \/ now' = now + 1 /\ purge' = purge
      \/ purge' = now /\ now' = now
  BY DEF Next, vars, Ask, Sign, SignerFails, ConnectionLost, Accept, Duplicate, Issue, Consume,
         Authorize, RefuseProof, Answer, PurgeRead, PurgeSweep, Tick, Restart
<1> QED BY <1>1 DEF PurgeInv, TypeOK, Times

\* The body of PurgeKeepsLive holds of every step.
LEMMA PurgeKeepsLiveStep ==
  ASSUME TypeOK, PurgeInv, [Next]_vars, NEW n \in Nonces,
         store[n] # Absent, store'[n] = Absent, now <= store[n]
  PROVE  n \in {thread[k].nonce : k \in Threads} \/ faults' > faults
<1> USE DEF TypeOK
<1>1. ASSUME NEW k \in Threads, NEW m \in Nonces, Issue(k, m) PROVE FALSE
  BY <1>1, ExpiryAssumption DEF Issue, ThreadRecord
<1>2. ASSUME NEW k \in Threads, Consume(k) PROVE n \in {thread[j].nonce : j \in Threads}
  <2>1. n = thread[k].nonce BY <1>2 DEF Consume, Equipped
  <2> QED BY <2>1
<1>3. ASSUME PurgeSweep PROVE FALSE
  BY <1>3 DEF PurgeSweep, PurgeInv, Times
<1>4. ASSUME Restart PROVE faults' > faults
  BY <1>4 DEF Restart, Fault
<1>5. \/ store' = store \/ PurgeSweep \/ Restart
      \/ \E k \in Threads : Consume(k) \/ \E m \in Nonces : Issue(k, m)
  BY DEF Next, vars, Ask, Sign, SignerFails, ConnectionLost, Accept, Duplicate,
         Authorize, RefuseProof, Answer, PurgeRead, Tick
<1> QED BY <1>1, <1>2, <1>3, <1>4, <1>5

-------------------------------------------------------------------------------
(* The refinement of OneShotChallenge.                                       *)

\* A step that issues and admits nothing and makes nothing live drops what it
\* takes away.
LEMMA DropStep ==
  ASSUME UNCHANGED <<expiry, admits>>, \A n \in Nonces : Live(n)' => Live(n)
  PROVE  Challenges!Next
<1> DEFINE S == {n \in Nonces : status[n] = "open" /\ ~Live(n)'}
<1>1. \A n \in S : status[n] = "open" OBVIOUS
<1>2. status' = [n \in Nonces |-> IF n \in S THEN "dropped" ELSE status[n]]
  BY DEF status
<1>3. Challenges!Drop(S) BY <1>1, <1>2 DEF Challenges!Drop
<1>4. S \in SUBSET Nonces OBVIOUS
<1> QED BY <1>3, <1>4 DEF Challenges!Next

\* Nonces held after a step that moves thread k alone.
LEMMA HeldBy ==
  ASSUME NEW k \in Threads, \A j \in Threads \ {k} : thread'[j] = thread[j],
         NEW n, n \in Held'
  PROVE  \/ n \in Held
         \/ thread'[k].pc = "verifying" /\ thread'[k].nonce = n
BY DEF Held

\* Init is the initial state of the abstract specification.
LEMMA InitChallenges == Init => Challenges!Init
<1> SUFFICES ASSUME Init PROVE Challenges!Init OBVIOUS
<1>1. status = [n \in Nonces |-> "unissued"] BY DEF Init, status
<1> QED BY <1>1 DEF Init, Challenges!Init

\* Issue is Issue.
LEMMA IssueChallenge ==
  ASSUME Inv, NEW k \in Threads, NEW n \in Nonces, Issue(k, n)
  PROVE  Challenges!Issue(n)
<1>1. /\ expiry[n] = Absent /\ thread[k].time \in Nat /\ admits[n] = 0 /\ admits' = admits
      /\ store' = [store EXCEPT ![n] = thread[k].time]
      /\ expiry' = [expiry EXCEPT ![n] = thread[k].time]
      /\ store \in [Nonces -> Times] /\ expiry \in [Nonces -> Times]
  BY DEF Inv, TypeOK, StoreInv, ThreadRecord, Issue
<1>2. thread[k].time # Absent BY <1>1, ExpiryAssumption
<1>3. Held' = Held
  <2>1. /\ \A j \in Threads \ {k} : thread'[j] = thread[j]
        /\ thread'[k].pc = "answering" /\ thread[k].pc = "issuing"
    BY DEF Inv, TypeOK, ThreadRecord, Issue
  <2> QED BY <2>1 DEF Held
<1>4. status[n] = "unissued" BY <1>1 DEF status
<1>5. \A m \in Nonces : status'[m] = IF m = n THEN "open" ELSE status[m]
  BY <1>1, <1>2, <1>3 DEF status, Live
<1>6. status' = [status EXCEPT ![n] = "open"] BY <1>5 DEF status
<1> QED BY <1>1, <1>4, <1>6 DEF Challenges!Issue

\* Authorize is Admit.
LEMMA AuthorizeChallenge ==
  ASSUME Inv, NEW k \in Threads, Authorize(k)
  PROVE  Challenges!Admit(thread[k].nonce)
<1> DEFINE n == thread[k].nonce
<1>1. /\ n \in Nonces /\ thread[k].pc = "verifying"
      /\ admits' = [admits EXCEPT ![n] = @ + 1] /\ admits \in [Nonces -> Nat]
      /\ UNCHANGED <<store, call, expiry>>
  BY DEF Inv, TypeOK, Equipped, Authorize
<1>2. /\ \A j \in Threads \ {k} : thread'[j] = thread[j]
      /\ thread'[k].pc = "answering"
  BY DEF Inv, TypeOK, ThreadRecord, Authorize
<1>3. admits[n] = 0 /\ expiry[n] # Absent BY <1>1 DEF Inv, HeldOnce
<1>4. n \in Held BY <1>1 DEF Held
<1>5. \A m \in Nonces \ {n} : m \in Held' <=> m \in Held BY <1>1, <1>2 DEF Held
<1>6. status[n] = "open" BY <1>1, <1>3, <1>4 DEF status, Live
<1>7. \A m \in Nonces : status'[m] = IF m = n THEN "admitted" ELSE status[m]
  BY <1>1, <1>3, <1>5 DEF status, Live
<1>8. status' = [status EXCEPT ![n] = "admitted"] BY <1>7 DEF status
<1> QED BY <1>1, <1>6, <1>8 DEF Challenges!Admit

\* Under the invariant every step is one of the abstract specification's; those
\* that change none of its challenges drop the empty set of them.
LEMMA NextChallenges == Inv /\ [Next]_vars => [Challenges!Next]_(Challenges!vars)
<1> SUFFICES ASSUME Inv, [Next]_vars PROVE Challenges!Next
  OBVIOUS
<1>1. ASSUME NEW k \in Threads, NEW n \in Nonces, Issue(k, n) PROVE Challenges!Next
  BY <1>1, IssueChallenge DEF Challenges!Next
<1>2. ASSUME NEW k \in Threads, Authorize(k) PROVE Challenges!Next
  <2>1. thread[k].nonce \in Nonces BY <1>2 DEF Authorize, Inv, TypeOK, Equipped
  <2> QED BY <1>2, <2>1, AuthorizeChallenge DEF Challenges!Next
<1>3. ASSUME NEW k \in Threads, Consume(k) PROVE Challenges!Next
  <2>1. /\ thread[k].nonce \in Nonces /\ UNCHANGED <<expiry, admits>>
        /\ store' = [store EXCEPT ![thread[k].nonce] = Absent]
        /\ \A j \in Threads \ {k} : thread'[j] = thread[j]
        /\ thread'[k].nonce = thread[k].nonce
        /\ thread'[k].pc = "verifying" => store[thread[k].nonce] # Absent
    BY <1>3 DEF Consume, Inv, TypeOK, Equipped, ThreadRecord
  <2>2. \A n \in Nonces : Live(n)' => Live(n) BY <2>1, HeldBy DEF Live, Inv, TypeOK
  <2> QED BY <2>1, <2>2, DropStep
<1>4. ASSUME NEW k \in Threads,
             \/ RefuseProof(k) \/ Answer(k)
             \/ \E c \in Calls, n \in Nonces \cup {NoNonce} : Accept(k, c) \/ Duplicate(k, c, n)
      PROVE  Challenges!Next
  <2>1. /\ UNCHANGED <<expiry, admits, store>> /\ thread'[k].pc # "verifying"
        /\ \A j \in Threads \ {k} : thread'[j] = thread[j]
    BY <1>4, IdleType
       DEF RefuseProof, Answer, Accept, Duplicate, Start, Inv, TypeOK, ThreadRecord
  <2>2. \A n \in Nonces : Live(n)' => Live(n) BY <2>1, HeldBy DEF Live
  <2> QED BY <2>1, <2>2, DropStep
<1>5. ASSUME \/ PurgeRead \/ PurgeSweep \/ Tick \/ UNCHANGED vars
             \/ \E c \in Calls : Ask(c) \/ Sign(c) \/ SignerFails(c) \/ ConnectionLost(c)
      PROVE  Challenges!Next
  <2>1. /\ UNCHANGED <<expiry, admits, thread>>
        /\ \A n \in Nonces : store'[n] \in {store[n], Absent}
    BY <1>5 DEF PurgeRead, PurgeSweep, Tick, vars, Ask, Sign, SignerFails, ConnectionLost
  <2>2. \A n \in Nonces : Live(n)' => Live(n) BY <2>1 DEF Live, Held
  <2> QED BY <2>1, <2>2, DropStep
<1>6. ASSUME Restart PROVE Challenges!Next
  <2>1. /\ UNCHANGED <<expiry, admits>> /\ \A k \in Threads : thread'[k].pc = "idle"
        /\ \A n \in Nonces : store'[n] = Absent
    BY <1>6, IdleType DEF Restart
  <2>2. \A n \in Nonces : ~Live(n)' BY <2>1 DEF Live, Held
  <2> QED BY <2>1, <2>2, DropStep
<1> QED BY <1>1, <1>2, <1>3, <1>4, <1>5, <1>6 DEF Next

-------------------------------------------------------------------------------
(* The theorems.                                                             *)

\* The invariant holds of every reachable state.
LEMMA Invariance == Spec => [](Inv /\ PurgeInv)
<1>1. Init => Inv /\ PurgeInv BY InitInv DEF Init, PurgeInv
<1>2. Inv /\ PurgeInv /\ [Next]_vars => (Inv /\ PurgeInv)'
  BY InvStep, PurgeStep DEF Inv
<1> QED BY <1>1, <1>2, PTL DEF Spec

\* The gateway and its callers keep the kinds of values they should.
THEOREM TypeCorrect == Spec => []TypeOK
BY Invariance, PTL DEF Inv

\* However many threads race on a nonce, one gets past verify_and_consume with it.
THEOREM ConsumedOnce == Spec => []HeldOnce
BY Invariance, PTL DEF Inv

\* No two calls are served for the same payment, nor one for none.
THEOREM Served == Spec => []ServedForOwnPayment
BY Invariance, PTL DEF Inv

\* purge_expired never takes away what could still be answered.
THEOREM Purged == Spec => PurgeKeepsLive
<1>1. Inv /\ PurgeInv /\ [Next]_vars =>
        [\A n \in Nonces : store[n] # Absent /\ store'[n] = Absent /\ now <= store[n] =>
           n \in {thread[k].nonce : k \in Threads} \/ faults' > faults]_vars
  BY PurgeKeepsLiveStep DEF Inv
<1> QED BY <1>1, Invariance, PTL DEF Spec, PurgeKeepsLive

\* The gateway's challenges are one-shot whatever races, fails or restarts.
THEOREM Implementation == Spec => ImplementsOneShot
BY InitChallenges, Invariance, NextChallenges, PTL DEF Spec, ImplementsOneShot, Challenges!Spec
===============================================================================
