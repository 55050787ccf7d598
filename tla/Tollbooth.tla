------------------------------- MODULE Tollbooth -------------------------------
(***************************************************************************)
(* The HTTP 402 handshake: HTTP402Handler.execute_request asks, is answered *)
(* with a challenge, signs a payment bound to its nonce and asks again;     *)
(* TollboothGateway.evaluate_request, run by several server threads over    *)
(* one NonceStore, consumes the nonce and has the proof verified.           *)
(*                                                                         *)
(* The critical sections of NonceStore's lock are single steps; the clock   *)
(* is read before the lock is taken, so that reading it is a step earlier.  *)
(* The settlement verifiers answer yes, no or with an exception.            *)
(***************************************************************************)
EXTENDS Integers, FiniteSets

CONSTANTS
  Calls,     \* calls of execute_request
  Threads,   \* server threads that evaluate requests
  Nonces,    \* what secrets.token_hex can return
  NoNonce,   \* a request without Payment-Challenge-Id
  Absent,    \* store[n] of a nonce that is not in the store
  TTL,       \* default_ttl_seconds
  MaxTime,   \* bound: the clock
  MaxFaults  \* bound: restarts, lost connections, duplicates, refused proofs

ASSUME ClockAssumption == TTL \in Nat /\ MaxTime \in Nat /\ MaxFaults \in Nat
ASSUME NonceAssumption == NoNonce \notin Nonces
ASSUME ExpiryAssumption == Absent \notin Nat
ASSUME CallAssumption == Calls # {}

VARIABLES
  now,     \* time.time()
  store,   \* NonceStore._store: expiry of each nonce, or Absent
  thread,  \* what each server thread is doing
  purge,   \* the clock purge_expired read, or Absent
  call,    \* each call; wire: its request is not yet accepted, paid: it signed
  expiry,  \* history: the expiry each nonce was stored with, or Absent
  admits,  \* history: number of requests each nonce admitted
  faults   \* bounded count of faults

vars == <<now, store, thread, purge, call, expiry, admits, faults>>

IdleThread == [pc |-> "idle", call |-> CHOOSE c \in Calls : TRUE, nonce |-> NoNonce,
               time |-> 0, orig |-> FALSE, ans |-> "none"]

Init ==
  /\ now = 0
  /\ store = [n \in Nonces |-> Absent]
  /\ thread = [k \in Threads |-> IdleThread]
  /\ purge = Absent
  /\ call = [c \in Calls |-> [pc |-> "idle", nonce |-> NoNonce, wire |-> FALSE, paid |-> FALSE]]
  /\ expiry = [n \in Nonces |-> Absent]
  /\ admits = [n \in Nonces |-> 0]
  /\ faults = 0

Fault == faults < MaxFaults /\ faults' = faults + 1
Waiting(c) == call[c].pc \in {"asking", "paying"}

\* The nonces whose consumption succeeded and whose proof is being verified.
Held == {thread[k].nonce : k \in {j \in Threads : thread[j].pc = "verifying"}}

-------------------------------------------------------------------------------
(* Plausible mistakes in the actions below; none is part of Spec.            *)

\* The nonce is deleted only once its proof is verified.
ConsumeLater(k) ==
  LET th == thread[k]
  IN /\ th.pc = "checking"
     /\ IF store[th.nonce] # Absent /\ th.time <= store[th.nonce]
        THEN thread' = [thread EXCEPT ![k].pc = "verifying"]
        ELSE thread' = [thread EXCEPT ![k].pc = "answering", ![k].ans = "refused"]
     /\ UNCHANGED <<now, store, purge, call, expiry, admits, faults>>

\* The expiry is not looked at.
ConsumeStale(k) ==
  LET th == thread[k]
  IN /\ th.pc = "checking"
     /\ store' = [store EXCEPT ![th.nonce] = Absent]
     /\ IF store[th.nonce] # Absent
        THEN thread' = [thread EXCEPT ![k].pc = "verifying"]
        ELSE thread' = [thread EXCEPT ![k].pc = "answering", ![k].ans = "refused"]
     /\ UNCHANGED <<now, purge, call, expiry, admits, faults>>

\* The comparison of the two times is swapped.
ConsumeSwapped(k) ==
  LET th == thread[k]
  IN /\ th.pc = "checking"
     /\ store' = [store EXCEPT ![th.nonce] = Absent]
     /\ IF store[th.nonce] # Absent /\ th.time > store[th.nonce]
        THEN thread' = [thread EXCEPT ![k].pc = "verifying"]
        ELSE thread' = [thread EXCEPT ![k].pc = "answering", ![k].ans = "refused"]
     /\ UNCHANGED <<now, purge, call, expiry, admits, faults>>

\* purge_expired drops what has not expired.
PurgeSwapped ==
  /\ purge # Absent
  /\ store' = [n \in Nonces |-> IF store[n] # Absent /\ purge <= store[n] THEN Absent
                                ELSE store[n]]
  /\ purge' = Absent
  /\ UNCHANGED <<now, thread, call, expiry, admits, faults>>

\* A proof the verifier does not accept is accepted.
RefuseNothing(k) ==
  /\ thread[k].pc = "verifying" /\ Fault
  /\ thread' = [thread EXCEPT ![k].pc = "answering", ![k].ans = "ok"]
  /\ UNCHANGED <<now, store, purge, call, expiry, admits>>

\* The connections of a stopped process are not closed.
RestartSilently ==
  /\ Fault
  /\ store' = [n \in Nonces |-> Absent]
  /\ thread' = [k \in Threads |-> IdleThread]
  /\ purge' = Absent
  /\ UNCHANGED <<now, call, expiry, admits>>

\* The headers are not looked at before the nonce is checked.
StartUnguarded(k, c, n, orig) ==
  thread' = [thread EXCEPT ![k] =
    [pc |-> "checking", call |-> c, nonce |-> n, time |-> now, orig |-> orig, ans |-> "none"]]

-------------------------------------------------------------------------------
(* The client, execute_request.                                              *)

Ask(c) ==
  /\ call[c].pc = "idle"
  /\ call' = [call EXCEPT ![c].pc = "asking", ![c].wire = TRUE]
  /\ UNCHANGED <<now, store, thread, purge, expiry, admits, faults>>

\* The challenge is signed and the request sent again with the two headers.
Sign(c) ==
  /\ call[c].pc = "challenged"
  /\ call' = [call EXCEPT ![c].pc = "paying", ![c].wire = TRUE, ![c].paid = TRUE]
  /\ UNCHANGED <<now, store, thread, purge, expiry, admits, faults>>

\* resolve_signature raises: no signer for the challenge's rail.
SignerFails(c) ==
  /\ call[c].pc = "challenged"
  /\ call' = [call EXCEPT ![c].pc = "failed"]
  /\ UNCHANGED <<now, store, thread, purge, expiry, admits, faults>>

\* The connection breaks: the client raises, the request may still arrive.
ConnectionLost(c) ==
  /\ Waiting(c)
  /\ Fault
  /\ call' = [call EXCEPT ![c].pc = "failed"]
  /\ UNCHANGED <<now, store, thread, purge, expiry, admits>>

-------------------------------------------------------------------------------
(* The server, evaluate_request.                                             *)

\* A thread takes a request up and reads the clock: generate_nonce to compute
\* the new nonce's expiry, verify_and_consume to compare it with one.
Start(k, c, n, orig) ==
  thread' = [thread EXCEPT ![k] =
    [pc |-> IF n = NoNonce THEN "issuing" ELSE "checking", call |-> c, nonce |-> n,
     time |-> IF n = NoNonce THEN now + TTL ELSE now, orig |-> orig, ans |-> "none"]]

Accept(k, c) ==
  /\ thread[k].pc = "idle" /\ call[c].wire
  /\ Start(k, c, call[c].nonce, TRUE)
  /\ call' = [call EXCEPT ![c].wire = FALSE]
  /\ UNCHANGED <<now, store, purge, expiry, admits, faults>>

\* A request that was sent arrives once more; nobody waits for its answer.
Duplicate(k, c, n) ==
  /\ thread[k].pc = "idle"
  /\ \/ n = NoNonce /\ call[c].pc # "idle"
     \/ n = call[c].nonce /\ call[c].paid
  /\ Fault
  /\ Start(k, c, n, FALSE)
  /\ UNCHANGED <<now, store, purge, call, expiry, admits>>

Issue(k, n) ==
  /\ thread[k].pc = "issuing" /\ expiry[n] = Absent
  /\ store' = [store EXCEPT ![n] = thread[k].time]
  /\ expiry' = [expiry EXCEPT ![n] = thread[k].time]
  /\ thread' = [thread EXCEPT ![k].pc = "answering", ![k].nonce = n, ![k].ans = "challenge"]
  /\ UNCHANGED <<now, purge, call, admits, faults>>

\* The nonce is deleted before its expiry is looked at.
Consume(k) ==
  LET th == thread[k]
  IN /\ th.pc = "checking"
     /\ store' = [store EXCEPT ![th.nonce] = Absent]
     /\ IF store[th.nonce] # Absent /\ th.time <= store[th.nonce]
        THEN thread' = [thread EXCEPT ![k].pc = "verifying"]
        ELSE thread' = [thread EXCEPT ![k].pc = "answering", ![k].ans = "refused"]
     /\ UNCHANGED <<now, purge, call, expiry, admits, faults>>

Authorize(k) ==
  /\ thread[k].pc = "verifying"
  /\ admits' = [admits EXCEPT ![thread[k].nonce] = @ + 1]
  /\ thread' = [thread EXCEPT ![k].pc = "answering", ![k].ans = "ok"]
  /\ UNCHANGED <<now, store, purge, call, expiry, faults>>

\* The verifier says no (403) or raises (500); the nonce stays consumed.
RefuseProof(k) ==
  /\ thread[k].pc = "verifying"
  /\ Fault
  /\ thread' = [thread EXCEPT ![k].pc = "answering", ![k].ans = "refused"]
  /\ UNCHANGED <<now, store, purge, call, expiry, admits>>

\* What an answer makes of the call that waited for it.
Outcome(ans) == CASE ans = "challenge" -> "challenged"
                  [] ans = "ok" -> "served"
                  [] ans = "refused" -> "failed"

\* The answer reaches the call, if it is still waiting for it.
Answer(k) ==
  LET th == thread[k]
  IN /\ th.pc = "answering"
     /\ call' = IF th.orig /\ Waiting(th.call)
                THEN [call EXCEPT ![th.call].nonce = th.nonce,
                                  ![th.call].pc = Outcome(th.ans)]
                ELSE call
     /\ thread' = [thread EXCEPT ![k] = IdleThread]
     /\ UNCHANGED <<now, store, purge, expiry, admits, faults>>

-------------------------------------------------------------------------------
(* Housekeeping, the clock and the process.                                  *)

\* purge_expired reads the clock and then takes the lock.
PurgeRead ==
  /\ purge = Absent
  /\ purge' = now
  /\ UNCHANGED <<now, store, thread, call, expiry, admits, faults>>

PurgeSweep ==
  /\ purge # Absent
  /\ store' = [n \in Nonces |-> IF store[n] # Absent /\ purge > store[n] THEN Absent
                                ELSE store[n]]
  /\ purge' = Absent
  /\ UNCHANGED <<now, thread, call, expiry, admits, faults>>

Tick ==
  /\ now < MaxTime
  /\ now' = now + 1
  /\ UNCHANGED <<store, thread, purge, call, expiry, admits, faults>>

\* The store lives in memory: a restart forgets every challenge, and the calls
\* whose requests were being evaluated lose their connection.
Restart ==
  /\ Fault
  /\ store' = [n \in Nonces |-> Absent]
  /\ thread' = [k \in Threads |-> IdleThread]
  /\ purge' = Absent
  /\ call' = [c \in Calls |->
       IF Waiting(c) /\ \E k \in Threads : /\ thread[k].pc # "idle" /\ thread[k].orig
                                           /\ thread[k].call = c
       THEN [call[c] EXCEPT !.pc = "failed"] ELSE call[c]]
  /\ UNCHANGED <<now, expiry, admits>>

-------------------------------------------------------------------------------
Next ==
  \/ \E c \in Calls : Ask(c) \/ Sign(c) \/ SignerFails(c) \/ ConnectionLost(c)
  \/ \E k \in Threads, c \in Calls : Accept(k, c)
  \/ \E k \in Threads, c \in Calls, n \in Nonces \cup {NoNonce} : Duplicate(k, c, n)
  \/ \E k \in Threads, n \in Nonces : Issue(k, n)
  \/ \E k \in Threads : Consume(k) \/ Authorize(k) \/ RefuseProof(k) \/ Answer(k)
  \/ PurgeRead \/ PurgeSweep \/ Tick \/ Restart

Spec == Init /\ [][Next]_vars

\* Threads go on with what they started, some idle thread takes up a waiting
\* request, and a client answers a challenge one way or the other.
Fairness ==
  /\ \A c \in Calls : /\ WF_vars(Sign(c) \/ SignerFails(c))
                      /\ WF_vars(\E k \in Threads : Accept(k, c))
  /\ \A k \in Threads : /\ WF_vars(\E n \in Nonces : Issue(k, n))
                        /\ WF_vars(Consume(k)) /\ WF_vars(Authorize(k) \/ RefuseProof(k))
                        /\ WF_vars(Answer(k))

FairSpec == Spec /\ Fairness

-------------------------------------------------------------------------------
(* Properties.                                                               *)

Times == Nat \cup {Absent}

ThreadRecord == [pc : {"idle", "issuing", "checking", "verifying", "answering"},
                 call : Calls, nonce : Nonces \cup {NoNonce}, time : Nat,
                 orig : BOOLEAN, ans : {"none", "challenge", "ok", "refused"}]

CallRecord == [pc : {"idle", "asking", "challenged", "paying", "served", "failed"},
               nonce : Nonces \cup {NoNonce}, wire : BOOLEAN, paid : BOOLEAN]

\* A thread past the headers of a paid request holds a nonce, a thread that is
\* done an answer.
Equipped(r) ==
  /\ r.pc \in {"checking", "verifying"} => r.nonce \in Nonces
  /\ r.pc = "answering" => r.ans # "none"

\* Every variable holds the kind of value the gateway and its callers keep, and
\* the threads what their next step needs.
TypeOK ==
  /\ now \in Nat /\ faults \in Nat
  /\ store \in [Nonces -> Times] /\ expiry \in [Nonces -> Times] /\ purge \in Times
  /\ thread \in [Threads -> ThreadRecord]
  /\ \A k \in Threads : Equipped(thread[k])
  /\ call \in [Calls -> CallRecord]
  /\ admits \in [Nonces -> Nat]

\* Whichever threads race on a nonce, one at most gets past verify_and_consume
\* with it; the nonce is then out of the store, has admitted nothing yet, and
\* had not expired when the thread read the clock.
HeldOnce ==
  \A k \in Threads : thread[k].pc = "verifying" =>
    LET n == thread[k].nonce
    IN /\ store[n] = Absent /\ admits[n] = 0
       /\ expiry[n] # Absent /\ thread[k].time <= expiry[n]
       /\ \A j \in Threads \ {k} : thread[j].pc = "verifying" => thread[j].nonce # n

\* A call is served only for a payment of its own: its nonce admitted exactly one
\* request, and no other call was served for it.
ServedForOwnPayment ==
  \A c \in Calls : call[c].pc = "served" =>
    /\ admits[call[c].nonce] = 1
    /\ \A d \in Calls \ {c} : call[d].pc = "served" => call[d].nonce # call[c].nonce

\* purge_expired never takes a challenge away that could still be answered: a
\* nonce leaves the store before its expiry only with a thread or a restart.
PurgeKeepsLive ==
  [][\A n \in Nonces : store[n] # Absent /\ store'[n] = Absent /\ now <= store[n] =>
       n \in {thread[k].nonce : k \in Threads} \/ faults' > faults]_vars

\* A nonce some request may still be admitted with.
Live(n) == store[n] # Absent \/ n \in Held

\* The challenges of the gateway as the abstract specification sees them.
status == [n \in Nonces |-> IF expiry[n] = Absent THEN "unissued"
                            ELSE IF admits[n] > 0 THEN "admitted"
                            ELSE IF Live(n) THEN "open" ELSE "dropped"]
Challenges == INSTANCE OneShotChallenge WITH uses <- admits
ImplementsOneShot == Challenges!Spec

\* A signed request is served, unless something fails or its challenge expires.
PaymentsAdmit ==
  \A c \in Calls : call[c].pc = "paying" ~>
    \/ call[c].pc = "served" \/ faults > 0
    \/ \E n \in Nonces : n = call[c].nonce /\ now > expiry[n]

\* Whatever fails, every call comes to an end.
CallsEnd == \A c \in Calls : call[c].pc = "asking" ~> call[c].pc \in {"served", "failed"}
===============================================================================
