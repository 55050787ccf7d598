------------------------------ MODULE ToolCredits ------------------------------
(***************************************************************************)
(* Calls of the tools of app/main.py, paid from the credits that            *)
(* ChainListener's deposits add to: M2MPaymentMiddleware lets a call of     *)
(* /tools/ in, and deduct_credit seeds and decrements the tenant's credits. *)
(* The JSON-RPC route goes to deduct_credit directly.                       *)
(***************************************************************************)
EXTENDS ChainListener, FiniteSets

CONSTANTS
  ToolCalls,  \* requests
  Trial       \* DEFAULT_TRIAL_CREDITS

ASSUME TrialAssumption == Trial \in Nat
ASSUME CallAssumption == IsFiniteSet(ToolCalls)

VARIABLES
  tool,    \* each request: where it is and whom it charges
  seeded,  \* history: tenants whose trial was seeded
  taken    \* history: credits taken from each tenant

toolVars == <<tool, seeded, taken>>
vars == <<chainVars, toolVars>>

Init ==
  /\ ChainInit
  /\ tool \in [ToolCalls -> {[pc |-> "new", tenant |-> t] : t \in Tenants}]
  /\ seeded = {}
  /\ taken = [t \in Tenants |-> 0]

Move(r, to) == tool' = [tool EXCEPT ![r].pc = to]
Charged(t) == {r \in ToolCalls : tool[r].tenant = t /\ tool[r].pc = "served"}
HasCredit(t) == credits[t] # Absent /\ credits[t] > 0

-------------------------------------------------------------------------------
(* Plausible mistakes in the actions below; none is part of Spec.            *)

\* HSET instead of HSETNX.
SeedAlways(r) ==
  LET t == tool[r].tenant
  IN /\ tool[r].pc = "admitted"
     /\ Move(r, "seeded")
     /\ credits' = [credits EXCEPT ![t] = Trial]
     /\ seeded' = seeded \cup {t}
     /\ UNCHANGED <<chain, serves, listener, start, balance, confirmed, hashed, strung, given,
                    faults, taken>>

\* The credits are decremented whatever they are, and 0 is taken for enough.
DeductOffByOne(r) ==
  LET t == tool[r].tenant
  IN /\ tool[r].pc = "seeded"
     /\ credits' = [credits EXCEPT ![t] = @ - 1]
     /\ taken' = [taken EXCEPT ![t] = @ + 1]
     /\ Move(r, IF credits[t] < 0 THEN "refused" ELSE "served")
     /\ UNCHANGED <<chain, serves, listener, start, balance, confirmed, hashed, strung, given,
                    faults, seeded>>

-------------------------------------------------------------------------------
(* The middleware and the routes.                                            *)

\* A Bearer key whose credits are positive now; the decrement comes later, and
\* may be of another tenant's credits, the one the request names.
AdmitByKey(r) ==
  /\ tool[r].pc = "new"
  /\ \E k \in Tenants : HasCredit(k)
  /\ Move(r, "admitted")
  /\ UNCHANGED <<chainVars, seeded, taken>>

\* A confirmed transaction lets any number of calls in and bypasses the meter.
AdmitByTx(r) ==
  /\ tool[r].pc = "new" /\ confirmed # {}
  /\ Move(r, "bypassed")
  /\ UNCHANGED <<chainVars, seeded, taken>>

\* Neither: 402 with the two rails.  The listener may confirm the payment later.
Challenge(r) ==
  /\ tool[r].pc = "new"
  /\ Move(r, "refused")
  /\ UNCHANGED <<chainVars, seeded, taken>>

\* mcp_handler's tools/call is not behind the middleware.
CallTool(r) ==
  /\ tool[r].pc = "new"
  /\ Move(r, "admitted")
  /\ UNCHANGED <<chainVars, seeded, taken>>

-------------------------------------------------------------------------------
(* deduct_credit.                                                            *)

\* HSETNX: the trial, unless a deposit or another call came first.
Seed(r) ==
  LET t == tool[r].tenant
  IN /\ tool[r].pc = "admitted"
     /\ Move(r, "seeded")
     /\ IF credits[t] = Absent
        THEN credits' = [credits EXCEPT ![t] = Trial] /\ seeded' = seeded \cup {t}
        ELSE UNCHANGED <<credits, seeded>>
     /\ UNCHANGED <<chain, serves, listener, start, balance, confirmed, hashed, strung, given,
                    faults, taken>>

\* HINCRBY -1: refused below zero, with the credit taken all the same.
Deduct(r) ==
  LET t == tool[r].tenant
  IN /\ tool[r].pc = "seeded"
     /\ credits' = [credits EXCEPT ![t] = @ - 1]
     /\ taken' = [taken EXCEPT ![t] = @ + 1]
     /\ Move(r, IF credits[t] - 1 < 0 THEN "refused" ELSE "served")
     /\ UNCHANGED <<chain, serves, listener, start, balance, confirmed, hashed, strung, given,
                    faults, seeded>>

\* Redis raises: the call is served and not charged.
DeductFails(r) ==
  /\ tool[r].pc \in {"admitted", "seeded"} /\ Fault
  /\ Move(r, "bypassed")
  /\ UNCHANGED <<chain, serves, listener, start, depositVars, seeded, taken>>

-------------------------------------------------------------------------------
UseTool(r) == AdmitByKey(r) \/ AdmitByTx(r) \/ Challenge(r) \/ CallTool(r)
Meter(r) == Seed(r) \/ Deduct(r) \/ DeductFails(r)

\* The listeners and the requests in progress end with the process.
Restart ==
  /\ ListenersRestart
  /\ tool' = [r \in ToolCalls |->
       IF tool[r].pc \in {"admitted", "seeded"} THEN [tool[r] EXCEPT !.pc = "refused"] ELSE tool[r]]
  /\ UNCHANGED <<seeded, taken>>

Next ==
  \/ ChainNext /\ UNCHANGED toolVars
  \/ \E r \in ToolCalls : UseTool(r) \/ Meter(r)
  \/ Restart

Spec == Init /\ [][Next]_vars

\* Listeners and requests go on with what they await.
Fairness ==
  /\ \A n \in Networks : /\ WF_vars(Listen(n) /\ UNCHANGED toolVars)
                         /\ WF_vars(Deposit(n) /\ UNCHANGED toolVars)
  /\ \A r \in ToolCalls : WF_vars(Seed(r) \/ Deduct(r))

FairSpec == Spec /\ Fairness

-------------------------------------------------------------------------------
(* Properties.                                                               *)

\* Every variable holds the kind of value the listeners, Redis and the requests
\* keep.
TypeOK ==
  /\ ChainTypeOK
  /\ tool \in [ToolCalls -> [pc : {"new", "admitted", "seeded", "bypassed", "served", "refused"},
                             tenant : Tenants]]
  /\ \A r \in ToolCalls : tool[r].pc = "seeded" => credits[tool[r].tenant] \in Int
  /\ seeded \subseteq Tenants /\ taken \in [Tenants -> Nat]

\* What a tenant was given: the trial, if it was seeded, and its deposits.
Funds(t) == (IF t \in seeded THEN Trial ELSE 0) + given[t]

\* The credits are the funds less what was taken: no deposit and no seed is lost
\* or overwritten by the other, in whichever order they come.
CreditsAddUp ==
  \A t \in Tenants : IF credits[t] = Absent THEN Funds(t) = 0 ELSE credits[t] = Funds(t) - taken[t]

\* However the calls of a tenant interleave, no more of them are served for
\* credits than it was given.
ServedWithinFunds == \A t \in Tenants : Cardinality(Charged(t)) <= Funds(t)
===============================================================================
