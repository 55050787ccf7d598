------------------------------ MODULE MCServices ------------------------------
(***************************************************************************)
(* The services around the gateway, which share no state with each other:   *)
(* one of them runs and the others stay as they started, so that TLC        *)
(* explores the sum of their states and not the product.                    *)
(***************************************************************************)
EXTENDS RateLimits, TenantCredits, CommitDag, AgentGraph, TaskStore, MarketQuotes,
        TicketPool, Sweeper

VARIABLE focus

services == <<focus, limitVars, creditVars, dagVars, graphVars, storeVars, marketVars,
              poolVars, sweepVars>>

Components == {"limits", "credits", "dag", "graph", "store", "market", "tickets", "sweep"}

\* A component that does not run has one initial state.
Resting ==
  /\ IF focus = "limits" THEN TRUE ELSE site = "sandbox"
  /\ IF focus = "credits" THEN TRUE ELSE url = FALSE
  /\ IF focus = "graph" THEN TRUE
     ELSE goal = [s \in Sessions |-> [kind |-> "data_cleaning", target |-> "localhost"]]
  /\ IF focus = "market" THEN TRUE
     ELSE /\ sells = <<>> /\ buys = <<>>
          /\ pool = [base |-> Min(Reserves), quote |-> Min(Reserves), fee |-> Min(Fees)]
          /\ want = [amount |-> Min(TradeAmounts), side |-> "buy"]
  /\ IF focus = "tickets" THEN TRUE ELSE tickets = 0
  /\ IF focus = "sweep" THEN TRUE ELSE fee = 1

ServicesInit ==
  /\ focus \in Components /\ Resting
  /\ LimitInit /\ CreditsInit /\ DagInit /\ GraphInit /\ StoreInit /\ MarketInit
  /\ PoolInit /\ SweepInit

Others(c) ==
  /\ focus = c /\ UNCHANGED focus
  /\ c # "limits" => UNCHANGED limitVars
  /\ c # "credits" => UNCHANGED creditVars
  /\ c # "dag" => UNCHANGED dagVars
  /\ c # "graph" => UNCHANGED graphVars
  /\ c # "store" => UNCHANGED storeVars
  /\ c # "market" => UNCHANGED marketVars
  /\ c # "tickets" => UNCHANGED poolVars
  /\ c # "sweep" => UNCHANGED sweepVars

ServicesNext ==
  \/ Others("limits") /\ LimitNext
  \/ Others("credits") /\ CreditsNext
  \/ Others("dag") /\ DagNext
  \/ Others("graph") /\ GraphNext
  \/ Others("store") /\ StoreNext
  \/ Others("market") /\ MarketNext
  \/ Others("tickets") /\ PoolNext
  \/ Others("sweep") /\ SweepNext

\* The event loop resumes every handler; run never blocks, since its awaits are on
\* coroutines that do not wait; the sweeper polls on, nodes catch up with the chain, and
\* a block takes a transaction that pays its fee.
DagFairness == \A h \in Handlers : WF_dagVars(focus = "dag" /\ Work(h))
GraphFairness == \A s \in Sessions : WF_graphVars(focus = "graph" /\ Advance(s))
SweepFairness ==
  /\ WF_sweepVars(focus = "sweep" /\ Poll) /\ WF_sweepVars(focus = "sweep" /\ CatchUp)
  /\ \A r \in Rails : WF_sweepVars(focus = "sweep" /\ Mine(r))

ServicesSpec ==
  /\ ServicesInit /\ [][ServicesNext]_services
  /\ DagFairness /\ GraphFairness /\ SweepFairness

\* One type invariant for all of them.
ServicesTypeOK ==
  /\ LimitTypeOK /\ CreditsTypeOK /\ DagTypeOK /\ GraphTypeOK /\ StoreTypeOK
  /\ MarketTypeOK /\ PoolTypeOK /\ SweepTypeOK

\* The two audit trails of agent tasks, of sessions and of the task store: nothing was
\* executed that the trail does not show approved, and no row differs from its trail.
AuditTrailsTell == ExecutedWasApproved /\ TrailTellsStatus
===============================================================================
