--------------------------- MODULE MCBillingPipeline ---------------------------
(***************************************************************************)
(* Small instances of BillingPipeline for TLC.                             *)
(***************************************************************************)
EXTENDS BillingPipeline, TLC

CONSTANTS t1, t2, r1, r2, r3, x1, x2, daemon, task

\* A deposit that gives and one that takes: cfg files hold no negative numbers.
MixedAmounts == {2, -1}

\* Tenants, requests and transaction hashes are interchangeable in safety runs.
Symmetry == Permutations(Tenants) \cup Permutations(Requests) \cup Permutations(Txs)
===============================================================================
