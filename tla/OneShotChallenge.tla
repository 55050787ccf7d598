--------------------------- MODULE OneShotChallenge ---------------------------
(***************************************************************************)
(* What the tollbooth promises about its payment challenges: a challenge   *)
(* is issued once, admits at most one request, and never comes back to      *)
(* life, whether it was used or dropped.  Tollbooth implements this.        *)
(***************************************************************************)
EXTENDS Naturals

CONSTANT Nonces

VARIABLES
  status,  \* each nonce: "unissued", "open", "admitted" or "dropped"
  uses     \* number of requests each nonce admitted

vars == <<status, uses>>

Init ==
  /\ status = [n \in Nonces |-> "unissued"]
  /\ uses = [n \in Nonces |-> 0]

Issue(n) ==
  /\ status[n] = "unissued"
  /\ status' = [status EXCEPT ![n] = "open"]
  /\ UNCHANGED uses

Admit(n) ==
  /\ status[n] = "open"
  /\ status' = [status EXCEPT ![n] = "admitted"]
  /\ uses' = [uses EXCEPT ![n] = @ + 1]

\* Expired, purged, refused by the verifier, or lost with the process.
Drop(S) ==
  /\ \A n \in S : status[n] = "open"
  /\ status' = [n \in Nonces |-> IF n \in S THEN "dropped" ELSE status[n]]
  /\ UNCHANGED uses

Next ==
  \/ \E n \in Nonces : Issue(n) \/ Admit(n)
  \/ \E S \in SUBSET Nonces : Drop(S)

Spec == Init /\ [][Next]_vars
===============================================================================
