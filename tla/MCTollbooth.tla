------------------------------ MODULE MCTollbooth ------------------------------
(***************************************************************************)
(* Small instances of Tollbooth for TLC.                                   *)
(***************************************************************************)
EXTENDS Tollbooth, TLC

\* Nonces are random and threads alike.
Symmetry == Permutations(Nonces) \cup Permutations(Threads)
===============================================================================
