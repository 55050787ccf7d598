---------------------------- MODULE MCToolCredits ----------------------------
(***************************************************************************)
(* Small instances of ToolCredits for TLC.                                 *)
(***************************************************************************)
EXTENDS ToolCredits, TLC

CONSTANTS base, arc, t1, x

\* A block with one transfer, and one whose transaction makes two.
One == <<[tx |-> x, tenant |-> t1]>>
Two == One \o One
OnlyTwo == {Two}

\* Two endpoints answer everything, or the first is down.
TwoNodes == {(0 :> first) @@ (1 :> Calls) : first \in {{}, Calls}}

\* The first endpoint answers eth_blockNumber alone.
HeadFirst == {(0 :> {"head"}) @@ (1 :> Calls)}
===============================================================================
