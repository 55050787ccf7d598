--------------------------- MODULE MCChannelSettler ---------------------------
(* ChannelSettler and ChannelClaims on a small instance.                      *)
EXTENDS ChannelSettler

CONSTANTS c1, c2, s1, x1, r1, r2

\* One channel can pay every claim, the other only small ones.
FundsValue == [c \in Channels |-> IF c = c1 THEN 4 ELSE 1]

\* The clients, channels and requests up to their names: the first request is the
\* SDK's, on the rich channel; the second is anybody's.
MCInit == Init /\ payer[s1].chan = c1 /\ req[r1].by = s1
MCSpec == MCInit /\ [][Next]_vars /\ Fairness
===============================================================================
