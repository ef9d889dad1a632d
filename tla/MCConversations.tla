--------------------------- MODULE MCConversations ---------------------------
(* Conversations on a small instance *)
EXTENDS Conversations, TLC

CONSTANTS c1, t1, t2

OneConv  == {c1}
TwoTurns == {t1, t2}
SameConv == t1 :> c1 @@ t2 :> c1

\* The first engine writes twice, the second works or asks once.
Says   == t1 :> {"delta"} @@ t2 :> {"text", "work", "asked"}
Budget == t1 :> 2 @@ t2 :> 1
=============================================================================
