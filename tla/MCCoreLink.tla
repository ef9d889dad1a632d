------------------------------- MODULE MCCoreLink -------------------------------
(* CoreLink on small instances *)
EXTENDS CoreLink, TLC

CONSTANTS m1, m2, c1

OneMessage  == {m1}
TwoMessages == {m1, m2}
OneCommand  == {c1}
Nothing     == {}
=============================================================================
