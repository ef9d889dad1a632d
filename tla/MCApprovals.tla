----------------------------- MODULE MCApprovals -----------------------------
(* Approvals on small instances *)
EXTENDS Approvals, TLC

CONSTANTS r1, q1, q2, q3, q4, shell, edit, c1, c2

OneRun == {r1}

\* An operator decides on q1, q2 and q3, two of which have the same id, and two
\* the same trust key; the policy decides on q4.
FourRequests == {q1, q2, q3, q4}
FourRunOf    == q1 :> r1 @@ q2 :> r1 @@ q3 :> r1 @@ q4 :> r1
FourIds      == q1 :> 1 @@ q2 :> 2 @@ q3 :> 2 @@ q4 :> 3
FourTrusts   == q1 :> shell @@ q2 :> shell @@ q3 :> edit @@ q4 :> edit
ByPolicy     == {q4}

\* Two requests of one Run.
TwoRequests == {q1, q2}
TwoRunOf    == q1 :> r1 @@ q2 :> r1
TwoIds      == q1 :> 1 @@ q2 :> 2
TwoTrusts   == q1 :> shell @@ q2 :> edit

Tools    == {shell, edit}
Nothing  == {}
TwoCalls == {c1, c2}
AlikeCalls == Permutations(TwoCalls)
=============================================================================
