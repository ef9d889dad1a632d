--------------------------- MODULE MCRunLifecycle ---------------------------
(* RunLifecycle on small instances *)
EXTENDS RunLifecycle, TLC

CONSTANTS r1, r2, r3, home, pool

OneRun    == {r1}
TwoRuns   == {r1, r2}
ThreeRuns == {r1, r2, r3}
TwoAgents == {home, pool}

\* r1 and r2 want the directory of one Agent; r3 gets a directory of its own.
HomeHomePool == r1 :> home @@ r2 :> home @@ r3 :> pool
InHome       == {r1, r2}

\* One Run in its Agent's directory, one in a directory of its own.
HomePool == r1 :> home @@ r2 :> pool
OneHome  == {r1}

\* Two Runs of one Agent, each in a directory of its own.
PoolPool == r1 :> pool @@ r2 :> pool
Pool     == r1 :> pool
NoHome   == {}

LimitTwo == home :> 2 @@ pool :> 2

Alike == Permutations({r1, r2})
=============================================================================
