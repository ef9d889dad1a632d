---------------------------- MODULE MCProvisioning ----------------------------
(* Engines, Agents, settings and a Run on a small instance; on the way, RunPolicy *)
EXTENDS Provisioning, RunPolicyChecks, TLC

CONSTANTS q1, q2, x1, a1, e1, e2, r1, r2, v1, v2, s1, s2

TwoRequests == {q1, q2}
OneRun      == {x1}
OneAgent    == {a1}
TwoEngines  == {e1, e2}
TwoRevs     == {r1, r2}
TwoVersions == {v1, v2}
TwoSettings == {s1, s2}
Symmetry    == Permutations(Requests) \cup Permutations(Versions)
               \cup Permutations(Revisions) \cup Permutations(EngineIds)

\* Of the initial states, those in which one engine is installed and the Agent with a revision has
\* run; the others are left to the theorems.
UsedInit == Init /\ engines # [e \in EngineIds |-> Absent] /\ workspace = active
UsedSpec == UsedInit /\ [][Next]_vars

SomeTexts == {"", " ", "a", " a", "exec", "ws:", " ws:", "https:"}
TrimText  == [t \in SomeTexts |->
    CASE t = " " -> "" [] t = " a" -> "a" [] t = " ws:" -> "ws:" [] OTHER -> t]
SomeUrls  == [t \in SomeTexts |->
    CASE t \in {"ws:", " ws:"} -> [scheme |-> "ws", host |-> [kind |-> "v4", first |-> 172, second |-> 32]]
      [] t = "https:" -> [scheme |-> "https", host |-> [kind |-> "name", local |-> FALSE]]
      [] OTHER -> [scheme |-> "none"]]
HostTool  == {"exec"}
=============================================================================
