----------------------------- MODULE RunContract -----------------------------
(***************************************************************************)
(* What a Hibro Node promises about the Runs in its store, whatever goes   *)
(* on inside: the state machine of section 7 of the Core-Node protocol,    *)
(* completed with the outcomes the code has and the diagram leaves out     *)
(* (failed while queued, timed out, interrupted by a restart), and the     *)
(* bound on the Runs that are unfinished at the same time.                 *)
(*                                                                         *)
(* RunLifecycle implements this module (RunLifecycle!ContractHolds).       *)
(***************************************************************************)
EXTENDS Integers, FiniteSets

CONSTANTS Runs,       \* the Runs that may ever be accepted
          Capacity    \* settings.maxConcurrentRuns

VARIABLES status,     \* what the store holds of each Run ("none": nothing)
          serving,    \* the Node is up and takes requests
          draining    \* a shutdown of the Node has begun

contractVars == <<status, serving, draining>>

Terminal   == {"completed", "failed", "cancelled", "timed_out"}
Unfinished == {"queued", "running", "cancelling"}
Statuses   == {"none"} \cup Unfinished \cup Terminal

UnfinishedRuns == {r \in Runs : status[r] \in Unfinished}

Init == /\ status = [r \in Runs |-> "none"]
        /\ serving = FALSE
        /\ draining = FALSE

-----------------------------------------------------------------------------
Becomes(r, from, to) ==
    /\ status[r] \in from
    /\ status' = [status EXCEPT ![r] = to]
    /\ UNCHANGED <<serving, draining>>

\* A Run is accepted only while the Node has room for one more.
Accept(r) == /\ serving
             /\ Cardinality(UnfinishedRuns) < Capacity
             /\ Becomes(r, {"none"}, "queued")

Start(r)         == serving /\ Becomes(r, {"queued"}, "running")
RequestCancel(r) == serving /\ Becomes(r, {"running"}, "cancelling")
Complete(r)      == serving /\ Becomes(r, {"running"}, "completed")
Fail(r)          == serving /\ Becomes(r, {"running"}, "failed")
Expire(r)        == serving /\ Becomes(r, {"running", "cancelling"}, "timed_out")

\* A Run is cancelled because somebody asked, or because the Node goes down.
Cancel(r) == /\ serving
             /\ Becomes(r, IF draining THEN {"running", "cancelling"}
                                       ELSE {"cancelling"}, "cancelled")

\* A Node that starts closes what its predecessor left open.
Interrupt(r) == ~serving /\ Becomes(r, Unfinished, "failed")

Drain == serving /\ draining' = TRUE /\ UNCHANGED <<status, serving>>

GoDown == /\ serving' = FALSE
          /\ draining' = FALSE
          /\ UNCHANGED status

\* Nothing is served before every interrupted Run is closed.
ComeUp == /\ ~serving
          /\ UnfinishedRuns = {}
          /\ serving' = TRUE
          /\ UNCHANGED <<status, draining>>

Next == \/ \E r \in Runs : \/ Accept(r) \/ Start(r) \/ RequestCancel(r)
                           \/ Complete(r) \/ Fail(r) \/ Expire(r)
                           \/ Cancel(r) \/ Interrupt(r)
        \/ Drain \/ GoDown \/ ComeUp

Spec == Init /\ [][Next]_contractVars
==============================================================================
