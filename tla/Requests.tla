------------------------------- MODULE Requests -------------------------------
(***************************************************************************)
(* What the components of a Node's configuration share: the requests that  *)
(* are being handled, the Runs that use the configuration, and the         *)
(* process.  Each request of the HTTP API, of Core or of the command line  *)
(* is an async function of its own; req holds its local variables and the  *)
(* await at which it stands.                                               *)
(***************************************************************************)
EXTENDS Naturals, FiniteSets

CONSTANTS
    Requests,                          \* bound: each is made once
    Runs, AgentIds, EngineIds,
    Revisions, NoRevision,
    MaxFailures, MaxCrashes            \* bounds

ASSUME RequestAssumption ==
    /\ NoRevision \notin Revisions
    /\ MaxFailures \in Nat /\ MaxCrashes \in Nat

VARIABLES
    req,
    run,           \* the Runs, with the definition of the Agent and the engine each was created with
    up, crashes, failures,
    overlapped     \* history: some request was made while another was handled

shared == <<run, up, crashes>>

NoRun     == [at |-> "none"]
NoRequest == [at |-> "new"]

Handled(q) == req[q].at \notin {"new", "done"}
InFlight   == {q \in Requests : Handled(q)}
On(x)      == {q \in InFlight : req[q].on = x}

\* A request for x begins; at is the first await.
Begins(q, kind, x, arg, at, was) ==
    /\ up /\ req[q].at = "new"
    /\ req' = [req EXCEPT ![q] = [kind |-> kind, on |-> x, arg |-> arg, at |-> at,
                                  was |-> was, save |-> "none", snap |-> <<>>]]
    /\ overlapped' = (overlapped \/ InFlight # {})
    /\ UNCHANGED failures

Steps(q, at) ==
    /\ up /\ req[q].at = at
    /\ UNCHANGED <<overlapped, failures>>

Breaks(q, at) ==
    /\ up /\ req[q].at = at
    /\ failures < MaxFailures
    /\ failures' = failures + 1
    /\ UNCHANGED overlapped

Ends(q) == req' = [req EXCEPT ![q] = [at |-> "done"]]

\* RunManager.create in flight counts for the Agent (WorkspaceManager.activeRunIds),
\* not for the engine (activeRuns).
\* Mutant: only Runs that were created count.
Running_Created(a) == \E x \in Runs : run[x].at = "active" /\ run[x].agent = a
Running(a) == \E x \in Runs : run[x].at \in {"preparing", "fetching", "active"} /\ run[x].agent = a
EngineBusy(e) == \E x \in Runs : run[x].at = "active" /\ run[x].engine = e
=============================================================================
