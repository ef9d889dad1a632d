------------------------------- MODULE Approvals -------------------------------
(***************************************************************************)
(* Approvals: an engine asks before it does something, the request waits   *)
(* in RunManager.pendingApprovals for the decision of an operator, and the *)
(* deadline of the execution stands still meanwhile.                       *)
(*                                                                         *)
(* Three parties meet here: the adapter, which stops the deadline, calls   *)
(* requestApproval and lets the deadline go on; decideApproval, called     *)
(* over HTTP, from a conversation or by Core; and whatever ends a Run.     *)
(*                                                                         *)
(* As in RunLifecycle, StoreYields = FALSE is SqliteRunStore: nothing new  *)
(* begins while a handler is between two store calls, but for the requests *)
(* an engine sends in one chunk of its output.                             *)
(***************************************************************************)
EXTENDS Naturals, Sequences, FiniteSets

CONSTANTS
    Runs, Requests,      \* the Runs, and the requests their engines may send
    Calls,               \* bound: the calls of decideApproval
    TrustKeys,           \* approvalTrustKey: Agent, session, kind and tool
    NoRequest,
    RunOf, IdOf,         \* the Run and the externalId of each request
    TrustOf,             \* its trust key
    Automatic,           \* the requests the policy of their Run lets through
    StoreYields,         \* an awaited store call lets other handlers run
    MaxFaults            \* bound: store calls that fail

ASSUME RequestAssumption ==
    /\ RunOf \in [Requests -> Runs]
    /\ DOMAIN IdOf = Requests
    /\ TrustOf \in [Requests -> TrustKeys]
    /\ Automatic \subseteq Requests
    /\ NoRequest \notin Requests
ASSUME ApprovalBoundAssumption == StoreYields \in BOOLEAN /\ MaxFaults \in Nat

VARIABLES
    stage,     \* of each Run: "executing", "ended" (its engine has), "over"
    aborted,   \* the Runs whose signal is aborted
    clock,     \* PausableExecutionTimeout: "running", "stopped", "fired"
    rpc,       \* where requestApproval stands for each request
    answer,    \* what it returned to the adapter
    pending,   \* pendingApprovals: the request that waits under each key
    trusted,   \* sessionApprovals that have not expired
    resolved,  \* the engine.approval.resolved events of each Run
    calls,     \* the calls of decideApproval
    faults

requestVars == <<rpc, answer, clock>>
vars == <<stage, aborted, clock, rpc, answer, pending, trusted, resolved, calls, faults>>

Decisions == {"allow_once", "allow_always", "deny"}
Allows    == {"allow_once", "allow_always"}

Key(q) == <<RunOf[q], IdOf[q]>>
Keys   == {Key(q) : q \in Requests}

Stages == {"executing", "ended", "over"}
Clocks == {"running", "stopped", "fired"}
Places == {"new", "announcing", "recording", "waiting", "returned"}
Ends   == {"new", "resolving", "accepted", "repeated", "refused", "failed"}

Storing == {q \in Requests : rpc[q] \in {"announcing", "recording"}}

Quiet == \/ StoreYields
         \/ /\ Storing = {}
            /\ \A c \in Calls : calls[c].at # "resolving"
            /\ \A r \in Runs : stage[r] # "ended"

\* One chunk of an engine's output may hold several of its requests.
InChunk(q) == \/ StoreYields
              \/ /\ \A p \in Storing : RunOf[p] = RunOf[q]
                 /\ \A c \in Calls : calls[c].at # "resolving"
                 /\ \A r \in Runs : stage[r] # "ended"

StoreFails == faults < MaxFaults /\ faults' = faults + 1

Record(q, decision) ==
    resolved' = [resolved EXCEPT ![RunOf[q]] =
                   Append(@, [id |-> IdOf[q], req |-> q, decision |-> decision])]

-----------------------------------------------------------------------------
(* The adapter and requestApproval *)

Paused(c)  == IF c = "running" THEN "stopped" ELSE c
Resumed(c) == IF c = "stopped" THEN "running" ELSE c

Pause(q) == clock' = [clock EXCEPT ![RunOf[q]] = Paused(@)]

\* Mutant: an error does not let the deadline go on.
Return_ErrorKeepsClock(S, decision) ==
    /\ rpc' = [q \in Requests |-> IF q \in S THEN "returned" ELSE rpc[q]]
    /\ answer' = [q \in Requests |-> IF q \in S THEN decision ELSE answer[q]]
    /\ clock' = [r \in Runs |-> IF decision # "error" /\ \E q \in S : RunOf[q] = r
                                  THEN Resumed(clock[r]) ELSE clock[r]]

\* The requests S get their answer; the adapter lets the deadline go on, even
\* while other requests of the Run wait, or after the engine has ended.
Return(S, decision) ==
    /\ rpc' = [q \in Requests |-> IF q \in S THEN "returned" ELSE rpc[q]]
    /\ answer' = [q \in Requests |-> IF q \in S THEN decision ELSE answer[q]]
    /\ clock' = [r \in Runs |-> IF \E q \in S : RunOf[q] = r
                                  THEN Resumed(clock[r]) ELSE clock[r]]

Arrives(q) == stage[RunOf[q]] = "executing" /\ rpc[q] = "new" /\ InChunk(q)

\* automaticApprovalDecision lets the request through, and says so in an event.
AskAutomatic(q) ==
    /\ Arrives(q)
    /\ q \in Automatic
    /\ rpc' = [rpc EXCEPT ![q] = "recording"]
    /\ Pause(q)
    /\ UNCHANGED <<stage, aborted, answer, pending, trusted, resolved, calls, faults>>

\* Mutant: trust is looked up for the Agent and session only.
IsTrusted_AnyTool(q) == trusted # {}
IsTrusted(q)         == TrustOf[q] \in trusted

AskTrusted(q) ==
    /\ Arrives(q)
    /\ q \notin Automatic
    /\ IsTrusted(q)
    /\ Return({q}, "allow_once")
    /\ UNCHANGED <<stage, aborted, pending, trusted, resolved, calls, faults>>

AskDuplicate(q) ==
    /\ Arrives(q)
    /\ q \notin Automatic
    /\ ~IsTrusted(q)
    /\ pending[Key(q)] # NoRequest
    /\ Return({q}, "error")
    /\ UNCHANGED <<stage, aborted, pending, trusted, resolved, calls, faults>>

\* Another request with the same key may be between this and Announced, too.
Ask(q) ==
    /\ Arrives(q)
    /\ q \notin Automatic
    /\ ~IsTrusted(q)
    /\ pending[Key(q)] = NoRequest
    /\ rpc' = [rpc EXCEPT ![q] = "announcing"]
    /\ Pause(q)
    /\ UNCHANGED <<stage, aborted, answer, pending, trusted, resolved, calls, faults>>

\* Mutant: the signal is not looked at after the event is stored.
AbortedMeanwhile_Unseen(q) == FALSE
AbortedMeanwhile(q)        == RunOf[q] \in aborted

\* engine.approval.requested is stored: the request waits, unless the Run was
\* aborted meanwhile.
Announced(q) ==
    /\ rpc[q] = "announcing"
    /\ \/ /\ AbortedMeanwhile(q)
          /\ pending' = [pending EXCEPT ![Key(q)] = NoRequest]
          /\ Return({q}, "deny")
       \/ /\ ~AbortedMeanwhile(q)
          /\ pending' = [pending EXCEPT ![Key(q)] = q]
          /\ rpc' = [rpc EXCEPT ![q] = "waiting"]
          /\ UNCHANGED <<answer, clock>>
    /\ UNCHANGED <<stage, aborted, trusted, resolved, calls, faults>>

Recorded(q) ==
    /\ rpc[q] = "recording"
    /\ Record(q, "allow_once")
    /\ Return({q}, "allow_once")
    /\ UNCHANGED <<stage, aborted, pending, trusted, calls, faults>>

\* The adapter declines what requestApproval threw on.
NotRecorded(q) ==
    /\ rpc[q] \in {"announcing", "recording"}
    /\ StoreFails
    /\ Return({q}, "error")
    /\ UNCHANGED <<stage, aborted, pending, trusted, resolved, calls>>

-----------------------------------------------------------------------------
(* decideApproval *)

\* Trust is remembered under the Agent and session of an active Run.
Trust(q, decision) ==
    trusted' = IF decision = "allow_always" /\ stage[RunOf[q]] # "over"
                 THEN trusted \cup {TrustOf[q]} ELSE trusted

\* Mutant: a request that is decided stays in pendingApprovals.
Forget_Late(k) == pending' = pending
Forget(k)      == pending' = [pending EXCEPT ![k] = NoRequest]

Decide(c, k, decision) ==
    /\ Quiet
    /\ calls[c].at = "new"
    /\ pending[k] # NoRequest
    /\ Forget(k)
    /\ Trust(pending[k], decision)
    /\ calls' = [calls EXCEPT ![c] = [at |-> "resolving", key |-> k, req |-> pending[k],
                                      decision |-> decision]]
    /\ UNCHANGED <<stage, aborted, requestVars, resolved, faults>>

\* What the first engine.approval.resolved with this externalId says.
Previous(k) == SelectSeq(resolved[k[1]], LAMBDA e : e.id = k[2])

DecideTooLate(c, k, decision) ==
    /\ Quiet
    /\ calls[c].at = "new"
    /\ pending[k] = NoRequest
    /\ calls' = [calls EXCEPT ![c] =
                   [at |-> IF Previous(k) # <<>> /\ Previous(k)[1].decision = decision
                             THEN "repeated" ELSE "refused",
                    key |-> k, req |-> NoRequest, decision |-> "none"]]
    /\ UNCHANGED <<stage, aborted, requestVars, pending, trusted, resolved, faults>>

\* Mutant: the promise is resolved with the engine's word for the decision.
Decision_EngineWord(c) == IF calls[c].decision = "deny" THEN "decline" ELSE "accept"
Decision(c)            == calls[c].decision

\* The decision is stored: the promise of the request is resolved, which means
\* nothing any more if the Run was aborted meanwhile.
Decided(c) ==
    /\ calls[c].at = "resolving"
    /\ Record(calls[c].req, calls[c].decision)
    /\ Return({calls[c].req} \cap {q \in Requests : rpc[q] = "waiting"}, Decision(c))
    /\ calls' = [calls EXCEPT ![c].at = "accepted"]
    /\ UNCHANGED <<stage, aborted, pending, trusted, faults>>

\* The request is no longer pending, and nobody resolves its promise.
NotDecided(c) ==
    /\ calls[c].at = "resolving"
    /\ StoreFails
    /\ calls' = [calls EXCEPT ![c].at = "failed"]
    /\ UNCHANGED <<stage, aborted, requestVars, pending, trusted, resolved>>

-----------------------------------------------------------------------------
(* What ends a Run, and what ends trust *)

Without(S) == [k \in Keys |-> IF pending[k] \in S THEN NoRequest ELSE pending[k]]

PendingOf(r) == {q \in Requests : RunOf[q] = r /\ pending[Key(q)] = q}
WaitingOf(r) == {q \in Requests : RunOf[q] = r /\ rpc[q] = "waiting"}

\* The abort listener of every request that waits answers it.
Cancel(r) ==
    /\ Quiet
    /\ stage[r] # "over"
    /\ r \notin aborted
    /\ aborted' = aborted \cup {r}
    /\ Return(WaitingOf(r), "deny")
    /\ pending' = Without(WaitingOf(r))
    /\ UNCHANGED <<stage, trusted, resolved, calls, faults>>

Live   == {r \in Runs : stage[r] # "over"}
Denied == {q \in Requests : q \in PendingOf(RunOf[q]) \/
                           (RunOf[q] \in Live /\ q \in WaitingOf(RunOf[q]))}

Shutdown ==
    /\ Quiet
    /\ ~ Live \subseteq aborted
    /\ aborted' = aborted \cup Live
    /\ Return(Denied, "deny")
    /\ pending' = Without(Denied)
    /\ UNCHANGED <<stage, trusted, resolved, calls, faults>>

TimeUp(r) ==
    /\ Quiet
    /\ clock[r] = "running"
    /\ clock' = [clock EXCEPT ![r] = "fired"]
    /\ UNCHANGED <<stage, aborted, rpc, answer, pending, trusted, resolved, calls, faults>>

\* The engine ends by itself, or because it was told to.
EngineEnds(r) ==
    /\ Quiet
    /\ stage[r] = "executing"
    /\ stage' = [stage EXCEPT ![r] = "ended"]
    /\ clock' = [clock EXCEPT ![r] = Paused(@)]
    /\ UNCHANGED <<aborted, rpc, answer, pending, trusted, resolved, calls, faults>>

\* The finally of execute.
Finish(r) ==
    /\ stage[r] = "ended"
    /\ stage' = [stage EXCEPT ![r] = "over"]
    /\ Return(PendingOf(r), "deny")
    /\ pending' = Without(PendingOf(r))
    /\ UNCHANGED <<aborted, trusted, resolved, calls, faults>>

Lapse(t) ==
    /\ Quiet
    /\ t \in trusted
    /\ trusted' = trusted \ {t}
    /\ UNCHANGED <<stage, aborted, requestVars, pending, resolved, calls, faults>>

-----------------------------------------------------------------------------
NoCall == [at |-> "new", key |-> <<>>, req |-> NoRequest, decision |-> "none"]

Init ==
    /\ stage = [r \in Runs |-> "executing"]
    /\ aborted = {}
    /\ clock = [r \in Runs |-> "running"]
    /\ rpc = [q \in Requests |-> "new"]
    /\ answer = [q \in Requests |-> "none"]
    /\ pending = [k \in Keys |-> NoRequest]
    /\ trusted = {}
    /\ resolved = [r \in Runs |-> <<>>]
    /\ calls = [c \in Calls |-> NoCall]
    /\ faults = 0

RequestStep(q) == \/ AskAutomatic(q) \/ AskTrusted(q) \/ AskDuplicate(q) \/ Ask(q)
                  \/ Announced(q) \/ Recorded(q) \/ NotRecorded(q)

CallStep(c) == \/ \E k \in Keys, d \in Decisions : Decide(c, k, d) \/ DecideTooLate(c, k, d)
               \/ Decided(c) \/ NotDecided(c)

RunStep(r) == Cancel(r) \/ TimeUp(r) \/ EngineEnds(r) \/ Finish(r)

Next == \/ \E q \in Requests : RequestStep(q)
        \/ \E c \in Calls : CallStep(c)
        \/ \E r \in Runs : RunStep(r)
        \/ \E t \in TrustKeys : Lapse(t)
        \/ Shutdown

Spec == Init /\ [][Next]_vars

-----------------------------------------------------------------------------
(* Properties *)

Resolutions == [id : {IdOf[q] : q \in Requests}, req : Requests, decision : Decisions]

\* Every variable is of its type.
ApprovalTypeOK ==
    /\ stage \in [Runs -> Stages] /\ aborted \subseteq Runs /\ clock \in [Runs -> Clocks]
    /\ rpc \in [Requests -> Places]
    /\ answer \in [Requests -> Decisions \cup {"none", "error"}]
    /\ pending \in [Keys -> Requests \cup {NoRequest}]
    /\ trusted \subseteq TrustKeys
    /\ resolved \in [Runs -> Seq(Resolutions)]
    /\ calls \in [Calls -> [at : Ends, key : Keys \cup {<<>>},
                            req : Requests \cup {NoRequest},
                            decision : Decisions \cup {"none"}]]
    /\ faults \in Nat

HasOwnId(q)   == \A p \in Requests : Key(p) = Key(q) => p = q
OnItsWay(q)   == \E c \in Calls : calls[c].at = "resolving" /\ calls[c].req = q
DecideFailed(q) == \E c \in Calls : calls[c].at = "failed" /\ calls[c].req = q

\* pendingApprovals holds requests that wait, under their key, and a request
\* that waits in a Run that is not over can be decided, is being decided, or lost
\* its decision in the store; none waits in a Run that was cancelled.
Answerable ==
    /\ \A k \in Keys : pending[k] # NoRequest =>
          Key(pending[k]) = k /\ rpc[pending[k]] = "waiting"
    /\ \A q \in Requests : rpc[q] = "waiting" /\ stage[RunOf[q]] # "over" =>
          /\ RunOf[q] \notin aborted
          /\ HasOwnId(q) => pending[Key(q)] = q \/ OnItsWay(q) \/ DecideFailed(q)

\* One decision at most is recorded for a request, and it is the answer its
\* engine got, unless the Run was aborted or over when the decision came.
AnsweredAsRecorded ==
    \A r \in Runs : \A i \in DOMAIN resolved[r] :
       LET q == resolved[r][i].req
       IN  /\ \/ answer[q] = resolved[r][i].decision
              \/ answer[q] = "deny" /\ (r \in aborted \/ stage[r] = "over")
           /\ \A j \in DOMAIN resolved[r] : resolved[r][j].req = q => j = i

Chose(q, allowed) ==
    \E c \in Calls : calls[c].req = q /\ calls[c].decision \in allowed

\* An engine is allowed to go on only by the policy, by an operator's decision
\* on this very request, or by a lasting one on the same Agent, session, kind
\* and tool.
AllowedBySomebody ==
    \A q \in Requests : answer[q] \in Allows =>
       \/ q \in Automatic
       \/ Chose(q, Allows)
       \/ \E p \in Requests : TrustOf[p] = TrustOf[q] /\ Chose(p, {"allow_always"})

Outstanding(r) == {q \in Requests : RunOf[q] = r /\ rpc[q] \notin {"new", "returned"}}

\* No answer and no error leaves the deadline of a Run stopped for good.
DeadlineGoesOn ==
    \A r \in Runs : stage[r] = "executing" /\ Outstanding(r) = {} => clock[r] # "stopped"

\* test/codex-adapter.test.ts: "approval waiting time does not consume the Codex
\* execution timeout".
ClockWaits ==
    \A r \in Runs : stage[r] = "executing" /\ WaitingOf(r) # {} => clock[r] # "running"

\* Protocol, run.approval.decide: a decision is accepted while the matching
\* request of the engine is pending.
PendingIsAccepted ==
    [][\A c \in Calls : calls[c].at = "new" /\ calls'[c].at = "refused" =>
          \A q \in Requests : Key(q) = calls'[c].key => rpc[q] # "waiting"]_calls
=============================================================================
