---------------------------- MODULE ApprovalProofs ----------------------------
(***************************************************************************)
(* Proofs about Approvals, for any Runs, requests, calls and trust keys,   *)
(* with a store of either kind and any number of store failures.           *)
(***************************************************************************)
EXTENDS Approvals, TLAPS

USE RequestAssumption, ApprovalBoundAssumption

-----------------------------------------------------------------------------
(* Types *)

Answers == Decisions \cup {"none", "error"}

RequestTypeOK == /\ rpc \in [Requests -> Places]
                 /\ answer \in [Requests -> Answers]
                 /\ clock \in [Runs -> Clocks]

\* What Return leaves behind, for every set of requests it is given.
LEMMA ReturnTypes ==
    ASSUME RequestTypeOK, NEW S \in SUBSET Requests, NEW d \in Answers, Return(S, d)
    PROVE  RequestTypeOK'
BY DEF RequestTypeOK, Return, Resumed, Places, Clocks

LEMMA PauseTypes ==
    ASSUME clock \in [Runs -> Clocks], NEW q \in Requests, Pause(q)
    PROVE  clock' \in [Runs -> Clocks]
BY DEF Pause, Paused, Clocks

LEMMA KeyOK == \A q \in Requests : Key(q) \in Keys /\ Key(q)[1] = RunOf[q] /\ RunOf[q] \in Runs
BY DEF Keys, Key

\* Recording appends one resolution to the events of its Run.
LEMMA RecordTypes ==
    ASSUME resolved \in [Runs -> Seq(Resolutions)], NEW q \in Requests, NEW d \in Decisions,
           Record(q, d)
    PROVE  resolved' \in [Runs -> Seq(Resolutions)]
<1>1. [id |-> IdOf[q], req |-> q, decision |-> d] \in Resolutions BY DEF Resolutions
<1>2. \A s \in Seq(Resolutions), e \in Resolutions : Append(s, e) \in Seq(Resolutions) OBVIOUS
<1> QED BY <1>1, <1>2 DEF Record

PendingTypeOK == pending \in [Keys -> Requests \cup {NoRequest}]
CallTypeOK    == calls \in [Calls -> [at : Ends, key : Keys \cup {<<>>},
                                      req : Requests \cup {NoRequest},
                                      decision : Decisions \cup {"none"}]]

\* A call that is being resolved has found a request and brings a decision.
CallsOK == \A c \in Calls : calls[c].at = "resolving" =>
              calls[c].req \in Requests /\ calls[c].decision \in Decisions

TypesInv == ApprovalTypeOK /\ CallsOK

LEMMA InitTypes == Init => TypesInv
<1> SUFFICES ASSUME Init PROVE TypesInv OBVIOUS
<1> USE DEF Init
<1>1. \A r \in Runs : resolved[r] \in Seq(Resolutions) OBVIOUS
<1>2. resolved \in [Runs -> Seq(Resolutions)] BY <1>1
<1>3. CallTypeOK BY DEF CallTypeOK, NoCall, Ends
<1>4. CallsOK BY DEF CallsOK, NoCall
<1> QED BY <1>2, <1>3, <1>4
        DEF TypesInv, ApprovalTypeOK, CallTypeOK, Stages, Clocks, Places, Decisions

\* The steps of requestApproval.
LEMMA RequestStepTypes ==
    ASSUME TypesInv, NEW q \in Requests, RequestStep(q)
    PROVE  TypesInv'
<1> USE DEF TypesInv, ApprovalTypeOK
<1>1. RequestTypeOK BY DEF RequestTypeOK, Answers
<1>2. UNCHANGED <<stage, aborted, trusted, calls>> /\ faults' \in Nat
  BY DEF RequestStep, AskAutomatic, AskTrusted, AskDuplicate, Ask, Announced, Recorded,
         NotRecorded, StoreFails
<1>3. CallsOK' BY <1>2 DEF CallsOK
<1>4. RequestTypeOK' /\ PendingTypeOK' /\ resolved' \in [Runs -> Seq(Resolutions)]
  <2>1. CASE AskAutomatic(q) \/ Ask(q)
    BY <2>1, <1>1, PauseTypes DEF AskAutomatic, Ask, RequestTypeOK, PendingTypeOK, Places
  <2>2. CASE AskTrusted(q) \/ AskDuplicate(q) \/ NotRecorded(q)
    <3>1. \E d \in Answers : Return({q}, d)
      BY <2>2 DEF AskTrusted, AskDuplicate, NotRecorded, Answers, Decisions
    <3> QED BY <2>2, <3>1, <1>1, ReturnTypes
            DEF AskTrusted, AskDuplicate, NotRecorded, PendingTypeOK
  <2>3. CASE Recorded(q)
    <3>1. "allow_once" \in Decisions /\ "allow_once" \in Answers BY DEF Decisions, Answers
    <3> QED BY <2>3, <3>1, <1>1, ReturnTypes, RecordTypes DEF Recorded, PendingTypeOK
  <2>4. CASE Announced(q)
    <3>1. PendingTypeOK'
      <4>1. PICK p \in Requests \cup {NoRequest} : pending' = [pending EXCEPT ![Key(q)] = p]
        BY <2>4 DEF Announced
      <4> QED BY <4>1 DEF PendingTypeOK
    <3>2. "deny" \in Answers BY DEF Decisions, Answers
    <3>3. RequestTypeOK'
      BY <2>4, <3>2, <1>1, ReturnTypes DEF Announced, RequestTypeOK, Places
    <3> QED BY <2>4, <3>1, <3>3 DEF Announced
  <2> QED BY <2>1, <2>2, <2>3, <2>4 DEF RequestStep
<1> QED BY <1>2, <1>3, <1>4 DEF RequestTypeOK, PendingTypeOK, Answers

\* A call that is being resolved ends, one way or the other.
LEMMA CallEnds ==
    ASSUME CallTypeOK, CallsOK, NEW c \in Calls, NEW end \in {"accepted", "failed"},
           calls' = [calls EXCEPT ![c].at = end]
    PROVE  /\ CallTypeOK' /\ CallsOK'
           /\ \A b \in Calls : /\ calls'[b].at = IF b = c THEN end ELSE calls[b].at
                              /\ calls'[b].key = calls[b].key
                              /\ calls'[b].req = calls[b].req
                              /\ calls'[b].decision = calls[b].decision
<1>1. calls' = [calls EXCEPT ![c] = [at |-> end, key |-> calls[c].key,
                                     req |-> calls[c].req, decision |-> calls[c].decision]]
  <2>1. [calls[c] EXCEPT !.at = end] = [at |-> end, key |-> calls[c].key,
                                        req |-> calls[c].req, decision |-> calls[c].decision]
    BY DEF CallTypeOK
  <2>2. calls' = [calls EXCEPT ![c] = [calls[c] EXCEPT !.at = end]] OBVIOUS
  <2> QED BY <2>1, <2>2
<1>2. CallTypeOK' BY <1>1 DEF CallTypeOK, Ends
<1>3. \A b \in Calls : b # c => calls'[b] = calls[b] BY <1>1 DEF CallTypeOK
<1>4. /\ calls'[c].at = end /\ calls'[c].key = calls[c].key
      /\ calls'[c].req = calls[c].req /\ calls'[c].decision = calls[c].decision
  BY <1>1 DEF CallTypeOK
<1>5. CallsOK' BY <1>3, <1>4 DEF CallsOK
<1> QED BY <1>2, <1>3, <1>4, <1>5

\* The steps of decideApproval.
LEMMA CallStepTypes ==
    ASSUME TypesInv, NEW c \in Calls, CallStep(c)
    PROVE  TypesInv'
<1> USE DEF TypesInv, ApprovalTypeOK
<1>1. RequestTypeOK /\ CallTypeOK BY DEF RequestTypeOK, Answers, CallTypeOK
<1>2. ASSUME NEW k \in Keys, NEW d \in Decisions, Decide(c, k, d) PROVE TypesInv'
  <2>1. pending[k] \in Requests BY <1>2 DEF Decide
  <2>2. CallTypeOK' /\ CallsOK' BY <1>1, <1>2, <2>1 DEF Decide, CallTypeOK, CallsOK, Ends
  <2>3. trusted' \subseteq TrustKeys BY <1>2, <2>1 DEF Decide, Trust
  <2>4. PendingTypeOK' BY <1>2 DEF Decide, Forget, PendingTypeOK
  <2> QED BY <1>2, <2>2, <2>3, <2>4 DEF Decide, requestVars, CallTypeOK, PendingTypeOK
<1>3. ASSUME NEW k \in Keys, NEW d \in Decisions, DecideTooLate(c, k, d) PROVE TypesInv'
  <2>1. CallTypeOK' /\ CallsOK'
    BY <1>1, <1>3 DEF DecideTooLate, CallTypeOK, CallsOK, Ends
  <2> QED BY <1>3, <2>1 DEF DecideTooLate, requestVars, CallTypeOK
<1>4. CASE Decided(c)
  <2>1. calls[c].req \in Requests /\ calls[c].decision \in Decisions
    BY <1>4 DEF Decided, CallsOK
  <2>2. CallTypeOK' /\ CallsOK' BY <1>1, <1>4, CallEnds DEF Decided
  <2>3. RequestTypeOK'
    <3>1. calls[c].decision \in Answers BY <2>1 DEF Answers
    <3>2. {calls[c].req} \cap {q \in Requests : rpc[q] = "waiting"} \in SUBSET Requests
      OBVIOUS
    <3> QED BY <1>1, <1>4, <3>1, <3>2, ReturnTypes DEF Decided, Decision
  <2>4. resolved' \in [Runs -> Seq(Resolutions)] BY <1>4, <2>1, RecordTypes DEF Decided
  <2> QED BY <1>4, <2>2, <2>3, <2>4 DEF Decided, CallTypeOK, RequestTypeOK, Answers
<1>5. CASE NotDecided(c)
  <2>1. CallTypeOK' /\ CallsOK' BY <1>1, <1>5, CallEnds DEF NotDecided
  <2> QED BY <1>5, <2>1 DEF NotDecided, requestVars, CallTypeOK, StoreFails
<1> QED BY <1>2, <1>3, <1>4, <1>5 DEF CallStep

LEMMA WithoutTypes ==
    ASSUME PendingTypeOK, NEW S, pending' = Without(S)
    PROVE  PendingTypeOK'
BY DEF PendingTypeOK, Without

\* The steps that end a Run, a deadline or trust.
LEMMA RunStepTypes ==
    ASSUME TypesInv,
           \/ Shutdown
           \/ \E r \in Runs : RunStep(r)
           \/ \E t \in TrustKeys : Lapse(t)
    PROVE  TypesInv'
<1> USE DEF TypesInv, ApprovalTypeOK
<1>1. RequestTypeOK /\ PendingTypeOK BY DEF RequestTypeOK, Answers, PendingTypeOK
<1>2. "deny" \in Answers BY DEF Answers, Decisions
<1>3. UNCHANGED <<resolved, calls, faults>>
  BY DEF Shutdown, RunStep, Cancel, TimeUp, EngineEnds, Finish, Lapse
<1>4. CallsOK' BY <1>3 DEF CallsOK
<1>5. CASE Shutdown
  <2>1. Denied \in SUBSET Requests BY DEF Denied
  <2>2. RequestTypeOK' /\ PendingTypeOK'
    BY <1>1, <1>2, <1>5, <2>1, ReturnTypes, WithoutTypes DEF Shutdown
  <2> QED BY <1>3, <1>4, <1>5, <2>2
          DEF Shutdown, Live, RequestTypeOK, PendingTypeOK, Answers
<1>6. ASSUME NEW r \in Runs, Cancel(r) PROVE TypesInv'
  <2>1. WaitingOf(r) \in SUBSET Requests BY DEF WaitingOf
  <2>2. RequestTypeOK' /\ PendingTypeOK'
    BY <1>1, <1>2, <1>6, <2>1, ReturnTypes, WithoutTypes DEF Cancel
  <2> QED BY <1>3, <1>4, <1>6, <2>2 DEF Cancel, RequestTypeOK, PendingTypeOK, Answers
<1>7. ASSUME NEW r \in Runs, Finish(r) PROVE TypesInv'
  <2>1. PendingOf(r) \in SUBSET Requests BY DEF PendingOf
  <2>2. RequestTypeOK' /\ PendingTypeOK'
    BY <1>1, <1>2, <1>7, <2>1, ReturnTypes, WithoutTypes DEF Finish
  <2> QED BY <1>3, <1>4, <1>7, <2>2
          DEF Finish, RequestTypeOK, PendingTypeOK, Answers, Stages
<1>8. ASSUME NEW r \in Runs, TimeUp(r) \/ EngineEnds(r) PROVE TypesInv'
  BY <1>3, <1>4, <1>8 DEF TimeUp, EngineEnds, Stages, Clocks, Paused
<1>9. ASSUME NEW t \in TrustKeys, Lapse(t) PROVE TypesInv'
  BY <1>3, <1>4, <1>9 DEF Lapse, requestVars
<1> QED BY <1>5, <1>6, <1>7, <1>8, <1>9 DEF RunStep

LEMMA StutterTypes == TypesInv /\ UNCHANGED vars => TypesInv'
BY DEF TypesInv, ApprovalTypeOK, CallsOK, vars

LEMMA StepTypes == TypesInv /\ [Next]_vars => TypesInv'
BY RequestStepTypes, CallStepTypes, RunStepTypes, StutterTypes DEF Next

\* Every variable of Approvals keeps its type.
THEOREM ApprovalsTyped == Spec => []ApprovalTypeOK
<1>1. TypesInv => ApprovalTypeOK BY DEF TypesInv
<1> QED BY <1>1, InitTypes, StepTypes, PTL DEF Spec

THEOREM TypesAreKept == Spec => []TypesInv
BY InitTypes, StepTypes, PTL DEF Spec

-----------------------------------------------------------------------------
(* The deadline goes on *)

\* A request that comes back resumes the deadline of its Run.
LEMMA ReturnKeepsDeadline ==
    ASSUME TypesInv, DeadlineGoesOn, NEW S \in SUBSET Requests, NEW d, Return(S, d),
           \A r \in Runs : stage'[r] = "executing" => stage[r] = "executing"
    PROVE  DeadlineGoesOn'
<1> USE DEF TypesInv, ApprovalTypeOK
<1> SUFFICES ASSUME NEW r \in Runs, stage'[r] = "executing", Outstanding(r)' = {}
             PROVE  clock'[r] # "stopped"
  BY DEF DeadlineGoesOn
<1>1. stage[r] = "executing" OBVIOUS
<1>2. CASE \E q \in S : RunOf[q] = r
  <2>1. clock'[r] = Resumed(clock[r]) BY <1>2 DEF Return
  <2> QED BY <2>1 DEF Resumed
<1>3. CASE ~ \E q \in S : RunOf[q] = r
  <2>1. clock'[r] = clock[r] BY <1>3 DEF Return
  <2>2. \A q \in Requests : RunOf[q] = r => rpc'[q] = rpc[q] BY <1>3 DEF Return
  <2>3. Outstanding(r) = {} BY <2>2 DEF Outstanding
  <2> QED BY <1>1, <2>1, <2>3 DEF DeadlineGoesOn
<1> QED BY <1>2, <1>3

\* A request that has not come back keeps the condition from applying to its Run.
LEMMA OutstandingKeepsDeadline ==
    ASSUME TypesInv, DeadlineGoesOn, NEW q \in Requests, UNCHANGED stage,
           NEW place \in {"announcing", "recording", "waiting"},
           rpc' = [rpc EXCEPT ![q] = place],
           \A r \in Runs \ {RunOf[q]} : clock'[r] = clock[r]
    PROVE  DeadlineGoesOn'
<1> USE DEF TypesInv, ApprovalTypeOK
<1> SUFFICES ASSUME NEW r \in Runs, stage'[r] = "executing", Outstanding(r)' = {}
             PROVE  clock'[r] # "stopped"
  BY DEF DeadlineGoesOn
<1>1. rpc'[q] = place /\ \A p \in Requests \ {q} : rpc'[p] = rpc[p] OBVIOUS
<1>2. RunOf[q] # r BY <1>1 DEF Outstanding
<1>3. Outstanding(r) = {} BY <1>1, <1>2 DEF Outstanding
<1> QED BY <1>2, <1>3 DEF DeadlineGoesOn

LEMMA StepDeadline == TypesInv /\ DeadlineGoesOn /\ [Next]_vars => DeadlineGoesOn'
<1> SUFFICES ASSUME TypesInv, DeadlineGoesOn, [Next]_vars PROVE DeadlineGoesOn'
  OBVIOUS
<1>1. ASSUME NEW q \in Requests, RequestStep(q) PROVE DeadlineGoesOn'
  <2>1. {q} \in SUBSET Requests OBVIOUS
  <2>2. CASE AskAutomatic(q) \/ Ask(q)
    <3>1. \A r \in Runs \ {RunOf[q]} : clock'[r] = clock[r]
      BY <2>2 DEF AskAutomatic, Ask, Pause, TypesInv, ApprovalTypeOK
    <3> QED BY <2>2, <3>1, OutstandingKeepsDeadline DEF AskAutomatic, Ask
  <2>3. CASE AskTrusted(q) \/ AskDuplicate(q) \/ Recorded(q) \/ NotRecorded(q)
    <3>1. PICK d : Return({q}, d) /\ UNCHANGED stage
      BY <2>3 DEF AskTrusted, AskDuplicate, Recorded, NotRecorded
    <3> QED BY <3>1, <2>1, ReturnKeepsDeadline
  <2>4. CASE Announced(q)
    <3>1. CASE Return({q}, "deny")
      BY <2>4, <3>1, <2>1, ReturnKeepsDeadline DEF Announced
    <3>2. CASE rpc' = [rpc EXCEPT ![q] = "waiting"] /\ UNCHANGED clock
      BY <2>4, <3>2, OutstandingKeepsDeadline DEF Announced
    <3> QED BY <2>4, <3>1, <3>2 DEF Announced
  <2> QED BY <1>1, <2>2, <2>3, <2>4 DEF RequestStep
<1>2. ASSUME NEW c \in Calls, CallStep(c) PROVE DeadlineGoesOn'
  <2>1. CASE Decided(c)
    <3>1. {calls[c].req} \cap {q \in Requests : rpc[q] = "waiting"} \in SUBSET Requests
      OBVIOUS
    <3> QED BY <2>1, <3>1, ReturnKeepsDeadline DEF Decided
  <2>2. CASE UNCHANGED <<stage, requestVars>>
    BY <2>2 DEF DeadlineGoesOn, Outstanding, requestVars
  <2> QED BY <1>2, <2>1, <2>2 DEF CallStep, Decide, DecideTooLate, NotDecided
<1>3. CASE Shutdown
  <2>1. Denied \in SUBSET Requests BY DEF Denied
  <2> QED BY <1>3, <2>1, ReturnKeepsDeadline DEF Shutdown
<1>4. ASSUME NEW r \in Runs, RunStep(r) PROVE DeadlineGoesOn'
  <2> USE DEF TypesInv, ApprovalTypeOK
  <2>1. CASE Cancel(r)
    <3>1. WaitingOf(r) \in SUBSET Requests BY DEF WaitingOf
    <3> QED BY <2>1, <3>1, ReturnKeepsDeadline DEF Cancel
  <2>2. CASE Finish(r)
    <3>1. PendingOf(r) \in SUBSET Requests BY DEF PendingOf
    <3>2. \A s \in Runs : stage'[s] = "executing" => stage[s] = "executing"
      BY <2>2 DEF Finish
    <3>3. Return(PendingOf(r), "deny") BY <2>2 DEF Finish
    <3> QED BY <3>1, <3>2, <3>3, ReturnKeepsDeadline
  <2>3. CASE TimeUp(r) BY <2>3 DEF TimeUp, DeadlineGoesOn, Outstanding
  <2>4. CASE EngineEnds(r) BY <2>4 DEF EngineEnds, DeadlineGoesOn, Outstanding, Paused
  <2> QED BY <1>4, <2>1, <2>2, <2>3, <2>4 DEF RunStep
<1>5. CASE UNCHANGED <<stage, requestVars>>
  BY <1>5 DEF DeadlineGoesOn, Outstanding, requestVars
<1>6. ASSUME NEW t \in TrustKeys, Lapse(t) PROVE UNCHANGED <<stage, requestVars>>
  BY <1>6 DEF Lapse
<1> QED BY <1>1, <1>2, <1>3, <1>4, <1>5, <1>6 DEF Next, vars, requestVars

\* However the answers to the requests of a Run interleave with errors, cancels
\* and store failures, none of them leaves its deadline stopped.
THEOREM DeadlineIsKept == Spec => []DeadlineGoesOn
<1>1. Init => DeadlineGoesOn BY DEF Init, DeadlineGoesOn
<1> QED BY <1>1, StepDeadline, TypesAreKept, PTL DEF Spec

-----------------------------------------------------------------------------
(* Nothing is allowed that nobody chose *)

\* Trust was chosen, the policy recorded only what it let through, and a call
\* that has not been made has no request.
AllowInv ==
    /\ AllowedBySomebody
    /\ \A t \in trusted :
          \E p \in Requests : TrustOf[p] = t /\ Chose(p, {"allow_always"})
    /\ \A q \in Requests : rpc[q] = "recording" => q \in Automatic
    /\ \A c \in Calls : calls[c].at = "new" => calls[c].req = NoRequest

ChoicesKept ==
    \A p \in Requests : \A allowed \in SUBSET Decisions :
       Chose(p, allowed) => Chose(p, allowed)'

Justified(q) ==
    \/ q \in Automatic
    \/ Chose(q, Allows)
    \/ \E p \in Requests : TrustOf[p] = TrustOf[q] /\ Chose(p, {"allow_always"})

\* What justified an answer justifies it for good.
LEMMA JustifiedKept ==
    ASSUME ChoicesKept, NEW q \in Requests, Justified(q)
    PROVE  Justified(q)'
<1>1. Allows \in SUBSET Decisions /\ {"allow_always"} \in SUBSET Decisions
  BY DEF Allows, Decisions
<1> QED BY <1>1 DEF ChoicesKept, Justified

\* AllowInv survives a step that answers the requests of S with d, when no
\* other variable it speaks of loses anything.
LEMMA AnswerKeepsAllow ==
    ASSUME TypesInv, AllowInv, NEW S \in SUBSET Requests, NEW d, Return(S, d),
           d \in Allows => \A q \in S : Justified(q),
           ChoicesKept, trusted' = trusted,
           \A c \in Calls : calls'[c].at = "new" => calls'[c].req = NoRequest
    PROVE  AllowInv'
<1> USE DEF TypesInv, ApprovalTypeOK
<1>1. \A q \in Requests : answer'[q] = IF q \in S THEN d ELSE answer[q] BY DEF Return
<1>2. \A q \in Requests : rpc'[q] = IF q \in S THEN "returned" ELSE rpc[q] BY DEF Return
<1>3. ASSUME NEW q \in Requests, answer'[q] \in Allows PROVE Justified(q)'
  <2>1. Justified(q)
    BY <1>1, <1>3 DEF AllowInv, AllowedBySomebody, Justified
  <2> QED BY <2>1, JustifiedKept
<1>4. AllowedBySomebody' BY <1>3 DEF AllowedBySomebody, Justified, Allows
<1>5. ASSUME NEW t \in trusted'
      PROVE  \E p \in Requests : TrustOf[p] = t /\ Chose(p, {"allow_always"})'
  <2>1. PICK p \in Requests : TrustOf[p] = t /\ Chose(p, {"allow_always"})
    BY DEF AllowInv
  <2>2. {"allow_always"} \in SUBSET Decisions BY DEF Decisions
  <2> QED BY <2>1, <2>2 DEF ChoicesKept
<1>6. \A q \in Requests : rpc'[q] = "recording" => q \in Automatic
  BY <1>2 DEF AllowInv
<1> QED BY <1>4, <1>5, <1>6 DEF AllowInv

LEMMA SameCallsKeepChoices ==
    ASSUME calls' = calls PROVE ChoicesKept
BY DEF ChoicesKept, Chose

LEMMA StepAllow == TypesInv /\ AllowInv /\ [Next]_vars => AllowInv'
<1> SUFFICES ASSUME TypesInv, AllowInv, [Next]_vars PROVE AllowInv'
  OBVIOUS
<1> USE DEF TypesInv, ApprovalTypeOK
<1>1. ASSUME NEW q \in Requests, RequestStep(q) PROVE AllowInv'
  <2>1. calls' = calls /\ trusted' = trusted
    BY <1>1 DEF RequestStep, AskAutomatic, AskTrusted, AskDuplicate, Ask, Announced,
                Recorded, NotRecorded
  <2>2. ChoicesKept /\ \A c \in Calls : calls'[c].at = "new" => calls'[c].req = NoRequest
    BY <2>1, SameCallsKeepChoices DEF AllowInv
  <2>3. {q} \in SUBSET Requests OBVIOUS
  <2>4. ASSUME NEW d, Return({q}, d), d \in Allows => Justified(q) PROVE AllowInv'
    BY <2>1, <2>2, <2>3, <2>4, AnswerKeepsAllow
  <2>5. "error" \notin Allows /\ "deny" \notin Allows BY DEF Allows
  <2>6. CASE AskAutomatic(q) \/ Ask(q)
    <3>1. \A p \in Requests : rpc'[p] = "recording" => p \in Automatic
      BY <2>6 DEF AskAutomatic, Ask, AllowInv
    <3>2. UNCHANGED answer BY <2>6 DEF AskAutomatic, Ask
    <3>3. \A p \in Requests : \A allowed : Chose(p, allowed)' <=> Chose(p, allowed)
      BY <2>1 DEF Chose
    <3> QED BY <2>1, <2>2, <3>1, <3>2, <3>3 DEF AllowInv, AllowedBySomebody
  <2>7. CASE AskTrusted(q)
    <3>1. Justified(q) BY <2>7 DEF AskTrusted, IsTrusted, AllowInv, Justified
    <3> QED BY <2>4, <2>7, <3>1 DEF AskTrusted
  <2>8. CASE AskDuplicate(q) \/ NotRecorded(q)
    BY <2>4, <2>5, <2>8 DEF AskDuplicate, NotRecorded
  <2>9. CASE Recorded(q)
    <3>1. Justified(q) BY <2>9 DEF Recorded, AllowInv, Justified
    <3> QED BY <2>4, <2>9, <3>1 DEF Recorded
  <2>10. CASE Announced(q)
    <3>1. CASE Return({q}, "deny") BY <2>4, <2>5, <3>1
    <3>2. CASE rpc' = [rpc EXCEPT ![q] = "waiting"] /\ UNCHANGED answer
      BY <2>1, <3>2 DEF AllowInv, AllowedBySomebody, Chose
    <3> QED BY <2>10, <3>1, <3>2 DEF Announced
  <2> QED BY <1>1, <2>6, <2>7, <2>8, <2>9, <2>10 DEF RequestStep
<1>2. ASSUME NEW c \in Calls, CallStep(c) PROVE AllowInv'
  <2>1. ASSUME NEW k \in Keys, NEW d \in Decisions, Decide(c, k, d) PROVE AllowInv'
    <3>1. pending[k] \in Requests /\ calls[c].req = NoRequest
      BY <2>1 DEF Decide, AllowInv
    <3>2. /\ calls'[c].at = "resolving" /\ calls'[c].req = pending[k]
          /\ calls'[c].decision = d
          /\ \A b \in Calls \ {c} : calls'[b] = calls[b]
      BY <2>1 DEF Decide
    <3>3. ChoicesKept BY <3>1, <3>2 DEF ChoicesKept, Chose
    <3>4. \A q \in Requests : Justified(q) => Justified(q)' BY <3>3, JustifiedKept
    <3>5. UNCHANGED <<answer, rpc>> BY <2>1 DEF Decide, requestVars
    <3>6. AllowedBySomebody' BY <3>4, <3>5 DEF AllowInv, AllowedBySomebody, Justified, Allows
    <3>7. ASSUME NEW t \in trusted'
          PROVE  \E p \in Requests : TrustOf[p] = t /\ Chose(p, {"allow_always"})'
      <4>1. CASE t \in trusted
        <5>1. PICK p \in Requests : TrustOf[p] = t /\ Chose(p, {"allow_always"})
          BY <4>1 DEF AllowInv
        <5>2. {"allow_always"} \in SUBSET Decisions BY DEF Decisions
        <5> QED BY <3>3, <5>1, <5>2 DEF ChoicesKept
      <4>2. CASE t \notin trusted
        <5>1. t = TrustOf[pending[k]] /\ d = "allow_always"
          BY <2>1, <4>2 DEF Decide, Trust
        <5> QED BY <3>1, <3>2, <5>1 DEF Chose
      <4> QED BY <4>1, <4>2
    <3> QED BY <3>2, <3>5, <3>6, <3>7 DEF AllowInv
  <2>2. ASSUME NEW k \in Keys, NEW d \in Decisions, DecideTooLate(c, k, d) PROVE AllowInv'
    <3>1. calls[c].req = NoRequest /\ calls'[c].req = NoRequest
          /\ \A b \in Calls \ {c} : calls'[b] = calls[b]
      BY <2>2 DEF DecideTooLate, AllowInv
    <3>2. UNCHANGED <<answer, rpc, trusted>> BY <2>2 DEF DecideTooLate, requestVars
    <3>3. \A p \in Requests : \A allowed : Chose(p, allowed)' <=> Chose(p, allowed)
      BY <3>1 DEF Chose
    <3>4. \A b \in Calls : calls'[b].at = "new" => calls'[b].req = NoRequest
      BY <3>1 DEF AllowInv
    <3> QED BY <3>2, <3>3, <3>4 DEF AllowInv, AllowedBySomebody
  <2>3. CASE Decided(c)
    <3>1. /\ ChoicesKept
          /\ \A b \in Calls : calls'[b].at = "new" => calls'[b].req = NoRequest
      <4>1. \A b \in Calls : /\ calls'[b].at = IF b = c THEN "accepted" ELSE calls[b].at
                             /\ calls'[b].req = calls[b].req
                             /\ calls'[b].decision = calls[b].decision
        BY <2>3, CallEnds DEF Decided, CallTypeOK
      <4> QED BY <4>1 DEF ChoicesKept, Chose, AllowInv
    <3> DEFINE S == {calls[c].req} \cap {q \in Requests : rpc[q] = "waiting"}
    <3>2. calls[c].decision \in Allows => \A q \in S : Justified(q)
      BY DEF Justified, Chose
    <3>3. S \in SUBSET Requests OBVIOUS
    <3>4. Return(S, calls[c].decision) /\ trusted' = trusted
      BY <2>3 DEF Decided, Decision
    <3> HIDE DEF S
    <3> QED BY <3>1, <3>2, <3>3, <3>4, AnswerKeepsAllow
  <2>4. CASE NotDecided(c)
    <3>1. \A b \in Calls : /\ calls'[b].at = IF b = c THEN "failed" ELSE calls[b].at
                           /\ calls'[b].req = calls[b].req
                           /\ calls'[b].decision = calls[b].decision
      BY <2>4, CallEnds DEF NotDecided, CallTypeOK
    <3>2. UNCHANGED <<answer, rpc, trusted>> BY <2>4 DEF NotDecided, requestVars
    <3>3. \A p \in Requests : \A allowed : Chose(p, allowed)' <=> Chose(p, allowed)
      BY <3>1 DEF Chose
    <3>4. \A b \in Calls : calls'[b].at = "new" => calls'[b].req = NoRequest
      BY <3>1 DEF AllowInv
    <3> QED BY <3>2, <3>3, <3>4 DEF AllowInv, AllowedBySomebody
  <2> QED BY <1>2, <2>1, <2>2, <2>3, <2>4 DEF CallStep
<1>3. ASSUME NEW S \in SUBSET Requests, Return(S, "deny"), calls' = calls,
             trusted' = trusted
      PROVE  AllowInv'
  <2>1. ChoicesKept /\ \A c \in Calls : calls'[c].at = "new" => calls'[c].req = NoRequest
    BY <1>3, SameCallsKeepChoices DEF AllowInv
  <2>2. "deny" \notin Allows BY DEF Allows
  <2> QED BY <1>3, <2>1, <2>2, AnswerKeepsAllow
<1>4. CASE Shutdown
  <2>1. Denied \in SUBSET Requests BY DEF Denied
  <2> QED BY <1>3, <1>4, <2>1 DEF Shutdown
<1>5. ASSUME NEW r \in Runs, Cancel(r) \/ Finish(r) PROVE AllowInv'
  <2>1. WaitingOf(r) \in SUBSET Requests /\ PendingOf(r) \in SUBSET Requests
    BY DEF WaitingOf, PendingOf
  <2> QED BY <1>3, <1>5, <2>1 DEF Cancel, Finish
<1>6. ASSUME UNCHANGED <<rpc, answer, calls>>, trusted' \subseteq trusted PROVE AllowInv'
  BY <1>6 DEF AllowInv, AllowedBySomebody, Chose
<1>7. ASSUME NEW r \in Runs, TimeUp(r) \/ EngineEnds(r) PROVE AllowInv'
  BY <1>6, <1>7 DEF TimeUp, EngineEnds
<1>8. ASSUME NEW t \in TrustKeys, Lapse(t) PROVE AllowInv'
  BY <1>6, <1>8 DEF Lapse, requestVars
<1>9. CASE UNCHANGED vars BY <1>6, <1>9 DEF vars
<1> QED BY <1>1, <1>2, <1>4, <1>5, <1>7, <1>8, <1>9 DEF Next, RunStep

\* An engine goes on only with what the policy lets through, what an operator
\* allowed, or what an operator allowed for good to the same Agent and session.
THEOREM AllowsAreChosen == Spec => []AllowedBySomebody
<1>1. Init => AllowInv
  BY DEF Init, AllowInv, AllowedBySomebody, Allows, NoCall
<1>2. AllowInv => AllowedBySomebody BY DEF AllowInv
<1> QED BY <1>1, <1>2, StepAllow, TypesAreKept, PTL DEF Spec

-----------------------------------------------------------------------------
(* What waits can be answered *)

\* A request whose decision is on its way no longer waits in pendingApprovals.
ResolvingOK ==
    \A c \in Calls : calls[c].at = "resolving" =>
       /\ pending[Key(calls[c].req)] # calls[c].req
       /\ rpc[calls[c].req] \in {"waiting", "returned"}

PendingOK == \A k \in Keys : pending[k] # NoRequest =>
                Key(pending[k]) = k /\ rpc[pending[k]] = "waiting"

WaitingOK(q) ==
    rpc[q] = "waiting" /\ stage[RunOf[q]] # "over" =>
       /\ RunOf[q] \notin aborted
       /\ HasOwnId(q) => pending[Key(q)] = q \/ OnItsWay(q) \/ DecideFailed(q)

WaitInv == PendingOK /\ ResolvingOK /\ \A q \in Requests : WaitingOK(q)

LEMMA WaitInvIsStronger == WaitInv => Answerable
BY DEF WaitInv, PendingOK, WaitingOK, Answerable

\* WaitInv survives a step that answers the requests of S and takes them out of
\* pendingApprovals, as long as every Run it aborts has no other that waits.
LEMMA AnswerKeepsWaits ==
    ASSUME TypesInv, WaitInv, NEW S \in SUBSET Requests, NEW d, Return(S, d),
           pending' = Without(S), calls' = calls,
           \A r \in Runs : stage'[r] # "over" => stage[r] # "over",
           \A q \in Requests \ S : rpc[q] = "waiting" /\ stage'[RunOf[q]] # "over" =>
              (RunOf[q] \in aborted' => RunOf[q] \in aborted)
    PROVE  WaitInv'
<1> USE DEF TypesInv, ApprovalTypeOK
<1>1. \A q \in Requests : rpc'[q] = IF q \in S THEN "returned" ELSE rpc[q] BY DEF Return
<1>2. \A k \in Keys : pending'[k] = IF pending[k] \in S THEN NoRequest ELSE pending[k]
  BY DEF Without
<1>3. PendingOK' BY <1>1, <1>2 DEF WaitInv, PendingOK, Key
<1>4. ResolvingOK'
  <2> SUFFICES ASSUME NEW c \in Calls, calls[c].at = "resolving"
               PROVE  /\ pending'[Key(calls[c].req)] # calls[c].req
                      /\ rpc'[calls[c].req] \in {"waiting", "returned"}
    BY DEF ResolvingOK, Key
  <2>1. calls[c].req \in Requests BY DEF CallsOK
  <2>2. Key(calls[c].req) \in Keys BY <2>1, KeyOK
  <2> QED BY <1>1, <1>2, <2>1, <2>2 DEF WaitInv, ResolvingOK
<1>5. ASSUME NEW q \in Requests PROVE WaitingOK(q)'
  <2>1. RunOf[q] \in Runs /\ Key(q) \in Keys BY KeyOK
  <2>2. HasOwnId(q)' = HasOwnId(q) /\ OnItsWay(q)' = OnItsWay(q)
        /\ DecideFailed(q)' = DecideFailed(q)
    BY DEF HasOwnId, OnItsWay, DecideFailed, Key
  <2>3. WaitingOK(q) BY DEF WaitInv
  <2>4. (Key(q) = Key(q)') BY DEF Key
  <2> QED BY <1>1, <1>2, <2>1, <2>2, <2>3, <2>4 DEF WaitingOK
<1> QED BY <1>3, <1>4, <1>5 DEF WaitInv

\* The same for a request that never got as far as waiting.
LEMMA EarlyAnswerKeepsWaits ==
    ASSUME TypesInv, WaitInv, NEW q \in Requests, rpc[q] \notin {"waiting", "returned"},
           NEW d, Return({q}, d), UNCHANGED <<stage, aborted, pending, calls>>
    PROVE  WaitInv'
<1> USE DEF TypesInv, ApprovalTypeOK
<1>1. \A k \in Keys : pending[k] # q BY DEF WaitInv, PendingOK
<1>2. pending' = Without({q})
  <2>1. \A k \in Keys : Without({q})[k] = pending[k] BY <1>1 DEF Without
  <2> QED BY <2>1 DEF Without
<1> QED BY <1>2, AnswerKeepsWaits

\* The first steps of a request, and what concerns no request at all.
LEMMA ElsewhereKeepsWaits ==
    ASSUME TypesInv, WaitInv, UNCHANGED <<aborted, pending, calls>>,
           \A r \in Runs : stage'[r] # "over" => stage[r] # "over",
           \A q \in Requests :
              \/ rpc'[q] = rpc[q]
              \/ rpc[q] = "new" /\ rpc'[q] \in {"announcing", "recording"}
    PROVE  WaitInv'
<1> USE DEF TypesInv, ApprovalTypeOK
<1>1. PendingOK' BY DEF WaitInv, PendingOK, Key
<1>2. ResolvingOK' BY DEF WaitInv, ResolvingOK, CallsOK, Key
<1>3. ASSUME NEW q \in Requests PROVE WaitingOK(q)'
  <2>1. RunOf[q] \in Runs BY KeyOK
  <2>2. HasOwnId(q)' = HasOwnId(q) /\ OnItsWay(q)' = OnItsWay(q)
        /\ DecideFailed(q)' = DecideFailed(q) /\ Key(q) = Key(q)'
    BY DEF HasOwnId, OnItsWay, DecideFailed, Key
  <2>3. WaitingOK(q) BY DEF WaitInv
  <2> QED BY <2>1, <2>2, <2>3 DEF WaitingOK
<1> QED BY <1>1, <1>2, <1>3 DEF WaitInv

\* The event of a request is stored: it waits, or its Run was aborted meanwhile.
LEMMA AnnouncedKeepsWaits ==
    ASSUME TypesInv, WaitInv, NEW q \in Requests, Announced(q)
    PROVE  WaitInv'
<1> USE DEF TypesInv, ApprovalTypeOK
<1>1. rpc[q] = "announcing" /\ UNCHANGED <<stage, aborted, calls>> BY DEF Announced
<1>2. Key(q) \in Keys /\ RunOf[q] \in Runs BY KeyOK
<1>3. PICK p \in Requests \cup {NoRequest} :
        /\ pending' = [pending EXCEPT ![Key(q)] = p]
        /\ \A o \in Requests \ {q} : rpc'[o] = rpc[o]
        /\ \/ p = NoRequest /\ rpc'[q] = "returned"
           \/ p = q /\ rpc'[q] = "waiting" /\ RunOf[q] \notin aborted
  <2>1. CASE AbortedMeanwhile(q)
    BY <2>1 DEF Announced, Return
  <2>2. CASE ~AbortedMeanwhile(q)
    BY <2>2 DEF Announced, AbortedMeanwhile
  <2> QED BY <2>1, <2>2
<1>4. \A k \in Keys : pending'[k] = IF k = Key(q) THEN p ELSE pending[k] BY <1>3
<1>5. \A k \in Keys : pending[k] # q BY <1>1 DEF WaitInv, PendingOK
<1>6. PendingOK' BY <1>2, <1>3, <1>4, <1>5 DEF WaitInv, PendingOK, Key
<1>7. ResolvingOK'
  <2> SUFFICES ASSUME NEW c \in Calls, calls[c].at = "resolving"
               PROVE  /\ pending'[Key(calls[c].req)] # calls[c].req
                      /\ rpc'[calls[c].req] \in {"waiting", "returned"}
    BY <1>1 DEF ResolvingOK, Key
  <2>1. calls[c].req \in Requests /\ calls[c].req # q
    BY <1>1 DEF CallsOK, WaitInv, ResolvingOK
  <2>2. Key(calls[c].req) \in Keys BY <2>1, KeyOK
  <2> QED BY <1>3, <1>4, <2>1, <2>2 DEF WaitInv, ResolvingOK
<1>8. ASSUME NEW o \in Requests PROVE WaitingOK(o)'
  <2>1. RunOf[o] \in Runs /\ Key(o) \in Keys BY KeyOK
  <2>2. HasOwnId(o)' = HasOwnId(o) /\ OnItsWay(o)' = OnItsWay(o)
        /\ DecideFailed(o)' = DecideFailed(o) /\ Key(o) = Key(o)'
    BY <1>1 DEF HasOwnId, OnItsWay, DecideFailed, Key
  <2>3. CASE o = q BY <1>1, <1>3, <1>4, <2>1, <2>2, <2>3 DEF WaitingOK
  <2>4. CASE o # q
    <3>1. HasOwnId(o) => Key(o) # Key(q) BY <2>4 DEF HasOwnId
    <3>2. WaitingOK(o) BY DEF WaitInv
    <3> QED BY <1>1, <1>3, <1>4, <2>1, <2>2, <2>4, <3>1, <3>2 DEF WaitingOK
  <2> QED BY <2>3, <2>4
<1> QED BY <1>6, <1>7, <1>8 DEF WaitInv

\* A decision takes its request out of pendingApprovals, and is on its way.
LEMMA DecideKeepsWaits ==
    ASSUME TypesInv, AllowInv, WaitInv, NEW c \in Calls, NEW k \in Keys,
           NEW d \in Decisions, Decide(c, k, d)
    PROVE  WaitInv'
<1> USE DEF TypesInv, ApprovalTypeOK
<1>1. /\ calls[c].at = "new" /\ pending[k] \in Requests /\ UNCHANGED <<stage, aborted, rpc>>
      /\ pending' = [pending EXCEPT ![k] = NoRequest]
      /\ calls' = [calls EXCEPT ![c] = [at |-> "resolving", key |-> k, req |-> pending[k],
                                        decision |-> d]]
  BY DEF Decide, Forget, requestVars
<1>2. /\ calls'[c].at = "resolving" /\ calls'[c].req = pending[k]
      /\ \A b \in Calls \ {c} : calls'[b] = calls[b]
  BY <1>1
<1>3. \A j \in Keys : pending'[j] = IF j = k THEN NoRequest ELSE pending[j] BY <1>1
<1>4. Key(pending[k]) = k /\ rpc[pending[k]] = "waiting" BY <1>1 DEF WaitInv, PendingOK
<1>5. PendingOK' BY <1>1, <1>3 DEF WaitInv, PendingOK, Key
<1>6. ResolvingOK'
  <2> SUFFICES ASSUME NEW b \in Calls, calls'[b].at = "resolving"
               PROVE  /\ pending'[Key(calls'[b].req)] # calls'[b].req
                      /\ rpc[calls'[b].req] \in {"waiting", "returned"}
    BY <1>1 DEF ResolvingOK, Key
  <2>1. CASE b = c BY <1>1, <1>2, <1>3, <1>4, <2>1
  <2>2. CASE b # c
    <3>1. calls[b].req \in Requests /\ calls'[b] = calls[b] BY <1>2, <2>2 DEF CallsOK
    <3>2. Key(calls[b].req) \in Keys BY <3>1, KeyOK
    <3> QED BY <1>3, <3>1, <3>2 DEF WaitInv, ResolvingOK
  <2> QED BY <2>1, <2>2
<1>7. ASSUME NEW o \in Requests PROVE WaitingOK(o)'
  <2>1. RunOf[o] \in Runs /\ Key(o) \in Keys BY KeyOK
  <2>2. /\ HasOwnId(o)' = HasOwnId(o) /\ Key(o) = Key(o)'
        /\ OnItsWay(o) => OnItsWay(o)'
        /\ DecideFailed(o) => DecideFailed(o)'
    BY <1>1, <1>2 DEF HasOwnId, OnItsWay, DecideFailed, Key
  <2>3. WaitingOK(o) BY DEF WaitInv
  <2>4. pending[Key(o)] = o => pending'[Key(o)] = o \/ OnItsWay(o)'
    BY <1>2, <1>3, <2>1 DEF OnItsWay
  <2> QED BY <1>1, <2>1, <2>2, <2>3, <2>4 DEF WaitingOK
<1> QED BY <1>5, <1>6, <1>7 DEF WaitInv

\* A call that finds no request, or whose event is stored or not.
LEMMA CallKeepsWaits ==
    ASSUME TypesInv, WaitInv, NEW c \in Calls,
           \/ Decided(c) \/ NotDecided(c)
           \/ \E k \in Keys, d \in Decisions : DecideTooLate(c, k, d)
    PROVE  WaitInv'
<1> USE DEF TypesInv, ApprovalTypeOK
<1>1. UNCHANGED <<stage, aborted, pending>>
  BY DEF Decided, NotDecided, DecideTooLate
<1>2. calls[c].at = "resolving" => calls[c].req \in Requests BY DEF CallsOK
<1>3. PICK end \in {"repeated", "refused", "accepted", "failed"} :
        /\ calls'[c].at = end
        /\ \A b \in Calls \ {c} : calls'[b] = calls[b]
        /\ end \in {"accepted", "failed"} =>
             calls[c].at = "resolving" /\ calls'[c].req = calls[c].req
        /\ end \in {"repeated", "refused"} => calls[c].at = "new"
  <2>1. CASE Decided(c) \/ NotDecided(c)
    <3>1. PICK end \in {"accepted", "failed"} :
            calls[c].at = "resolving" /\ calls' = [calls EXCEPT ![c].at = end]
      BY <2>1 DEF Decided, NotDecided
    <3>2. CallTypeOK BY DEF CallTypeOK
    <3>3. \A b \in Calls \ {c} : calls'[b] = calls[b] BY <3>1
    <3> QED BY <3>1, <3>2, <3>3, CallEnds
  <2>2. ASSUME NEW k \in Keys, NEW d \in Decisions, DecideTooLate(c, k, d)
        PROVE  /\ calls[c].at = "new" /\ calls'[c].at \in {"repeated", "refused"}
               /\ \A b \in Calls \ {c} : calls'[b] = calls[b]
    BY <2>2 DEF DecideTooLate
  <2> QED BY <2>1, <2>2
<1>4. \A q \in Requests :
        \/ rpc'[q] = rpc[q]
        \/ rpc'[q] = "returned" /\ calls[c].at = "resolving" /\ calls[c].req = q
  <2>1. CASE Decided(c) BY <2>1 DEF Decided, Return
  <2>2. CASE UNCHANGED rpc BY <2>2
  <2> QED BY <2>1, <2>2 DEF NotDecided, DecideTooLate, requestVars
<1>5. end = "accepted" => rpc'[calls[c].req] = "returned"
  <2>1. CASE Decided(c) BY <1>2, <2>1 DEF Decided, Return, WaitInv, ResolvingOK
  <2>2. CASE ~Decided(c)
    <3>1. end # "accepted"
      BY <1>3, <2>2 DEF NotDecided, DecideTooLate
    <3> QED BY <3>1
  <2> QED BY <2>1, <2>2
<1>6. PendingOK'
  <2>1. calls[c].at = "resolving" => \A k \in Keys : pending[k] # calls[c].req
    BY <1>2 DEF WaitInv, PendingOK, ResolvingOK
  <2> QED BY <1>1, <1>4, <2>1 DEF WaitInv, PendingOK, Key
<1>7. ResolvingOK'
  <2> SUFFICES ASSUME NEW b \in Calls, calls'[b].at = "resolving"
               PROVE  /\ pending'[Key(calls'[b].req)] # calls'[b].req
                      /\ rpc'[calls'[b].req] \in {"waiting", "returned"}
    BY DEF ResolvingOK, Key
  <2>1. calls'[b] = calls[b] BY <1>3
  <2>2. calls[b].req \in Requests BY <2>1 DEF CallsOK
  <2> QED BY <1>1, <1>4, <2>1, <2>2 DEF WaitInv, ResolvingOK
<1>8. ASSUME NEW q \in Requests PROVE WaitingOK(q)'
  <2>1. RunOf[q] \in Runs /\ Key(q) \in Keys BY KeyOK
  <2>2. HasOwnId(q)' = HasOwnId(q) /\ Key(q) = Key(q)' BY DEF HasOwnId, Key
  <2>3. DecideFailed(q) => DecideFailed(q)'
    BY <1>3 DEF DecideFailed
  <2>4. OnItsWay(q) => OnItsWay(q)' \/ DecideFailed(q)' \/ rpc'[q] = "returned"
    BY <1>3, <1>5 DEF OnItsWay, DecideFailed
  <2>5. WaitingOK(q) BY DEF WaitInv
  <2> QED BY <1>1, <1>4, <2>1, <2>2, <2>3, <2>4, <2>5 DEF WaitingOK
<1> QED BY <1>6, <1>7, <1>8 DEF WaitInv

LEMMA StepWaits == TypesInv /\ AllowInv /\ WaitInv /\ [Next]_vars => WaitInv'
<1> SUFFICES ASSUME TypesInv, AllowInv, WaitInv, [Next]_vars PROVE WaitInv'
  OBVIOUS
<1> USE DEF TypesInv, ApprovalTypeOK
<1>1. ASSUME NEW q \in Requests, RequestStep(q) PROVE WaitInv'
  <2>1. CASE AskAutomatic(q) \/ Ask(q)
    BY <2>1, ElsewhereKeepsWaits DEF AskAutomatic, Ask, Arrives
  <2>2. CASE AskTrusted(q) \/ AskDuplicate(q) \/ Recorded(q) \/ NotRecorded(q)
    <3>1. rpc[q] \in {"new", "announcing", "recording"}
      BY <2>2 DEF AskTrusted, AskDuplicate, Recorded, NotRecorded, Arrives
    <3>2. PICK d : Return({q}, d) /\ UNCHANGED <<stage, aborted, pending, calls>>
      BY <2>2 DEF AskTrusted, AskDuplicate, Recorded, NotRecorded
    <3> QED BY <3>1, <3>2, EarlyAnswerKeepsWaits
  <2> QED BY <1>1, <2>1, <2>2, AnnouncedKeepsWaits DEF RequestStep
<1>2. ASSUME NEW c \in Calls, CallStep(c) PROVE WaitInv'
  BY <1>2, DecideKeepsWaits, CallKeepsWaits DEF CallStep
<1>3. CASE Shutdown
  <2>1. Denied \in SUBSET Requests BY DEF Denied
  <2>2. \A q \in Requests \ Denied : ~(rpc[q] = "waiting" /\ stage[RunOf[q]] # "over")
    BY KeyOK DEF Denied, Live, WaitingOf
  <2>3. /\ Return(Denied, "deny") /\ pending' = Without(Denied)
        /\ calls' = calls /\ stage' = stage
    BY <1>3 DEF Shutdown
  <2> QED BY <2>1, <2>2, <2>3, AnswerKeepsWaits
<1>4. ASSUME NEW r \in Runs, Cancel(r) PROVE WaitInv'
  <2>1. WaitingOf(r) \in SUBSET Requests BY DEF WaitingOf
  <2>2. \A q \in Requests \ WaitingOf(r) : rpc[q] = "waiting" => RunOf[q] # r
    BY DEF WaitingOf
  <2>3. /\ Return(WaitingOf(r), "deny") /\ pending' = Without(WaitingOf(r))
        /\ calls' = calls /\ stage' = stage /\ aborted' = aborted \cup {r}
    BY <1>4 DEF Cancel
  <2> QED BY <2>1, <2>2, <2>3, AnswerKeepsWaits
<1>5. ASSUME NEW r \in Runs, Finish(r) PROVE WaitInv'
  <2>1. PendingOf(r) \in SUBSET Requests BY DEF PendingOf
  <2>2. \A s \in Runs : stage'[s] # "over" => stage[s] # "over" BY <1>5 DEF Finish
  <2>3. /\ Return(PendingOf(r), "deny") /\ pending' = Without(PendingOf(r))
        /\ calls' = calls /\ aborted' = aborted
    BY <1>5 DEF Finish
  <2> QED BY <2>1, <2>2, <2>3, AnswerKeepsWaits
<1>6. ASSUME NEW r \in Runs, TimeUp(r) \/ EngineEnds(r) PROVE WaitInv'
  BY <1>6, ElsewhereKeepsWaits DEF TimeUp, EngineEnds
<1>7. ASSUME NEW t \in TrustKeys, Lapse(t) PROVE WaitInv'
  BY <1>7, ElsewhereKeepsWaits DEF Lapse, requestVars
<1>8. CASE UNCHANGED vars BY <1>8, ElsewhereKeepsWaits DEF vars
<1> QED BY <1>1, <1>2, <1>3, <1>4, <1>5, <1>6, <1>7, <1>8 DEF Next, RunStep

\* Whatever the interleaving of requests, decisions, cancels, a shutdown and
\* failing store calls, a request that waits can be answered, unless the event
\* of its decision failed.
THEOREM WaitersAreAnswerable == Spec => []Answerable
<1>1. Init => AllowInv
  BY DEF Init, AllowInv, AllowedBySomebody, Allows, NoCall
<1>2. Init => WaitInv
  BY KeyOK DEF Init, WaitInv, PendingOK, ResolvingOK, WaitingOK, NoCall
<1> QED BY <1>1, <1>2, StepAllow, StepWaits, WaitInvIsStronger, TypesAreKept, PTL DEF Spec
-----------------------------------------------------------------------------
(* What is recorded is what was answered *)

\* The answer to a request was a denial because its Run was to end.
TurnedDown(q) == answer[q] = "deny" /\ (RunOf[q] \in aborted \/ stage[RunOf[q]] = "over")

Unsaid(q) == \A i \in 1..Len(resolved[RunOf[q]]) : resolved[RunOf[q]][i].req # q

\* What an event of a Run says is what its request came back with.
AnsweredSo(said, r) ==
    /\ RunOf[said.req] = r /\ rpc[said.req] = "returned"
    /\ answer[said.req] = said.decision \/ TurnedDown(said.req)

SaidOK(r) ==
    \A i \in 1..Len(resolved[r]) :
       /\ AnsweredSo(resolved[r][i], r)
       /\ \A j \in 1..Len(resolved[r]) : resolved[r][j].req = resolved[r][i].req => j = i

\* A decision on its way has no event yet, is the only one for its request, and
\* a request that did not wait for it was turned down.
OnceOK ==
    \A c \in Calls : calls[c].at = "resolving" =>
       /\ Unsaid(calls[c].req)
       /\ rpc[calls[c].req] = "returned" => TurnedDown(calls[c].req)
       /\ \A b \in Calls : calls[b].at = "resolving" /\ calls[b].req = calls[c].req => b = c

SayInv == OnceOK /\ \A r \in Runs : SaidOK(r)

LEMMA EventTypes ==
    ASSUME TypesInv, NEW r \in Runs
    PROVE  /\ resolved[r] \in Seq(Resolutions) /\ Len(resolved[r]) \in Nat
           /\ \A i \in 1..Len(resolved[r]) :
                 resolved[r][i].req \in Requests /\ resolved[r][i].decision \in Decisions
<1>1. resolved[r] \in Seq(Resolutions) BY DEF TypesInv, ApprovalTypeOK
<1>2. ASSUME NEW i \in 1..Len(resolved[r]) PROVE resolved[r][i] \in Resolutions BY <1>1
<1>3. Len(resolved[r]) \in Nat BY <1>1
<1>4. \A e \in Resolutions : e.req \in Requests /\ e.decision \in Decisions BY DEF Resolutions
<1> QED BY <1>1, <1>2, <1>3, <1>4

\* SayInv survives a step that records nothing, answers only requests that had
\* no answer, and turns down those whose decision was on its way.
LEMMA SilentStepKeepsSaid ==
    ASSUME TypesInv, SayInv, resolved' = resolved, aborted \subseteq aborted',
           \A r \in Runs : stage[r] = "over" => stage'[r] = "over",
           \A c \in Calls : calls'[c].at = "resolving" => calls'[c] = calls[c],
           \A q \in Requests : rpc[q] = "returned" => rpc'[q] = "returned" /\ answer'[q] = answer[q],
           \A c \in Calls : calls[c].at = "resolving" /\ rpc[calls[c].req] # "returned"
                              /\ rpc'[calls[c].req] = "returned" => TurnedDown(calls[c].req)'
    PROVE  SayInv'
<1> USE DEF TypesInv, ApprovalTypeOK
<1>1. \A q \in Requests : RunOf[q] \in Runs OBVIOUS
<1>2. \A q \in Requests : rpc[q] = "returned" /\ TurnedDown(q) => TurnedDown(q)'
  BY <1>1 DEF TurnedDown
<1>3. ASSUME NEW r \in Runs PROVE SaidOK(r)'
  <2>1. \A i \in 1..Len(resolved[r]) : resolved[r][i].req \in Requests BY EventTypes
  <2>2. \A i \in 1..Len(resolved[r]) : AnsweredSo(resolved[r][i], r)'
    BY <1>2, <2>1 DEF SayInv, SaidOK, AnsweredSo
  <2> QED BY <2>2 DEF SayInv, SaidOK
<1>4. ASSUME NEW c \in Calls, calls'[c].at = "resolving"
      PROVE  /\ Unsaid(calls[c].req)' /\ calls'[c] = calls[c]
             /\ rpc'[calls[c].req] = "returned" => TurnedDown(calls[c].req)'
             /\ \A b \in Calls : calls'[b].at = "resolving" /\ calls'[b].req = calls[c].req => b = c
  <2>1. calls'[c] = calls[c] /\ calls[c].at = "resolving" /\ calls[c].req \in Requests
    BY <1>4 DEF CallsOK
  <2>2. /\ Unsaid(calls[c].req)
        /\ rpc[calls[c].req] = "returned" => TurnedDown(calls[c].req)
        /\ \A b \in Calls : calls[b].at = "resolving" /\ calls[b].req = calls[c].req => b = c
    BY <2>1 DEF SayInv, OnceOK
  <2>3. Unsaid(calls[c].req)' BY <2>1, <2>2 DEF Unsaid
  <2>4. rpc'[calls[c].req] = "returned" => TurnedDown(calls[c].req)' BY <1>2, <2>1, <2>2
  <2> QED BY <2>1, <2>2, <2>3, <2>4
<1>5. OnceOK' BY <1>4 DEF OnceOK, Unsaid, TurnedDown
<1> QED BY <1>3, <1>5 DEF SayInv

\* It survives the event of a request that had none, when the request comes back
\* with what the event says, or was turned down.
LEMMA EventKeepsSaid ==
    ASSUME TypesInv, SayInv, NEW q \in Requests, NEW d \in Decisions, Unsaid(q), Record(q, d),
           UNCHANGED <<stage, aborted>>,
           rpc'[q] = "returned", answer'[q] = d \/ TurnedDown(q)',
           \A p \in Requests \ {q} : rpc'[p] = rpc[p] /\ answer'[p] = answer[p],
           \A c \in Calls : calls'[c].at = "resolving" => calls'[c] = calls[c] /\ calls[c].req # q
    PROVE  SayInv'
<1> USE DEF TypesInv, ApprovalTypeOK
<1> DEFINE e == [id |-> IdOf[q], req |-> q, decision |-> d]
           s == resolved[RunOf[q]]
<1>1. RunOf[q] \in Runs /\ e \in Resolutions /\ e.req = q /\ e.decision = d BY DEF Resolutions
<1>2. /\ resolved'[RunOf[q]] = Append(s, e) /\ s \in Seq(Resolutions)
      /\ \A r \in Runs \ {RunOf[q]} : resolved'[r] = resolved[r]
  BY <1>1 DEF Record
<1> HIDE DEF e
<1>3. /\ Len(resolved'[RunOf[q]]) = Len(s) + 1 /\ Len(s) \in Nat
      /\ \A i \in 1..Len(s) : resolved'[RunOf[q]][i] = s[i]
      /\ resolved'[RunOf[q]][Len(s) + 1] = e
  BY <1>1, <1>2
<1> HIDE DEF s
<1>4. \A p \in Requests \ {q} : TurnedDown(p) => TurnedDown(p)' BY DEF TurnedDown
<1>5. ASSUME NEW r \in Runs, NEW i \in 1..Len(resolved[r])
      PROVE  /\ resolved[r][i].req # q
             /\ \A said : said = resolved[r][i] => AnsweredSo(said, r)'
  <2> DEFINE p == resolved[r][i].req
  <2>1. p \in Requests BY EventTypes
  <2>2. AnsweredSo(resolved[r][i], r) BY DEF SayInv, SaidOK
  <2>3. p # q BY <2>2 DEF Unsaid, AnsweredSo
  <2>4. /\ RunOf[p] = r /\ rpc'[p] = "returned" /\ answer'[p] = answer[p]
        /\ answer[p] = resolved[r][i].decision \/ TurnedDown(p)
    BY <2>1, <2>2, <2>3 DEF AnsweredSo
  <2>5. ASSUME NEW o, o = p, TurnedDown(o) PROVE TurnedDown(o)' BY <1>4, <2>1, <2>3, <2>5
  <2>6. ASSUME NEW said, said = resolved[r][i] PROVE AnsweredSo(said, r)'
    <3>1. said.req = p BY <2>6
    <3>2. answer'[said.req] = said.decision \/ TurnedDown(said.req)'
      BY <2>4, <2>5, <2>6, <3>1
    <3> QED BY <2>4, <2>6, <3>1, <3>2 DEF AnsweredSo
  <2> QED BY <2>3, <2>6
<1>6. ASSUME NEW r \in Runs PROVE SaidOK(r)'
  <2>1. CASE r # RunOf[q] BY <1>2, <1>5, <2>1 DEF SayInv, SaidOK
  <2>2. CASE r = RunOf[q]
    <3>1. /\ \A i \in 1..Len(s) : /\ s[i].req # q
                                  /\ \A said : said = s[i] => AnsweredSo(said, r)'
          /\ \A i, j \in 1..Len(s) : s[j].req = s[i].req => j = i
      BY <1>5, <2>2 DEF SayInv, SaidOK, s
    <3>2. \A said : said = e => AnsweredSo(said, r)' BY <1>1, <2>2 DEF AnsweredSo
    <3>3. \A i \in 1..Len(resolved'[r]) : i \in 1..Len(s) \/ i = Len(s) + 1 BY <1>3, <2>2
    <3>4. \A i \in 1..Len(resolved'[r]) :
             \/ i \in 1..Len(s) /\ resolved'[r][i] = s[i] /\ s[i].req # q
             \/ i = Len(s) + 1 /\ resolved'[r][i] = e /\ e.req = q
      BY <1>1, <1>3, <2>2, <3>1, <3>3
    <3>5. ASSUME NEW i \in 1..Len(resolved'[r]) PROVE AnsweredSo(resolved[r][i], r)'
      <4>1. PICK said : said = resolved'[r][i] OBVIOUS
      <4>2. AnsweredSo(said, r)' BY <3>1, <3>2, <3>4, <4>1
      <4> QED BY <4>1, <4>2 DEF AnsweredSo
    <3>6. ASSUME NEW i \in 1..Len(resolved'[r]), NEW j \in 1..Len(resolved'[r]),
                 resolved'[r][j].req = resolved'[r][i].req
          PROVE  j = i
      <4>1. CASE i \in 1..Len(s) /\ j \in 1..Len(s) BY <1>3, <2>2, <3>1, <3>6, <4>1
      <4>2. CASE i = Len(s) + 1 /\ j = Len(s) + 1 BY <4>2
      <4> QED BY <3>4, <3>6, <4>1, <4>2
    <3> QED BY <3>5, <3>6 DEF SaidOK
  <2> QED BY <2>1, <2>2
<1>7. ASSUME NEW c \in Calls, calls'[c].at = "resolving"
      PROVE  /\ Unsaid(calls[c].req)' /\ calls'[c] = calls[c]
             /\ rpc'[calls[c].req] = "returned" => TurnedDown(calls[c].req)'
             /\ \A b \in Calls : calls'[b].at = "resolving" /\ calls'[b].req = calls[c].req => b = c
  <2>1. calls'[c] = calls[c] /\ calls[c].at = "resolving" /\ calls[c].req \in Requests \ {q}
    BY <1>7 DEF CallsOK
  <2>2. /\ Unsaid(calls[c].req)
        /\ rpc[calls[c].req] = "returned" => TurnedDown(calls[c].req)
        /\ \A b \in Calls : calls[b].at = "resolving" /\ calls[b].req = calls[c].req => b = c
    BY <2>1 DEF SayInv, OnceOK
  <2>3. Unsaid(calls[c].req)'
    <3>1. CASE RunOf[calls[c].req] # RunOf[q]
      BY <1>2, <2>1, <2>2, <3>1 DEF Unsaid
    <3>2. CASE RunOf[calls[c].req] = RunOf[q]
      <4>1. \A i \in 1..Len(s) : s[i].req # calls[c].req BY <2>2, <3>2 DEF Unsaid, s
      <4>2. \A i \in 1..Len(resolved'[RunOf[q]]) : i \in 1..Len(s) \/ i = Len(s) + 1 BY <1>3
      <4>3. \A i \in 1..Len(resolved'[RunOf[q]]) : resolved'[RunOf[q]][i].req # calls[c].req
        BY <1>1, <1>3, <2>1, <4>1, <4>2
      <4> QED BY <2>1, <3>2, <4>3 DEF Unsaid
    <3> QED BY <3>1, <3>2
  <2> QED BY <1>4, <2>1, <2>2, <2>3
<1>8. OnceOK' BY <1>7 DEF OnceOK, Unsaid, TurnedDown
<1> QED BY <1>6, <1>8 DEF SayInv

\* What has an event came back.
LEMMA UnansweredIsUnsaid ==
    ASSUME TypesInv, SayInv, NEW q \in Requests, rpc[q] # "returned"
    PROVE  Unsaid(q)
<1>1. RunOf[q] \in Runs BY KeyOK
<1> QED BY <1>1 DEF SayInv, SaidOK, AnsweredSo, Unsaid

\* The steps of requestApproval.
LEMMA RequestStepSaid ==
    ASSUME TypesInv, WaitInv, SayInv, NEW q \in Requests, RequestStep(q)
    PROVE  SayInv'
<1> USE DEF TypesInv, ApprovalTypeOK
<1>1. calls' = calls /\ UNCHANGED <<stage, aborted>>
  BY DEF RequestStep, AskAutomatic, AskTrusted, AskDuplicate, Ask, Announced, Recorded, NotRecorded
<1>2. rpc[q] \in {"new", "announcing", "recording"}
  BY DEF RequestStep, AskAutomatic, AskTrusted, AskDuplicate, Ask, Announced, Recorded, NotRecorded,
         Arrives
<1>3. \A c \in Calls : calls[c].at = "resolving" => calls[c].req \in Requests /\ calls[c].req # q
  BY <1>2 DEF CallsOK, WaitInv, ResolvingOK
<1>4. \A p \in Requests \ {q} : rpc'[p] = rpc[p] /\ answer'[p] = answer[p]
  BY DEF RequestStep, AskAutomatic, AskTrusted, AskDuplicate, Ask, Announced, Recorded, NotRecorded,
         Return
<1>5. CASE Recorded(q)
  <2>1. Record(q, "allow_once") /\ rpc'[q] = "returned" /\ answer'[q] = "allow_once"
    BY <1>5 DEF Recorded, Return
  <2>2. "allow_once" \in Decisions BY DEF Decisions
  <2>3. Unsaid(q) BY <1>2, UnansweredIsUnsaid
  <2> QED BY <1>1, <1>3, <1>4, <2>1, <2>2, <2>3, EventKeepsSaid
<1>6. CASE resolved' = resolved
  BY <1>1, <1>2, <1>3, <1>4, <1>6, SilentStepKeepsSaid
<1> QED BY <1>5, <1>6
        DEF RequestStep, AskAutomatic, AskTrusted, AskDuplicate, Ask, Announced, NotRecorded

\* The steps of decideApproval.
LEMMA CallStepSaid ==
    ASSUME TypesInv, WaitInv, SayInv, NEW c \in Calls, CallStep(c)
    PROVE  SayInv'
<1> USE DEF TypesInv, ApprovalTypeOK
<1>1. ASSUME NEW k \in Keys, NEW d \in Decisions, Decide(c, k, d) PROVE SayInv'
  <2>1. /\ calls[c].at = "new" /\ pending[k] \in Requests
        /\ UNCHANGED <<stage, aborted, rpc, answer, resolved>>
        /\ calls'[c].at = "resolving" /\ calls'[c].req = pending[k]
        /\ \A b \in Calls \ {c} : calls'[b] = calls[b]
    BY <1>1 DEF Decide, requestVars
  <2>2. Key(pending[k]) = k /\ rpc[pending[k]] = "waiting" BY <2>1 DEF WaitInv, PendingOK
  <2>3. \A b \in Calls : calls[b].at = "resolving" => calls[b].req # pending[k]
    BY <2>2 DEF WaitInv, ResolvingOK
  <2>4. Unsaid(pending[k]) BY <2>1, <2>2, UnansweredIsUnsaid
  <2>5. \A q : (TurnedDown(q)' <=> TurnedDown(q)) /\ (Unsaid(q)' <=> Unsaid(q))
    BY <2>1 DEF TurnedDown, Unsaid
  <2>6. \A r \in Runs : SaidOK(r)' BY <2>1, <2>5 DEF SayInv, SaidOK, AnsweredSo
  <2>7. ASSUME NEW b \in Calls, calls'[b].at = "resolving"
        PROVE  /\ Unsaid(calls'[b].req)
               /\ rpc'[calls'[b].req] = "returned" => TurnedDown(calls'[b].req)
               /\ \A a \in Calls : calls'[a].at = "resolving" /\ calls'[a].req = calls'[b].req => a = b
    <3>1. CASE b = c BY <2>1, <2>2, <2>3, <2>4, <3>1
    <3>2. CASE b # c
      <4>1. calls'[b] = calls[b] /\ calls[b].at = "resolving" BY <2>1, <2>7, <3>2
      <4> QED BY <2>1, <2>3, <4>1 DEF SayInv, OnceOK
    <3> QED BY <3>1, <3>2
  <2>8. OnceOK' BY <2>5, <2>7 DEF OnceOK, Unsaid, TurnedDown
  <2> QED BY <2>6, <2>8 DEF SayInv
<1>2. CASE \E k \in Keys, d \in Decisions : DecideTooLate(c, k, d)
  <2>1. /\ UNCHANGED <<stage, aborted, rpc, answer, resolved>> /\ calls'[c].at # "resolving"
        /\ \A b \in Calls \ {c} : calls'[b] = calls[b]
    BY <1>2 DEF DecideTooLate, requestVars
  <2>2. \A b \in Calls : calls'[b].at = "resolving" => calls'[b] = calls[b] BY <2>1
  <2> QED BY <2>1, <2>2, SilentStepKeepsSaid
<1>3. CASE Decided(c) \/ NotDecided(c)
  <2>1. /\ calls[c].at = "resolving" /\ calls[c].req \in Requests /\ calls[c].decision \in Decisions
        /\ UNCHANGED <<stage, aborted>>
    BY <1>3 DEF Decided, NotDecided, CallsOK
  <2>2. calls'[c].at # "resolving" /\ \A b \in Calls \ {c} : calls'[b] = calls[b]
    <3>1. PICK end \in {"accepted", "failed"} : calls' = [calls EXCEPT ![c].at = end]
      BY <1>3 DEF Decided, NotDecided
    <3> QED BY <3>1, CallEnds DEF CallTypeOK
  <2>3. \A b \in Calls : calls'[b].at = "resolving" =>
           calls'[b] = calls[b] /\ calls[b].req # calls[c].req
    BY <2>1, <2>2 DEF SayInv, OnceOK
  <2>4. CASE NotDecided(c)
    BY <2>3, <2>4, SilentStepKeepsSaid DEF NotDecided, requestVars
  <2>5. CASE Decided(c)
    <3>1. PICK q \in Requests, d \in Decisions : q = calls[c].req /\ d = calls[c].decision
      BY <2>1
    <3>2. /\ Record(q, d)
          /\ \A p \in Requests \ {q} : rpc'[p] = rpc[p] /\ answer'[p] = answer[p]
      BY <2>5, <3>1 DEF Decided, Return, Record
    <3>3. /\ Unsaid(q) /\ (rpc[q] = "returned" => TurnedDown(q))
          /\ rpc[q] \in {"waiting", "returned"}
      BY <2>1, <3>1 DEF SayInv, OnceOK, WaitInv, ResolvingOK
    <3>4. rpc'[q] = "returned" /\ (answer'[q] = d \/ TurnedDown(q)')
      <4>1. CASE rpc[q] = "waiting" BY <2>1, <2>5, <3>1, <4>1 DEF Decided, Return, Decision
      <4>2. CASE rpc[q] = "returned"
        BY <2>1, <2>5, <3>1, <3>3, <4>2 DEF Decided, Return, TurnedDown
      <4> QED BY <3>3, <4>1, <4>2
    <3> QED BY <2>1, <2>3, <3>1, <3>2, <3>3, <3>4, EventKeepsSaid
  <2> QED BY <1>3, <2>4, <2>5
<1> QED BY <1>1, <1>2, <1>3 DEF CallStep

\* A Run that ends turns down what waits, or leaves it to its decision.
LEMMA EndingKeepsSaid ==
    ASSUME TypesInv, SayInv, WaitInv, NEW S \in SUBSET Requests, Return(S, "deny"),
           UNCHANGED <<resolved, calls>>, aborted \subseteq aborted',
           \A r \in Runs : stage[r] = "over" => stage'[r] = "over",
           \A q \in S : rpc[q] = "waiting" /\ (pending[Key(q)] = q \/ RunOf[q] \in aborted')
    PROVE  SayInv'
<1> USE DEF TypesInv, ApprovalTypeOK
<1>1. \A q \in Requests : /\ rpc'[q] = IF q \in S THEN "returned" ELSE rpc[q]
                          /\ answer'[q] = IF q \in S THEN "deny" ELSE answer[q]
  BY DEF Return
<1>2. ASSUME NEW c \in Calls, calls[c].at = "resolving", rpc[calls[c].req] # "returned",
             rpc'[calls[c].req] = "returned"
      PROVE  TurnedDown(calls[c].req)'
  <2>1. calls[c].req \in Requests /\ calls[c].req \in S BY <1>1, <1>2 DEF CallsOK
  <2>2. pending[Key(calls[c].req)] # calls[c].req BY <1>2 DEF WaitInv, ResolvingOK
  <2> QED BY <1>1, <2>1, <2>2 DEF TurnedDown
<1>3. \A q \in Requests : rpc[q] = "returned" => rpc'[q] = "returned" /\ answer'[q] = answer[q]
  BY <1>1
<1> QED BY <1>2, <1>3, SilentStepKeepsSaid

LEMMA StepSaid == TypesInv /\ WaitInv /\ SayInv /\ [Next]_vars => SayInv'
<1> SUFFICES ASSUME TypesInv, WaitInv, SayInv, [Next]_vars PROVE SayInv'
  OBVIOUS
<1> USE DEF TypesInv, ApprovalTypeOK
<1>1. \A r \in Runs : \A q \in PendingOf(r) : rpc[q] = "waiting" /\ pending[Key(q)] = q
  BY KeyOK DEF PendingOf, WaitInv, PendingOK
<1>2. CASE Shutdown
  <2>1. Denied \in SUBSET Requests /\ Live \subseteq Runs BY DEF Denied, Live
  <2>2. \A q \in Denied : rpc[q] = "waiting" /\ (pending[Key(q)] = q \/ RunOf[q] \in aborted')
    BY <1>1, <1>2, KeyOK DEF Denied, WaitingOf, Shutdown
  <2> QED BY <1>2, <2>1, <2>2, EndingKeepsSaid DEF Shutdown
<1>3. ASSUME NEW r \in Runs, Cancel(r) PROVE SayInv'
  <2>1. WaitingOf(r) \in SUBSET Requests BY DEF WaitingOf
  <2>2. \A q \in WaitingOf(r) : rpc[q] = "waiting" /\ RunOf[q] \in aborted'
    BY <1>3 DEF WaitingOf, Cancel
  <2> QED BY <1>3, <2>1, <2>2, EndingKeepsSaid DEF Cancel
<1>4. ASSUME NEW r \in Runs, Finish(r) PROVE SayInv'
  <2>1. PendingOf(r) \in SUBSET Requests BY DEF PendingOf
  <2>2. \A s \in Runs : stage[s] = "over" => stage'[s] = "over" BY <1>4 DEF Finish
  <2>3. /\ Return(PendingOf(r), "deny") /\ UNCHANGED <<resolved, calls, aborted>>
    BY <1>4 DEF Finish
  <2>4. \A q \in PendingOf(r) : rpc[q] = "waiting" /\ (pending[Key(q)] = q \/ RunOf[q] \in aborted')
    BY <1>1
  <2> QED BY <2>1, <2>2, <2>3, <2>4, EndingKeepsSaid
<1>5. ASSUME UNCHANGED <<aborted, rpc, answer, resolved, calls>>,
             \A r \in Runs : stage[r] = "over" => stage'[r] = "over"
      PROVE  SayInv'
  BY <1>5, SilentStepKeepsSaid
<1>6. ASSUME NEW r \in Runs, TimeUp(r) \/ EngineEnds(r) PROVE SayInv'
  BY <1>5, <1>6 DEF TimeUp, EngineEnds
<1>7. ASSUME NEW t \in TrustKeys, Lapse(t) PROVE SayInv'
  BY <1>5, <1>7 DEF Lapse, requestVars
<1>8. CASE UNCHANGED vars BY <1>5, <1>8 DEF vars
<1> QED BY <1>2, <1>3, <1>4, <1>6, <1>7, <1>8, RequestStepSaid, CallStepSaid DEF Next, RunStep

LEMMA SayInvIsStronger == TypesInv /\ SayInv => AnsweredAsRecorded
<1> SUFFICES ASSUME TypesInv, SayInv, NEW r \in Runs, NEW i \in DOMAIN resolved[r]
             PROVE  LET q == resolved[r][i].req
                    IN  /\ \/ answer[q] = resolved[r][i].decision
                           \/ answer[q] = "deny" /\ (r \in aborted \/ stage[r] = "over")
                        /\ \A j \in DOMAIN resolved[r] : resolved[r][j].req = q => j = i
  BY DEF AnsweredAsRecorded
<1>1. DOMAIN resolved[r] = 1..Len(resolved[r]) BY DEF TypesInv, ApprovalTypeOK
<1> QED BY <1>1 DEF SayInv, SaidOK, AnsweredSo, TurnedDown

\* One event at most says how a request was decided, and its engine got that very
\* answer, or was turned down because its Run was to end: whatever else decides,
\* cancels, ends the Run or fails in the store meanwhile.
THEOREM AnswersAreRecorded == Spec => []AnsweredAsRecorded
<1>1. Init => AllowInv /\ WaitInv /\ SayInv
  <2>1. Init => AllowInv BY DEF Init, AllowInv, AllowedBySomebody, Allows, NoCall
  <2>2. Init => WaitInv BY KeyOK DEF Init, WaitInv, PendingOK, ResolvingOK, WaitingOK, NoCall
  <2>3. Init => SayInv BY DEF Init, SayInv, SaidOK, OnceOK, NoCall
  <2> QED BY <2>1, <2>2, <2>3
<1> QED BY <1>1, StepAllow, StepWaits, StepSaid, SayInvIsStronger, TypesAreKept, PTL DEF Spec
=============================================================================
