--------------------------- MODULE RunContractProofs ---------------------------
(***************************************************************************)
(* With the store the program uses (SqliteRunStore: what awaits it goes on *)
(* before anything else) and while the store does not fail, RunLifecycle   *)
(* implements RunContract, announces how each Run ended, never reports a   *)
(* cancelled Run as completed, and stops cleanly.  Crashes and recovery    *)
(* are included; with failures of the store none of this holds (TLC shows  *)
(* it, README section 4).                                                  *)
(*                                                                         *)
(* The invariant says who is at work: at most one Run is between two store *)
(* calls, and in that Run one of create or execute, cancel, and the chain  *)
(* of engine events (ThreadsOK).  Then a table gives, for each place of a  *)
(* handler, what the store holds of the Run (StagesOK).                    *)
(***************************************************************************)
EXTENDS RunEventProofs

\* The store of the program, while it works.
Reliable == StoreYields = FALSE /\ MaxFaults = 0

Working(r)  == pc[r] \in {"recording", "announcing", "reporting", "ending"}
                          \cup (ActivePCs \ {"executing"})
Speaking(r) == queued[r] > 0 \/ ~LinkIdle(r)

\* One of create or execute, cancel, and the chain of engine events.
ThreadOKFor(r) == /\ Working(r) => cpc[r] = "idle"
                  /\ Speaking(r) => pc[r] = "executing" /\ cpc[r] = "idle"

\* Nobody starts while somebody is between two store calls.
ThreadsOK ==
    /\ \A q, r \in Runs : BetweenStoreCalls(q) /\ BetweenStoreCalls(r) => q = r
    /\ \A r \in Runs : ThreadOKFor(r)

\* What is on its way to the store belongs to the one at work.
EmissionsOKFor(r) ==
    /\ \A d, e \in emitting[r] : d = e
    /\ \A e \in emitting[r] :
          /\ e.by = "run" => pc[r] \in {"announcing", "started", "completed", "failed", "reporting"}
          /\ e.by = "cancel" => cpc[r] = "announcing"

WritesFor(r) ==
    IF pc[r] \in PersistPCs THEN <<[by |-> "run", status |-> mem[r]]>>
    ELSE IF cpc[r] = "writing" THEN <<[by |-> "cancel", status |-> "cancelling"]>>
    ELSE <<>>

SendingOK == \A r \in Runs : EmissionsOKFor(r) /\ writes[r] = WritesFor(r)

\* What the store holds of a Run, at each place where its handler may stand.
BeforePCs == {"new", "acquiring", "preparing", "recording", "unwinding", "unwound",
              "rejected", "refusedByNode", "refusedByAgent"}

StageOKFor(r) ==
    /\ pc[r] \in BeforePCs => stored[r] = "none"
    /\ pc[r] = "recording" => mem[r] = "queued"
    /\ pc[r] \in {"announcing", "starting"} => stored[r] = "queued"
    /\ pc[r] = "starting" => mem[r] = "running"
    /\ pc[r] = "started" => stored[r] = "running" /\ mem[r] = "running"
    /\ pc[r] \in {"starting", "started"} => (signal[r] = "aborted" => draining)
    /\ pc[r] \in {"executing", "flushing"} =>
          /\ mem[r] \in {"running", "cancelling"}
          /\ IF cpc[r] = "writing" THEN mem[r] = "cancelling" /\ stored[r] \in {"running", "cancelling"}
                                   ELSE stored[r] = mem[r]
          /\ mem[r] = "cancelling" => signal[r] = "aborted"
          /\ signal[r] = "aborted" => mem[r] = "cancelling" \/ draining
    /\ pc[r] = "flushing" =>
          /\ outcome[r] \in {"ok", "timeout", "cancelled", "error"}
          /\ outcome[r] = "ok" => mem[r] = "running"
          /\ outcome[r] = "cancelled" => mem[r] = "cancelling" \/ draining
    /\ pc[r] = "completing" => mem[r] = "completed" /\ stored[r] = "running"
    /\ pc[r] = "failing" =>
          /\ mem[r] \in {"timed_out", "cancelled", "failed"}
          /\ stored[r] \in {"running", "cancelling"}
          /\ mem[r] = "failed" => stored[r] = "running"
          /\ mem[r] = "cancelled" => stored[r] = "cancelling" \/ draining
    /\ pc[r] = "completed" => stored[r] = "completed"
    /\ pc[r] = "failed" => stored[r] \in Terminal \ {"completed"}
    /\ pc[r] \in EndingPCs \cup {"done"} => stored[r] \in Terminal
    /\ pc[r] = "gone" /\ node = "up" => stored[r] \notin Unfinished
    /\ cpc[r] = "reading" => stored[r] \in Terminal
    /\ cpc[r] \in {"writing", "announcing"} => pc[r] = "executing"

StagesOK == \A r \in Runs : StageOKFor(r)

\* While the Node starts, what is open has still to be closed, and nothing else.
RecoveryOK == node = "booting" => \A r \in Runs :
    /\ stored[r] \in Unfinished => r \in toRecover
    /\ r \in toRecover /\ emitting[r] = {} => stored[r] \in Unfinished
    /\ emitting[r] # {} => stored[r] \notin Unfinished

EndType(status) == IF status = "completed" THEN "run.completed" ELSE "run.failed"
Ends(r)         == {e \in log[r] : e.type \in TerminalEvents}

\* How a Run ended is announced once.
AnnouncedOKFor(r) ==
    /\ pc[r] \in {"flushing", "completing", "failing"} =>
          \A e \in log[r] \cup emitting[r] : e.type \notin TerminalEvents
    /\ pc[r] \in {"completed", "failed"} =>
          Ends(r) = {} /\ \A e \in emitting[r] : e.by = "run" => e.type = EndType(stored[r])
    /\ pc[r] \in EndingPCs \cup {"done"} =>
          /\ \A e \in emitting[r] : e.type \notin TerminalEvents
          /\ \E x \in Ends(r) : Ends(r) = {x} /\ x.type = EndType(stored[r])

\* What is said to be cancelled is not completed, and will not be.
CancelOKFor(r) ==
    (\E e \in log[r] \cup emitting[r] : e.type = "run.cancelling") =>
        stored[r] \notin {"none", "queued", "running", "completed"}

AnnouncementsOK == \A r \in Runs : AnnouncedOKFor(r) /\ CancelOKFor(r)

ContractOK == ThreadsOK /\ SendingOK /\ StagesOK /\ RecoveryOK /\ AnnouncementsOK

USE DEF processVars, slotVars, leaseVars, runVars, eventVars, stateVars, boundVars,
        createFrame, executeFrame

-----------------------------------------------------------------------------
(* One Run at a time *)

\* What is kept for each Run.
RunOK(r) == /\ ThreadOKFor(r)
            /\ EmissionsOKFor(r) /\ writes[r] = WritesFor(r)
            /\ StageOKFor(r)
            /\ AnnouncedOKFor(r) /\ CancelOKFor(r)

\* A step of the Run r leaves every other as it is.
OthersSame(r) ==
    /\ UNCHANGED <<node, draining, toRecover>>
    /\ \A q \in Runs : q # r =>
          /\ pc'[q] = pc[q] /\ mem'[q] = mem[q] /\ outcome'[q] = outcome[q] /\ signal'[q] = signal[q]
          /\ queued'[q] = queued[q] /\ log'[q] = log[q] /\ emitting'[q] = emitting[q]
          /\ stored'[q] = stored[q] /\ writes'[q] = writes[q] /\ cpc'[q] = cpc[q]

\* Without failures of the store these are the steps of a Run while the Node is up.
RunStep(r) == \/ Create(r) \/ Refuse(r) \/ Acquire(r) \/ AcquireFails(r) \/ Prepare(r)
              \/ Record(r) \/ Announce(r) \/ Unwind(r) \/ RejectCreate(r)
              \/ EngineEvent(r) \/ EngineEnd(r) \/ LinkStart(r) \/ LinkDone(r)
              \/ Announced(r) \/ Flushed(r) \/ Settled(r) \/ Removed(r) \/ Reported(r) \/ Ended(r)
              \/ Write(r) \/ Cancel(r) \/ CancelRead(r) \/ CancelReturns(r)

\* A reliable store does not fail.
LEMMA NoFailures == IInv1 /\ Reliable => ~StoreFails
BY DEF IInv1, TypeOK, BoundTypeOK, Reliable, StoreFails

\* Where everything stands when a request, a timer or a callback gets its turn.
LEMMA CallIsQuiet ==
    ASSUME IInv1, Reliable, Call, NEW r \in Runs
    PROVE  /\ node = "up" /\ ~BetweenStoreCalls(r)
           /\ ~Working(r) /\ cpc[r] = "idle" /\ queued[r] = 0 /\ emitting[r] = {}
           /\ ~Speaking(r)
BY DEF IInv1, TypeOK, RunTypeOK, Reliable, Call, Quiet, BetweenStoreCalls, Working, Speaking, LinkIdle

\* What a step of one Run does to the others.
LEMMA StepsOfOneRun ==
    ASSUME IInv1, Reliable, BootOK, node = "up", NEW r \in Runs, RunStep(r)
    PROVE  OthersSame(r)
<1>0. /\ DOMAIN pc = Runs /\ DOMAIN mem = Runs /\ DOMAIN outcome = Runs /\ DOMAIN signal = Runs
      /\ DOMAIN queued = Runs /\ DOMAIN log = Runs /\ DOMAIN emitting = Runs
      /\ DOMAIN stored = Runs /\ DOMAIN writes = Runs /\ DOMAIN cpc = Runs
  BY DEF IInv1, TypeOK, RunTypeOK, StateTypeOK, EventTypeOK
<1> USE <1>0 DEF OthersSame, Goto
<1>1. CASE Create(r) \/ Refuse(r) \/ Acquire(r) \/ AcquireFails(r) \/ Prepare(r) \/ Unwind(r) \/ RejectCreate(r)
  BY <1>1 DEF Create, Refuse, Acquire, AcquireFails, Prepare, Unwind, RejectCreate
<1>2. CASE Record(r) \/ Announce(r)
  BY <1>2 DEF Record, Emit, Announce, Appended, Persist
<1>3. CASE EngineEvent(r) \/ EngineEnd(r) \/ LinkStart(r) \/ LinkDone(r)
  BY <1>3 DEF EngineEvent, EngineEnd, LinkStart, LinkDone, Emit, Appended
<1>4. CASE Announced(r) \/ Flushed(r) \/ Settled(r) \/ Removed(r) \/ Ended(r)
  BY <1>4 DEF Announced, Flushed, Settled, Removed, Ended, Emit, Appended, Persist, Leave
<1>5. CASE Reported(r) BY <1>5 DEF Reported, Appended, NotAppended
<1>6. CASE Write(r) BY <1>6 DEF Write, Emit
<1>7. CASE Cancel(r) \/ CancelRead(r)
  BY <1>7 DEF Cancel, CancelRead, Abort, Persist
<1>8. CASE CancelReturns(r) BY <1>8 DEF CancelReturns, Appended, NotAppended
<1> QED BY <1>1, <1>2, <1>3, <1>4, <1>5, <1>6, <1>7, <1>8 DEF RunStep

\* Whoever makes a step is the one at work, or nobody is.
LEMMA WhoSteps ==
    ASSUME IInv1, Reliable, ContractOK, NEW r \in Runs, RunStep(r)
    PROVE  \A q \in Runs : q # r => ~BetweenStoreCalls(q)
<1>1. CASE Call BY <1>1, CallIsQuiet
<1>2. CASE ~Call
  <2>1. pc[r] \in {"recording", "announcing", "reporting", "ending", "started", "completed", "failed", "flushing"}
        \/ cpc[r] # "idle" \/ queued[r] > 0 \/ emitting[r] # {} \/ writes[r] # <<>>
    BY <1>2 DEF RunStep, Create, Refuse, Acquire, AcquireFails, Prepare, Unwind, RejectCreate,
                Record, Announce, EngineEvent, EngineEnd, LinkStart, LinkDone, Appended,
                Announced, Flushed, Settled, Removed, Ended, Reported, Write, Cancel, CancelRead, CancelReturns
  <2>2. writes[r] # <<>> => pc[r] \in PersistPCs \/ cpc[r] # "idle"
    BY DEF ContractOK, SendingOK, WritesFor
  <2>3. BetweenStoreCalls(r) BY <2>1, <2>2 DEF BetweenStoreCalls, PersistPCs, ActivePCs
  <2> QED BY <2>3 DEF ThreadsOK, ContractOK
<1> QED BY <1>1, <1>2

\* So what holds of the others goes on, and what is left is the Run itself.
LEMMA OthersKept ==
    ASSUME IInv1, BootOK, ContractOK, Reliable, node = "up", NEW r \in Runs, RunStep(r), RunOK(r)'
    PROVE  ContractOK'
<1> USE DEF ContractOK
<1>1. OthersSame(r) BY StepsOfOneRun
<1>2. \A q \in Runs : q # r => ~BetweenStoreCalls(q) BY WhoSteps
<1>3. ASSUME NEW q \in Runs, q # r PROVE RunOK(q)' /\ ~BetweenStoreCalls(q)'
  <2>1. /\ UNCHANGED <<node, draining>>
        /\ pc'[q] = pc[q] /\ mem'[q] = mem[q] /\ outcome'[q] = outcome[q] /\ signal'[q] = signal[q]
        /\ queued'[q] = queued[q] /\ log'[q] = log[q] /\ emitting'[q] = emitting[q]
        /\ stored'[q] = stored[q] /\ writes'[q] = writes[q] /\ cpc'[q] = cpc[q]
    BY <1>1, <1>3 DEF OthersSame
  <2>2. ThreadOKFor(q)' BY <2>1 DEF ThreadsOK, ThreadOKFor, Working, Speaking, LinkIdle
  <2>3. EmissionsOKFor(q)' /\ writes'[q] = WritesFor(q)'
    BY <2>1 DEF SendingOK, EmissionsOKFor, WritesFor
  <2>4. StageOKFor(q)' BY <2>1 DEF StagesOK, StageOKFor
  <2>5. AnnouncedOKFor(q)' BY <2>1 DEF AnnouncementsOK, AnnouncedOKFor, Ends
  <2>6. CancelOKFor(q)' BY <2>1 DEF AnnouncementsOK, CancelOKFor
  <2>7. ~BetweenStoreCalls(q)' BY <1>2, <1>3, <2>1 DEF BetweenStoreCalls
  <2> QED BY <2>2, <2>3, <2>4, <2>5, <2>6, <2>7 DEF RunOK
<1>4. \A q \in Runs : RunOK(q)' BY <1>3
<1>5. ThreadsOK' BY <1>3, <1>4 DEF ThreadsOK, RunOK
<1>6. SendingOK' /\ StagesOK' /\ AnnouncementsOK'
  BY <1>4 DEF SendingOK, StagesOK, AnnouncementsOK, RunOK
<1>7. RecoveryOK' BY <1>1 DEF OthersSame, RecoveryOK
<1> QED BY <1>5, <1>6, <1>7

-----------------------------------------------------------------------------
(* Each step keeps its Run in order *)

\* What the lemmas below are about.
Ordered == IInv1 /\ AccountsOK /\ EventsOK /\ ContractOK /\ Reliable /\ node = "up"

\* The types of what belongs to one Run.
LEMMA RunTypes ==
    ASSUME IInv1
    PROVE  /\ pc \in [Runs -> PCs] /\ mem \in [Runs -> Contract!Statuses] /\ outcome \in [Runs -> Outcomes]
           /\ signal \in [Runs -> Signals] /\ queued \in [Runs -> Nat]
           /\ log \in [Runs -> SUBSET Events] /\ nextSeq \in [Runs -> Nat]
           /\ emitting \in [Runs -> SUBSET Emissions]
           /\ stored \in [Runs -> Contract!Statuses] /\ writes \in [Runs -> Seq(Persists)]
           /\ cpc \in [Runs -> CancelPCs]
BY DEF IInv1, TypeOK, RunTypeOK, StateTypeOK, EventTypeOK

\* Nothing has ended a Run that is not past its end.
LEMMA NoEndYet ==
    ASSUME EventsOK, NEW r \in Runs, pc[r] \notin Past
    PROVE  \A e \in log[r] \cup emitting[r] : e.type \notin TerminalEvents
BY DEF EventsOK, SilenceOK, SilenceOKFor

\* A step that moves nothing but the place, from one quiet place to another,
\* and keeps what the store holds.
LEMMA QuietMove ==
    ASSUME IInv1, NEW r \in Runs, RunOK(r), UNCHANGED <<node, draining>>, writes' = writes, cpc' = cpc,
           queued' = queued, log' = log, emitting' = emitting, stored' = stored, signal' = signal,
           NEW to, Goto(r, to), cpc[r] = "idle", emitting[r] = {}, ~Speaking(r),
           \/ /\ {pc[r], to} \subseteq BeforePCs
              /\ to = "recording" => mem'[r] = "queued"
           \/ {pc[r], to} \subseteq EndingPCs \cup {"done"}
    PROVE  RunOK(r)'
<1>1. pc'[r] = to BY RunTypes DEF Goto
<1>2. ThreadOKFor(r)' BY DEF ThreadOKFor, Speaking, LinkIdle
<1>3. EmissionsOKFor(r)' BY DEF EmissionsOKFor
<1>4. writes'[r] = WritesFor(r)'
  BY <1>1 DEF RunOK, WritesFor, PersistPCs, BeforePCs, EndingPCs
<1>5. StageOKFor(r)' BY <1>1 DEF RunOK, StageOKFor, BeforePCs, EndingPCs
<1>6. AnnouncedOKFor(r)' BY <1>1 DEF RunOK, AnnouncedOKFor, BeforePCs, EndingPCs, Ends
<1>7. CancelOKFor(r)' BY DEF RunOK, CancelOKFor
<1> QED BY <1>2, <1>3, <1>4, <1>5, <1>6, <1>7 DEF RunOK

\* The steps of create up to the record, and those that undo it.
LEMMA CreateInOrder ==
    ASSUME Ordered, NEW r \in Runs,
           \/ Create(r) \/ Refuse(r) \/ Acquire(r) \/ AcquireFails(r) \/ Prepare(r)
           \/ Unwind(r) \/ RejectCreate(r)
    PROVE  RunOK(r)'
<1> USE DEF Ordered
<1>1. Call BY DEF Create, Refuse, Acquire, AcquireFails, Prepare, Unwind, RejectCreate
<1>2. RunOK(r) BY DEF ContractOK, ThreadsOK, SendingOK, StagesOK, AnnouncementsOK, RunOK
<1>3. cpc[r] = "idle" /\ emitting[r] = {} /\ ~Speaking(r) BY <1>1, CallIsQuiet
<1>4. PICK to : /\ Goto(r, to)
                /\ {pc[r], to} \subseteq BeforePCs
                /\ to = "recording" => mem'[r] = "queued"
  BY RunTypes DEF Create, Refuse, Acquire, AcquireFails, Prepare, Unwind, RejectCreate, BeforePCs
<1>5. UNCHANGED <<node, draining, cpc, writes, queued, log, emitting, stored, signal>>
  BY DEF Create, Refuse, Acquire, AcquireFails, Prepare, Unwind, RejectCreate
<1> QED BY <1>2, <1>3, <1>4, <1>5, QuietMove

\* The record of the Run, and the event that says so.
LEMMA RecordInOrder ==
    ASSUME Ordered, NEW r \in Runs, Record(r) \/ Announce(r)
    PROVE  RunOK(r)'
<1> USE DEF Ordered
<1>1. RunOK(r) BY DEF ContractOK, ThreadsOK, SendingOK, StagesOK, AnnouncementsOK, RunOK
<1>2. \A e \in log[r] \cup emitting[r] : e.type # "run.cancelling"
  BY <1>1 DEF Record, Announce, RunOK, StageOKFor, CancelOKFor, BeforePCs
<1>3. CASE Record(r)
  <2> DEFINE new == [by |-> "run", seq |-> nextSeq[r] + 1, type |-> "run.created"]
  <2>1. /\ pc[r] = "recording" /\ pc'[r] = "announcing" /\ cpc[r] = "idle" /\ ~Speaking(r)
        /\ mem[r] = "queued" /\ stored'[r] = "queued" /\ UNCHANGED <<writes, cpc, queued, mem>>
    BY <1>1, <1>3, RunTypes DEF Record, Goto, RunOK, ThreadOKFor, Working, StageOKFor
  <2>2. emitting[r] = {}
    <3>1. \A e \in emitting[r] : e.by \in {"run", "engine", "cancel", "boot"} BY RunTypes DEF Emissions
    <3> QED BY <1>1, <2>1, <3>1 DEF RunOK, EmissionsOKFor, Speaking, LinkIdle, EventsOK, PlaceOK, BootOK
  <2>3. log'[r] = log[r] /\ emitting'[r] = {new} BY <1>3, <2>2, RunTypes DEF Record, Emit
  <2>4. new.by = "run" /\ new.type = "run.created" OBVIOUS
  <2> HIDE DEF new
  <2>5. ThreadOKFor(r)' BY <2>1, <2>3, <2>4 DEF ThreadOKFor, Speaking, LinkIdle
  <2>6. EmissionsOKFor(r)' BY <2>1, <2>3, <2>4 DEF EmissionsOKFor
  <2>7. writes'[r] = WritesFor(r)' BY <1>1, <2>1 DEF RunOK, WritesFor, PersistPCs
  <2>8. StageOKFor(r)' BY <2>1 DEF StageOKFor, BeforePCs, EndingPCs
  <2>9. AnnouncedOKFor(r)' BY <2>1 DEF AnnouncedOKFor, EndingPCs
  <2>10. CancelOKFor(r)' BY <1>2, <2>3, <2>4 DEF CancelOKFor
  <2> QED BY <2>5, <2>6, <2>7, <2>8, <2>9, <2>10 DEF RunOK
<1>4. CASE Announce(r)
  <2>1. /\ pc[r] = "announcing" /\ pc'[r] = "starting" /\ cpc[r] = "idle" /\ ~Speaking(r)
        /\ writes[r] = <<>> /\ stored[r] = "queued" /\ mem'[r] = "running" /\ signal'[r] = "live"
        /\ UNCHANGED <<stored, cpc, queued>>
    BY <1>1, <1>4, RunTypes
    DEF Announce, Goto, Persist, RunOK, ThreadOKFor, Working, StageOKFor, WritesFor, PersistPCs
  <2>2. writes'[r] = <<[by |-> "run", status |-> "running"]>>
    BY <1>4, <2>1, RunTypes DEF Announce, Persist
  <2>3. PICK e \in emitting[r] :
          /\ log'[r] = log[r] \cup {[seq |-> e.seq, type |-> e.type]}
          /\ emitting'[r] = emitting[r] \ {e}
    BY <1>4, RunTypes DEF Announce, Appended
  <2>4. emitting'[r] = {} BY <1>1, <2>3 DEF RunOK, EmissionsOKFor
  <2>5. ThreadOKFor(r)' BY <2>1, <2>4 DEF ThreadOKFor, Speaking, LinkIdle
  <2>6. EmissionsOKFor(r)' BY <2>4 DEF EmissionsOKFor
  <2>7. writes'[r] = WritesFor(r)' BY <2>1, <2>2 DEF WritesFor, PersistPCs
  <2>8. StageOKFor(r)' BY <2>1 DEF StageOKFor, BeforePCs, EndingPCs
  <2>9. AnnouncedOKFor(r)' BY <2>1 DEF AnnouncedOKFor, EndingPCs
  <2>10. CancelOKFor(r)' BY <1>2, <2>3, <2>4 DEF CancelOKFor
  <2> QED BY <2>5, <2>6, <2>7, <2>8, <2>9, <2>10 DEF RunOK
<1> QED BY <1>3, <1>4

\* The engine says something, and is heard.
LEMMA EngineInOrder ==
    ASSUME Ordered, NEW r \in Runs, EngineEvent(r) \/ LinkStart(r) \/ LinkDone(r)
    PROVE  RunOK(r)'
<1> USE DEF Ordered
<1>1. RunOK(r) BY DEF ContractOK, ThreadsOK, SendingOK, StagesOK, AnnouncementsOK, RunOK
<1>2. /\ pc[r] = "executing" /\ pc'[r] = "executing" /\ cpc[r] = "idle"
      /\ UNCHANGED <<stored, mem, signal, draining, writes, cpc, outcome>>
  <2>1. CASE EngineEvent(r) BY <2>1, CallIsQuiet DEF EngineEvent
  <2>2. CASE LinkStart(r) BY <1>1, <2>2 DEF LinkStart, RunOK, ThreadOKFor, Speaking
  <2>3. CASE LinkDone(r)
    BY <1>1, <2>3 DEF LinkDone, Appended, RunOK, ThreadOKFor, Speaking, LinkIdle
  <2> QED BY <2>1, <2>2, <2>3
<1>3. ThreadOKFor(r)' BY <1>2 DEF ThreadOKFor, Working, ActivePCs
<1>4. writes'[r] = WritesFor(r)' BY <1>1, <1>2 DEF RunOK, WritesFor
<1>5. StageOKFor(r)' BY <1>1, <1>2 DEF RunOK, StageOKFor, BeforePCs, EndingPCs
<1>6. AnnouncedOKFor(r)' BY <1>2 DEF AnnouncedOKFor, EndingPCs
<1>7. EmissionsOKFor(r)' /\ CancelOKFor(r)'
  <2>1. CASE EngineEvent(r) BY <1>1, <2>1 DEF EngineEvent, RunOK, EmissionsOKFor, CancelOKFor
  <2>2. CASE LinkStart(r)
    <3> DEFINE new == [by |-> "engine", seq |-> nextSeq[r] + 1, type |-> "engine"]
    <3>1. \A e \in emitting[r] : e.by \in {"run", "engine", "cancel", "boot"} BY RunTypes DEF Emissions
    <3>2. emitting[r] = {}
      BY <1>1, <1>2, <2>2, <3>1 DEF LinkStart, LinkIdle, RunOK, EmissionsOKFor, EventsOK, PlaceOK, BootOK
    <3>3. log'[r] = log[r] /\ emitting'[r] = {new} /\ new.by = "engine" /\ new.type = "engine"
      BY <2>2, <3>2, RunTypes DEF LinkStart, Emit
    <3> HIDE DEF new
    <3> QED BY <1>1, <1>2, <3>3 DEF RunOK, EmissionsOKFor, CancelOKFor
  <2>3. CASE LinkDone(r)
    <3>1. PICK e \in emitting[r] :
            /\ log'[r] = log[r] \cup {[seq |-> e.seq, type |-> e.type]}
            /\ emitting'[r] = emitting[r] \ {e}
      BY <2>3, RunTypes DEF LinkDone, Appended
    <3>2. EmissionsOKFor(r)' BY <1>1, <3>1 DEF RunOK, EmissionsOKFor
    <3>3. CancelOKFor(r)' BY <1>1, <1>2, <3>1 DEF RunOK, CancelOKFor
    <3> QED BY <3>2, <3>3
  <2> QED BY <2>1, <2>2, <2>3
<1> QED BY <1>3, <1>4, <1>5, <1>6, <1>7 DEF RunOK

\* The engine ends, and execute decides how the Run ended.
LEMMA VerdictInOrder ==
    ASSUME Ordered, NEW r \in Runs, EngineEnd(r) \/ Flushed(r)
    PROVE  RunOK(r)'
<1> USE DEF Ordered
<1>1. RunOK(r) BY DEF ContractOK, ThreadsOK, SendingOK, StagesOK, AnnouncementsOK, RunOK
<1>2. CASE EngineEnd(r)
  <2>1. /\ pc[r] = "executing" /\ pc'[r] = "flushing" /\ cpc[r] = "idle" /\ emitting[r] = {}
        /\ queued[r] = 0 /\ writes[r] = <<>>
        /\ UNCHANGED <<stored, mem, signal, draining, writes, cpc, queued, log, emitting>>
    BY <1>1, <1>2, RunTypes, CallIsQuiet DEF EngineEnd, Goto, RunOK, WritesFor, PersistPCs
  <2>2. outcome'[r] \in EngineOutcomes(r) BY <1>2, RunTypes DEF EngineEnd
  <2>3. ThreadOKFor(r)' BY <2>1 DEF ThreadOKFor, Speaking, LinkIdle
  <2>4. EmissionsOKFor(r)' BY <2>1 DEF EmissionsOKFor
  <2>5. writes'[r] = WritesFor(r)' BY <2>1 DEF WritesFor, PersistPCs
  <2>6. StageOKFor(r)'
    <3>1. signal[r] \in Signals /\ (signal[r] = "aborted" => mem[r] = "cancelling" \/ draining)
          /\ (mem[r] = "cancelling" => signal[r] = "aborted") /\ mem[r] \in {"running", "cancelling"}
          /\ stored[r] = mem[r]
      BY <1>1, <2>1, RunTypes DEF RunOK, StageOKFor
    <3>2. /\ outcome'[r] \in {"ok", "timeout", "cancelled", "error"}
          /\ outcome'[r] = "ok" => mem[r] = "running"
          /\ outcome'[r] = "cancelled" => mem[r] = "cancelling" \/ draining
      BY <2>2, <3>1 DEF EngineOutcomes
    <3> QED BY <2>1, <3>1, <3>2 DEF StageOKFor, BeforePCs, EndingPCs
  <2>7. AnnouncedOKFor(r)'
    <3>1. pc[r] \notin Past BY <2>1 DEF Past, EndingPCs, AtRestPCs
    <3> QED BY <2>1, <3>1, NoEndYet DEF AnnouncedOKFor, EndingPCs
  <2>8. CancelOKFor(r)' BY <1>1, <2>1 DEF RunOK, CancelOKFor
  <2> QED BY <2>3, <2>4, <2>5, <2>6, <2>7, <2>8 DEF RunOK
<1>3. CASE Flushed(r)
  <2>1. /\ pc[r] = "flushing" /\ pc'[r] = IF outcome[r] = "ok" THEN "completing" ELSE "failing"
        /\ cpc[r] = "idle" /\ queued[r] = 0 /\ LinkIdle(r) /\ writes[r] = <<>>
        /\ mem'[r] = Verdict(r) /\ writes'[r] = Append(writes[r], [by |-> "run", status |-> Verdict(r)])
        /\ UNCHANGED <<stored, signal, draining, cpc, queued, log, emitting>>
    BY <1>1, <1>3, RunTypes DEF Flushed, EventsFlushed, Goto, Persist, RunOK, ThreadOKFor, Working,
                                 ActivePCs, WritesFor, PersistPCs
  <2>2. /\ stored[r] = mem[r] /\ mem[r] \in {"running", "cancelling"}
        /\ outcome[r] \in {"ok", "timeout", "cancelled", "error"}
        /\ outcome[r] = "ok" => mem[r] = "running"
        /\ outcome[r] = "cancelled" => mem[r] = "cancelling" \/ draining
    BY <1>1, <2>1 DEF RunOK, StageOKFor
  <2>3. ThreadOKFor(r)' BY <2>1 DEF ThreadOKFor, Speaking, LinkIdle
  <2>4. EmissionsOKFor(r)' BY <1>1, <2>1 DEF RunOK, EmissionsOKFor
  <2>5. writes'[r] = WritesFor(r)'
    <3>1. writes'[r] = <<[by |-> "run", status |-> mem'[r]]>> BY <2>1
    <3> QED BY <2>1, <3>1 DEF WritesFor, PersistPCs
  <2>6. StageOKFor(r)' BY <2>1, <2>2 DEF StageOKFor, Verdict, BeforePCs, EndingPCs
  <2>7. AnnouncedOKFor(r)' BY <1>1, <2>1 DEF RunOK, AnnouncedOKFor, EndingPCs
  <2>8. CancelOKFor(r)' BY <1>1, <2>1 DEF RunOK, CancelOKFor
  <2> QED BY <2>3, <2>4, <2>5, <2>6, <2>7, <2>8 DEF RunOK
<1> QED BY <1>2, <1>3

\* An event of execute is stored: it started, or its end is announced.
LEMMA AnnouncedInOrder ==
    ASSUME Ordered, NEW r \in Runs, Announced(r)
    PROVE  RunOK(r)'
<1> USE DEF Ordered
<1>1. RunOK(r) BY DEF ContractOK, ThreadsOK, SendingOK, StagesOK, AnnouncementsOK, RunOK
<1>2. PICK e \in emitting[r] :
        /\ e.by = "run"
        /\ log'[r] = log[r] \cup {[seq |-> e.seq, type |-> e.type]}
        /\ emitting'[r] = emitting[r] \ {e}
  BY RunTypes DEF Announced, Appended
<1>3. emitting'[r] = {} BY <1>1, <1>2 DEF RunOK, EmissionsOKFor
<1>4. /\ pc[r] \in {"started", "completed", "failed"}
      /\ pc'[r] = IF pc[r] = "started" THEN "executing" ELSE "settling"
      /\ pc[r] = "started" => signal' = signal
      /\ UNCHANGED <<stored, mem, draining, writes, cpc, queued>>
  BY RunTypes DEF Announced, Leave, Goto
<1>5. cpc[r] = "idle" /\ ~Speaking(r) /\ writes[r] = <<>>
  BY <1>1, <1>4 DEF RunOK, ThreadOKFor, Working, ActivePCs, WritesFor, PersistPCs
<1>6. ThreadOKFor(r)' BY <1>3, <1>4, <1>5 DEF ThreadOKFor, Speaking, LinkIdle
<1>7. EmissionsOKFor(r)' BY <1>3 DEF EmissionsOKFor
<1>8. writes'[r] = WritesFor(r)' BY <1>4, <1>5 DEF WritesFor, PersistPCs
<1>9. CancelOKFor(r)' BY <1>1, <1>2, <1>3, <1>4 DEF RunOK, CancelOKFor
<1>10. CASE pc[r] = "started"
  <2>1. stored[r] = "running" /\ mem[r] = "running" BY <1>1, <1>10 DEF RunOK, StageOKFor
  <2>2. signal[r] = "aborted" => draining BY <1>1, <1>10 DEF RunOK, StageOKFor
  <2>3. StageOKFor(r)' BY <1>4, <1>5, <1>10, <2>1, <2>2 DEF StageOKFor, BeforePCs, EndingPCs
  <2>4. AnnouncedOKFor(r)' BY <1>4, <1>10 DEF AnnouncedOKFor, EndingPCs
  <2> QED BY <1>6, <1>7, <1>8, <1>9, <2>3, <2>4 DEF RunOK
<1>11. CASE pc[r] # "started"
  <2>1. stored[r] \in Terminal /\ Ends(r) = {} /\ e.type = EndType(stored[r])
    BY <1>1, <1>2, <1>4, <1>11 DEF RunOK, StageOKFor, AnnouncedOKFor, Terminal, Contract!Terminal
  <2>2. StageOKFor(r)' BY <1>4, <1>5, <1>11, <2>1 DEF StageOKFor, BeforePCs, EndingPCs
  <2>3. AnnouncedOKFor(r)'
    <3> DEFINE x == [seq |-> e.seq, type |-> e.type]
    <3>1. x.type = EndType(stored[r]) /\ x.type \in TerminalEvents
      BY <2>1 DEF EndType, TerminalEvents
    <3>2. log'[r] = log[r] \cup {x} BY <1>2
    <3> HIDE DEF x
    <3>3. Ends(r)' = {x} BY <2>1, <3>1, <3>2 DEF Ends
    <3> QED BY <1>3, <1>4, <1>11, <3>1, <3>3 DEF AnnouncedOKFor, EndingPCs
  <2> QED BY <1>6, <1>7, <1>8, <1>9, <2>2, <2>3 DEF RunOK
<1> QED BY <1>10, <1>11

\* Nothing of a Run is on its way to the store but what its handler awaits.
LEMMA NothingEmitted ==
    ASSUME Ordered, NEW r \in Runs, cpc[r] # "announcing", ~Speaking(r),
           pc[r] \notin {"announcing", "started", "completed", "failed", "reporting"}
    PROVE  emitting[r] = {}
<1>1. \A e \in emitting[r] : e.by \in {"run", "engine", "cancel", "boot"}
  BY RunTypes DEF Ordered, Emissions
<1>2. EmissionsOKFor(r) BY DEF Ordered, ContractOK, SendingOK
<1>3. \A e \in emitting[r] : e.by # "boot" BY DEF Ordered, EventsOK, PlaceOK, BootOK
<1> QED BY <1>1, <1>2, <1>3 DEF EmissionsOKFor, Speaking, LinkIdle

\* The end of execute, after the end of the Run has been announced.
LEMMA EndInOrder ==
    ASSUME Ordered, NEW r \in Runs, Settled(r) \/ Removed(r) \/ Reported(r) \/ Ended(r)
    PROVE  RunOK(r)'
<1> USE DEF Ordered
<1>1. RunOK(r) BY DEF ContractOK, ThreadsOK, SendingOK, StagesOK, AnnouncementsOK, RunOK
<1>2. cpc[r] = "idle" /\ ~Speaking(r) /\ pc[r] \in EndingPCs
  BY <1>1, CallIsQuiet
  DEF Settled, Removed, Reported, Ended, RunOK, ThreadOKFor, Working, ActivePCs, EndingPCs
<1>3. UNCHANGED <<node, draining, writes, cpc, queued, stored, signal>>
  BY DEF Settled, Removed, Reported, Ended
<1>4. CASE UNCHANGED eventVars /\ \E to \in EndingPCs \cup {"done"} : Goto(r, to) /\ pc[r] # "reporting"
  <2>1. emitting[r] = {} BY <1>2, <1>4, NothingEmitted DEF EndingPCs
  <2> QED BY <1>1, <1>2, <1>3, <1>4, <2>1, QuietMove
<1>5. CASE Removed(r) /\ ~UNCHANGED eventVars
  <2> DEFINE new == [by |-> "run", seq |-> nextSeq[r] + 1, type |-> "workspace.cleanup_failed"]
  <2>1. pc[r] = "releasing" /\ pc'[r] = "reporting" BY <1>5, RunTypes DEF Removed, Goto
  <2>2. emitting[r] = {} BY <1>2, <2>1, NothingEmitted
  <2>3. log'[r] = log[r] /\ emitting'[r] = {new} BY <1>5, <2>2, RunTypes DEF Removed, Emit
  <2>4. new.by = "run" /\ new.type = "workspace.cleanup_failed" OBVIOUS
  <2> HIDE DEF new
  <2>5. ThreadOKFor(r)' BY <1>2, <1>3, <2>3, <2>4 DEF ThreadOKFor, Speaking, LinkIdle
  <2>6. EmissionsOKFor(r)' BY <2>1, <2>3, <2>4 DEF EmissionsOKFor
  <2>7. writes'[r] = WritesFor(r)' BY <1>1, <1>2, <1>3, <2>1 DEF RunOK, WritesFor, PersistPCs
  <2>8. StageOKFor(r)' BY <1>1, <1>2, <1>3, <2>1 DEF RunOK, StageOKFor, BeforePCs, EndingPCs
  <2>9. AnnouncedOKFor(r)'
    BY <1>1, <1>3, <2>1, <2>3, <2>4 DEF RunOK, AnnouncedOKFor, EndingPCs, Ends, TerminalEvents
  <2>10. CancelOKFor(r)' BY <1>1, <1>3, <2>3, <2>4 DEF RunOK, CancelOKFor
  <2> QED BY <2>5, <2>6, <2>7, <2>8, <2>9, <2>10 DEF RunOK
<1>6. CASE Reported(r)
  <2>1. PICK e \in emitting[r] :
          /\ log'[r] = log[r] \cup {[seq |-> e.seq, type |-> e.type]}
          /\ emitting'[r] = emitting[r] \ {e}
    BY <1>6, RunTypes, NoFailures DEF Reported, Appended, NotAppended
  <2>2. pc[r] = "reporting" /\ pc'[r] = "ending" BY <1>6, RunTypes DEF Reported, Goto
  <2>3. emitting'[r] = {} BY <1>1, <2>1 DEF RunOK, EmissionsOKFor
  <2>4. ThreadOKFor(r)' BY <1>2, <1>3, <2>3 DEF ThreadOKFor, Speaking, LinkIdle
  <2>5. EmissionsOKFor(r)' BY <2>3 DEF EmissionsOKFor
  <2>6. writes'[r] = WritesFor(r)' BY <1>1, <1>2, <1>3, <2>2 DEF RunOK, WritesFor, PersistPCs
  <2>7. StageOKFor(r)' BY <1>1, <1>2, <1>3, <2>2 DEF RunOK, StageOKFor, BeforePCs, EndingPCs
  <2>8. AnnouncedOKFor(r)'
    <3> DEFINE x == [seq |-> e.seq, type |-> e.type]
    <3>1. x.type \notin TerminalEvents BY <1>1, <2>2 DEF RunOK, AnnouncedOKFor, EndingPCs
    <3>2. log'[r] = log[r] \cup {x} BY <2>1
    <3> HIDE DEF x
    <3>3. Ends(r)' = Ends(r) BY <3>1, <3>2 DEF Ends
    <3> QED BY <1>1, <1>3, <2>2, <2>3, <3>3 DEF RunOK, AnnouncedOKFor, EndingPCs
  <2>9. CancelOKFor(r)' BY <1>1, <1>3, <2>1, <2>3 DEF RunOK, CancelOKFor
  <2> QED BY <2>4, <2>5, <2>6, <2>7, <2>8, <2>9 DEF RunOK
<1> QED BY <1>4, <1>5, <1>6 DEF Settled, Removed, Ended, EndingPCs

\* A status reaches the store, and the event that says so is on its way.
LEMMA WriteInOrder ==
    ASSUME Ordered, NEW r \in Runs, Write(r)
    PROVE  RunOK(r)'
<1> USE DEF Ordered
<1>1. RunOK(r) BY DEF ContractOK, ThreadsOK, SendingOK, StagesOK, AnnouncementsOK, RunOK
<1>2. writes[r] # <<>> BY DEF Write
<1>3. CASE pc[r] \in PersistPCs
  <2> DEFINE new == [by |-> "run", seq |-> nextSeq[r] + 1, type |-> EventAfter[pc[r]]]
  <2>1. writes[r] = <<[by |-> "run", status |-> mem[r]]>> BY <1>1, <1>3 DEF RunOK, WritesFor
  <2>2. cpc[r] = "idle" /\ ~Speaking(r)
    BY <1>1, <1>3 DEF RunOK, ThreadOKFor, Working, PersistPCs, ActivePCs
  <2>3. emitting[r] = {} BY <1>3, <2>2, NothingEmitted DEF PersistPCs
  <2>4. /\ stored'[r] = mem[r] /\ writes'[r] = <<>> /\ pc'[r] = After[pc[r]]
        /\ UNCHANGED <<mem, signal, queued, cpc, draining, node>>
    BY <2>1, RunTypes DEF Write, Goto
  <2>5. log'[r] = log[r] /\ emitting'[r] = {new}
    BY <2>1, <2>3, RunTypes DEF Write, Emit
  <2>6. new.by = "run" /\ new.type = EventAfter[pc[r]] OBVIOUS
  <2> HIDE DEF new
  <2>7. ThreadOKFor(r)' BY <2>2, <2>4, <2>5, <2>6 DEF ThreadOKFor, Speaking, LinkIdle
  <2>8. EmissionsOKFor(r)' BY <1>3, <2>4, <2>5, <2>6 DEF EmissionsOKFor, After, PersistPCs
  <2>9. writes'[r] = WritesFor(r)' BY <1>3, <2>2, <2>4 DEF WritesFor, PersistPCs, After
  <2>10. StageOKFor(r)'
    BY <1>1, <1>3, <2>2, <2>4
    DEF RunOK, StageOKFor, BeforePCs, EndingPCs, PersistPCs, After, Terminal, Contract!Terminal
  <2>11. AnnouncedOKFor(r)'
    BY <1>1, <1>3, <2>4, <2>5, <2>6
    DEF RunOK, StageOKFor, AnnouncedOKFor, EndingPCs, PersistPCs, After, Ends, EndType, EventAfter
  <2>12. CancelOKFor(r)'
    BY <1>1, <1>3, <2>4, <2>5, <2>6 DEF RunOK, StageOKFor, CancelOKFor, PersistPCs, EventAfter
  <2> QED BY <2>7, <2>8, <2>9, <2>10, <2>11, <2>12 DEF RunOK
<1>4. CASE pc[r] \notin PersistPCs
  <2> DEFINE new == [by |-> "cancel", seq |-> nextSeq[r] + 1, type |-> "run.cancelling"]
  <2>1. cpc[r] = "writing" /\ writes[r] = <<[by |-> "cancel", status |-> "cancelling"]>>
    BY <1>1, <1>2, <1>4 DEF RunOK, WritesFor
  <2>2. pc[r] = "executing" /\ ~Speaking(r) BY <1>1, <2>1 DEF RunOK, ThreadOKFor, StageOKFor
  <2>3. emitting[r] = {} BY <2>1, <2>2, NothingEmitted
  <2>4. /\ stored'[r] = "cancelling" /\ writes'[r] = <<>> /\ pc'[r] = "executing"
        /\ cpc'[r] = "announcing"
        /\ UNCHANGED <<mem, signal, queued, draining, node>>
    BY <2>1, <2>2, RunTypes DEF Write
  <2>5. log'[r] = log[r] /\ emitting'[r] = {new}
    BY <2>1, <2>3, RunTypes DEF Write, Emit
  <2>6. new.by = "cancel" /\ new.type = "run.cancelling" OBVIOUS
  <2> HIDE DEF new
  <2>7. ThreadOKFor(r)' BY <2>2, <2>4, <2>5, <2>6 DEF ThreadOKFor, Speaking, LinkIdle, Working, ActivePCs
  <2>8. EmissionsOKFor(r)' BY <2>4, <2>5, <2>6 DEF EmissionsOKFor
  <2>9. writes'[r] = WritesFor(r)' BY <2>4 DEF WritesFor, PersistPCs
  <2>10. StageOKFor(r)' BY <1>1, <2>1, <2>2, <2>4 DEF RunOK, StageOKFor, BeforePCs, EndingPCs
  <2>11. AnnouncedOKFor(r)' BY <2>4 DEF AnnouncedOKFor, EndingPCs
  <2>12. CancelOKFor(r)' BY <2>4 DEF CancelOKFor
  <2> QED BY <2>7, <2>8, <2>9, <2>10, <2>11, <2>12 DEF RunOK
<1> QED BY <1>3, <1>4

\* Somebody cancels the Run.
LEMMA CancelInOrder ==
    ASSUME Ordered, NEW r \in Runs, Cancel(r) \/ CancelRead(r) \/ CancelReturns(r)
    PROVE  RunOK(r)'
<1> USE DEF Ordered
<1>1. RunOK(r) BY DEF ContractOK, ThreadsOK, SendingOK, StagesOK, AnnouncementsOK, RunOK
<1>2. pc' = pc /\ UNCHANGED <<node, draining, queued, outcome, stored>>
  BY DEF Cancel, CancelRead, CancelReturns, Persist
<1>3. CASE Cancel(r)
  <2>1. /\ cpc[r] = "idle" /\ emitting[r] = {} /\ ~Speaking(r) /\ ~Working(r)
        /\ ~BetweenStoreCalls(r) /\ UNCHANGED eventVars
    BY <1>3, CallIsQuiet DEF Cancel
  <2>2. ThreadOKFor(r)' BY <1>2, <2>1 DEF ThreadOKFor, Working, Speaking, LinkIdle
  <2>3. EmissionsOKFor(r)' BY <2>1 DEF EmissionsOKFor
  <2>4. AnnouncedOKFor(r)' BY <1>1, <1>2, <2>1 DEF RunOK, AnnouncedOKFor, Ends
  <2>5. CancelOKFor(r)' BY <1>1, <1>2, <2>1 DEF RunOK, CancelOKFor
  <2>6. CASE r \in active
    <3>1. active = Executing /\ SignalsOK BY DEF AccountsOK, NothingLeaks
    <3>2. pc[r] = "executing" /\ signal[r] \in {"live", "aborted"}
      BY <2>1, <2>6, <3>1, RunTypes DEF Executing, BetweenStoreCalls, ActivePCs, SignalsOK, Signals
    <3>3. /\ mem'[r] = "cancelling" /\ cpc'[r] = "writing" /\ signal'[r] = "aborted"
          /\ writes'[r] = Append(writes[r], [by |-> "cancel", status |-> "cancelling"])
      BY <1>3, <2>6, <3>2, RunTypes DEF Cancel, Abort, Persist
    <3>4. writes[r] = <<>> BY <1>1, <2>1, <3>2 DEF RunOK, WritesFor, PersistPCs
    <3>5. writes'[r] = WritesFor(r)' BY <1>2, <3>2, <3>3, <3>4 DEF WritesFor, PersistPCs
    <3>6. StageOKFor(r)'
      BY <1>1, <1>2, <2>1, <3>2, <3>3 DEF RunOK, StageOKFor, BeforePCs, EndingPCs
    <3> QED BY <2>2, <2>3, <2>4, <2>5, <3>5, <3>6 DEF RunOK
  <2>7. CASE r \notin active
    <3>1. pc[r] \notin ActivePCs BY <2>7, RunTypes DEF AccountsOK, NothingLeaks, Executing
    <3>2. stored[r] # "none" /\ cpc'[r] = "reading" /\ UNCHANGED <<mem, signal, stateVars>>
      BY <1>3, <2>7, RunTypes DEF Cancel
    <3>3. pc[r] \in EndingPCs \cup {"done", "gone"}
      BY <1>1, <2>1, <3>1, <3>2, RunTypes
      DEF RunOK, StageOKFor, BeforePCs, PCs, CreatePCs, AtRestPCs, Working
    <3>4. stored[r] \in Terminal
      BY <1>1, <3>2, <3>3, RunTypes
      DEF RunOK, StageOKFor, Contract!Statuses, Unfinished, Terminal
    <3>5. writes'[r] = WritesFor(r)'
      BY <1>1, <1>2, <2>1, <3>2, <3>3 DEF RunOK, WritesFor, PersistPCs, EndingPCs
    <3>6. StageOKFor(r)' BY <1>1, <1>2, <3>2, <3>3, <3>4 DEF RunOK, StageOKFor, BeforePCs, EndingPCs
    <3> QED BY <2>2, <2>3, <2>4, <2>5, <3>5, <3>6 DEF RunOK
  <2> QED BY <2>6, <2>7
<1>4. CASE CancelRead(r)
  <2>1. cpc[r] = "reading" /\ stored[r] \in Terminal /\ ~Working(r) /\ ~Speaking(r)
    BY <1>1, <1>4 DEF CancelRead, RunOK, StageOKFor, ThreadOKFor
  <2>2. stored[r] \notin Unfinished
    BY <2>1 DEF Terminal, Unfinished, Contract!Terminal, Contract!Unfinished
  <2>3. cpc'[r] = "idle" /\ UNCHANGED <<mem, signal, writes, eventVars>>
    BY <1>4, <2>2, RunTypes DEF CancelRead
  <2>4. ThreadOKFor(r)' BY <1>2, <2>1, <2>3 DEF ThreadOKFor, Working, Speaking, LinkIdle
  <2>5. EmissionsOKFor(r)' BY <1>1, <1>2, <2>1, <2>3 DEF RunOK, EmissionsOKFor
  <2>6. writes'[r] = WritesFor(r)' BY <1>1, <1>2, <2>1, <2>3 DEF RunOK, WritesFor
  <2>7. StageOKFor(r)' BY <1>1, <1>2, <2>1, <2>3 DEF RunOK, StageOKFor
  <2>8. AnnouncedOKFor(r)' BY <1>1, <1>2, <2>3 DEF RunOK, AnnouncedOKFor, Ends
  <2>9. CancelOKFor(r)' BY <1>1, <1>2, <2>3 DEF RunOK, CancelOKFor
  <2> QED BY <2>4, <2>5, <2>6, <2>7, <2>8, <2>9 DEF RunOK
<1>5. CASE CancelReturns(r)
  <2>1. PICK e \in emitting[r] :
          /\ log'[r] = log[r] \cup {[seq |-> e.seq, type |-> e.type]}
          /\ emitting'[r] = emitting[r] \ {e}
    BY <1>5, RunTypes, NoFailures DEF CancelReturns, Appended, NotAppended
  <2>2. cpc[r] = "announcing" /\ cpc'[r] = "idle" /\ UNCHANGED <<mem, signal, writes>>
    BY <1>5, RunTypes DEF CancelReturns
  <2>3. emitting'[r] = {} BY <1>1, <2>1 DEF RunOK, EmissionsOKFor
  <2>4. pc[r] = "executing" /\ ~Speaking(r) BY <1>1, <2>2 DEF RunOK, StageOKFor, ThreadOKFor
  <2>5. ThreadOKFor(r)' BY <1>2, <2>2, <2>3, <2>4 DEF ThreadOKFor, Working, Speaking, LinkIdle
  <2>6. EmissionsOKFor(r)' BY <2>3 DEF EmissionsOKFor
  <2>7. writes'[r] = WritesFor(r)' BY <1>1, <1>2, <2>2, <2>4 DEF RunOK, WritesFor
  <2>8. StageOKFor(r)' BY <1>1, <1>2, <2>2, <2>4 DEF RunOK, StageOKFor, BeforePCs, EndingPCs
  <2>9. AnnouncedOKFor(r)' BY <1>2, <2>4 DEF AnnouncedOKFor, EndingPCs
  <2>10. CancelOKFor(r)' BY <1>1, <1>2, <2>1 DEF RunOK, CancelOKFor
  <2> QED BY <2>5, <2>6, <2>7, <2>8, <2>9, <2>10 DEF RunOK
<1> QED BY <1>3, <1>4, <1>5

-----------------------------------------------------------------------------
(* The process, and the invariant *)

\* Where every Run is in order and at most one is at work, the invariant holds.
LEMMA FromRuns ==
    ASSUME \A r \in Runs : RunOK(r), RecoveryOK,
           \A q, r \in Runs : BetweenStoreCalls(q) /\ BetweenStoreCalls(r) => q = r
    PROVE  ContractOK
BY DEF ContractOK, ThreadsOK, SendingOK, StagesOK, AnnouncementsOK, RunOK

\* A shutdown begins while every handler is quiet.
LEMMA ShutdownInOrder ==
    ASSUME IInv1, ContractOK, Reliable, Shutdown
    PROVE  ContractOK'
<1>1. Call /\ node = "up" /\ node' = node /\ toRecover' = toRecover /\ draining' = TRUE
      /\ UNCHANGED <<pc, mem, outcome, queued, eventVars, stateVars, cpc>>
  BY DEF Shutdown, Call
<1>2. ASSUME NEW r \in Runs PROVE RunOK(r)' /\ ~BetweenStoreCalls(r)'
  <2>1. RunOK(r) BY DEF ContractOK, ThreadsOK, SendingOK, StagesOK, AnnouncementsOK, RunOK
  <2>2. /\ ~BetweenStoreCalls(r) /\ cpc[r] = "idle" /\ emitting[r] = {}
    BY <1>1, CallIsQuiet
  <2>3. signal'[r] = IF signal[r] = "live" THEN "aborted" ELSE signal[r] BY DEF Shutdown
  <2>4. ThreadOKFor(r)' BY <1>1, <2>1 DEF RunOK, ThreadOKFor, Working, Speaking, LinkIdle
  <2>5. EmissionsOKFor(r)' /\ writes'[r] = WritesFor(r)'
    BY <1>1, <2>1 DEF RunOK, EmissionsOKFor, WritesFor
  <2>6. StageOKFor(r)' BY <1>1, <2>1, <2>3 DEF RunOK, StageOKFor
  <2>7. AnnouncedOKFor(r)' /\ CancelOKFor(r)'
    BY <1>1, <2>1 DEF RunOK, AnnouncedOKFor, CancelOKFor, Ends
  <2>8. ~BetweenStoreCalls(r)' BY <1>1, <2>2 DEF BetweenStoreCalls
  <2> QED BY <2>4, <2>5, <2>6, <2>7, <2>8 DEF RunOK
<1>3. RecoveryOK' BY <1>1 DEF RecoveryOK
<1> QED BY <1>2, <1>3 DEF ContractOK, ThreadsOK, SendingOK, StagesOK, AnnouncementsOK, RunOK

\* A process that ends leaves what the store holds.
LEMMA LoseMemoryInOrder ==
    ASSUME ContractOK, NEW end \in {"stopped", "crashed"}, LoseMemory(end)
    PROVE  ContractOK'
<1>1. ASSUME NEW r \in Runs PROVE RunOK(r)' /\ ~BetweenStoreCalls(r)'
  <2>1. RunOK(r) BY DEF ContractOK, ThreadsOK, SendingOK, StagesOK, AnnouncementsOK, RunOK
  <2>2. /\ pc'[r] = IF pc[r] \in AtRestPCs THEN pc[r] ELSE "gone"
        /\ queued'[r] = 0 /\ emitting'[r] = {} /\ writes'[r] = <<>> /\ cpc'[r] = "idle"
        /\ stored' = stored /\ log' = log /\ node' # "up"
    BY DEF LoseMemory
  <2>3. pc'[r] \in {"new", "refusedByNode", "refusedByAgent", "rejected", "done", "gone"}
        /\ (pc'[r] # "gone" => pc'[r] = pc[r])
    BY <2>2 DEF AtRestPCs
  <2>4. ThreadOKFor(r)' BY <2>2, <2>3 DEF ThreadOKFor, Speaking, LinkIdle
  <2>5. EmissionsOKFor(r)' /\ writes'[r] = WritesFor(r)'
    BY <2>2, <2>3 DEF EmissionsOKFor, WritesFor, PersistPCs
  <2>6. StageOKFor(r)' BY <2>1, <2>2, <2>3 DEF RunOK, StageOKFor, BeforePCs, EndingPCs
  <2>7. AnnouncedOKFor(r)' BY <2>1, <2>2, <2>3 DEF RunOK, AnnouncedOKFor, EndingPCs, Ends
  <2>8. CancelOKFor(r)' BY <2>1, <2>2 DEF RunOK, CancelOKFor
  <2>9. ~BetweenStoreCalls(r)' BY <2>2, <2>3 DEF BetweenStoreCalls, ActivePCs
  <2> QED BY <2>4, <2>5, <2>6, <2>7, <2>8, <2>9 DEF RunOK
<1>2. RecoveryOK' BY DEF LoseMemory, RecoveryOK
<1> QED BY <1>1, <1>2 DEF ContractOK, ThreadsOK, SendingOK, StagesOK, AnnouncementsOK, RunOK

\* A process that starts finds what is open, and serves when nothing is.
LEMMA StartInOrder ==
    ASSUME IInv1, EventsOK, ContractOK, Restart \/ Serve
    PROVE  ContractOK'
<1>1. UNCHANGED <<draining, runVars, log, emitting, stateVars, cpc>> BY DEF Restart, Serve
<1>2. ThreadsOK' BY <1>1 DEF ContractOK, ThreadsOK, ThreadOKFor, BetweenStoreCalls, Working, Speaking, LinkIdle
<1>3. SendingOK' BY <1>1 DEF ContractOK, SendingOK, EmissionsOKFor, WritesFor
<1>4. AnnouncementsOK' BY <1>1 DEF ContractOK, AnnouncementsOK, AnnouncedOKFor, CancelOKFor, Ends
<1>5. StagesOK'
  <2>1. CASE Restart BY <1>1, <2>1 DEF Restart, ContractOK, StagesOK, StageOKFor
  <2>2. CASE Serve
    <3>1. \A r \in Runs : stored[r] \notin Unfinished BY <2>2 DEF Serve, ContractOK, RecoveryOK
    <3> QED BY <1>1, <3>1 DEF ContractOK, StagesOK, StageOKFor
  <2> QED BY <2>1, <2>2
<1>6. RecoveryOK'
  <2>1. CASE Restart
    BY <1>1, <2>1 DEF Restart, RecoveryOK, Interrupted, EventsOK, PlaceOK, BootOK
  <2>2. CASE Serve BY <2>2 DEF Serve, RecoveryOK
  <2> QED BY <2>1, <2>2
<1> QED BY <1>2, <1>3, <1>4, <1>5, <1>6 DEF ContractOK

\* Recovery closes one Run.
LEMMA RecoverInOrder ==
    ASSUME IInv1, EventsOK, ContractOK, NEW r \in Runs, Recover(r)
    PROVE  ContractOK'
<1> DEFINE new == [by |-> "boot", seq |-> nextSeq[r] + 1, type |-> "run.failed"]
<1>1. /\ node = "booting" /\ stored[r] \in Unfinished /\ \A q \in Runs : emitting[q] = {}
      /\ UNCHANGED <<node, draining, toRecover, runVars, log, writes, cpc>>
  BY DEF Recover, Emit, ContractOK, RecoveryOK
<1>2. \A q \in Runs : /\ stored'[q] = IF q = r THEN "failed" ELSE stored[q]
                      /\ emitting'[q] = IF q = r THEN {new} ELSE {}
  BY <1>1, RunTypes DEF Recover, Emit
<1>3. new.by = "boot" /\ new.type = "run.failed" OBVIOUS
<1> HIDE DEF new
<1>4. \A q \in Runs : /\ pc[q] \in AtRestPCs /\ cpc[q] = "idle" /\ queued[q] = 0 /\ writes[q] = <<>>
  BY <1>1 DEF EventsOK, PlaceOK, AsleepOK
<1>5. pc[r] = "gone"
  BY <1>1, <1>4 DEF AtRestPCs, BeforePCs, ContractOK, StagesOK, StageOKFor, Unfinished, Terminal,
                    Contract!Unfinished, Contract!Terminal
<1>6. ThreadsOK'
  BY <1>1, <1>2, <1>3, <1>4 DEF ThreadsOK, ThreadOKFor, BetweenStoreCalls, Working, Speaking, LinkIdle,
                                AtRestPCs, ActivePCs
<1>7. SendingOK' BY <1>1, <1>2, <1>3 DEF ContractOK, SendingOK, EmissionsOKFor, WritesFor
<1>8. StagesOK'
  <2> SUFFICES ASSUME NEW q \in Runs PROVE StageOKFor(q)' BY DEF StagesOK
  <2>1. StageOKFor(q) BY DEF ContractOK, StagesOK
  <2>2. CASE q = r BY <1>1, <1>2, <1>4, <1>5, <2>2 DEF StageOKFor, BeforePCs, EndingPCs
  <2>3. CASE q # r BY <1>1, <1>2, <2>1, <2>3 DEF StageOKFor
  <2> QED BY <2>2, <2>3
<1>9. RecoveryOK' BY <1>1, <1>2, <1>3 DEF ContractOK, RecoveryOK, Unfinished, Contract!Unfinished
<1>10. AnnouncementsOK'
  <2> SUFFICES ASSUME NEW q \in Runs PROVE AnnouncedOKFor(q)' /\ CancelOKFor(q)' BY DEF AnnouncementsOK
  <2>1. AnnouncedOKFor(q) /\ CancelOKFor(q) BY DEF ContractOK, AnnouncementsOK
  <2>2. CASE q = r BY <1>1, <1>2, <1>5, <2>2 DEF AnnouncedOKFor, CancelOKFor, EndingPCs
  <2>3. CASE q # r BY <1>1, <1>2, <2>1, <2>3 DEF AnnouncedOKFor, CancelOKFor, Ends
  <2> QED BY <2>2, <2>3
<1> QED BY <1>6, <1>7, <1>8, <1>9, <1>10 DEF ContractOK

\* The event of a recovered Run is stored.
LEMMA RecoveredInOrder ==
    ASSUME IInv1, EventsOK, ContractOK, NEW r \in Runs, Recovered(r)
    PROVE  ContractOK'
<1>1. PICK e \in emitting[r] :
        /\ e.by = "boot"
        /\ log' = [log EXCEPT ![r] = @ \cup {[seq |-> e.seq, type |-> e.type]}]
        /\ emitting' = [emitting EXCEPT ![r] = @ \ {e}]
  BY DEF Recovered, Appended
<1> DEFINE x == [seq |-> e.seq, type |-> e.type]
<1>2. UNCHANGED <<node, draining, runVars, stateVars, cpc>> /\ toRecover' = toRecover \ {r}
  BY DEF Recovered
<1>3. \A q \in Runs : /\ log'[q] = IF q = r THEN log[q] \cup {x} ELSE log[q]
                      /\ emitting'[q] = IF q = r THEN emitting[q] \ {e} ELSE emitting[q]
  BY <1>1, RunTypes
<1>4. x.type = e.type OBVIOUS
<1> HIDE DEF x
<1>5. ThreadsOK'
  BY <1>2, <1>3 DEF ContractOK, ThreadsOK, ThreadOKFor, BetweenStoreCalls, Working, Speaking, LinkIdle
<1>6. SendingOK'
  <2>1. \A q \in Runs : emitting'[q] \subseteq emitting[q] BY <1>3
  <2>2. \A q \in Runs : EmissionsOKFor(q)' BY <1>2, <2>1 DEF ContractOK, SendingOK, EmissionsOKFor
  <2>3. \A q \in Runs : writes'[q] = WritesFor(q)' BY <1>2 DEF ContractOK, SendingOK, WritesFor
  <2> QED BY <2>2, <2>3 DEF SendingOK
<1>7. StagesOK' BY <1>2 DEF ContractOK, StagesOK, StageOKFor
<1>8. RecoveryOK' BY <1>2, <1>3 DEF ContractOK, RecoveryOK
<1>9. AnnouncementsOK'
  <2> SUFFICES ASSUME NEW q \in Runs PROVE AnnouncedOKFor(q)' /\ CancelOKFor(q)' BY DEF AnnouncementsOK
  <2>1. AnnouncedOKFor(q) /\ CancelOKFor(q) BY DEF ContractOK, AnnouncementsOK
  <2>2. CASE q = r
    <3>1. pc[r] \in AtRestPCs
      BY <1>1 DEF EventsOK, PlaceOK, AsleepOK, BootOK
    <3>2. CancelOKFor(q)' BY <1>1, <1>2, <1>3, <1>4, <2>1, <2>2 DEF CancelOKFor
    <3>3. CASE pc[r] = "done"
      <4>1. x.type \notin TerminalEvents BY <1>1, <1>4, <2>1, <2>2, <3>3 DEF AnnouncedOKFor
      <4>2. Ends(r)' = Ends(r) BY <1>3, <4>1 DEF Ends
      <4> QED BY <1>2, <1>3, <2>1, <2>2, <3>2, <3>3, <4>2 DEF AnnouncedOKFor, EndingPCs
    <3>4. CASE pc[r] # "done"
      BY <1>2, <2>2, <3>1, <3>2, <3>4 DEF AnnouncedOKFor, EndingPCs, AtRestPCs
    <3> QED BY <3>3, <3>4
  <2>3. CASE q # r BY <1>2, <1>3, <2>1, <2>3 DEF AnnouncedOKFor, CancelOKFor, Ends
  <2> QED BY <2>2, <2>3
<1> QED BY <1>5, <1>6, <1>7, <1>8, <1>9 DEF ContractOK

\* The steps of a reliable store while the Node is up, and those of the process.
LEMMA ReliableSteps ==
    ASSUME IInv1, EventsOK, ContractOK, Reliable, Next
    PROVE  \/ node = "up" /\ \E r \in Runs : RunStep(r)
           \/ node = "up" /\ Shutdown
           \/ node # "up" /\ (Restart \/ Serve \/ \E r \in Runs : Recover(r) \/ Recovered(r))
           \/ \E end \in {"stopped", "crashed"} : LoseMemory(end)
<1>1. AsleepOK /\ BootOK BY DEF EventsOK, PlaceOK
<1>2. CASE node # "up" BY <1>1, <1>2, AsleepSteps
<1>3. CASE node = "up"
  <2>1. ~StoreFails BY NoFailures
  <2>2. ASSUME NEW r \in Runs,
               \/ Create(r) \/ Refuse(r) \/ CreateStep(r) \/ EngineEvent(r) \/ EngineEnd(r)
               \/ (ExecuteStep(r) /\ ~UnhandledEnd(r)) \/ StoreStep(r) \/ Cancel(r) \/ CancelStep(r)
        PROVE  RunStep(r)
    BY <2>1, <2>2
    DEF RunStep, CreateStep, ExecuteStep, StoreStep, CancelStep, RecordFails, AnnounceFails,
        AnnouncedFails, LinkFails, NotAppended, WriteFails
  <2>3. \A r \in Runs : UnhandledEnd(r) => LoseMemory("crashed") BY DEF UnhandledEnd
  <2> QED BY <1>1, <1>3, <2>2, <2>3, UpSteps
<1> QED BY <1>2, <1>3

\* A step of a Run keeps it in order.
LEMMA RunInOrder ==
    ASSUME Ordered, NEW r \in Runs, RunStep(r)
    PROVE  RunOK(r)'
BY CreateInOrder, RecordInOrder, EngineInOrder, VerdictInOrder, AnnouncedInOrder, EndInOrder,
   WriteInOrder, CancelInOrder DEF RunStep

\* Every step keeps everything in order.
LEMMA StepContract ==
    IInv1 /\ AccountsOK /\ EventsOK /\ ContractOK /\ Reliable /\ [Next]_vars => ContractOK'
<1> SUFFICES ASSUME IInv1, AccountsOK, EventsOK, ContractOK, Reliable, [Next]_vars
             PROVE  ContractOK'
  OBVIOUS
<1>1. CASE UNCHANGED vars
  <2> USE <1>1 DEF vars
  <2>1. ThreadsOK' BY DEF ContractOK, ThreadsOK, ThreadOKFor, BetweenStoreCalls, Working, Speaking, LinkIdle
  <2>2. SendingOK' BY DEF ContractOK, SendingOK, EmissionsOKFor, WritesFor
  <2>3. StagesOK' BY DEF ContractOK, StagesOK, StageOKFor
  <2>4. RecoveryOK' BY DEF ContractOK, RecoveryOK
  <2>5. AnnouncementsOK' BY DEF ContractOK, AnnouncementsOK, AnnouncedOKFor, CancelOKFor, Ends
  <2> QED BY <2>1, <2>2, <2>3, <2>4, <2>5 DEF ContractOK
<1>2. CASE Next
  <2>1. ASSUME node = "up", NEW r \in Runs, RunStep(r) PROVE ContractOK'
    <3>1. RunOK(r)' BY <2>1, RunInOrder DEF Ordered
    <3> QED BY <2>1, <3>1, OthersKept DEF EventsOK, PlaceOK
  <2> QED BY <1>2, <2>1, ReliableSteps, ShutdownInOrder, LoseMemoryInOrder, StartInOrder,
             RecoverInOrder, RecoveredInOrder
<1> QED BY <1>1, <1>2

\* The first process begins with nothing under way.
LEMMA InitContract == Init => ContractOK
<1> SUFFICES ASSUME Init PROVE ContractOK OBVIOUS
<1> USE DEF Init
<1>1. ThreadsOK BY DEF ThreadsOK, ThreadOKFor, BetweenStoreCalls, Working, Speaking, LinkIdle, ActivePCs
<1>2. SendingOK BY DEF SendingOK, EmissionsOKFor, WritesFor, PersistPCs
<1>3. StagesOK BY DEF StagesOK, StageOKFor, BeforePCs, EndingPCs
<1>4. RecoveryOK BY DEF RecoveryOK, Unfinished, Contract!Unfinished
<1>5. AnnouncementsOK BY DEF AnnouncementsOK, AnnouncedOKFor, CancelOKFor, EndingPCs
<1> QED BY <1>1, <1>2, <1>3, <1>4, <1>5 DEF ContractOK

\* All that is known of every reachable state, whatever the store is.
Accounted == IInv1 /\ AccountsOK /\ EventsOK

LEMMA AccountedInvariant == Spec => []Accounted
<1>1. Spec => []IInv1
  <2>1. Init => IInv1 BY InitTypes
  <2>2. IInv1 /\ [Next]_vars => IInv1' BY StepTypes
  <2> QED BY <2>1, <2>2, PTL DEF Spec
<1>2. Accounted <=> IInv1 /\ AccountsOK /\ EventsOK BY DEF Accounted
<1> QED BY <1>1, <1>2, AccountsInvariant, EventsInvariant, PTL

\* With a reliable store everything stays in order.
LEMMA ContractInvariant == Reliable => (Spec => []ContractOK)
<1> SUFFICES ASSUME Reliable PROVE Spec => []ContractOK OBVIOUS
<1>1. Init => ContractOK BY InitContract
<1>2. Accounted /\ ContractOK /\ [Next]_vars => ContractOK' BY StepContract DEF Accounted
<1> QED BY <1>1, <1>2, AccountedInvariant, PTL DEF Spec

-----------------------------------------------------------------------------
(* RunLifecycle implements RunContract *)

USE DEF Contract!contractVars

\* While the Node is up, what is open in the store is under way in memory.
LEMMA OpenIsUnderWay ==
    ASSUME IInv1, ContractOK, node = "up", NEW r \in Runs, stored[r] \in Unfinished
    PROVE  pc[r] \in {"announcing"} \cup ActivePCs
<1>1. StageOKFor(r) BY DEF ContractOK, StagesOK
<1>2. pc[r] \in PCs BY RunTypes
<1>3. stored[r] # "none" /\ stored[r] \notin Terminal
  BY DEF Unfinished, Terminal, Contract!Unfinished, Contract!Terminal
<1> QED BY <1>1, <1>2, <1>3 DEF StageOKFor, PCs, CreatePCs, AtRestPCs, BeforePCs

\* A Run that is about to be recorded is one the Node has room for.
LEMMA RoomForOneMore ==
    ASSUME IInv1, AccountsOK, ContractOK, node = "up", NEW r \in Runs, pc[r] = "recording"
    PROVE  Cardinality(Contract!UnfinishedRuns) < MaxConcurrentRuns
<1>1. stored[r] = "none" BY DEF ContractOK, StagesOK, StageOKFor, BeforePCs
<1>2. r \in InFlight BY DEF InFlight, Creating, CreatePCs
<1>3. Contract!UnfinishedRuns \subseteq InFlight \ {r}
  <2> SUFFICES ASSUME NEW q \in Contract!UnfinishedRuns PROVE q \in InFlight \ {r} OBVIOUS
  <2>1. q \in Runs /\ stored[q] \in Unfinished BY DEF Contract!UnfinishedRuns, Unfinished
  <2>2. pc[q] \in {"announcing"} \cup ActivePCs BY <2>1, OpenIsUnderWay
  <2>3. q \in InFlight BY <2>1, <2>2 DEF InFlight, Creating, Executing, CreatePCs
  <2>4. q # r BY <1>1, <2>1 DEF Unfinished, Contract!Unfinished
  <2> QED BY <2>3, <2>4
<1>4. IsFiniteSet(InFlight) /\ Cardinality(InFlight) <= MaxConcurrentRuns
  BY DEF AccountsOK, CapacityRespected
<1>5. /\ IsFiniteSet(InFlight \ {r})
      /\ Cardinality(InFlight \ {r}) = Cardinality(InFlight) - 1
      /\ Cardinality(InFlight) \in Nat /\ Cardinality(InFlight \ {r}) \in Nat
  BY <1>2, <1>4, FS_RemoveElement, FS_CardinalityType
<1>6. /\ Cardinality(Contract!UnfinishedRuns) <= Cardinality(InFlight \ {r})
      /\ Cardinality(Contract!UnfinishedRuns) \in Nat
  BY <1>3, <1>5, FS_Subset, FS_CardinalityType
<1> QED BY <1>4, <1>5, <1>6, LimitAssumption

\* What a status that reaches the store means to the contract.
LEMMA WriteRefines ==
    ASSUME Ordered, NEW r \in Runs, Write(r)
    PROVE  Contract!Next \/ UNCHANGED Contract!contractVars
<1> USE DEF Ordered
<1>1. RunOK(r) BY DEF ContractOK, ThreadsOK, SendingOK, StagesOK, AnnouncementsOK, RunOK
<1>2. /\ writes[r] # <<>> /\ stored' = [stored EXCEPT ![r] = Head(writes[r]).status]
      /\ UNCHANGED <<node, draining>>
  BY DEF Write
<1>3. CASE pc[r] \in PersistPCs
  <2>1. stored' = [stored EXCEPT ![r] = mem[r]]
    <3>1. writes[r] = <<[by |-> "run", status |-> mem[r]]>> BY <1>1, <1>3 DEF RunOK, WritesFor
    <3>2. Head(writes[r]).status = mem[r] BY <3>1
    <3> QED BY <1>2, <3>2
  <2>2. CASE pc[r] = "starting"
    <3>1. Contract!Start(r)
      BY <1>1, <1>2, <2>1, <2>2 DEF RunOK, StageOKFor, Contract!Start, Contract!Becomes
    <3> QED BY <3>1 DEF Contract!Next
  <2>3. CASE pc[r] = "completing"
    <3>1. Contract!Complete(r)
      BY <1>1, <1>2, <2>1, <2>3 DEF RunOK, StageOKFor, Contract!Complete, Contract!Becomes
    <3> QED BY <3>1 DEF Contract!Next
  <2>4. CASE pc[r] = "failing"
    <3>1. /\ mem[r] \in {"timed_out", "cancelled", "failed"} /\ stored[r] \in {"running", "cancelling"}
          /\ mem[r] = "failed" => stored[r] = "running"
          /\ mem[r] = "cancelled" => stored[r] = "cancelling" \/ draining
      BY <1>1, <2>4 DEF RunOK, StageOKFor
    <3>2. mem[r] = "failed" => Contract!Fail(r) BY <1>2, <2>1, <3>1 DEF Contract!Fail, Contract!Becomes
    <3>3. mem[r] = "timed_out" => Contract!Expire(r)
      BY <1>2, <2>1, <3>1 DEF Contract!Expire, Contract!Becomes
    <3>4. mem[r] = "cancelled" => Contract!Cancel(r)
      BY <1>2, <2>1, <3>1 DEF Contract!Cancel, Contract!Becomes
    <3> QED BY <3>1, <3>2, <3>3, <3>4 DEF Contract!Next
  <2> QED BY <1>3, <2>2, <2>3, <2>4 DEF PersistPCs
<1>4. CASE pc[r] \notin PersistPCs
  <2>1. cpc[r] = "writing" /\ stored' = [stored EXCEPT ![r] = "cancelling"]
    <3>1. cpc[r] = "writing" /\ writes[r] = <<[by |-> "cancel", status |-> "cancelling"]>>
      BY <1>1, <1>2, <1>4 DEF RunOK, WritesFor
    <3>2. Head(writes[r]).status = "cancelling" BY <3>1
    <3> QED BY <1>2, <3>1, <3>2
  <2>2. stored[r] \in {"running", "cancelling"} BY <1>1, <2>1 DEF RunOK, StageOKFor
  <2>3. CASE stored[r] = "running"
    <3>1. Contract!RequestCancel(r) BY <1>2, <2>1, <2>3 DEF Contract!RequestCancel, Contract!Becomes
    <3> QED BY <3>1 DEF Contract!Next
  <2>4. CASE stored[r] = "cancelling"
    <3>1. stored' = stored BY <2>1, <2>4, RunTypes
    <3> QED BY <1>2, <3>1
  <2> QED BY <2>2, <2>3, <2>4
<1> QED BY <1>3, <1>4

\* What a step of one Run means to the contract.
LEMMA RunRefines ==
    ASSUME Ordered, NEW r \in Runs, RunStep(r)
    PROVE  Contract!Next \/ UNCHANGED Contract!contractVars
<1>1. CASE Record(r)
  <2>1. /\ pc[r] = "recording" /\ stored' = [stored EXCEPT ![r] = mem[r]]
        /\ UNCHANGED <<node, draining>>
    BY <1>1 DEF Record
  <2>2. mem[r] = "queued" /\ stored[r] = "none"
    BY <2>1 DEF Ordered, ContractOK, StagesOK, StageOKFor, BeforePCs
  <2>3. node = "up" /\ Cardinality(Contract!UnfinishedRuns) < MaxConcurrentRuns
    BY <2>1, RoomForOneMore DEF Ordered
  <2>4. Contract!Becomes(r, {"none"}, "queued") BY <2>1, <2>2 DEF Contract!Becomes
  <2>5. Contract!Cardinality(Contract!UnfinishedRuns) = Cardinality(Contract!UnfinishedRuns)
    BY DEF Contract!Cardinality, Cardinality
  <2>6. Contract!Accept(r) BY <2>3, <2>4, <2>5 DEF Contract!Accept
  <2> QED BY <2>6 DEF Contract!Next
<1>2. CASE Write(r) BY <1>2, WriteRefines
<1>3. CASE ~Record(r) /\ ~Write(r)
  <2>1. UNCHANGED <<node, draining, stored>>
    BY <1>3 DEF RunStep, Create, Refuse, Acquire, AcquireFails, Prepare, Unwind, RejectCreate,
                Announce, Persist, EngineEvent, EngineEnd, LinkStart, LinkDone, Announced, Flushed,
                Settled, Removed, Ended, Reported, Cancel, CancelRead, CancelReturns
  <2> QED BY <2>1
<1> QED BY <1>1, <1>2, <1>3

\* What any step means to the contract.
LEMMA StepRefines ==
    Accounted /\ ContractOK /\ Reliable /\ [Next]_vars => [Contract!Next]_Contract!contractVars
<1> SUFFICES ASSUME Accounted, ContractOK, Reliable, [Next]_vars
             PROVE  Contract!Next \/ UNCHANGED Contract!contractVars
  OBVIOUS
<1> USE DEF Accounted
<1>1. CASE UNCHANGED vars BY <1>1 DEF vars
<1>2. CASE node = "up" /\ \E r \in Runs : RunStep(r) BY <1>2, RunRefines DEF Ordered
<1>3. CASE node = "up" /\ Shutdown
  <2>1. Contract!Drain BY <1>3 DEF Shutdown, Contract!Drain
  <2> QED BY <2>1 DEF Contract!Next
<1>4. ASSUME NEW end \in {"stopped", "crashed"}, LoseMemory(end)
      PROVE  Contract!Next
  <2>1. Contract!GoDown BY <1>4 DEF LoseMemory, Contract!GoDown
  <2> QED BY <2>1 DEF Contract!Next
<1>5. CASE Restart BY <1>5 DEF Restart
<1>6. CASE Serve
  <2>1. \A r \in Runs : stored[r] \notin Unfinished BY <1>6 DEF Serve, ContractOK, RecoveryOK
  <2>2. Contract!UnfinishedRuns = {} BY <2>1 DEF Contract!UnfinishedRuns, Unfinished
  <2>3. Contract!ComeUp BY <1>6, <2>2 DEF Serve, Contract!ComeUp
  <2> QED BY <2>3 DEF Contract!Next
<1>7. ASSUME NEW r \in Runs, Recover(r) PROVE Contract!Next
  <2>1. stored[r] \in Contract!Unfinished BY <1>7 DEF Recover, ContractOK, RecoveryOK, Unfinished
  <2>2. Contract!Interrupt(r) BY <1>7, <2>1 DEF Recover, Contract!Interrupt, Contract!Becomes
  <2> QED BY <2>2 DEF Contract!Next
<1>8. ASSUME NEW r \in Runs, Recovered(r) PROVE UNCHANGED Contract!contractVars
  BY <1>8 DEF Recovered
<1> QED BY <1>1, <1>2, <1>3, <1>4, <1>5, <1>6, <1>7, <1>8, ReliableSteps

\* The Runs in the store behave as RunContract promises.
THEOREM ContractIsKept == Reliable => (Spec => ContractHolds)
<1> SUFFICES ASSUME Reliable PROVE Spec => Contract!Spec BY DEF ContractHolds
<1>1. Init => Contract!Init BY DEF Init, Contract!Init
<1>2. Accounted /\ ContractOK /\ [Next]_vars => [Contract!Next]_Contract!contractVars BY StepRefines
<1> QED BY <1>1, <1>2, AccountedInvariant, ContractInvariant, PTL DEF Spec, Contract!Spec

\* Protocol, section 7: no arrow leaves the final states of a Run.
THEOREM FinalStaysFinal == Reliable => (Spec => TerminalIsFinal)
<1> SUFFICES ASSUME Reliable PROVE Spec => TerminalIsFinal OBVIOUS
<1>1. Accounted /\ [Contract!Next]_Contract!contractVars =>
         [\A r \in Runs : stored[r] \in Terminal => stored'[r] = stored[r]]_stored
  <2> SUFFICES ASSUME Accounted, Contract!Next, NEW r \in Runs, stored[r] \in Terminal
               PROVE  stored'[r] = stored[r]
    OBVIOUS
  <2>1. ASSUME NEW q \in Runs, NEW from \in SUBSET Contract!Statuses, NEW to,
               Contract!Becomes(q, from, to), from \cap Terminal = {}
        PROVE  stored'[r] = stored[r]
    BY <2>1, RunTypes DEF Contract!Becomes, Accounted
  <2>2. ASSUME NEW q \in Runs, NEW from, NEW to, Contract!Becomes(q, from, to),
               from \subseteq {"none", "queued", "running", "cancelling"}
        PROVE  stored'[r] = stored[r]
    BY <2>1, <2>2 DEF Terminal, Contract!Terminal, Contract!Statuses, Contract!Unfinished
  <2>3. Contract!Drain \/ Contract!GoDown \/ Contract!ComeUp => stored' = stored
    BY DEF Contract!Drain, Contract!GoDown, Contract!ComeUp
  <2>4. ASSUME NEW q \in Runs, Contract!Accept(q) \/ Contract!Start(q) \/ Contract!RequestCancel(q)
               \/ Contract!Complete(q) \/ Contract!Fail(q) \/ Contract!Expire(q)
        PROVE  stored'[r] = stored[r]
    BY <2>2, <2>4 DEF Contract!Accept, Contract!Start, Contract!RequestCancel, Contract!Complete,
                      Contract!Fail, Contract!Expire
  <2>5. ASSUME NEW q \in Runs, Contract!Cancel(q) \/ Contract!Interrupt(q)
        PROVE  stored'[r] = stored[r]
    <3>1. \E from \in SUBSET {"none", "queued", "running", "cancelling"} : \E to \in {"cancelled", "failed"} :
             Contract!Becomes(q, from, to)
      <4>1. CASE Contract!Cancel(q)
        BY <4>1 DEF Contract!Cancel
      <4>2. CASE Contract!Interrupt(q)
        BY <4>2 DEF Contract!Interrupt, Contract!Unfinished
      <4> QED BY <2>5, <4>1, <4>2
    <3> QED BY <2>2, <3>1
  <2> QED BY <2>3, <2>4, <2>5 DEF Contract!Next
<1> QED BY <1>1, AccountedInvariant, ContractIsKept, PTL
    DEF ContractHolds, Contract!Spec, TerminalIsFinal

\* A Run that has run to its end is terminal in the store, and exactly one
\* event, of the right type, said so.
THEOREM EndsAreAnnounced == Reliable => (Spec => []OutcomeAnnounced)
<1> SUFFICES ASSUME Reliable PROVE Spec => []OutcomeAnnounced OBVIOUS
<1>1. ContractOK => OutcomeAnnounced
  <2> SUFFICES ASSUME ContractOK, NEW r \in Runs, pc[r] = "done"
               PROVE  /\ stored[r] \in Terminal
                      /\ {e.type : e \in {d \in log[r] : d.type \in TerminalEvents}}
                           = {IF stored[r] = "completed" THEN "run.completed" ELSE "run.failed"}
                      /\ Cardinality({d \in log[r] : d.type \in TerminalEvents}) = 1
    BY DEF OutcomeAnnounced
  <2>1. stored[r] \in Terminal BY DEF ContractOK, StagesOK, StageOKFor
  <2>2. PICK x \in Ends(r) : Ends(r) = {x} /\ x.type = EndType(stored[r])
    BY DEF ContractOK, AnnouncementsOK, AnnouncedOKFor
  <2>3. Cardinality({x}) = 1 BY FS_Singleton
  <2> QED BY <2>1, <2>2, <2>3 DEF Ends, EndType
<1> QED BY <1>1, ContractInvariant, PTL

\* Once cancellation is announced the Run is never reported as completed.
THEOREM CancellationWins == Reliable => (Spec => []CancelWins)
<1> SUFFICES ASSUME Reliable PROVE Spec => []CancelWins OBVIOUS
<1>1. ContractOK => CancelWins BY DEF ContractOK, AnnouncementsOK, CancelOKFor, CancelWins
<1> QED BY <1>1, ContractInvariant, PTL

\* A shutdown that waited for the active Runs leaves no record open.
THEOREM ShutdownLeavesNothingOpen == Reliable => (Spec => CleanStop)
<1> SUFFICES ASSUME Reliable PROVE Spec => CleanStop OBVIOUS
<1>1. Accounted /\ ContractOK => (Stop /\ active = {} => \A r \in Runs : stored[r] \notin Unfinished)
  <2> SUFFICES ASSUME Accounted, ContractOK, Stop, active = {}, NEW r \in Runs, stored[r] \in Unfinished
               PROVE  FALSE
    OBVIOUS
  <2>1. Call /\ node = "up" BY DEF Stop, Call
  <2>2. pc[r] \in {"announcing"} \cup ActivePCs BY <2>1, OpenIsUnderWay DEF Accounted
  <2>3. ~Working(r) BY <2>1, CallIsQuiet DEF Accounted
  <2>4. r \in active BY <2>2, <2>3 DEF Working, Accounted, AccountsOK, NothingLeaks, Executing
  <2> QED BY <2>4
<1> QED BY <1>1, AccountedInvariant, ContractInvariant, PTL DEF CleanStop
=============================================================================
