-------------------------- MODULE RunLifecycleProofs --------------------------
(***************************************************************************)
(* RunLifecycle is type correct, and what it counts is what there is, for  *)
(* every set of Runs and Agents, every limit and every bound: slots,       *)
(* reservations, leases and directories are held exactly by the Runs that  *)
(* are under way, the limits of the settings hold, and a directory has one *)
(* Run at a time.                                                          *)
(*                                                                         *)
(* TypeOK alone is not inductive: the step that carries out a persist of   *)
(* execute reads from pc which event follows, so WritesOK must say that    *)
(* the owner of a persist stands at one, and owns no other.                *)
(*                                                                         *)
(* Nor are the limits: reserveRunSlot compares counters, so the counters   *)
(* must first be the number of Runs they stand for (NothingLeaks), which   *)
(* takes the sets they count to be finite.                                 *)
(***************************************************************************)
EXTENDS RunLifecycle, FiniteSetTheorems, TLAPS

\* Where execute awaits a persist.
PersistPCs == {"starting", "completing", "failing"}
\* At most one persist of execute is under way, and execute stands at it.
WritesOK ==
    \A r \in Runs : \A i \in DOMAIN writes[r] :
       writes[r][i].by = "run" =>
          /\ pc[r] \in PersistPCs
          /\ \A j \in DOMAIN writes[r] : writes[r][j].by = "run" => j = i

IInv1 == TypeOK /\ WritesOK

USE DEF processVars, slotVars, leaseVars, runVars, eventVars, stateVars, boundVars,
        createFrame, executeFrame

\* The parts of create and execute are made of places.
LEMMA PCTypes ==
    /\ CreatePCs \subseteq PCs /\ ActivePCs \subseteq PCs
    /\ EndingPCs \subseteq PCs /\ AtRestPCs \subseteq PCs
BY DEF PCs

\* A Node that starts for the first time holds nothing.
LEMMA InitTypes == Init => IInv1
<1> SUFFICES ASSUME Init PROVE IInv1 OBVIOUS
<1> USE DEF Init
<1>1. ProcessTypeOK /\ SlotTypeOK /\ BoundTypeOK BY DEF ProcessTypeOK, SlotTypeOK, BoundTypeOK
<1>2. LeaseTypeOK BY DEF LeaseTypeOK
<1>3. RunTypeOK BY DEF RunTypeOK, PCs, AtRestPCs, Contract!Statuses, Outcomes, Signals
<1>4. StateTypeOK BY DEF StateTypeOK, Contract!Statuses
<1>5. EventTypeOK BY DEF EventTypeOK
<1>6. WritesOK BY DEF WritesOK
<1> QED BY <1>1, <1>2, <1>3, <1>4, <1>5, <1>6 DEF IInv1, TypeOK, CancelPCs

\* Giving an event its number.
LEMMA EmitTypes ==
    ASSUME EventTypeOK, NEW r \in Runs, NEW by \in {"run", "engine", "cancel", "boot"},
           NEW type \in EventTypes, Emit(r, by, type)
    PROVE  EventTypeOK'
<1>1. nextSeq' \in [Runs -> Nat] BY DEF EventTypeOK, Emit
<1>2. [by |-> by, seq |-> nextSeq[r] + 1, type |-> type] \in Emissions
  BY DEF EventTypeOK, Emissions
<1> QED BY <1>1, <1>2 DEF EventTypeOK, Emit

\* Storing an event.
LEMMA AppendedTypes ==
    ASSUME EventTypeOK, NEW r \in Runs, NEW by, Appended(r, by)
    PROVE  EventTypeOK'
<1>1. PICK e \in emitting[r] :
         /\ log' = [log EXCEPT ![r] = @ \cup {[seq |-> e.seq, type |-> e.type]}]
         /\ emitting' = [emitting EXCEPT ![r] = @ \ {e}]
         /\ nextSeq' = nextSeq
  BY DEF Appended
<1>2. e \in Emissions BY DEF EventTypeOK
<1>3. [seq |-> e.seq, type |-> e.type] \in Events BY <1>2 DEF Emissions, Events
<1> QED BY <1>1, <1>3 DEF EventTypeOK

\* Failing to store an event.
LEMMA NotAppendedTypes ==
    ASSUME EventTypeOK, BoundTypeOK, NEW r \in Runs, NEW by, NotAppended(r, by)
    PROVE  EventTypeOK' /\ BoundTypeOK'
BY DEF EventTypeOK, BoundTypeOK, NotAppended, StoreFails

\* The end of the process.
LEMMA LoseMemoryTypes ==
    ASSUME TypeOK, NEW end \in {"stopped", "crashed"}, LoseMemory(end), BoundTypeOK'
    PROVE  IInv1'
<1> USE DEF LoseMemory, TypeOK
<1>1. (ProcessTypeOK /\ SlotTypeOK)' BY DEF ProcessTypeOK, SlotTypeOK
<1>2. LeaseTypeOK' BY DEF LeaseTypeOK
<1>3. pc' \in [Runs -> PCs] BY DEF RunTypeOK, PCs, AtRestPCs
<1>3a. RunTypeOK' BY <1>3 DEF RunTypeOK, Contract!Statuses, Outcomes, Signals
<1>4. StateTypeOK' BY DEF StateTypeOK, Contract!Statuses
<1>5. EventTypeOK' BY DEF EventTypeOK
<1>6. WritesOK' BY DEF WritesOK
<1> QED BY <1>1, <1>2, <1>3a, <1>4, <1>5, <1>6 DEF IInv1, CancelPCs

\* A Run that does not stand at a persist moves.
LEMMA WritesKept ==
    ASSUME RunTypeOK, WritesOK, NEW r \in Runs, NEW to, Goto(r, to), writes' = writes, pc[r] \notin PersistPCs
    PROVE  WritesOK'
BY DEF RunTypeOK, WritesOK, Goto

\* execute calls persist.
LEMMA PersistRun ==
    ASSUME RunTypeOK, StateTypeOK, WritesOK, NEW r \in Runs, NEW to \in PersistPCs,
           pc[r] \notin PersistPCs, NEW status \in Contract!Statuses,
           Goto(r, to), Persist(r, "run", status)
    PROVE  StateTypeOK' /\ WritesOK'
<1>1. [by |-> "run", status |-> status] \in Persists BY DEF Persists
<1>2. StateTypeOK' BY <1>1 DEF StateTypeOK, Persist
<1>3. \A i \in DOMAIN writes[r] : writes[r][i].by # "run" BY DEF WritesOK
<1>4. WritesOK' BY <1>1, <1>3 DEF WritesOK, Persist, StateTypeOK, RunTypeOK, Goto
<1> QED BY <1>2, <1>4

\* cancel calls persist.
LEMMA PersistCancel ==
    ASSUME StateTypeOK, WritesOK, NEW r \in Runs,
           Persist(r, "cancel", "cancelling"), pc' = pc
    PROVE  StateTypeOK' /\ WritesOK'
<1>1. [by |-> "cancel", status |-> "cancelling"] \in Persists BY DEF Persists, Contract!Statuses, Contract!Unfinished
<1>2. StateTypeOK' BY <1>1 DEF StateTypeOK, Persist
<1>4. WritesOK' BY <1>1 DEF WritesOK, Persist, StateTypeOK
<1> QED BY <1>2, <1>4

\* The steps of create.
LEMMA CreateTypes ==
    ASSUME IInv1, NEW r \in Runs, Create(r) \/ Refuse(r) \/ CreateStep(r)
    PROVE  IInv1'
<1> USE RunAssumption, PCTypes DEF IInv1, TypeOK
<1>0. AgentOf[r] \in Agents OBVIOUS
<1>1. CASE Create(r)
  <2> USE <1>1 DEF Create
  <2>1. SlotTypeOK' BY <1>0 DEF SlotTypeOK, ReserveRunSlot
  <2>2. LeaseTypeOK' BY <1>0 DEF LeaseTypeOK
  <2>3. RunTypeOK' BY DEF RunTypeOK, Goto, CreatePCs
  <2>4. WritesOK' BY WritesKept DEF PersistPCs
  <2> QED BY <2>1, <2>2, <2>3, <2>4 DEF ProcessTypeOK, EventTypeOK, BoundTypeOK, StateTypeOK
<1>2. CASE Refuse(r)
  <2> USE <1>2 DEF Refuse
  <2>1. PICK to \in AtRestPCs : Goto(r, to) BY DEF AtRestPCs
  <2>3. RunTypeOK' BY <2>1 DEF RunTypeOK, Goto
  <2>4. WritesOK' BY <2>1, WritesKept DEF PersistPCs
  <2> QED BY <2>3, <2>4 DEF ProcessTypeOK, EventTypeOK, BoundTypeOK, StateTypeOK, SlotTypeOK, LeaseTypeOK
<1>3. CASE Acquire(r)
  <2> USE <1>3 DEF Acquire
  <2>2. LeaseTypeOK' BY <1>0 DEF LeaseTypeOK, PathOf
  <2>3. RunTypeOK' BY DEF RunTypeOK, Goto, CreatePCs
  <2>4. WritesOK' BY WritesKept DEF PersistPCs
  <2> QED BY <2>2, <2>3, <2>4 DEF ProcessTypeOK, EventTypeOK, BoundTypeOK, StateTypeOK, SlotTypeOK
<1>4. CASE AcquireFails(r)
  <2> USE <1>4 DEF AcquireFails
  <2>1. SlotTypeOK' BY <1>0 DEF SlotTypeOK, ReleaseRunReservation, Dec
  <2>2. LeaseTypeOK' BY <1>0 DEF LeaseTypeOK
  <2>3. RunTypeOK' BY DEF RunTypeOK, Goto, AtRestPCs
  <2>4. WritesOK' BY WritesKept DEF PersistPCs
  <2> QED BY <2>1, <2>2, <2>3, <2>4 DEF ProcessTypeOK, EventTypeOK, BoundTypeOK, StateTypeOK
<1>5. CASE Prepare(r)
  <2> USE <1>5 DEF Prepare
  <2>1. PICK to \in CreatePCs : Goto(r, to) BY DEF CreatePCs
  <2>2. mem' \in [Runs -> Contract!Statuses] BY DEF RunTypeOK, Contract!Statuses, Contract!Unfinished
  <2>3. RunTypeOK' BY <2>1, <2>2 DEF RunTypeOK, Goto
  <2>4. WritesOK' BY <2>1, WritesKept DEF PersistPCs
  <2> QED BY <2>3, <2>4 DEF ProcessTypeOK, EventTypeOK, BoundTypeOK, StateTypeOK, SlotTypeOK, LeaseTypeOK
<1>6. CASE Record(r)
  <2> USE <1>6 DEF Record
  <2>1. EventTypeOK' BY EmitTypes DEF EventTypes
  <2>2. StateTypeOK' BY DEF StateTypeOK, RunTypeOK
  <2>3. RunTypeOK' BY DEF RunTypeOK, Goto, CreatePCs
  <2>4. WritesOK' BY WritesKept DEF PersistPCs
  <2> QED BY <2>1, <2>2, <2>3, <2>4 DEF ProcessTypeOK, BoundTypeOK, SlotTypeOK, LeaseTypeOK
<1>7. CASE RecordFails(r)
  <2> USE <1>7 DEF RecordFails
  <2>2. BoundTypeOK' BY DEF BoundTypeOK, StoreFails
  <2>3. RunTypeOK' BY DEF RunTypeOK, Goto, CreatePCs
  <2>4. WritesOK' BY WritesKept DEF PersistPCs
  <2> QED BY <2>2, <2>3, <2>4 DEF ProcessTypeOK, SlotTypeOK, LeaseTypeOK, EventTypeOK, StateTypeOK
<1>8. CASE Announce(r)
  <2> USE <1>8 DEF Announce
  <2>1. EventTypeOK' BY AppendedTypes
  <2>2. "running" \in Contract!Statuses BY DEF Contract!Statuses, Contract!Unfinished
  <2>3. RunTypeOK' BY <2>2 DEF RunTypeOK, Goto, ActivePCs, Signals
  <2>4. StateTypeOK' /\ WritesOK' BY <2>2, PersistRun DEF PersistPCs
  <2>5. SlotTypeOK' BY <1>0 DEF SlotTypeOK, ReleaseRunReservation, Dec, Activate
  <2> QED BY <2>1, <2>3, <2>4, <2>5 DEF ProcessTypeOK, BoundTypeOK, LeaseTypeOK
<1>9. CASE AnnounceFails(r)
  <2> USE <1>9 DEF AnnounceFails
  <2>1. EventTypeOK' /\ BoundTypeOK' BY NotAppendedTypes
  <2>3. RunTypeOK' BY DEF RunTypeOK, Goto, CreatePCs
  <2>4. WritesOK' BY WritesKept DEF PersistPCs
  <2> QED BY <2>1, <2>3, <2>4 DEF ProcessTypeOK, SlotTypeOK, LeaseTypeOK, StateTypeOK
<1>10. CASE Unwind(r)
  <2> USE <1>10 DEF Unwind
  <2>2. LeaseTypeOK' BY <1>0 DEF LeaseTypeOK, ReleaseLease
  <2>3. RunTypeOK' BY DEF RunTypeOK, Goto, CreatePCs
  <2>4. WritesOK' BY WritesKept DEF PersistPCs
  <2> QED BY <2>2, <2>3, <2>4 DEF ProcessTypeOK, SlotTypeOK, EventTypeOK, BoundTypeOK, StateTypeOK
<1>11. CASE RejectCreate(r)
  <2> USE <1>11 DEF RejectCreate
  <2>1. SlotTypeOK' BY <1>0 DEF SlotTypeOK, ReleaseRunReservation, Dec
  <2>3. RunTypeOK' BY DEF RunTypeOK, Goto, AtRestPCs
  <2>4. WritesOK' BY WritesKept DEF PersistPCs
  <2> QED BY <2>1, <2>3, <2>4 DEF ProcessTypeOK, LeaseTypeOK, EventTypeOK, BoundTypeOK, StateTypeOK
<1> QED BY <1>1, <1>2, <1>3, <1>4, <1>5, <1>6, <1>7, <1>8, <1>9, <1>10, <1>11 DEF CreateStep
\* The finally of execute.
LEMMA LeaveTypes ==
    ASSUME TypeOK, NEW r \in Runs, NEW how \in Outcomes, Leave(r, how),
           queued' \in [Runs -> Nat],
           UNCHANGED <<pendingRuns, pendingOf, mem>>
    PROVE  RunTypeOK' /\ SlotTypeOK'
BY PCTypes DEF TypeOK, SlotTypeOK, RunTypeOK, Leave, Goto, EndingPCs, Signals

\* An error inside execute.
LEMMA ThrowTypes ==
    ASSUME TypeOK, NEW r \in Runs, Throw(r), UNCHANGED <<pendingRuns, pendingOf, mem, queued>>
    PROVE  /\ RunTypeOK' /\ SlotTypeOK'
           /\ \E to : Goto(r, to)
<1>1. CASE Leave(r, "unhandled")
  BY <1>1, LeaveTypes DEF TypeOK, RunTypeOK, Outcomes, Leave
<1>2. CASE ~Leave(r, "unhandled")
  BY <1>2, PCTypes DEF Throw, TypeOK, RunTypeOK, SlotTypeOK, Outcomes, Goto, ActivePCs
<1> QED BY <1>1, <1>2

\* A persist is carried out, or fails.
LEMMA StoreTypes ==
    ASSUME IInv1, NEW r \in Runs, StoreStep(r)
    PROVE  IInv1'
<1> USE PCTypes DEF IInv1, TypeOK
<1>1. CASE Write(r)
  <2> USE <1>1 DEF Write
  <2>1. /\ writes[r] \in Seq(Persists)
        /\ Head(writes[r]) = writes[r][1]
        /\ 1 \in DOMAIN writes[r]
    BY DEF StateTypeOK
  <2>2. Head(writes[r]) \in Persists BY <2>1
  <2>3. StateTypeOK'
    <3>1. Head(writes[r]).status \in Contract!Statuses BY <2>2 DEF Persists
    <3>2. Tail(writes[r]) \in Seq(Persists) BY <2>1
    <3> QED BY <3>1, <3>2 DEF StateTypeOK
  <2>4. CASE Head(writes[r]).by = "run"
    <3>1. pc[r] \in PersistPCs /\ Goto(r, After[pc[r]]) /\ cpc' = cpc
      BY <2>1, <2>4 DEF WritesOK
    <3>2. EventAfter[pc[r]] \in EventTypes /\ After[pc[r]] \in ActivePCs
      BY <3>1 DEF PersistPCs, EventAfter, EventTypes, After, ActivePCs
    <3>3. EventTypeOK' BY <2>4, <3>2, EmitTypes
    <3>4. RunTypeOK' BY <3>1, <3>2 DEF RunTypeOK, Goto
    <3>5. \A i \in DOMAIN Tail(writes[r]) : Tail(writes[r])[i].by # "run"
      BY <2>1, <2>4 DEF WritesOK
    <3>6. WritesOK' BY <3>1, <3>5 DEF WritesOK, Goto, RunTypeOK, StateTypeOK
    <3> QED BY <2>3, <3>1, <3>3, <3>4, <3>6 DEF ProcessTypeOK, SlotTypeOK, LeaseTypeOK, BoundTypeOK
  <2>5. CASE Head(writes[r]).by = "cancel"
    <3>1. cpc' = [cpc EXCEPT ![r] = "announcing"] /\ pc' = pc BY <2>5
    <3>2. cpc' \in [Runs -> CancelPCs] BY <3>1 DEF CancelPCs
    <3>3. EventTypeOK' BY <2>5, EmitTypes DEF EventTypes
    <3>4. RunTypeOK' BY <3>1 DEF RunTypeOK
    <3>5. \A i \in DOMAIN Tail(writes[r]) :
             i + 1 \in DOMAIN writes[r] /\ Tail(writes[r])[i] = writes[r][i + 1]
      BY <2>1
    <3>5a. DOMAIN Tail(writes[r]) \subseteq Int BY <2>1
    <3>6. WritesOK'
      <4> SUFFICES ASSUME NEW q \in Runs, NEW i \in DOMAIN writes'[q], writes'[q][i].by = "run"
                   PROVE  /\ pc[q] \in PersistPCs
                          /\ \A j \in DOMAIN writes'[q] : writes'[q][j].by = "run" => j = i
        BY <3>1 DEF WritesOK
      <4>1. CASE q # r BY <4>1 DEF WritesOK, StateTypeOK
      <4>2. CASE q = r
        <5>1. writes'[q] = Tail(writes[r]) BY <4>2 DEF StateTypeOK
        <5>2. writes[r][i + 1].by = "run" /\ i + 1 \in DOMAIN writes[r] BY <5>1, <3>5
        <5>3. pc[q] \in PersistPCs BY <5>2, <4>2 DEF WritesOK
        <5>4. ASSUME NEW j \in DOMAIN writes'[q], writes'[q][j].by = "run" PROVE j = i
          <6>1. writes[r][j + 1].by = "run" /\ j + 1 \in DOMAIN writes[r] BY <5>1, <5>4, <3>5
          <6>2. j + 1 = i + 1 BY <6>1, <5>2 DEF WritesOK
          <6>3. i \in Int /\ j \in Int BY <3>5a, <5>1, <5>4
          <6> QED BY <6>2, <6>3
        <5> QED BY <5>3, <5>4
      <4> QED BY <4>1, <4>2
    <3> QED BY <2>3, <3>2, <3>3, <3>4, <3>6 DEF ProcessTypeOK, SlotTypeOK, LeaseTypeOK, BoundTypeOK
  <2> QED BY <2>2, <2>4, <2>5 DEF Persists
<1>2. CASE WriteFails(r)
  <2> USE <1>2 DEF WriteFails
  <2>1. BoundTypeOK' BY DEF BoundTypeOK, StoreFails
  <2>2. StateTypeOK' BY DEF StateTypeOK
  <2>3. cpc' \in [Runs -> CancelPCs] BY DEF CancelPCs
  <2>4. /\ RunTypeOK' /\ SlotTypeOK'
        /\ pc' = pc \/ \E to : Goto(r, to)
    <3>1. CASE Throw(r) BY <3>1, ThrowTypes
    <3>2. CASE ~Throw(r) BY <3>2 DEF RunTypeOK, SlotTypeOK
    <3> QED BY <3>1, <3>2
  <2>4a. \A q \in Runs : q # r => pc'[q] = pc[q] BY <2>4 DEF Goto, RunTypeOK
  <2>5. WritesOK' BY <2>4a DEF WritesOK, StateTypeOK
  <2> QED BY <2>1, <2>2, <2>3, <2>4, <2>5 DEF ProcessTypeOK, LeaseTypeOK, EventTypeOK
<1> QED BY <1>1, <1>2 DEF StoreStep

\* The engine, and the steps of execute.
LEMMA ExecuteTypes ==
    ASSUME IInv1, NEW r \in Runs,
           EngineEvent(r) \/ EngineEnd(r) \/ (ExecuteStep(r) /\ ~UnhandledEnd(r))
    PROVE  IInv1'
<1> USE RunAssumption, PCTypes DEF IInv1, TypeOK
<1>0. AgentOf[r] \in Agents OBVIOUS
<1>1. CASE EngineEvent(r)
  <2> USE <1>1 DEF EngineEvent
  <2>1. RunTypeOK' BY DEF RunTypeOK
  <2>2. WritesOK' BY DEF WritesOK
  <2> QED BY <2>1, <2>2 DEF ProcessTypeOK, SlotTypeOK, LeaseTypeOK, StateTypeOK, EventTypeOK, BoundTypeOK
<1>2. CASE EngineEnd(r)
  <2> USE <1>2 DEF EngineEnd
  <2>1. RunTypeOK' BY DEF RunTypeOK, Goto, ActivePCs, EngineOutcomes, Outcomes
  <2>2. WritesOK' BY WritesKept DEF PersistPCs
  <2> QED BY <2>1, <2>2 DEF ProcessTypeOK, SlotTypeOK, LeaseTypeOK, StateTypeOK, EventTypeOK, BoundTypeOK
<1>3. CASE Announced(r)
  <2> USE <1>3 DEF Announced
  <2>1. EventTypeOK' BY AppendedTypes
  <2>2. RunTypeOK' /\ SlotTypeOK'
    <3>1. CASE pc[r] = "started" BY <3>1 DEF RunTypeOK, SlotTypeOK, Goto, ActivePCs
    <3>2. CASE pc[r] # "started"
      <4>1. Leave(r, outcome[r]) /\ outcome[r] \in Outcomes BY <3>2 DEF RunTypeOK
      <4> QED BY <4>1, LeaveTypes DEF RunTypeOK
    <3> QED BY <3>1, <3>2
  <2>3. WritesOK'
    <3>1. PICK to : Goto(r, to) BY DEF Leave
    <3> QED BY <3>1, WritesKept DEF PersistPCs
  <2> QED BY <2>1, <2>2, <2>3 DEF ProcessTypeOK, LeaseTypeOK, StateTypeOK, BoundTypeOK
<1>4. CASE AnnouncedFails(r)
  <2> USE <1>4 DEF AnnouncedFails
  <2>1. EventTypeOK' /\ BoundTypeOK' BY NotAppendedTypes
  <2>2. RunTypeOK' /\ SlotTypeOK' /\ \E to : Goto(r, to) BY ThrowTypes
  <2>3. WritesOK' BY <2>2, WritesKept DEF PersistPCs
  <2> QED BY <2>1, <2>2, <2>3 DEF ProcessTypeOK, LeaseTypeOK, StateTypeOK
<1>5. CASE Flushed(r)
  <2> USE <1>5 DEF Flushed
  <2>1. Verdict(r) \in Contract!Statuses
    BY DEF Verdict, Contract!Statuses, Contract!Terminal
  <2>2. PICK to \in PersistPCs : Goto(r, to) BY DEF PersistPCs
  <2>3. to \in PCs BY DEF PersistPCs, PCs, ActivePCs
  <2>4. RunTypeOK' BY <2>1, <2>2, <2>3 DEF RunTypeOK, Goto
  <2>5. StateTypeOK' /\ WritesOK' BY <2>1, <2>2, PersistRun DEF PersistPCs
  <2> QED BY <2>4, <2>5 DEF ProcessTypeOK, SlotTypeOK, LeaseTypeOK, EventTypeOK, BoundTypeOK
<1>6. CASE LinkStart(r)
  <2> USE <1>6 DEF LinkStart
  <2>1. EventTypeOK' BY EmitTypes DEF EventTypes
  <2>2. RunTypeOK' BY DEF RunTypeOK
  <2>3. WritesOK' BY DEF WritesOK
  <2> QED BY <2>1, <2>2, <2>3 DEF ProcessTypeOK, SlotTypeOK, LeaseTypeOK, StateTypeOK, BoundTypeOK
<1>7. CASE LinkDone(r)
  <2> USE <1>7 DEF LinkDone
  <2>1. EventTypeOK' BY AppendedTypes
  <2>2. RunTypeOK' /\ WritesOK' BY DEF RunTypeOK, WritesOK
  <2> QED BY <2>1, <2>2 DEF ProcessTypeOK, SlotTypeOK, LeaseTypeOK, StateTypeOK, BoundTypeOK
<1>8. CASE LinkFails(r)
  <2> USE <1>8 DEF LinkFails
  <2>1. EventTypeOK' /\ BoundTypeOK' BY NotAppendedTypes
  <2>2. queued' \in [Runs -> Nat] BY DEF RunTypeOK
  <2>3. RunTypeOK' /\ SlotTypeOK' BY <2>2, LeaveTypes DEF Outcomes
  <2>4. WritesOK' BY WritesKept DEF Leave, PersistPCs
  <2> QED BY <2>1, <2>3, <2>4 DEF ProcessTypeOK, LeaseTypeOK, StateTypeOK
<1>9. CASE Settled(r)
  <2> USE <1>9 DEF Settled
  <2>1. LeaseTypeOK' BY <1>0 DEF LeaseTypeOK, ReleaseLease
  <2>2. RunTypeOK' BY DEF RunTypeOK, Goto, EndingPCs
  <2>3. WritesOK' BY WritesKept DEF PersistPCs
  <2> QED BY <2>1, <2>2, <2>3 DEF ProcessTypeOK, SlotTypeOK, EventTypeOK, StateTypeOK, BoundTypeOK
<1>10. CASE Removed(r)
  <2> USE <1>10 DEF Removed
  <2>1. PICK to \in EndingPCs : Goto(r, to) BY DEF EndingPCs
  <2>2. EventTypeOK'
    <3>1. CASE UNCHANGED eventVars BY <3>1 DEF EventTypeOK
    <3>2. CASE ~UNCHANGED eventVars BY <3>2, EmitTypes DEF EventTypes
    <3> QED BY <3>1, <3>2
  <2>3. RunTypeOK' BY <2>1 DEF RunTypeOK, Goto
  <2>4. WritesOK' BY <2>1, WritesKept DEF PersistPCs
  <2> QED BY <2>2, <2>3, <2>4 DEF ProcessTypeOK, SlotTypeOK, LeaseTypeOK, StateTypeOK, BoundTypeOK
<1>11. CASE Reported(r)
  <2> USE <1>11 DEF Reported
  <2>1. EventTypeOK' /\ BoundTypeOK'
    BY AppendedTypes, NotAppendedTypes DEF BoundTypeOK
  <2>2. RunTypeOK' BY DEF RunTypeOK, Goto, EndingPCs
  <2>3. WritesOK' BY WritesKept DEF PersistPCs
  <2> QED BY <2>1, <2>2, <2>3 DEF ProcessTypeOK, SlotTypeOK, LeaseTypeOK, StateTypeOK
<1>12. CASE Ended(r)
  <2> USE <1>12 DEF Ended
  <2>1. RunTypeOK' BY DEF RunTypeOK, Goto, AtRestPCs, Outcomes, Contract!Statuses
  <2>2. WritesOK' BY WritesKept DEF PersistPCs
  <2> QED BY <2>1, <2>2 DEF ProcessTypeOK, SlotTypeOK, LeaseTypeOK, EventTypeOK, StateTypeOK, BoundTypeOK
<1> QED BY <1>1, <1>2, <1>3, <1>4, <1>5, <1>6, <1>7, <1>8, <1>9, <1>10, <1>11, <1>12
        DEF ExecuteStep

\* Aborting a controller.
LEMMA AbortTypes ==
    ASSUME RunTypeOK, NEW r \in Runs, Abort(r)
    PROVE  signal' \in [Runs -> Signals]
BY DEF RunTypeOK, Abort, Signals

\* The steps of cancel.
LEMMA CancelTypes ==
    ASSUME IInv1, NEW r \in Runs, Cancel(r) \/ CancelStep(r)
    PROVE  IInv1'
<1> USE DEF IInv1, TypeOK
<1>1. CASE Cancel(r)
  <2> USE <1>1 DEF Cancel
  <2>1. BoundTypeOK' BY DEF BoundTypeOK
  <2>2. cpc' \in [Runs -> CancelPCs] BY DEF CancelPCs
  <2>3. "cancelling" \in Contract!Statuses BY DEF Contract!Statuses, Contract!Unfinished
  <2>4. RunTypeOK' /\ StateTypeOK' /\ WritesOK'
    <3>1. CASE r \in active
      <4>1. RunTypeOK' BY <3>1, <2>3, AbortTypes DEF RunTypeOK
      <4>2. StateTypeOK' /\ WritesOK' BY <3>1, PersistCancel
      <4> QED BY <4>1, <4>2
    <3>2. CASE r \notin active BY <3>2 DEF RunTypeOK, StateTypeOK, WritesOK
    <3> QED BY <3>1, <3>2
  <2> QED BY <2>1, <2>2, <2>4 DEF ProcessTypeOK, SlotTypeOK, LeaseTypeOK, EventTypeOK
<1>2. CASE CancelRead(r)
  <2> USE <1>2 DEF CancelRead
  <2>1. cpc' \in [Runs -> CancelPCs] BY DEF CancelPCs
  <2>2. RunTypeOK' /\ StateTypeOK' /\ WritesOK'
    <3>1. CASE UNCHANGED <<signal, stateVars>>
      BY <3>1 DEF RunTypeOK, StateTypeOK, WritesOK
    <3>2. CASE ~UNCHANGED <<signal, stateVars>>
      <4>1. RunTypeOK' BY <3>2, AbortTypes DEF RunTypeOK
      <4>2. StateTypeOK' /\ WritesOK' BY <3>2, PersistCancel
      <4> QED BY <4>1, <4>2
    <3> QED BY <3>1, <3>2
  <2> QED BY <2>1, <2>2 DEF ProcessTypeOK, SlotTypeOK, LeaseTypeOK, EventTypeOK, BoundTypeOK
<1>3. CASE CancelReturns(r)
  <2> USE <1>3 DEF CancelReturns
  <2>1. cpc' \in [Runs -> CancelPCs] BY DEF CancelPCs
  <2>2. EventTypeOK' /\ BoundTypeOK'
    BY AppendedTypes, NotAppendedTypes DEF BoundTypeOK
  <2> QED BY <2>1, <2>2 DEF ProcessTypeOK, SlotTypeOK, LeaseTypeOK, RunTypeOK, StateTypeOK, WritesOK
<1> QED BY <1>1, <1>2, <1>3 DEF CancelStep

\* Shutdown, crash, restart and recovery.
LEMMA ProcessTypes ==
    ASSUME IInv1,
           \/ Shutdown \/ Stop \/ Crash \/ Restart \/ RecoveryFails \/ BootStep
           \/ \E r \in Runs : UnhandledEnd(r) \/ UnhandledLink(r)
    PROVE  IInv1'
<1> USE DEF IInv1, TypeOK
<1>1. CASE Shutdown
  BY <1>1 DEF Shutdown, ProcessTypeOK, SlotTypeOK, LeaseTypeOK, RunTypeOK, StateTypeOK,
              EventTypeOK, BoundTypeOK, WritesOK, Signals
<1>2. CASE Stop
  BY <1>2, LoseMemoryTypes DEF Stop, BoundTypeOK
<1>3. CASE Crash
  BY <1>3, LoseMemoryTypes DEF Crash, BoundTypeOK
<1>4. CASE Restart
  <2> USE <1>4 DEF Restart
  <2>1. ProcessTypeOK' BY DEF ProcessTypeOK, Interrupted
  <2>2. ASSUME NEW r \in Runs PROVE LastSeq(r) \in Nat
    <3>1. log[r] \subseteq Events BY DEF EventTypeOK
    <3> QED BY <3>1 DEF LastSeq, Events
  <2>3. EventTypeOK' BY <2>2 DEF EventTypeOK
  <2> QED BY <2>1, <2>3 DEF SlotTypeOK, LeaseTypeOK, RunTypeOK, StateTypeOK, BoundTypeOK, WritesOK
<1>5. CASE RecoveryFails
  BY <1>5, LoseMemoryTypes DEF RecoveryFails, StoreFails, BoundTypeOK
<1>6. CASE Serve
  BY <1>6 DEF Serve, ProcessTypeOK, SlotTypeOK, LeaseTypeOK, RunTypeOK, StateTypeOK,
              EventTypeOK, BoundTypeOK, WritesOK
<1>7. ASSUME NEW r \in Runs, Recover(r) PROVE IInv1'
  <2> USE <1>7 DEF Recover
  <2>1. EventTypeOK' BY EmitTypes DEF EventTypes
  <2>2. StateTypeOK' BY DEF StateTypeOK, Contract!Statuses, Contract!Terminal
  <2> QED BY <2>1, <2>2 DEF ProcessTypeOK, SlotTypeOK, LeaseTypeOK, RunTypeOK, BoundTypeOK, WritesOK
<1>8. ASSUME NEW r \in Runs, Recovered(r) PROVE IInv1'
  <2> USE <1>8 DEF Recovered
  <2>1. EventTypeOK' BY AppendedTypes
  <2> QED BY <2>1 DEF ProcessTypeOK, SlotTypeOK, LeaseTypeOK, RunTypeOK, StateTypeOK, BoundTypeOK, WritesOK
<1>9. ASSUME NEW r \in Runs, UnhandledEnd(r) PROVE IInv1'
  BY <1>9, LoseMemoryTypes DEF UnhandledEnd, BoundTypeOK
<1>10. ASSUME NEW r \in Runs, UnhandledLink(r) PROVE IInv1'
  BY <1>10, LoseMemoryTypes DEF UnhandledLink, StoreFails, BoundTypeOK
<1> QED BY <1>1, <1>2, <1>3, <1>4, <1>5, <1>6, <1>7, <1>8, <1>9, <1>10 DEF BootStep

\* A step that changes nothing.
LEMMA StutterTypes == IInv1 /\ UNCHANGED vars => IInv1'
BY DEF IInv1, TypeOK, ProcessTypeOK, SlotTypeOK, LeaseTypeOK, RunTypeOK, StateTypeOK, EventTypeOK,
       BoundTypeOK, WritesOK, vars

\* Every step.
LEMMA StepTypes == IInv1 /\ [Next]_vars => IInv1'
<1> SUFFICES ASSUME IInv1, Next PROVE IInv1'
  BY StutterTypes
<1>1. CASE \E r \in Runs : Create(r) \/ Refuse(r) \/ CreateStep(r) BY <1>1, CreateTypes
<1>2. CASE \E r \in Runs : EngineEvent(r) \/ EngineEnd(r) \/ (ExecuteStep(r) /\ ~UnhandledEnd(r))
  BY <1>2, ExecuteTypes
<1>3. CASE \E r \in Runs : StoreStep(r) BY <1>3, StoreTypes
<1>4. CASE \E r \in Runs : Cancel(r) \/ CancelStep(r) BY <1>4, CancelTypes
<1>5. CASE \/ Shutdown \/ Stop \/ Crash \/ Restart \/ RecoveryFails \/ BootStep
           \/ \E r \in Runs : UnhandledEnd(r) \/ UnhandledLink(r)
  BY <1>5, ProcessTypes
<1> QED BY <1>1, <1>2, <1>3, <1>4, <1>5 DEF Next

\* Whatever the Node does, every variable keeps its type and every Run is in one
\* place of one handler.
THEOREM TypeCorrect == Spec => []TypeOK
<1>1. Init => IInv1 BY InitTypes
<1>2. IInv1 /\ [Next]_vars => IInv1' BY StepTypes
<1>3. IInv1 => TypeOK BY DEF IInv1
<1> QED BY <1>1, <1>2, <1>3, PTL DEF Spec

-----------------------------------------------------------------------------
(* Accounts: slots, leases, directories                                     *)

\* The inductive invariant.
AccountsOK == /\ NothingLeaks
              /\ CapacityRespected
              /\ IsFiniteSet(InFlight)
              /\ \A a \in Agents : IsFiniteSet(LeasedBy(a))

\* A process that has just begun, or just ended.
NothingHeld == /\ \A r \in Runs : pc[r] \in AtRestPCs
               /\ active = {} /\ pendingRuns = 0
               /\ pendingOf = [a \in Agents |-> 0]
               /\ leases = [a \in Agents |-> {}]
               /\ pathOwner = [p \in Runs \cup Agents |-> NoRun]
               /\ signal = [r \in Runs |-> "none"]

\* Where nothing is held, everything is accounted for.
LEMMA NothingHeldAccounts == NothingHeld => AccountsOK
<1> SUFFICES ASSUME NothingHeld PROVE AccountsOK OBVIOUS
<1> USE DEF NothingHeld
<1>1. Cardinality({}) = 0 /\ IsFiniteSet({}) BY FS_EmptySet
<1>2. Creating = {} /\ Executing = {} /\ Holders = {}
  BY DEF Creating, Executing, Holders, CreatePCs, ActivePCs, LeasePCs, AtRestPCs
<1>3. InFlight = {} /\ \A a \in Agents : CreatingFor(a) = {}
  BY <1>2 DEF InFlight, CreatingFor
<1>4. \A a \in Agents : LeasedBy(a) = {}
  BY DEF LeasedBy, ActivePCs, LeasePCs, AtRestPCs
<1>5. ReservationsOK BY <1>1, <1>2, <1>3 DEF ReservationsOK
<1>6. LeasesOK BY <1>4 DEF LeasesOK
<1>7. PathsOK BY <1>2, RunAssumption DEF PathsOK
<1>8. SignalsOK BY <1>2 DEF SignalsOK
<1>9. CapacityRespected
  <2>1. \A a \in Agents : MaxConcurrency[a] \in Nat BY LimitAssumption
  <2> QED BY <2>1, <1>1, <1>3, <1>4, LimitAssumption DEF CapacityRespected
<1> QED BY <1>1, <1>2, <1>3, <1>4, <1>5, <1>6, <1>7, <1>8, <1>9 DEF AccountsOK, NothingLeaks

\* At the beginning nothing is held.
LEMMA InitAccounts == Init => AccountsOK
<1>1. Init => NothingHeld BY DEF Init, NothingHeld, AtRestPCs
<1> QED BY <1>1, NothingHeldAccounts

\* With the process everything it held is gone.
LEMMA LoseMemoryAccounts == ASSUME NEW end, LoseMemory(end) PROVE AccountsOK'
<1>1. NothingHeld' BY DEF LoseMemory, NothingHeld, AtRestPCs
<1>2. NothingHeld' => AccountsOK' BY NothingHeldAccounts, PTL
<1> QED BY <1>1, <1>2

\* The two places count the same.
SameClass(from, to) == /\ to \in CreatePCs <=> from \in CreatePCs
                       /\ to \in ActivePCs <=> from \in ActivePCs
                       /\ to \in LeasePCs <=> from \in LeasePCs
                       /\ to = "acquiring" <=> from = "acquiring"

\* A step after which every Run counts where it counted before.
LEMMA SameClasses ==
    ASSUME AccountsOK, UNCHANGED slotVars, UNCHANGED leaseVars,
           \A q \in Runs : signal'[q] = "none" <=> signal[q] = "none",
           \A q \in Runs : SameClass(pc[q], pc'[q])
    PROVE  AccountsOK'
<1> USE DEF AccountsOK, NothingLeaks
<1>1. /\ Creating' = Creating /\ Holders' = Holders /\ Executing' = Executing
      /\ \A a \in Agents : LeasedBy(a)' = LeasedBy(a)
  BY DEF SameClass, Creating, Executing, Holders, LeasedBy
<1>2. InFlight' = InFlight /\ \A a \in Agents : CreatingFor(a)' = CreatingFor(a)
  BY <1>1 DEF InFlight, CreatingFor
<1>3. ReservationsOK' BY <1>1, <1>2 DEF ReservationsOK
<1>4. LeasesOK' BY <1>1 DEF LeasesOK
<1>5. PathsOK' BY <1>1 DEF PathsOK
<1>6. SignalsOK' BY <1>1 DEF SignalsOK
<1>7. CapacityRespected' BY <1>1, <1>2 DEF CapacityRespected
<1> QED BY <1>1, <1>2, <1>3, <1>4, <1>5, <1>6, <1>7

\* A step of one Run inside the part of its handler that counts the same.
LEMMA StaysInClass ==
    ASSUME AccountsOK, RunTypeOK, NEW r \in Runs, NEW to, Goto(r, to),
           UNCHANGED slotVars, UNCHANGED leaseVars, UNCHANGED signal,
           \/ {pc[r], to} \subseteq ActivePCs
           \/ {pc[r], to} \subseteq CreatePCs \ {"acquiring", "unwound"}
           \/ {pc[r], to} \subseteq (AtRestPCs \cup EndingPCs) \ {"settling"}
    PROVE  AccountsOK'
<1>1. \A q \in Runs : pc'[q] = IF q = r THEN to ELSE pc[q] BY DEF Goto, RunTypeOK
<1>2. SameClass(pc[r], to)
  BY DEF SameClass, CreatePCs, ActivePCs, LeasePCs, AtRestPCs, EndingPCs
<1>3. \A q \in Runs : SameClass(pc[q], pc[q]) BY DEF SameClass
<1>4. \A q \in Runs : SameClass(pc[q], pc'[q]) BY <1>1, <1>2, <1>3
<1>5. \A q \in Runs : signal'[q] = "none" <=> signal[q] = "none" OBVIOUS
<1> QED BY <1>4, <1>5, SameClasses

\* A step that moves no Run.
LEMMA PCUnchanged ==
    ASSUME AccountsOK, UNCHANGED slotVars, UNCHANGED leaseVars, UNCHANGED pc,
           \A q \in Runs : signal'[q] = "none" <=> signal[q] = "none"
    PROVE  AccountsOK'
<1>1. \A q \in Runs : SameClass(pc[q], pc'[q]) BY DEF SameClass
<1> QED BY <1>1, SameClasses

\* Nothing is over a limit after a step that begins nothing.
LEMMA FewerInFlight ==
    ASSUME AccountsOK, InFlight' \subseteq InFlight,
           \A a \in Agents : LeasedBy(a)' \subseteq LeasedBy(a)
    PROVE  /\ CapacityRespected'
           /\ IsFiniteSet(InFlight')
           /\ \A a \in Agents : IsFiniteSet(LeasedBy(a)')
<1> USE DEF AccountsOK
<1>1. /\ IsFiniteSet(InFlight') /\ Cardinality(InFlight') <= Cardinality(InFlight)
      /\ Cardinality(InFlight) \in Nat /\ Cardinality(InFlight') \in Nat
  BY FS_Subset, FS_CardinalityType
<1>2. ASSUME NEW a \in Agents
      PROVE  /\ IsFiniteSet(LeasedBy(a)')
             /\ Cardinality(LeasedBy(a)') <= Cardinality(LeasedBy(a))
             /\ Cardinality(LeasedBy(a)) \in Nat /\ Cardinality(LeasedBy(a)') \in Nat
             /\ MaxConcurrency[a] \in Nat
  BY FS_Subset, FS_CardinalityType, LimitAssumption
<1> QED BY <1>1, <1>2, LimitAssumption DEF CapacityRespected

\* The finally of execute removes the Run from activeRuns, and keeps its lease.
LEMMA LeaveAccounts ==
    ASSUME AccountsOK, TypeOK, NEW r \in Runs, NEW how, Leave(r, how), pc[r] \in ActivePCs,
           UNCHANGED <<pendingRuns, pendingOf, leaseVars>>
    PROVE  AccountsOK'
<1> USE DEF AccountsOK, NothingLeaks
<1>1. \A q \in Runs : pc'[q] = IF q = r THEN "settling" ELSE pc[q]
  BY DEF Leave, Goto, TypeOK, RunTypeOK
<1>2. /\ Creating' = Creating /\ Holders' = Holders
      /\ Executing' = Executing \ {r}
      /\ \A a \in Agents : LeasedBy(a)' = LeasedBy(a)
  BY <1>1 DEF Executing, Creating, Holders, LeasedBy, CreatePCs, ActivePCs, LeasePCs
<1>3. InFlight' \subseteq InFlight /\ \A a \in Agents : CreatingFor(a)' = CreatingFor(a)
  BY <1>2 DEF InFlight, CreatingFor
<1>4. active' = Executing' BY <1>2 DEF Leave
<1>5. ReservationsOK' BY <1>2, <1>3 DEF ReservationsOK
<1>6. LeasesOK' BY <1>2 DEF LeasesOK
<1>7. PathsOK' BY <1>2 DEF PathsOK
<1>8. SignalsOK' BY <1>2 DEF SignalsOK, Leave, TypeOK, RunTypeOK
<1> QED BY <1>2, <1>3, <1>4, <1>5, <1>6, <1>7, <1>8, FewerInFlight
\* Only finitely many Runs are under way.
LEMMA CreatingFinite ==
    ASSUME AccountsOK
    PROVE  /\ IsFiniteSet(Creating) /\ IsFiniteSet(Executing)
           /\ Cardinality(Creating) \in Nat
           /\ \A a \in Agents : /\ IsFiniteSet(CreatingFor(a))
                                /\ Cardinality(CreatingFor(a)) \in Nat
<1>1. IsFiniteSet(InFlight) /\ Creating \subseteq InFlight /\ Executing \subseteq InFlight
  BY DEF AccountsOK, InFlight
<1>2. IsFiniteSet(Creating) /\ IsFiniteSet(Executing) BY <1>1, FS_Subset
<1>3. ASSUME NEW a \in Agents
      PROVE  IsFiniteSet(CreatingFor(a)) /\ Cardinality(CreatingFor(a)) \in Nat
  <2>1. CreatingFor(a) \subseteq Creating BY DEF CreatingFor
  <2> QED BY <2>1, <1>2, FS_Subset, FS_CardinalityType
<1> QED BY <1>2, <1>3, FS_CardinalityType

\* One more Run is being created, and one more is counted.
LEMMA ReserveCounts ==
    ASSUME AccountsOK, SlotTypeOK, NEW r \in Runs, r \notin Creating,
           Creating' = Creating \cup {r}, ReserveRunSlot(AgentOf[r])
    PROVE  ReservationsOK'
<1>1. AgentOf[r] \in Agents BY RunAssumption
<1>2. Cardinality(Creating') = Cardinality(Creating) + 1
  BY CreatingFinite, FS_AddElement
<1>3. pendingRuns' = Cardinality(Creating')
  BY <1>2 DEF AccountsOK, NothingLeaks, ReservationsOK, ReserveRunSlot
<1>4. ASSUME NEW a \in Agents PROVE pendingOf'[a] = Cardinality(CreatingFor(a)')
  <2>0. pendingOf[a] = Cardinality(CreatingFor(a))
    BY DEF AccountsOK, NothingLeaks, ReservationsOK
  <2>1. CASE a = AgentOf[r]
    <3>1. CreatingFor(a)' = CreatingFor(a) \cup {r} /\ r \notin CreatingFor(a)
      BY <2>1 DEF CreatingFor
    <3>2. Cardinality(CreatingFor(a)') = Cardinality(CreatingFor(a)) + 1
      BY <3>1, CreatingFinite, FS_AddElement
    <3> QED BY <2>0, <2>1, <3>2 DEF ReserveRunSlot, SlotTypeOK
  <2>2. CASE a # AgentOf[r]
    <3>1. CreatingFor(a)' = CreatingFor(a) BY <2>2 DEF CreatingFor
    <3> QED BY <2>0, <2>2, <3>1 DEF ReserveRunSlot, SlotTypeOK
  <2> QED BY <2>1, <2>2
<1> QED BY <1>3, <1>4 DEF ReservationsOK

\* One Run less is being created, and one less is counted: Math.max(0, ...) in
\* releaseRunReservation never comes into play.
LEMMA ReleaseCounts ==
    ASSUME AccountsOK, SlotTypeOK, NEW r \in Runs, r \in Creating,
           Creating' = Creating \ {r}, ReleaseRunReservation(AgentOf[r])
    PROVE  ReservationsOK'
<1>1. AgentOf[r] \in Agents BY RunAssumption
<1>2. Cardinality(Creating') = Cardinality(Creating) - 1 /\ Cardinality(Creating') \in Nat
  BY CreatingFinite, FS_RemoveElement, FS_CardinalityType
<1>3. pendingRuns' = Cardinality(Creating')
  BY <1>2, CreatingFinite
  DEF AccountsOK, NothingLeaks, ReservationsOK, ReleaseRunReservation, Dec
<1>4. ASSUME NEW a \in Agents PROVE pendingOf'[a] = Cardinality(CreatingFor(a)')
  <2>0. pendingOf[a] = Cardinality(CreatingFor(a))
    BY DEF AccountsOK, NothingLeaks, ReservationsOK
  <2>1. CASE a = AgentOf[r]
    <3>1. CreatingFor(a)' = CreatingFor(a) \ {r} /\ r \in CreatingFor(a)
      BY <2>1 DEF CreatingFor
    <3>2. /\ Cardinality(CreatingFor(a)') = Cardinality(CreatingFor(a)) - 1
          /\ Cardinality(CreatingFor(a)') \in Nat
      BY <3>1, CreatingFinite, FS_RemoveElement, FS_CardinalityType
    <3>3. pendingOf'[a] = Dec(pendingOf[a])
      BY <2>1 DEF ReleaseRunReservation, SlotTypeOK
    <3> QED BY <2>0, <3>2, <3>3, CreatingFinite DEF Dec
  <2>2. CASE a # AgentOf[r]
    <3>1. CreatingFor(a)' = CreatingFor(a) BY <2>2 DEF CreatingFor
    <3> QED BY <2>0, <2>2, <3>1 DEF ReleaseRunReservation, SlotTypeOK
  <2> QED BY <2>1, <2>2
<1> QED BY <1>3, <1>4 DEF ReservationsOK

\* reserveRunSlot finds room, in the Node and for the Agent, before it counts one more.
LEMMA AdmittedInLimits ==
    ASSUME AccountsOK, NEW r \in Runs, NodeHasRoom, AgentHasRoom(AgentOf[r]),
           InFlight' = InFlight \cup {r},
           \A a \in Agents : LeasedBy(a)' = IF a = AgentOf[r] THEN LeasedBy(a) \cup {r}
                                                              ELSE LeasedBy(a)
    PROVE  /\ CapacityRespected'
           /\ IsFiniteSet(InFlight')
           /\ \A a \in Agents : IsFiniteSet(LeasedBy(a)')
<1> USE DEF AccountsOK, NothingLeaks
<1>1. Cardinality(InFlight) = Cardinality(Executing) + Cardinality(Creating)
  <2>1. Executing \cap Creating = {}
    BY DEF Executing, Creating, ActivePCs, CreatePCs
  <2>2. Cardinality(Creating \cup Executing)
          = Cardinality(Creating) + Cardinality(Executing) - Cardinality(Creating \cap Executing)
    BY CreatingFinite, FS_Union
  <2>3. Cardinality(Creating \cap Executing) = 0 BY <2>1, FS_EmptySet
  <2>4. Cardinality(Executing) \in Nat /\ Cardinality(Creating) \in Nat
    BY CreatingFinite, FS_CardinalityType
  <2> QED BY <2>2, <2>3, <2>4 DEF InFlight
<1>2. Cardinality(InFlight) < MaxConcurrentRuns
  BY <1>1 DEF NodeHasRoom, ReservationsOK
<1>3. IsFiniteSet(InFlight') /\ Cardinality(InFlight') <= Cardinality(InFlight) + 1
  <2>1. Cardinality(InFlight) \in Nat BY FS_CardinalityType
  <2>2. /\ IsFiniteSet(InFlight \cup {r})
        /\ Cardinality(InFlight \cup {r}) =
             IF r \in InFlight THEN Cardinality(InFlight) ELSE Cardinality(InFlight) + 1
    BY FS_AddElement
  <2> QED BY <2>1, <2>2
<1>4. Cardinality(InFlight') <= MaxConcurrentRuns
  BY <1>2, <1>3, FS_CardinalityType, LimitAssumption
<1>5. ASSUME NEW a \in Agents
      PROVE  IsFiniteSet(LeasedBy(a)') /\ Cardinality(LeasedBy(a)') <= MaxConcurrency[a]
  <2>1. CASE a = AgentOf[r]
    <3>1. Cardinality(LeasedBy(a)) \in Nat /\ MaxConcurrency[a] \in Nat
      BY FS_CardinalityType, LimitAssumption
    <3>2. Cardinality(LeasedBy(a)) + Cardinality(CreatingFor(a)) < MaxConcurrency[a]
      BY <2>1 DEF AgentHasRoom, LeasesOK, ReservationsOK
    <3>3. /\ IsFiniteSet(LeasedBy(a)')
          /\ Cardinality(LeasedBy(a)') <= Cardinality(LeasedBy(a)) + 1
      BY <2>1, <3>1, FS_AddElement
    <3> QED BY <3>1, <3>2, <3>3, CreatingFinite, FS_CardinalityType
  <2>2. CASE a # AgentOf[r] BY <2>2 DEF CapacityRespected
  <2> QED BY <2>1, <2>2
<1> QED BY <1>3, <1>4, <1>5 DEF CapacityRespected

\* Dropping the lease of a Run touches the set of its own Agent only.
LEMMA LeaseDropped ==
    ASSUME LeasesOK, LeaseTypeOK, NEW r \in Runs,
           leases' = [leases EXCEPT ![AgentOf[r]] = @ \ {r}],
           \A a \in Agents : LeasedBy(a)' = LeasedBy(a) \ {r}
    PROVE  LeasesOK'
<1> SUFFICES ASSUME NEW a \in Agents PROVE leases'[a] = LeasedBy(a)'
  BY DEF LeasesOK
<1>1. leases[a] = LeasedBy(a) BY DEF LeasesOK
<1>2. CASE a = AgentOf[r] BY <1>1, <1>2 DEF LeaseTypeOK
<1>3. CASE a # AgentOf[r]
  <2>1. r \notin LeasedBy(a) BY <1>3 DEF LeasedBy
  <2>2. leases'[a] = leases[a] BY <1>3 DEF LeaseTypeOK
  <2> QED BY <1>1, <2>1, <2>2
<1> QED BY <1>2, <1>3

\* create reserves a slot and a place among the leases of the Agent.
LEMMA CreateAccounts ==
    ASSUME AccountsOK, TypeOK, NEW r \in Runs, Create(r)
    PROVE  AccountsOK'
<1> USE RunAssumption DEF AccountsOK, NothingLeaks, TypeOK, Create
<1>1. pc[r] = "new" /\ \A q \in Runs : pc'[q] = IF q = r THEN "acquiring" ELSE pc[q]
  BY DEF Goto, RunTypeOK
<1>2. /\ Creating' = Creating \cup {r} /\ r \notin Creating
      /\ Executing' = Executing /\ Holders' = Holders
      /\ r \notin Executing
  BY <1>1 DEF Creating, Executing, Holders, CreatePCs, ActivePCs, LeasePCs
<1>3. \A a \in Agents : LeasedBy(a)' = IF a = AgentOf[r] THEN LeasedBy(a) \cup {r}
                                                         ELSE LeasedBy(a)
  BY <1>1 DEF LeasedBy, ActivePCs, LeasePCs
<1>4. InFlight' = InFlight \cup {r} BY <1>2 DEF InFlight
<1>5. ReservationsOK' BY <1>2, ReserveCounts
<1>6. LeasesOK' BY <1>3 DEF LeasesOK, LeaseTypeOK
<1>7. PathsOK' BY <1>2 DEF PathsOK
<1>8. SignalsOK' BY <1>2 DEF SignalsOK
<1> QED BY <1>2, <1>3, <1>4, <1>5, <1>6, <1>7, <1>8, AdmittedInLimits

\* acquire takes a directory nobody has.
LEMMA AcquireAccounts ==
    ASSUME AccountsOK, TypeOK, NEW r \in Runs, Acquire(r)
    PROVE  AccountsOK'
<1> USE RunAssumption DEF AccountsOK, NothingLeaks, TypeOK, Acquire
<1>1. pc[r] = "acquiring" /\ \A q \in Runs : pc'[q] = IF q = r THEN "preparing" ELSE pc[q]
  BY DEF Goto, RunTypeOK
<1>2. /\ Creating' = Creating /\ Executing' = Executing
      /\ Holders' = Holders \cup {r}
      /\ r \notin Holders
  BY <1>1 DEF Creating, Executing, Holders, CreatePCs, ActivePCs, LeasePCs
<1>3. \A a \in Agents : LeasedBy(a)' = LeasedBy(a) /\ CreatingFor(a)' = CreatingFor(a)
  BY <1>1, <1>2 DEF LeasedBy, ActivePCs, LeasePCs, CreatingFor
<1>4. InFlight' = InFlight BY <1>2 DEF InFlight
<1>5. ReservationsOK' BY <1>2, <1>3 DEF ReservationsOK
<1>6. LeasesOK' BY <1>3 DEF LeasesOK
<1>7. PathsOK'
  <2>1. \A p \in Runs \cup Agents :
           pathOwner'[p] = IF p = PathOf(r) THEN r ELSE pathOwner[p]
    BY DEF LeaseTypeOK
  <2>2. \A q \in Holders : PathOf(q) # PathOf(r)
    <3>1. PathOf(r) \in Runs \cup Agents BY DEF PathOf
    <3> QED BY <3>1 DEF PathFree, PathsOK, Holders
  <2> QED BY <2>1, <2>2, <1>2 DEF PathsOK
<1>8. SignalsOK' BY <1>2 DEF SignalsOK
<1> QED BY <1>2, <1>3, <1>4, <1>5, <1>6, <1>7, <1>8, FewerInFlight

\* acquire gives up: its own catch, and the finally of create, undo the rest.
LEMMA AcquireFailsAccounts ==
    ASSUME AccountsOK, TypeOK, NEW r \in Runs, AcquireFails(r)
    PROVE  AccountsOK'
<1> USE RunAssumption DEF AccountsOK, NothingLeaks, TypeOK, AcquireFails
<1>1. pc[r] = "acquiring" /\ \A q \in Runs : pc'[q] = IF q = r THEN "rejected" ELSE pc[q]
  BY DEF Goto, RunTypeOK
<1>2. /\ Creating' = Creating \ {r} /\ r \in Creating
      /\ Executing' = Executing /\ Holders' = Holders
  BY <1>1 DEF Creating, Executing, Holders, CreatePCs, ActivePCs, LeasePCs
<1>3. \A a \in Agents : LeasedBy(a)' = LeasedBy(a) \ {r}
  BY <1>1 DEF LeasedBy, ActivePCs, LeasePCs
<1>4. InFlight' \subseteq InFlight BY <1>2 DEF InFlight
<1>5. ReservationsOK' BY <1>2, ReleaseCounts
<1>6. LeasesOK' BY <1>3, LeaseDropped
<1>7. PathsOK' BY <1>2 DEF PathsOK
<1>8. SignalsOK' BY <1>2 DEF SignalsOK
<1> QED BY <1>2, <1>3, <1>4, <1>5, <1>6, <1>7, <1>8, FewerInFlight

\* The Run moves from the reservations to activeRuns.
LEMMA AnnounceAccounts ==
    ASSUME AccountsOK, TypeOK, NEW r \in Runs, Announce(r)
    PROVE  AccountsOK'
<1> USE RunAssumption DEF AccountsOK, NothingLeaks, TypeOK, Announce
<1>1. pc[r] = "announcing" /\ \A q \in Runs : pc'[q] = IF q = r THEN "starting" ELSE pc[q]
  BY DEF Goto, RunTypeOK
<1>2. /\ Creating' = Creating \ {r} /\ r \in Creating
      /\ Executing' = Executing \cup {r} /\ Holders' = Holders
  BY <1>1 DEF Creating, Executing, Holders, CreatePCs, ActivePCs, LeasePCs
<1>3. \A a \in Agents : LeasedBy(a)' = LeasedBy(a)
  BY <1>1 DEF LeasedBy, ActivePCs, LeasePCs
<1>4. InFlight' \subseteq InFlight BY <1>2 DEF InFlight
<1>5. ReservationsOK' BY <1>2, ReleaseCounts
<1>6. LeasesOK' BY <1>3 DEF LeasesOK
<1>7. PathsOK' BY <1>2 DEF PathsOK
<1>8. SignalsOK' BY <1>2 DEF SignalsOK, RunTypeOK
<1>9. active' = Executing' BY <1>2 DEF Activate
<1> QED BY <1>3, <1>4, <1>5, <1>6, <1>7, <1>8, <1>9, FewerInFlight

\* A Run gives its lease back at the end of create, or of execute.
LEMMA ReleaseLeaseAccounts ==
    ASSUME AccountsOK, TypeOK, NEW r \in Runs, ReleaseLease(r), UNCHANGED slotVars,
           UNCHANGED signal,
           \/ pc[r] = "unwinding" /\ Goto(r, "unwound")
           \/ pc[r] = "settling" /\ Goto(r, "releasing")
    PROVE  AccountsOK'
<1> USE RunAssumption DEF AccountsOK, NothingLeaks, TypeOK
<1>1. PICK to \in {"unwound", "releasing"} :
         /\ pc[r] = IF to = "unwound" THEN "unwinding" ELSE "settling"
         /\ \A q \in Runs : pc'[q] = IF q = r THEN to ELSE pc[q]
  BY DEF Goto, RunTypeOK
<1>2. /\ Creating' = Creating /\ Executing' = Executing
      /\ Holders' = Holders \ {r} /\ r \in Holders
  BY <1>1 DEF Creating, Executing, Holders, CreatePCs, ActivePCs, LeasePCs
<1>3. \A a \in Agents : /\ LeasedBy(a)' = LeasedBy(a) \ {r}
                        /\ CreatingFor(a)' = CreatingFor(a)
  BY <1>1, <1>2 DEF LeasedBy, ActivePCs, LeasePCs, CreatingFor
<1>4. InFlight' = InFlight BY <1>2 DEF InFlight
<1>5. ReservationsOK' BY <1>2, <1>3 DEF ReservationsOK
<1>6. LeasesOK' BY <1>3, LeaseDropped DEF ReleaseLease
<1>7. PathsOK'
  <2>1. PathOf(r) \in Runs \cup Agents BY DEF PathOf
  <2>2. pathOwner[PathOf(r)] = r BY <2>1, <1>2 DEF PathsOK
  <2>3. \A p \in Runs \cup Agents :
           pathOwner'[p] = IF p = PathOf(r) THEN NoRun ELSE pathOwner[p]
    BY <2>2 DEF ReleaseLease, LeaseTypeOK
  <2>4. \A q \in Holders : PathOf(q) = PathOf(r) => q = r
    BY <2>1, <2>2 DEF PathsOK, Holders
  <2> QED BY <2>3, <2>4, <1>2 DEF PathsOK
<1>8. SignalsOK' BY <1>2 DEF SignalsOK
<1> QED BY <1>2, <1>3, <1>4, <1>5, <1>6, <1>7, <1>8, FewerInFlight

\* The finally of create, after its catch.
LEMMA RejectCreateAccounts ==
    ASSUME AccountsOK, TypeOK, NEW r \in Runs, RejectCreate(r)
    PROVE  AccountsOK'
<1> USE RunAssumption DEF AccountsOK, NothingLeaks, TypeOK, RejectCreate
<1>1. pc[r] = "unwound" /\ \A q \in Runs : pc'[q] = IF q = r THEN "rejected" ELSE pc[q]
  BY DEF Goto, RunTypeOK
<1>2. /\ Creating' = Creating \ {r} /\ r \in Creating
      /\ Executing' = Executing /\ Holders' = Holders
  BY <1>1 DEF Creating, Executing, Holders, CreatePCs, ActivePCs, LeasePCs
<1>3. \A a \in Agents : LeasedBy(a)' = LeasedBy(a)
  BY <1>1 DEF LeasedBy, ActivePCs, LeasePCs
<1>4. InFlight' \subseteq InFlight BY <1>2 DEF InFlight
<1>5. ReservationsOK' BY <1>2, ReleaseCounts
<1>6. LeasesOK' BY <1>3 DEF LeasesOK
<1>7. PathsOK' BY <1>2 DEF PathsOK
<1>8. SignalsOK' BY <1>2 DEF SignalsOK
<1> QED BY <1>2, <1>3, <1>4, <1>5, <1>6, <1>7, <1>8, FewerInFlight

\* An error inside execute.
LEMMA ThrowAccounts ==
    ASSUME AccountsOK, TypeOK, NEW r \in Runs, Throw(r), UNCHANGED leaseVars,
           UNCHANGED <<pendingRuns, pendingOf>>
    PROVE  AccountsOK'
<1>1. CASE pc[r] \in {"failing", "failed"} /\ Leave(r, "unhandled")
  BY <1>1, LeaveAccounts DEF ActivePCs
<1>2. CASE pc[r] \in {"starting", "started", "completing", "completed"} /\ Goto(r, "flushing")
           /\ UNCHANGED <<active, signal>>
  <2>1. {pc[r], "flushing"} \subseteq ActivePCs BY <1>2 DEF ActivePCs
  <2> QED BY <1>2, <2>1, StaysInClass DEF TypeOK
<1> QED BY <1>1, <1>2 DEF Throw

\* The steps of create.
LEMMA CreateStepAccounts ==
    ASSUME AccountsOK, TypeOK, NEW r \in Runs, Create(r) \/ Refuse(r) \/ CreateStep(r)
    PROVE  AccountsOK'
<1> USE DEF TypeOK
<1>1. CASE Create(r) BY <1>1, CreateAccounts
<1>2. CASE Refuse(r)
  <2>1. PICK to \in AtRestPCs : Goto(r, to) /\ pc[r] \in AtRestPCs
    BY <1>2 DEF Refuse, AtRestPCs
  <2>2. {pc[r], to} \subseteq (AtRestPCs \cup EndingPCs) \ {"settling"}
    BY <2>1 DEF AtRestPCs
  <2> QED BY <1>2, <2>1, <2>2, StaysInClass DEF Refuse
<1>3. CASE Acquire(r) BY <1>3, AcquireAccounts
<1>4. CASE AcquireFails(r) BY <1>4, AcquireFailsAccounts
<1>5. CASE Announce(r) BY <1>5, AnnounceAccounts
<1>6. CASE Unwind(r) BY <1>6, ReleaseLeaseAccounts DEF Unwind
<1>7. CASE RejectCreate(r) BY <1>7, RejectCreateAccounts
<1>8. CASE Prepare(r) \/ Record(r) \/ RecordFails(r) \/ AnnounceFails(r)
  <2>1. PICK to \in {"recording", "unwinding", "announcing"} :
           Goto(r, to) /\ pc[r] \in {"preparing", "recording", "announcing"}
    BY <1>8 DEF Prepare, Record, RecordFails, AnnounceFails
  <2>2. {pc[r], to} \subseteq CreatePCs \ {"acquiring", "unwound"} BY <2>1 DEF CreatePCs
  <2> QED BY <1>8, <2>1, <2>2, StaysInClass DEF Prepare, Record, RecordFails, AnnounceFails
<1> QED BY <1>1, <1>2, <1>3, <1>4, <1>5, <1>6, <1>7, <1>8 DEF CreateStep

\* The engine, the store, and the steps of execute.
LEMMA ExecuteAccounts ==
    ASSUME AccountsOK, IInv1, NEW r \in Runs,
           StoreStep(r) \/ EngineEvent(r) \/ EngineEnd(r) \/ ExecuteStep(r)
    PROVE  AccountsOK'
<1> USE DEF IInv1, TypeOK
<1>1. CASE Write(r)
  <2>1. CASE Head(writes[r]).by = "run"
    <3>1. pc[r] \in PersistPCs
      BY <1>1, <2>1 DEF Write, StateTypeOK, WritesOK
    <3>2. {pc[r], After[pc[r]]} \subseteq ActivePCs BY <3>1 DEF PersistPCs, After, ActivePCs
    <3> QED BY <1>1, <2>1, <3>2, StaysInClass DEF Write
  <2>2. CASE Head(writes[r]).by # "run"
    BY <1>1, <2>2, PCUnchanged DEF Write
  <2> QED BY <2>1, <2>2
<1>2. CASE WriteFails(r)
  <2>1. CASE Throw(r) BY <1>2, <2>1, ThrowAccounts DEF WriteFails
  <2>2. CASE ~Throw(r) BY <1>2, <2>2, PCUnchanged DEF WriteFails
  <2> QED BY <2>1, <2>2
<1>3. CASE Announced(r)
  <2>1. CASE pc[r] = "started"
    <3>1. {pc[r], "executing"} \subseteq ActivePCs BY <2>1 DEF ActivePCs
    <3> QED BY <1>3, <2>1, <3>1, StaysInClass DEF Announced
  <2>2. CASE pc[r] # "started"
    BY <1>3, <2>2, LeaveAccounts DEF Announced, ActivePCs
  <2> QED BY <2>1, <2>2
<1>4. CASE AnnouncedFails(r) BY <1>4, ThrowAccounts DEF AnnouncedFails
<1>5. CASE LinkFails(r) BY <1>5, LeaveAccounts DEF LinkFails, ActivePCs
<1>6. CASE EngineEvent(r) \/ LinkStart(r) \/ LinkDone(r)
  BY <1>6, PCUnchanged DEF EngineEvent, LinkStart, LinkDone
<1>7. CASE EngineEnd(r) \/ Flushed(r)
  <2>1. PICK to \in {"flushing", "completing", "failing"} :
           Goto(r, to) /\ pc[r] \in {"executing", "flushing"}
    BY <1>7 DEF EngineEnd, Flushed
  <2>2. {pc[r], to} \subseteq ActivePCs BY <2>1 DEF ActivePCs
  <2> QED BY <1>7, <2>1, <2>2, StaysInClass DEF EngineEnd, Flushed
<1>8. CASE Settled(r) BY <1>8, ReleaseLeaseAccounts DEF Settled
<1>9. CASE Removed(r) \/ Reported(r) \/ Ended(r)
  <2>1. PICK to \in {"ending", "reporting", "done"} :
           Goto(r, to) /\ pc[r] \in {"releasing", "reporting", "ending"}
    BY <1>9 DEF Removed, Reported, Ended
  <2>2. {pc[r], to} \subseteq (AtRestPCs \cup EndingPCs) \ {"settling"}
    BY <2>1 DEF AtRestPCs, EndingPCs
  <2> QED BY <1>9, <2>1, <2>2, StaysInClass DEF Removed, Reported, Ended
<1>10. CASE UnhandledEnd(r) BY <1>10, LoseMemoryAccounts DEF UnhandledEnd
<1> QED BY <1>1, <1>2, <1>3, <1>4, <1>5, <1>6, <1>7, <1>8, <1>9, <1>10
        DEF StoreStep, ExecuteStep

\* The steps of cancel: an aborted controller is still there.
LEMMA CancelAccounts ==
    ASSUME AccountsOK, TypeOK, NEW r \in Runs, Cancel(r) \/ CancelStep(r)
    PROVE  AccountsOK'
<1>1. UNCHANGED slotVars /\ UNCHANGED leaseVars /\ UNCHANGED pc
  BY DEF Cancel, CancelStep, CancelRead, CancelReturns
<1>2. Abort(r) \/ UNCHANGED signal
  BY DEF Cancel, CancelStep, CancelRead, CancelReturns
<1>3. \A q \in Runs : signal'[q] = "none" <=> signal[q] = "none"
  BY <1>2 DEF Abort, TypeOK, RunTypeOK
<1> QED BY <1>1, <1>3, PCUnchanged

\* Shutdown, crash, restart and recovery.
LEMMA ProcessAccounts ==
    ASSUME AccountsOK, TypeOK,
           \/ Shutdown \/ Stop \/ Crash \/ Restart \/ RecoveryFails \/ BootStep
           \/ \E r \in Runs : UnhandledLink(r)
    PROVE  AccountsOK'
<1>1. CASE Shutdown
  <2>1. \A q \in Runs : signal'[q] = "none" <=> signal[q] = "none"
    BY <1>1 DEF Shutdown
  <2> QED BY <1>1, <2>1, PCUnchanged DEF Shutdown
<1>2. CASE Stop \/ Crash \/ RecoveryFails \/ \E r \in Runs : UnhandledLink(r)
  BY <1>2, LoseMemoryAccounts DEF Stop, Crash, RecoveryFails, UnhandledLink
<1>3. CASE Restart \/ BootStep
  <2>1. UNCHANGED slotVars /\ UNCHANGED leaseVars /\ UNCHANGED pc /\ UNCHANGED signal
    BY <1>3 DEF Restart, BootStep, Serve, Recover, Recovered
  <2> QED BY <2>1, PCUnchanged
<1> QED BY <1>1, <1>2, <1>3

\* Every step.
LEMMA StepAccounts == IInv1 /\ AccountsOK /\ [Next]_vars => AccountsOK'
<1> SUFFICES ASSUME IInv1, AccountsOK, [Next]_vars PROVE AccountsOK'
  OBVIOUS
<1>0. TypeOK BY DEF IInv1
<1>1. CASE UNCHANGED vars
  BY <1>1, PCUnchanged DEF vars
<1>2. CASE \E r \in Runs : Create(r) \/ Refuse(r) \/ CreateStep(r)
  BY <1>0, <1>2, CreateStepAccounts
<1>3. CASE \E r \in Runs : StoreStep(r) \/ EngineEvent(r) \/ EngineEnd(r) \/ ExecuteStep(r)
  BY <1>3, ExecuteAccounts
<1>4. CASE \E r \in Runs : Cancel(r) \/ CancelStep(r) BY <1>0, <1>4, CancelAccounts
<1>5. CASE \/ Shutdown \/ Stop \/ Crash \/ Restart \/ RecoveryFails \/ BootStep
           \/ \E r \in Runs : UnhandledLink(r)
  BY <1>0, <1>5, ProcessAccounts
<1> QED BY <1>1, <1>2, <1>3, <1>4, <1>5 DEF Next

\* The accounts are right in every state of every behaviour.
LEMMA AccountsInvariant == Spec => []AccountsOK
<1>1. Init => IInv1 /\ AccountsOK BY InitTypes, InitAccounts
<1>2. (IInv1 /\ AccountsOK) /\ [Next]_vars => (IInv1 /\ AccountsOK)'
  BY StepTypes, StepAccounts
<1> QED BY <1>1, <1>2, PTL DEF Spec

\* Nothing leaks, on no path through create and execute, whichever step of it fails.
THEOREM SlotsNeverLeak == Spec => []NothingLeaks
<1>1. AccountsOK => NothingLeaks BY DEF AccountsOK
<1> QED BY <1>1, AccountsInvariant, PTL

\* Neither the Node nor an Agent ever has more Runs under way than its limit.
THEOREM LimitsHold == Spec => []CapacityRespected
<1>1. AccountsOK => CapacityRespected BY DEF AccountsOK
<1> QED BY <1>1, AccountsInvariant, PTL

\* No directory is ever leased to two Runs at once.
THEOREM DirectoriesAreExclusive == Spec => []WorkspaceExclusive
<1>1. AccountsOK => WorkspaceExclusive
  <2> SUFFICES ASSUME AccountsOK, NEW r \in Holders, NEW q \in Holders, PathOf(r) = PathOf(q)
               PROVE  r = q
    BY DEF WorkspaceExclusive
  <2>1. PathOf(r) \in Runs \cup Agents BY RunAssumption DEF PathOf, Holders
  <2> QED BY <2>1 DEF AccountsOK, NothingLeaks, PathsOK, Holders
<1> QED BY <1>1, AccountsInvariant, PTL
=============================================================================
