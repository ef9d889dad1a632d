--------------------------- MODULE RunEventProofs ---------------------------
(***************************************************************************)
(* The events of a Run: no two get the same number, and nothing an engine  *)
(* said is stored after the event that ends the Run, whatever the store    *)
(* does, and however often the process dies and starts again.              *)
(*                                                                         *)
(* Neither is inductive.  A new number is fresh only because nextSeq       *)
(* bounds the numbers in use while the Node is awake (SeqOK), which after  *)
(* a start rests on the last stored event being there to be found.  That   *)
(* an engine is silent after the end of its Run rests on where the handler *)
(* stands (PlaceOK, SilenceOK).                                            *)
(***************************************************************************)
EXTENDS RunLifecycleProofs, WellFoundedInduction

Awake == node \in {"booting", "up"}

\* Numbers in use are different, and not above nextSeq while the Node is awake.
SeqOKFor(r) ==
    /\ \A d, e \in log[r] : d.seq = e.seq => d = e
    /\ \A d, e \in emitting[r] : d.seq = e.seq => d = e
    /\ \A d \in log[r], e \in emitting[r] : d.seq # e.seq
    /\ \A e \in emitting[r] : e.seq <= nextSeq[r]
    /\ Awake => \A e \in log[r] : e.seq <= nextSeq[r]
    /\ \E n \in Nat : \A e \in log[r] : e.seq <= n

SeqOK == \A r \in Runs : SeqOKFor(r)

\* A Node that is not up does nothing for a Run but to recover it.
AsleepOK == node # "up" =>
    \A r \in Runs : /\ pc[r] \in AtRestPCs
                    /\ queued[r] = 0 /\ writes[r] = <<>> /\ cpc[r] = "idle"

\* What recovery emits, it emits for a Run it still has to close.
BootOK ==
    /\ \A r \in Runs : \A e \in emitting[r] :
          (e.by = "boot" <=> node # "up") /\ (e.by = "boot" => r \in toRecover)
    /\ node # "up" => \A q, r \in Runs : \A d \in emitting[q], e \in emitting[r] :
                         q = r /\ d = e
    /\ node # "booting" => toRecover = {}
    /\ node \notin {"booting", "up"} => \A r \in Runs : emitting[r] = {}
    /\ draining => node = "up"

\* Of a Run nobody asked for the store has nothing, so recovery leaves it alone.
NewOK == \A r \in Runs : /\ pc[r] = "new" => stored[r] = "none" /\ writes[r] = <<>>
                         /\ r \in toRecover => stored[r] # "none"

PlaceOK == AsleepOK /\ BootOK /\ NewOK

\* Where a Run may be once an event has ended it.
Past == {"flushing", "completing", "completed", "failing", "failed"} \cup EndingPCs
        \cup (AtRestPCs \ {"new"})

Silent(r) == queued[r] = 0 /\ LinkIdle(r)

\* The engine of a Run is silent once its end is written or announced.
SilenceOKFor(r) ==
    /\ pc[r] \in {"completing", "completed", "failing", "failed"} => Silent(r)
    /\ \A d \in log[r] \cup emitting[r] : d.type \in TerminalEvents =>
          /\ Silent(r)
          /\ pc[r] \in Past
          /\ \A e \in log[r] : e.type = "engine" => e.seq < d.seq

SilenceOK == \A r \in Runs : SilenceOKFor(r)

\* Only an engine emits what engines say.
VoicesOK == \A r \in Runs : \A e \in emitting[r] : e.type = "engine" => e.by = "engine"

EventsOK == SeqOK /\ PlaceOK /\ SilenceOK /\ VoicesOK

USE DEF processVars, slotVars, leaseVars, runVars, eventVars, stateVars, boundVars,
        createFrame, executeFrame

-----------------------------------------------------------------------------
(* The number of the last event *)

\* A non-empty set of naturals has a least element.
LEMMA LeastNatural ==
    ASSUME NEW S, S \subseteq Nat, S # {}
    PROVE  \E n \in S : \A m \in S : n <= m
<1>1. PICK n \in S : \A m \in S : ~(<<m, n>> \in OpToRel(<, Nat))
  BY NatLessThanWellFounded, WFMin
<1>2. \A m \in S : ~(m < n) BY <1>1 DEF OpToRel
<1> QED BY <1>2

\* Bounded numbers have a greatest one.
LEMMA GreatestNumber ==
    ASSUME NEW L, \A e \in L : e.seq \in Nat, L # {},
           NEW n \in Nat, \A e \in L : e.seq <= n
    PROVE  \E e \in L : \A d \in L : d.seq <= e.seq
<1> DEFINE Bounds == {m \in Nat : \A e \in L : e.seq <= m}
<1>1. PICK m \in Bounds : \A k \in Bounds : m <= k BY LeastNatural
<1>2. ASSUME \A e \in L : e.seq # m PROVE FALSE
  <2>1. m # 0 BY <1>2
  <2>2. m - 1 \in Bounds BY <1>2, <2>1
  <2> QED BY <1>1, <2>2
<1> QED BY <1>1, <1>2

\* A Node that starts finds the last number of a Run in the store.
LEMMA LastSeqBounds ==
    ASSUME EventTypeOK, NEW r \in Runs, \E n \in Nat : \A e \in log[r] : e.seq <= n
    PROVE  \A e \in log[r] : e.seq <= LastSeq(r)
<1>1. \A e \in log[r] : e.seq \in Nat BY DEF EventTypeOK, Events
<1> SUFFICES ASSUME log[r] # {} PROVE \A e \in log[r] : e.seq <= LastSeq(r) OBVIOUS
<1>2. \E e \in log[r] : IsLast(r, e) BY <1>1, GreatestNumber DEF IsLast
<1> DEFINE last == CHOOSE e \in log[r] : IsLast(r, e)
<1>3. last \in log[r] /\ IsLast(r, last) BY <1>2
<1>4. LastSeq(r) = last.seq BY <1>2 DEF LastSeq
<1> QED BY <1>3, <1>4 DEF IsLast

-----------------------------------------------------------------------------
(* What a step does to the events *)

\* One event of r leaves the events on their way.
Dropped(r) == /\ \E e \in emitting[r] : emitting' = [emitting EXCEPT ![r] = @ \ {e}]
              /\ UNCHANGED <<log, nextSeq>>

\* Whatever a step is, it does one of these to the events.
LEMMA EventSteps ==
    ASSUME IInv1, PlaceOK, Next
    PROVE  \/ \E r \in Runs, by \in {"run", "engine", "cancel", "boot"}, type \in EventTypes :
                 /\ Emit(r, by, type) /\ (type = "engine" => by = "engine")
                 /\ Awake /\ node' = node
           \/ \E r \in Runs, by \in {"run", "engine", "cancel", "boot"} :
                 Appended(r, by) /\ node' = node
           \/ \E r \in Runs : Dropped(r) /\ node' = node
           \/ UNCHANGED eventVars /\ (Awake' => Awake)
           \/ \E end \in {"stopped", "crashed"} : LoseMemory(end)
           \/ Restart
<1>1. ASSUME NEW r \in Runs,
             Create(r) \/ Refuse(r) \/ Acquire(r) \/ AcquireFails(r) \/ Prepare(r) \/ Unwind(r)
             \/ RejectCreate(r) \/ RecordFails(r)
      PROVE  UNCHANGED eventVars /\ (Awake' => Awake)
  BY <1>1 DEF Create, Refuse, Acquire, AcquireFails, Prepare, Unwind, RejectCreate, RecordFails, Awake
<1>2. ASSUME NEW r \in Runs, EngineEvent(r) \/ EngineEnd(r) \/ Flushed(r) \/ Settled(r) \/ Ended(r)
             \/ WriteFails(r) \/ Cancel(r) \/ CancelRead(r)
      PROVE  UNCHANGED eventVars /\ (Awake' => Awake)
  BY <1>2 DEF EngineEvent, EngineEnd, Flushed, Settled, Ended, WriteFails, Cancel, CancelRead, Awake
<1>3. ASSUME Shutdown \/ Serve PROVE UNCHANGED eventVars /\ (Awake' => Awake)
  BY <1>3 DEF Shutdown, Serve, Awake
<1>4. ASSUME NEW r \in Runs, Record(r) \/ LinkStart(r) \/ Write(r) \/ Recover(r)
      PROVE  \E by \in {"run", "engine", "cancel", "boot"}, type \in EventTypes :
                /\ Emit(r, by, type) /\ (type = "engine" => by = "engine")
                /\ Awake /\ node' = node
  <2> USE DEF PlaceOK, AsleepOK, Awake, EventTypes
  <2>1. CASE Record(r) BY <2>1 DEF Record, AtRestPCs
  <2>2. CASE LinkStart(r) BY <2>2 DEF LinkStart
  <2>3. CASE Write(r)
    <3>1. /\ writes[r] \in Seq(Persists) /\ Head(writes[r]) = writes[r][1] /\ 1 \in DOMAIN writes[r]
          /\ node = "up" /\ node' = node
      BY <2>3 DEF Write, IInv1, TypeOK, StateTypeOK
    <3>2. CASE Head(writes[r]).by = "run" /\ Emit(r, "run", EventAfter[pc[r]])
      <4>1. pc[r] \in PersistPCs BY <3>1, <3>2 DEF IInv1, WritesOK
      <4>2. EventAfter[pc[r]] \in EventTypes /\ EventAfter[pc[r]] # "engine" BY <4>1 DEF PersistPCs, EventAfter
      <4> QED BY <3>1, <3>2, <4>2
    <3>3. CASE Emit(r, "cancel", "run.cancelling") BY <3>1, <3>3
    <3> QED BY <2>3, <3>2, <3>3 DEF Write
  <2>4. CASE Recover(r) BY <2>4 DEF Recover
  <2> QED BY <1>4, <2>1, <2>2, <2>3, <2>4
<1>5. ASSUME NEW r \in Runs, Announce(r) \/ Announced(r) \/ LinkDone(r) \/ Recovered(r)
      PROVE  \E by \in {"run", "engine", "cancel", "boot"} : Appended(r, by) /\ node' = node
  BY <1>5 DEF Announce, Announced, LinkDone, Recovered
<1>6. ASSUME NEW r \in Runs, AnnounceFails(r) \/ AnnouncedFails(r) \/ LinkFails(r)
      PROVE  Dropped(r) /\ node' = node
  BY <1>6 DEF AnnounceFails, AnnouncedFails, LinkFails, NotAppended, Dropped
<1>7. ASSUME NEW r \in Runs, Reported(r) \/ CancelReturns(r)
      PROVE  node' = node /\ (Dropped(r) \/ \E by \in {"run", "cancel"} : Appended(r, by))
  BY <1>7 DEF Reported, CancelReturns, NotAppended, Dropped
<1>8. ASSUME NEW r \in Runs, Removed(r)
      PROVE  \/ UNCHANGED eventVars /\ (Awake' => Awake)
             \/ Emit(r, "run", "workspace.cleanup_failed") /\ Awake /\ node' = node
  BY <1>8 DEF Removed, Call, Awake
<1>9. ASSUME \/ Stop \/ Crash \/ RecoveryFails
             \/ \E r \in Runs : UnhandledEnd(r) \/ UnhandledLink(r)
      PROVE  \E end \in {"stopped", "crashed"} : LoseMemory(end)
  BY <1>9 DEF Stop, Crash, RecoveryFails, UnhandledEnd, UnhandledLink
<1> QED
  BY <1>1, <1>2, <1>3, <1>4, <1>5, <1>6, <1>7, <1>8, <1>9
  DEF Next, CreateStep, ExecuteStep, StoreStep, CancelStep, BootStep, EventTypes

-----------------------------------------------------------------------------
(* The numbers stay different *)

\* An event gets the number after the highest in use.
LEMMA EmitNumbers ==
    ASSUME EventTypeOK, SeqOK, Awake, node' = node, NEW r \in Runs, NEW by, NEW type,
           Emit(r, by, type)
    PROVE  SeqOK'
<1>1. Awake' BY DEF Awake
<1> SUFFICES ASSUME NEW q \in Runs PROVE SeqOKFor(q)' BY DEF SeqOK
<1>2. SeqOKFor(q) BY DEF SeqOK
<1>3. CASE q # r
  <2>1. log'[q] = log[q] /\ emitting'[q] = emitting[q] /\ nextSeq'[q] = nextSeq[q]
    BY <1>3 DEF Emit, EventTypeOK
  <2> QED BY <1>1, <1>2, <2>1 DEF SeqOKFor
<1>4. CASE q = r
  <2> DEFINE new == [by |-> by, seq |-> nextSeq[r] + 1, type |-> type]
  <2>1. /\ log'[q] = log[q] /\ emitting'[q] = emitting[q] \cup {new}
        /\ nextSeq'[q] = nextSeq[q] + 1 /\ nextSeq[q] \in Nat
    BY <1>4 DEF Emit, EventTypeOK
  <2>2. /\ \A e \in log[q] : e.seq \in Nat /\ e.seq <= nextSeq[q]
        /\ \A e \in emitting[q] : e.seq \in Nat /\ e.seq <= nextSeq[q]
    BY <1>2 DEF SeqOKFor, EventTypeOK, Events, Emissions
  <2>3. new.seq = nextSeq[q] + 1 BY <1>4
  <2> HIDE DEF new
  <2>4. \A d, e \in emitting'[q] : d.seq = e.seq => d = e
    BY <1>2, <2>1, <2>2, <2>3 DEF SeqOKFor
  <2>5. \A d \in log'[q], e \in emitting'[q] : d.seq # e.seq
    BY <1>2, <2>1, <2>2, <2>3 DEF SeqOKFor
  <2>6. /\ \A e \in emitting'[q] : e.seq <= nextSeq'[q]
        /\ \A e \in log'[q] : e.seq <= nextSeq'[q]
    BY <2>1, <2>2, <2>3
  <2> QED BY <1>1, <1>2, <2>1, <2>4, <2>5, <2>6 DEF SeqOKFor
<1> QED BY <1>3, <1>4

\* A stored event keeps its number.
LEMMA AppendedNumbers ==
    ASSUME EventTypeOK, SeqOK, node' = node, NEW r \in Runs, NEW by, Appended(r, by)
    PROVE  SeqOK'
<1>1. PICK e \in emitting[r] :
         /\ log' = [log EXCEPT ![r] = @ \cup {[seq |-> e.seq, type |-> e.type]}]
         /\ emitting' = [emitting EXCEPT ![r] = @ \ {e}]
         /\ nextSeq' = nextSeq
  BY DEF Appended
<1> SUFFICES ASSUME NEW q \in Runs PROVE SeqOKFor(q)' BY DEF SeqOK
<1>2. SeqOKFor(q) BY DEF SeqOK
<1>2a. Awake' = Awake BY DEF Awake
<1>3. CASE q # r
  <2>1. log'[q] = log[q] /\ emitting'[q] = emitting[q] /\ nextSeq'[q] = nextSeq[q]
    BY <1>1, <1>3 DEF EventTypeOK
  <2> QED BY <1>2, <1>2a, <2>1 DEF SeqOKFor
<1>4. CASE q = r
  <2> DEFINE old == [seq |-> e.seq, type |-> e.type]
  <2>1. /\ log'[q] = log[q] \cup {old} /\ emitting'[q] = emitting[q] \ {e}
        /\ nextSeq'[q] = nextSeq[q] /\ nextSeq[q] \in Nat
        /\ old.seq = e.seq
    BY <1>1, <1>4 DEF EventTypeOK
  <2> HIDE DEF old
  <2>2. /\ \A d \in log[q] : d.seq \in Nat
        /\ e \in emitting[q] /\ e.seq \in Nat
    BY <1>4 DEF EventTypeOK, Events, Emissions
  <2>3. \A d, f \in log'[q] : d.seq = f.seq => d = f BY <1>2, <2>1, <2>2 DEF SeqOKFor
  <2>4. \A d \in log'[q], f \in emitting'[q] : d.seq # f.seq BY <1>2, <2>1, <2>2 DEF SeqOKFor
  <2>5. \E n \in Nat : \A d \in log'[q] : d.seq <= n
    <3>1. PICK n \in Nat : \A d \in log[q] : d.seq <= n BY <1>2 DEF SeqOKFor
    <3>2. CASE e.seq <= n BY <3>1, <3>2, <2>1
    <3>3. CASE ~(e.seq <= n)
      <4>1. \A d \in log'[q] : d.seq <= e.seq BY <3>1, <3>3, <2>1, <2>2
      <4> QED BY <4>1, <2>2
    <3> QED BY <3>2, <3>3
  <2>6. /\ \A f \in emitting'[q] : f.seq <= nextSeq'[q]
        /\ Awake' => \A d \in log'[q] : d.seq <= nextSeq'[q]
    BY <1>2, <1>2a, <2>1, <2>2 DEF SeqOKFor
  <2>7. \A d, f \in emitting'[q] : d.seq = f.seq => d = f BY <1>2, <2>1 DEF SeqOKFor
  <2> QED BY <2>3, <2>4, <2>5, <2>6, <2>7 DEF SeqOKFor
<1> QED BY <1>3, <1>4

\* Fewer events on their way.
LEMMA DroppedNumbers ==
    ASSUME EventTypeOK, SeqOK, node' = node, NEW r \in Runs, Dropped(r)
    PROVE  SeqOK'
<1>1. /\ \A q \in Runs : emitting'[q] \subseteq emitting[q]
      /\ log' = log /\ nextSeq' = nextSeq /\ Awake' = Awake
  BY DEF Dropped, EventTypeOK, Awake
<1> SUFFICES ASSUME NEW q \in Runs PROVE SeqOKFor(q)' BY DEF SeqOK
<1>2. SeqOKFor(q) BY DEF SeqOK
<1> QED BY <1>1, <1>2 DEF SeqOKFor

\* A process that ends leaves the log, and nothing on its way.
LEMMA LoseMemoryNumbers ==
    ASSUME SeqOK, NEW end \in {"stopped", "crashed"}, LoseMemory(end)
    PROVE  SeqOK'
<1>1. /\ \A q \in Runs : emitting'[q] = {}
      /\ log' = log /\ ~Awake'
  BY DEF LoseMemory, Awake
<1> QED BY <1>1 DEF SeqOK, SeqOKFor

\* A process that starts goes on from the last number.
LEMMA RestartNumbers ==
    ASSUME EventTypeOK, PlaceOK, SeqOK, Restart
    PROVE  SeqOK'
<1> SUFFICES ASSUME NEW q \in Runs PROVE SeqOKFor(q)' BY DEF SeqOK
<1>1. SeqOKFor(q) BY DEF SeqOK
<1>2. emitting[q] = {} /\ emitting' = emitting /\ log' = log /\ nextSeq'[q] = LastSeq(q)
  BY DEF Restart, PlaceOK, BootOK
<1>3. \A e \in log[q] : e.seq <= LastSeq(q) BY <1>1, LastSeqBounds DEF SeqOKFor
<1> QED BY <1>1, <1>2, <1>3 DEF SeqOKFor

\* Every step keeps the numbers different.
LEMMA StepNumbers == IInv1 /\ PlaceOK /\ SeqOK /\ [Next]_vars => SeqOK'
<1> SUFFICES ASSUME IInv1, PlaceOK, SeqOK, [Next]_vars PROVE SeqOK' OBVIOUS
<1>1. EventTypeOK BY DEF IInv1, TypeOK
<1>2. ASSUME UNCHANGED eventVars, Awake' => Awake PROVE SeqOK'
  BY <1>2 DEF SeqOK, SeqOKFor
<1>3. CASE UNCHANGED vars BY <1>2, <1>3 DEF vars, Awake
<1>4. CASE Next
  BY <1>1, <1>2, <1>4, EventSteps, EmitNumbers, AppendedNumbers, DroppedNumbers,
     LoseMemoryNumbers, RestartNumbers
<1> QED BY <1>3, <1>4

-----------------------------------------------------------------------------
(* Where handlers stand *)

\* While the Node is up, a step keeps it up or ends the process.
LEMMA UpSteps ==
    ASSUME BootOK, node = "up", Next
    PROVE  \/ \E end \in {"stopped", "crashed"} : LoseMemory(end)
           \/ /\ node' = "up" /\ toRecover' = toRecover
              /\ \/ \E r \in Runs : \/ Create(r) \/ Refuse(r) \/ CreateStep(r)
                                    \/ EngineEvent(r) \/ EngineEnd(r) \/ ExecuteStep(r)
                                    \/ StoreStep(r) \/ Cancel(r) \/ CancelStep(r)
                 \/ Shutdown
<1>1. ASSUME NEW r \in Runs, Create(r) \/ Refuse(r) \/ CreateStep(r) \/ EngineEvent(r) \/ EngineEnd(r)
      PROVE  node' = node /\ toRecover' = toRecover
  BY <1>1 DEF CreateStep, Create, Refuse, Acquire, AcquireFails, Prepare, Unwind, RejectCreate,
              Record, RecordFails, Announce, AnnounceFails, EngineEvent, EngineEnd
<1>2. ASSUME NEW r \in Runs, ExecuteStep(r), ~UnhandledEnd(r)
      PROVE  node' = node /\ toRecover' = toRecover
  BY <1>2 DEF ExecuteStep, Announced, AnnouncedFails, Flushed, LinkStart, LinkDone, LinkFails,
              Settled, Removed, Reported, Ended
<1>3. ASSUME NEW r \in Runs, StoreStep(r) \/ Cancel(r) \/ CancelStep(r)
      PROVE  node' = node /\ toRecover' = toRecover
  BY <1>3 DEF StoreStep, Write, WriteFails, Cancel, CancelStep, CancelRead, CancelReturns
<1>4. ASSUME NEW r \in Runs, UnhandledEnd(r) \/ UnhandledLink(r)
      PROVE  LoseMemory("crashed")
  BY <1>4 DEF UnhandledEnd, UnhandledLink
<1>5. ASSUME Stop \/ Crash \/ RecoveryFails
      PROVE  \E end \in {"stopped", "crashed"} : LoseMemory(end)
  BY <1>5 DEF Stop, Crash, RecoveryFails
<1>6. ~Restart /\ ~BootStep
  BY DEF Restart, BootStep, Serve, Recover, Recovered, Appended, BootOK
<1>7. Shutdown => node' = node /\ toRecover' = toRecover BY DEF Shutdown
<1> QED BY <1>1, <1>2, <1>3, <1>4, <1>5, <1>6, <1>7 DEF Next

\* While the Node is not up, the only steps are those of a start.
LEMMA AsleepSteps ==
    ASSUME AsleepOK, BootOK, node # "up", Next
    PROVE  \/ \E end \in {"stopped", "crashed"} : LoseMemory(end)
           \/ Restart \/ Serve \/ \E r \in Runs : Recover(r) \/ Recovered(r)
<1>1. ASSUME NEW r \in Runs, Create(r) \/ Refuse(r) \/ CreateStep(r) \/ EngineEvent(r) \/ EngineEnd(r)
      PROVE  FALSE
  BY <1>1 DEF CreateStep, Create, Refuse, Acquire, AcquireFails, Prepare, Unwind, RejectCreate,
              Record, RecordFails, Announce, AnnounceFails, EngineEvent, EngineEnd, Call, AsleepOK, AtRestPCs
<1>2. ASSUME NEW r \in Runs, ExecuteStep(r)
      PROVE  FALSE
  BY <1>2 DEF ExecuteStep, Announced, AnnouncedFails, Flushed, LinkStart, LinkDone, LinkFails,
              Settled, Removed, Reported, Ended, UnhandledEnd, Call, AsleepOK, BootOK, Appended, AtRestPCs
<1>3. ASSUME NEW r \in Runs, StoreStep(r) \/ Cancel(r) \/ CancelStep(r)
      PROVE  FALSE
  BY <1>3 DEF StoreStep, Write, WriteFails, Cancel, CancelStep, CancelRead, CancelReturns, Call, AsleepOK
<1>4. ASSUME Shutdown \/ \E r \in Runs : UnhandledLink(r) PROVE FALSE
  BY <1>4 DEF UnhandledLink, Shutdown, Call, AsleepOK, AtRestPCs
<1>5. ASSUME Stop \/ Crash \/ RecoveryFails
      PROVE  \E end \in {"stopped", "crashed"} : LoseMemory(end)
  BY <1>5 DEF Stop, Crash, RecoveryFails
<1> QED BY <1>1, <1>2, <1>3, <1>4, <1>5 DEF Next, BootStep

\* Where handlers stand when the process ends.
LEMMA LoseMemoryPlaces ==
    ASSUME NEW end \in {"stopped", "crashed"}, NewOK, LoseMemory(end)
    PROVE  PlaceOK'
<1> USE DEF LoseMemory
<1>1. AsleepOK' BY DEF AsleepOK, AtRestPCs
<1>2. BootOK' BY DEF BootOK
<1>3. NewOK' BY DEF NewOK, AtRestPCs
<1> QED BY <1>1, <1>2, <1>3 DEF PlaceOK

\* The steps of a start.
LEMMA BootPlaces ==
    ASSUME IInv1, PlaceOK, node # "up", Restart \/ Serve \/ \E r \in Runs : Recover(r) \/ Recovered(r)
    PROVE  PlaceOK'
<1> USE DEF PlaceOK
<1>1. CASE Restart
  <2>1. AsleepOK' BY <1>1 DEF Restart, AsleepOK
  <2>2. BootOK' BY <1>1 DEF Restart, BootOK
  <2>3. NewOK' BY <1>1 DEF Restart, NewOK, Interrupted, Unfinished, Contract!Unfinished
  <2> QED BY <2>1, <2>2, <2>3
<1>2. CASE Serve
  <2>1. AsleepOK' BY <1>2 DEF Serve, AsleepOK
  <2>2. BootOK' BY <1>2 DEF Serve, BootOK
  <2>3. NewOK' BY <1>2 DEF Serve, NewOK
  <2> QED BY <2>1, <2>2, <2>3
<1>3. ASSUME NEW r \in Runs, Recover(r) PROVE PlaceOK'
  <2>1. AsleepOK' BY <1>3 DEF Recover, AsleepOK
  <2>2. BootOK'
    <3> DEFINE new == [by |-> "boot", seq |-> nextSeq[r] + 1, type |-> "run.failed"]
    <3>1. \A q \in Runs : emitting'[q] = IF q = r THEN {new} ELSE {}
      BY <1>3 DEF Recover, Emit, IInv1, TypeOK, EventTypeOK
    <3>2. new.by = "boot" OBVIOUS
    <3> HIDE DEF new
    <3> QED BY <1>3, <3>1, <3>2 DEF Recover, BootOK
  <2>3. NewOK' BY <1>3 DEF Recover, NewOK, IInv1, TypeOK, StateTypeOK
  <2> QED BY <2>1, <2>2, <2>3
<1>4. ASSUME NEW r \in Runs, Recovered(r) PROVE PlaceOK'
  <2>1. AsleepOK' BY <1>4 DEF Recovered, AsleepOK
  <2>2. BootOK'
    <3>1. PICK e \in emitting[r] : emitting' = [emitting EXCEPT ![r] = @ \ {e}]
      BY <1>4 DEF Recovered, Appended
    <3>2. \A q \in Runs : emitting'[q] = {}
      BY <3>1 DEF BootOK, IInv1, TypeOK, EventTypeOK
    <3> QED BY <1>4, <3>2 DEF Recovered, BootOK
  <2>3. NewOK' BY <1>4 DEF Recovered, NewOK
  <2> QED BY <2>1, <2>2, <2>3
<1> QED BY <1>1, <1>2, <1>3, <1>4

\* Nothing is stored or written for a Run that is new, and no Run becomes new.
LEMMA NewSteps ==
    ASSUME IInv1, AccountsOK, NewOK, NEW q \in Runs, NEW r \in Runs,
           \/ Create(r) \/ Refuse(r) \/ CreateStep(r) \/ EngineEvent(r) \/ EngineEnd(r)
           \/ ExecuteStep(r) /\ ~UnhandledEnd(r)
           \/ StoreStep(r) \/ Cancel(r) \/ CancelStep(r)
    PROVE  pc'[q] = "new" => pc[q] = "new" /\ stored'[q] = "none" /\ writes'[q] = <<>>
<1> USE DEF IInv1, TypeOK, RunTypeOK, StateTypeOK, NewOK, Goto
<1>1. CASE Create(r) \/ Refuse(r) \/ CreateStep(r)
  BY <1>1 DEF CreateStep, Create, Refuse, Acquire, AcquireFails, Prepare, Unwind, RejectCreate,
              Record, RecordFails, Announce, AnnounceFails, Persist
<1>2. CASE EngineEvent(r) \/ EngineEnd(r)
  BY <1>2 DEF EngineEvent, EngineEnd
<1>3. CASE Announced(r) \/ AnnouncedFails(r) \/ LinkFails(r)
  BY <1>3 DEF Announced, AnnouncedFails, LinkFails, Leave, Throw
<1>4. CASE Flushed(r) \/ LinkStart(r) \/ LinkDone(r) \/ Settled(r) \/ Removed(r) \/ Reported(r) \/ Ended(r)
  BY <1>4 DEF Flushed, LinkStart, LinkDone, Settled, Removed, Reported, Ended, Persist
<1>5. CASE Write(r)
  <2>1. q # r => pc'[q] = pc[q] /\ stored'[q] = stored[q] /\ writes'[q] = writes[q]
    BY <1>5 DEF Write
  <2>2. pc[r] # "new" BY <1>5 DEF Write
  <2>3. pc'[r] # "new"
    <3>1. writes[r] \in Seq(Persists) /\ Head(writes[r]) = writes[r][1] /\ 1 \in DOMAIN writes[r]
      BY <1>5 DEF Write
    <3>2. Head(writes[r]).by = "run" => After[pc[r]] # "new"
      <4>1. Head(writes[r]).by = "run" => pc[r] \in PersistPCs BY <3>1 DEF WritesOK
      <4> QED BY <4>1 DEF PersistPCs, After
    <3> QED BY <1>5, <3>2, <2>2 DEF Write
  <2> QED BY <2>1, <2>2, <2>3
<1>6. CASE WriteFails(r)
  BY <1>6 DEF WriteFails, Throw, Leave
<1>7. CASE Cancel(r)
  <2>1. r \in active => pc[r] # "new"
    BY DEF AccountsOK, NothingLeaks, Executing, ActivePCs
  <2> QED BY <1>7, <2>1 DEF Cancel, Persist
<1>8. CASE CancelRead(r) \/ CancelReturns(r)
  BY <1>8 DEF CancelRead, CancelReturns, Persist, Unfinished, Contract!Unfinished
<1> QED BY <1>1, <1>2, <1>3, <1>4, <1>5, <1>6, <1>7, <1>8 DEF ExecuteStep, StoreStep, CancelStep

\* A step of a Node that is up emits nothing in the name of recovery.
LEMMA UpEmissions ==
    ASSUME IInv1, BootOK, node = "up", node' = "up", NEW r \in Runs,
           \/ Create(r) \/ Refuse(r) \/ CreateStep(r) \/ EngineEvent(r) \/ EngineEnd(r)
           \/ ExecuteStep(r) \/ StoreStep(r) \/ Cancel(r) \/ CancelStep(r)
    PROVE  \A q \in Runs : \A e \in emitting'[q] : e.by # "boot"
<1>1. \A q \in Runs : \A e \in emitting[q] : e.by # "boot" BY DEF BootOK
<1>2. emitting \in [Runs -> SUBSET Emissions] BY DEF IInv1, TypeOK, EventTypeOK
<1>3. ASSUME NEW by \in {"run", "engine", "cancel"}, NEW type, Emit(r, by, type)
      PROVE  \A q \in Runs : \A e \in emitting'[q] : e.by # "boot"
  <2>1. [by |-> by, seq |-> nextSeq[r] + 1, type |-> type].by # "boot" BY <1>3
  <2> QED BY <1>1, <1>2, <1>3, <2>1 DEF Emit
<1>4. ASSUME NEW by, Appended(r, by) \/ NotAppended(r, by)
      PROVE  \A q \in Runs : \A e \in emitting'[q] : e.by # "boot"
  BY <1>1, <1>2, <1>4 DEF Appended, NotAppended
<1>5. CASE Create(r) \/ Refuse(r) \/ CreateStep(r) \/ EngineEvent(r) \/ EngineEnd(r)
  BY <1>1, <1>3, <1>4, <1>5
  DEF CreateStep, Create, Refuse, Acquire, AcquireFails, Prepare, Unwind, RejectCreate,
      Record, RecordFails, Announce, AnnounceFails, EngineEvent, EngineEnd
<1>6. CASE ExecuteStep(r)
  <2>1. ~UnhandledEnd(r) BY DEF UnhandledEnd, LoseMemory
  <2> QED BY <1>1, <1>3, <1>4, <1>6, <2>1
          DEF ExecuteStep, Announced, AnnouncedFails, Flushed, LinkStart, LinkDone, LinkFails,
              Settled, Removed, Reported, Ended
<1>7. CASE StoreStep(r) \/ Cancel(r) \/ CancelStep(r)
  BY <1>1, <1>3, <1>4, <1>7 DEF StoreStep, Write, WriteFails, Cancel, CancelStep, CancelRead, CancelReturns
<1> QED BY <1>5, <1>6, <1>7

\* Handlers stand where they may.
LEMMA StepPlaces == IInv1 /\ AccountsOK /\ PlaceOK /\ [Next]_vars => PlaceOK'
<1> SUFFICES ASSUME IInv1, AccountsOK, PlaceOK, [Next]_vars PROVE PlaceOK' OBVIOUS
<1> USE DEF PlaceOK
<1>1. CASE UNCHANGED vars
  <2>1. AsleepOK' BY <1>1 DEF vars, AsleepOK
  <2>2. BootOK' BY <1>1 DEF vars, BootOK
  <2>3. NewOK' BY <1>1 DEF vars, NewOK
  <2> QED BY <2>1, <2>2, <2>3
<1>2. ASSUME \E end \in {"stopped", "crashed"} : LoseMemory(end) PROVE PlaceOK'
  BY <1>2, LoseMemoryPlaces
<1>3. CASE Next /\ node # "up" BY <1>2, <1>3, AsleepSteps, BootPlaces
<1>4. CASE Next /\ node = "up"
  <2>1. CASE node' = "up" /\ toRecover' = toRecover
    <3>1. AsleepOK' BY <2>1 DEF AsleepOK
    <3>2. ASSUME NEW r \in Runs,
                 \/ Create(r) \/ Refuse(r) \/ CreateStep(r) \/ EngineEvent(r) \/ EngineEnd(r)
                 \/ ExecuteStep(r) \/ StoreStep(r) \/ Cancel(r) \/ CancelStep(r)
          PROVE  BootOK' /\ NewOK'
      <4>1. BootOK' BY <1>4, <2>1, <3>2, UpEmissions DEF BootOK
      <4>2. ~UnhandledEnd(r) BY <2>1 DEF UnhandledEnd, LoseMemory
      <4>3. NewOK' BY <1>4, <2>1, <3>2, <4>2, NewSteps DEF NewOK, BootOK
      <4> QED BY <4>1, <4>3
    <3>3. CASE Shutdown
      <4>1. BootOK' BY <1>4, <2>1, <3>3 DEF Shutdown, BootOK
      <4>2. NewOK' BY <3>3 DEF Shutdown, NewOK
      <4> QED BY <3>1, <4>1, <4>2
    <3>4. CASE \E end \in {"stopped", "crashed"} : LoseMemory(end) BY <1>2, <3>4
    <3> QED BY <1>4, <3>1, <3>2, <3>3, <3>4, UpSteps
  <2> QED BY <1>2, <1>4, <2>1, UpSteps
<1> QED BY <1>1, <1>3, <1>4

-----------------------------------------------------------------------------
(* The engine is silent after the end *)

\* What only an engine says stays so.
LEMMA StepVoices == IInv1 /\ PlaceOK /\ VoicesOK /\ [Next]_vars => VoicesOK'
<1> SUFFICES ASSUME IInv1, PlaceOK, VoicesOK, [Next]_vars PROVE VoicesOK' OBVIOUS
<1>0. emitting \in [Runs -> SUBSET Emissions] BY DEF IInv1, TypeOK, EventTypeOK
<1>1. ASSUME \A q \in Runs : emitting'[q] \subseteq emitting[q] PROVE VoicesOK'
  BY <1>1 DEF VoicesOK
<1>2. ASSUME NEW r \in Runs, NEW by, NEW type, Emit(r, by, type), type = "engine" => by = "engine"
      PROVE  VoicesOK'
  <2> DEFINE new == [by |-> by, seq |-> nextSeq[r] + 1, type |-> type]
  <2>1. \A q \in Runs : emitting'[q] \subseteq emitting[q] \cup {new} BY <1>0, <1>2 DEF Emit
  <2>2. new.type = "engine" => new.by = "engine" BY <1>2
  <2> HIDE DEF new
  <2> QED BY <2>1, <2>2 DEF VoicesOK
<1>3. ASSUME NEW r \in Runs, (\E by : Appended(r, by)) \/ Dropped(r)
      PROVE  \A q \in Runs : emitting'[q] \subseteq emitting[q]
  BY <1>0, <1>3 DEF Appended, Dropped
<1>4. ASSUME UNCHANGED emitting \/ Restart \/ \E end \in {"stopped", "crashed"} : LoseMemory(end)
      PROVE  \A q \in Runs : emitting'[q] \subseteq emitting[q]
  BY <1>4 DEF Restart, LoseMemory
<1>5. CASE UNCHANGED vars BY <1>1, <1>4, <1>5 DEF vars
<1>6. CASE Next BY <1>1, <1>2, <1>3, <1>4, <1>6, EventSteps
<1> QED BY <1>5, <1>6

\* A step that ends no Run: what r has of terminal events it had before, and its
\* engine says something only if r is not past its end, or has links to start.
EventsKept(r) ==
    /\ \A d \in log'[r] \cup emitting'[r] : d.type \in TerminalEvents =>
          \E c \in log[r] \cup emitting[r] : c.seq = d.seq /\ c.type = d.type
    /\ \A e \in log'[r] : e.type = "engine" =>
          e \in log[r] \/ \E c \in emitting[r] : c.by = "engine"
    /\ \A e \in emitting'[r] : e \in emitting[r] \/ e.by # "engine" \/ queued[r] > 0

EndPCs == {"completing", "completed", "failing", "failed"}

\* A step that leaves r where it is, or moves it on.
PlaceKept(r) ==
    /\ queued'[r] \in {0, queued[r]} \/ pc[r] \notin Past \/ queued[r] > 0
    /\ pc[r] \in Past => pc'[r] \in Past
    /\ pc'[r] \in EndPCs => pc[r] \in EndPCs \/ (pc[r] = "flushing" /\ Silent(r))

\* Such a step keeps the engine silent.
LEMMA SilenceKept ==
    ASSUME NEW r \in Runs, RunTypeOK, SilenceOKFor(r), EventsKept(r), PlaceKept(r)
    PROVE  SilenceOKFor(r)'
<1>1. queued[r] \in Nat /\ EndPCs \subseteq Past /\ "flushing" \in Past BY DEF RunTypeOK, EndPCs, Past
<1>2. ASSUME Silent(r), pc[r] \in Past PROVE Silent(r)'
  BY <1>1, <1>2 DEF Silent, LinkIdle, EventsKept, PlaceKept
<1>3. pc'[r] \in EndPCs => Silent(r)' BY <1>1, <1>2 DEF PlaceKept, SilenceOKFor, EndPCs
<1>4. ASSUME NEW d \in log'[r] \cup emitting'[r], d.type \in TerminalEvents
      PROVE  /\ Silent(r)'
             /\ pc'[r] \in Past
             /\ \A e \in log'[r] : e.type = "engine" => e.seq < d.seq
  <2>1. PICK c \in log[r] \cup emitting[r] : c.seq = d.seq /\ c.type = d.type
    BY <1>4 DEF EventsKept
  <2>2. Silent(r) /\ pc[r] \in Past /\ \A e \in log[r] : e.type = "engine" => e.seq < c.seq
    BY <1>4, <2>1 DEF SilenceOKFor
  <2>3. \A e \in emitting[r] : e.by # "engine" BY <2>2 DEF Silent, LinkIdle
  <2> QED BY <1>2, <2>1, <2>2, <2>3 DEF EventsKept, PlaceKept
<1> QED BY <1>3, <1>4 DEF SilenceOKFor, EndPCs

\* A step that ends a Run whose engine is silent.
LEMMA SilenceReached ==
    ASSUME NEW r \in Runs, EventTypeOK, SeqOKFor(r), Awake, SilenceOKFor(r),
           NEW by, by # "engine", NEW type, Emit(r, by, type),
           Silent(r), queued' = queued, pc'[r] \in Past
    PROVE  SilenceOKFor(r)'
<1> DEFINE new == [by |-> by, seq |-> nextSeq[r] + 1, type |-> type]
<1>1. /\ log'[r] = log[r] /\ emitting'[r] = emitting[r] \cup {new}
      /\ new.by # "engine" /\ new.seq = nextSeq[r] + 1 /\ nextSeq[r] \in Nat
  BY DEF Emit, EventTypeOK
<1> HIDE DEF new
<1>2. Silent(r)' BY <1>1 DEF Silent, LinkIdle
<1>3. \A e \in log[r] : e.seq \in Nat /\ e.seq < new.seq
  BY <1>1 DEF SeqOKFor, EventTypeOK, Events
<1>4. ASSUME NEW d \in log'[r] \cup emitting'[r], d.type \in TerminalEvents, NEW e \in log'[r], e.type = "engine"
      PROVE  e.seq < d.seq
  BY <1>1, <1>3, <1>4 DEF SilenceOKFor
<1> QED BY <1>2, <1>4 DEF SilenceOKFor

\* Emitting anything but an end, storing an event, failing to.
LEMMA EmitKeepsEvents ==
    ASSUME EventTypeOK, NEW r \in Runs, NEW by, NEW type, Emit(r, by, type),
           type \notin TerminalEvents, by = "engine" => queued[r] > 0
    PROVE  \A q \in Runs : EventsKept(q)
<1> DEFINE new == [by |-> by, seq |-> nextSeq[r] + 1, type |-> type]
<1>1. /\ log' = log /\ \A q \in Runs : emitting'[q] = IF q = r THEN emitting[r] \cup {new} ELSE emitting[q]
      /\ new.type = type /\ new.by = by
  BY DEF Emit, EventTypeOK
<1> HIDE DEF new
<1> QED BY <1>1 DEF EventsKept

LEMMA AppendedKeepsEvents ==
    ASSUME EventTypeOK, VoicesOK, NEW r \in Runs, NEW by, Appended(r, by)
    PROVE  \A q \in Runs : EventsKept(q)
<1>1. PICK e \in emitting[r] :
         /\ log' = [log EXCEPT ![r] = @ \cup {[seq |-> e.seq, type |-> e.type]}]
         /\ emitting' = [emitting EXCEPT ![r] = @ \ {e}]
  BY DEF Appended
<1> DEFINE old == [seq |-> e.seq, type |-> e.type]
<1>2. /\ \A q \in Runs : q # r => log'[q] = log[q] /\ emitting'[q] = emitting[q]
      /\ log'[r] = log[r] \cup {old} /\ emitting'[r] \subseteq emitting[r]
      /\ old.seq = e.seq /\ old.type = e.type
  BY <1>1 DEF EventTypeOK
<1> HIDE DEF old
<1> QED BY <1>2 DEF EventsKept, VoicesOK

LEMMA FewerKeepsEvents ==
    ASSUME log' = log, \A q \in Runs : emitting'[q] \subseteq emitting[q]
    PROVE  \A q \in Runs : EventsKept(q)
BY DEF EventsKept

LEMMA NotAppendedKeepsEvents ==
    ASSUME EventTypeOK, NEW r \in Runs, NEW by, NotAppended(r, by)
    PROVE  \A q \in Runs : EventsKept(q)
BY FewerKeepsEvents DEF NotAppended, EventTypeOK

\* A step that leaves every Run at its place, and the links as they are.
LEMMA SamePlaces ==
    ASSUME pc' = pc, queued' = queued
    PROVE  \A q \in Runs : PlaceKept(q)
BY DEF PlaceKept

\* Storing the end of a Run, or a cancellation.
LEMMA WriteSilence ==
    ASSUME IInv1, SeqOK, SilenceOK, PlaceOK, NEW r \in Runs, Write(r)
    PROVE  SilenceOK'
<1> USE DEF IInv1, TypeOK
<1>0. /\ writes[r] \in Seq(Persists) /\ Head(writes[r]) = writes[r][1] /\ 1 \in DOMAIN writes[r]
      /\ queued' = queued
  BY DEF Write, StateTypeOK
<1>1. Awake BY <1>0 DEF PlaceOK, AsleepOK, Awake, Write
<1>2. CASE Emit(r, "cancel", "run.cancelling") /\ pc' = pc
  <2>1. \A q \in Runs : EventsKept(q) BY <1>2, EmitKeepsEvents DEF TerminalEvents
  <2>2. \A q \in Runs : PlaceKept(q) BY <1>0, <1>2, SamePlaces
  <2> QED BY <2>1, <2>2, SilenceKept DEF SilenceOK
<1>3. CASE Head(writes[r]).by = "run" /\ Emit(r, "run", EventAfter[pc[r]]) /\ Goto(r, After[pc[r]])
  <2>1. pc[r] \in PersistPCs BY <1>0, <1>3 DEF WritesOK
  <2>2. \A q \in Runs : q # r => pc'[q] = pc[q] /\ log'[q] = log[q] /\ emitting'[q] = emitting[q]
    BY <1>3 DEF Goto, Emit, RunTypeOK, EventTypeOK
  <2>3. \A q \in Runs : q # r => SilenceOKFor(q)'
    <3> SUFFICES ASSUME NEW q \in Runs, q # r PROVE SilenceOKFor(q)' OBVIOUS
    <3>1. EventsKept(q) /\ PlaceKept(q) BY <1>0, <2>2 DEF EventsKept, PlaceKept
    <3> QED BY <3>1, SilenceKept DEF SilenceOK
  <2>4. CASE pc[r] = "starting"
    <3>1. EventsKept(r) BY <1>3, <2>4, EmitKeepsEvents DEF EventAfter, TerminalEvents
    <3>2. pc'[r] = "started" BY <1>3, <2>4 DEF Goto, After, RunTypeOK
    <3>3. PlaceKept(r)
      BY <1>0, <2>4, <3>2 DEF PlaceKept, Past, EndPCs, EndingPCs, AtRestPCs
    <3> QED BY <2>3, <3>1, <3>3, SilenceKept DEF SilenceOK
  <2>5. CASE pc[r] # "starting"
    <3>1. pc[r] \in {"completing", "failing"} BY <2>1, <2>5 DEF PersistPCs
    <3>2. Silent(r) BY <3>1 DEF SilenceOK, SilenceOKFor
    <3>3. pc'[r] \in Past BY <1>3, <3>1 DEF Goto, After, RunTypeOK, Past
    <3>4. SilenceOKFor(r)'
      BY <1>0, <1>1, <1>3, <3>2, <3>3, SilenceReached DEF SilenceOK, SeqOK
    <3> QED BY <2>3, <3>4 DEF SilenceOK
  <2> QED BY <2>4, <2>5
<1> QED BY <1>2, <1>3 DEF Write

\* Recovery ends a Run whose engine is gone.
LEMMA RecoverSilence ==
    ASSUME IInv1, SeqOK, SilenceOK, PlaceOK, NEW r \in Runs, Recover(r)
    PROVE  SilenceOK'
<1> USE DEF IInv1, TypeOK, Recover
<1>1. Awake /\ queued' = queued /\ pc' = pc BY DEF Awake
<1>2. pc[r] \in AtRestPCs /\ pc[r] # "new" /\ queued[r] = 0
  BY DEF PlaceOK, AsleepOK, NewOK
<1>3. Silent(r) BY <1>2 DEF Silent, LinkIdle
<1>4. SilenceOKFor(r)'
  BY <1>1, <1>2, <1>3, SilenceReached DEF SilenceOK, SeqOK, Past
<1>5. ASSUME NEW q \in Runs, q # r PROVE SilenceOKFor(q)'
  <2>1. EventsKept(q) BY <1>5 DEF EventsKept, Emit, EventTypeOK
  <2>2. PlaceKept(q) BY <1>1, SamePlaces
  <2> QED BY <2>1, <2>2, SilenceKept DEF SilenceOK
<1> QED BY <1>4, <1>5 DEF SilenceOK

\* The other steps end no Run, and leave it where it is or move it on.
LEMMA PlainSteps ==
    ASSUME IInv1, VoicesOK, NEW r \in Runs,
           \/ Create(r) \/ Refuse(r) \/ CreateStep(r) \/ EngineEvent(r) \/ EngineEnd(r)
           \/ ExecuteStep(r) /\ ~UnhandledEnd(r)
           \/ WriteFails(r) \/ Cancel(r) \/ CancelStep(r)
    PROVE  \A q \in Runs : EventsKept(q) /\ PlaceKept(q)
<1> USE DEF IInv1, TypeOK
<1>0. ASSUME UNCHANGED eventVars PROVE \A q \in Runs : EventsKept(q)
  BY <1>0, FewerKeepsEvents
<1>1. CASE Create(r) \/ Refuse(r) \/ CreateStep(r)
  <2>1. \A q \in Runs : EventsKept(q)
    <3>1. CASE Record(r) BY <3>1, EmitKeepsEvents DEF Record, TerminalEvents
    <3>2. CASE Announce(r) BY <3>2, AppendedKeepsEvents DEF Announce
    <3>3. CASE AnnounceFails(r) BY <3>3, NotAppendedKeepsEvents DEF AnnounceFails
    <3> QED BY <1>0, <1>1, <3>1, <3>2, <3>3
            DEF CreateStep, Create, Refuse, Acquire, AcquireFails, Prepare, Unwind, RejectCreate, RecordFails
  <2>2. \A q \in Runs : PlaceKept(q)
    BY <1>1 DEF CreateStep, Create, Refuse, Acquire, AcquireFails, Prepare, Unwind, RejectCreate,
                RecordFails, Record, Announce, AnnounceFails, Goto, RunTypeOK,
                PlaceKept, Past, EndPCs, EndingPCs, AtRestPCs
  <2> QED BY <2>1, <2>2
<1>2. CASE EngineEvent(r) \/ EngineEnd(r)
  <2>1. \A q \in Runs : EventsKept(q) BY <1>0, <1>2 DEF EngineEvent, EngineEnd
  <2>2. \A q \in Runs : PlaceKept(q)
    BY <1>2 DEF EngineEvent, EngineEnd, Goto, RunTypeOK, PlaceKept, Past, EndPCs, EndingPCs, AtRestPCs
  <2> QED BY <2>1, <2>2
<1>3. CASE ExecuteStep(r) /\ ~UnhandledEnd(r)
  <2>1. \A q \in Runs : EventsKept(q)
    <3>1. CASE Announced(r) BY <3>1, AppendedKeepsEvents DEF Announced
    <3>2. CASE AnnouncedFails(r) BY <3>2, NotAppendedKeepsEvents DEF AnnouncedFails
    <3>3. CASE LinkStart(r) BY <3>3, EmitKeepsEvents DEF LinkStart, TerminalEvents
    <3>4. CASE LinkDone(r) BY <3>4, AppendedKeepsEvents DEF LinkDone
    <3>5. CASE LinkFails(r) BY <3>5, NotAppendedKeepsEvents DEF LinkFails
    <3>6. CASE Removed(r) BY <1>0, <3>6, EmitKeepsEvents DEF Removed, TerminalEvents
    <3>7. CASE Reported(r) BY <3>7, AppendedKeepsEvents, NotAppendedKeepsEvents DEF Reported
    <3>8. CASE Flushed(r) \/ Settled(r) \/ Ended(r) BY <1>0, <3>8 DEF Flushed, Settled, Ended
    <3> QED BY <1>3, <3>1, <3>2, <3>3, <3>4, <3>5, <3>6, <3>7, <3>8 DEF ExecuteStep
  <2>2. \A q \in Runs : PlaceKept(q)
    <3> USE DEF Goto, RunTypeOK, PlaceKept, Past, EndPCs, EndingPCs, AtRestPCs
    <3>1. CASE Announced(r) BY <3>1 DEF Announced, Leave
    <3>2. CASE AnnouncedFails(r) BY <3>2 DEF AnnouncedFails, Throw, Leave
    <3>3. CASE LinkStart(r) BY <3>3 DEF LinkStart
    <3>4. CASE LinkDone(r) BY <3>4 DEF LinkDone
    <3>5. CASE LinkFails(r) BY <3>5 DEF LinkFails, Leave
    <3>6. CASE Removed(r) \/ Reported(r) BY <3>6 DEF Removed, Reported
    <3>7. CASE Flushed(r) BY <3>7 DEF Flushed, EventsFlushed, Silent
    <3>8. CASE Settled(r) \/ Ended(r) BY <3>8 DEF Settled, Ended
    <3> QED BY <1>3, <3>1, <3>2, <3>3, <3>4, <3>5, <3>6, <3>7, <3>8 DEF ExecuteStep
  <2> QED BY <2>1, <2>2
<1>4. CASE WriteFails(r)
  <2>1. \A q \in Runs : EventsKept(q) BY <1>0, <1>4 DEF WriteFails
  <2>2. \A q \in Runs : PlaceKept(q)
    BY <1>4 DEF WriteFails, Throw, Leave, Goto, RunTypeOK, PlaceKept, Past, EndPCs, EndingPCs, AtRestPCs
  <2> QED BY <2>1, <2>2
<1>5. CASE Cancel(r) \/ CancelStep(r)
  <2>1. \A q \in Runs : EventsKept(q)
    BY <1>0, <1>5, AppendedKeepsEvents, NotAppendedKeepsEvents DEF Cancel, CancelStep, CancelRead, CancelReturns
  <2>2. \A q \in Runs : PlaceKept(q)
    BY <1>5, SamePlaces DEF Cancel, CancelStep, CancelRead, CancelReturns
  <2> QED BY <2>1, <2>2
<1> QED BY <1>1, <1>2, <1>3, <1>4, <1>5

\* The steps of the process.
LEMMA ProcessSilence ==
    ASSUME IInv1, VoicesOK, SilenceOK,
           \/ Shutdown \/ Restart \/ Serve \/ \E r \in Runs : Recovered(r)
           \/ \E end \in {"stopped", "crashed"} : LoseMemory(end)
    PROVE  SilenceOK'
<1> SUFFICES \A q \in Runs : EventsKept(q) /\ PlaceKept(q)
  BY SilenceKept DEF SilenceOK, IInv1, TypeOK
<1>1. CASE Shutdown \/ Restart \/ Serve
  BY <1>1, SamePlaces, FewerKeepsEvents DEF Shutdown, Restart, Serve
<1>2. CASE \E r \in Runs : Recovered(r)
  BY <1>2, SamePlaces, AppendedKeepsEvents DEF Recovered, IInv1, TypeOK
<1>3. CASE \E end \in {"stopped", "crashed"} : LoseMemory(end)
  <2>1. \A q \in Runs : EventsKept(q) BY <1>3, FewerKeepsEvents DEF LoseMemory
  <2>2. \A q \in Runs : PlaceKept(q)
    BY <1>3 DEF LoseMemory, PlaceKept, Past, EndPCs, AtRestPCs
  <2> QED BY <2>1, <2>2
<1> QED BY <1>1, <1>2, <1>3

\* Every step.
LEMMA StepSilence == IInv1 /\ EventsOK /\ [Next]_vars => SilenceOK'
<1> SUFFICES ASSUME IInv1, EventsOK, [Next]_vars PROVE SilenceOK' OBVIOUS
<1> USE DEF EventsOK
<1>1. CASE UNCHANGED vars
  BY <1>1 DEF vars, SilenceOK, SilenceOKFor, Silent, LinkIdle
<1>2. ASSUME NEW r \in Runs,
             \/ Create(r) \/ Refuse(r) \/ CreateStep(r) \/ EngineEvent(r) \/ EngineEnd(r)
             \/ ExecuteStep(r) /\ ~UnhandledEnd(r)
             \/ WriteFails(r) \/ Cancel(r) \/ CancelStep(r)
      PROVE  SilenceOK'
  BY <1>2, PlainSteps, SilenceKept DEF SilenceOK, IInv1, TypeOK
<1>3. ASSUME \/ Stop \/ Crash \/ RecoveryFails
             \/ \E r \in Runs : UnhandledEnd(r) \/ UnhandledLink(r)
      PROVE  \E end \in {"stopped", "crashed"} : LoseMemory(end)
  BY <1>3 DEF Stop, Crash, RecoveryFails, UnhandledEnd, UnhandledLink
<1>4. CASE Next
  BY <1>2, <1>3, <1>4, WriteSilence, RecoverSilence, ProcessSilence DEF Next, StoreStep, BootStep
<1> QED BY <1>1, <1>4

\* The inductive invariant.
LEMMA EventsInvariant == Spec => []EventsOK
<1>1. Init => EventsOK
  <2> SUFFICES ASSUME Init PROVE EventsOK OBVIOUS
  <2> USE DEF Init
  <2>1. SeqOK BY DEF SeqOK, SeqOKFor
  <2>2. AsleepOK BY DEF AsleepOK, AtRestPCs
  <2>3. BootOK BY DEF BootOK
  <2>4. NewOK BY DEF NewOK
  <2>5. SilenceOK BY DEF SilenceOK, SilenceOKFor
  <2>6. VoicesOK BY DEF VoicesOK
  <2> QED BY <2>1, <2>2, <2>3, <2>4, <2>5, <2>6 DEF EventsOK, PlaceOK
<1>2. IInv1 /\ AccountsOK /\ EventsOK /\ [Next]_vars => EventsOK'
  BY StepNumbers, StepPlaces, StepSilence, StepVoices DEF EventsOK
<1>3. Spec => []IInv1
  <2>1. Init => IInv1 BY InitTypes
  <2>2. IInv1 /\ [Next]_vars => IInv1' BY StepTypes
  <2> QED BY <2>1, <2>2, PTL DEF Spec
<1> QED BY <1>1, <1>2, <1>3, AccountsInvariant, PTL DEF Spec

\* No two events of a Run ever get the same number, so that none replaces another
\* in the table of events: for every store, with failures, crashes and recovery.
THEOREM NumbersAreUnique == Spec => []UniqueSequence
<1>1. EventsOK => UniqueSequence
  <2> SUFFICES ASSUME EventsOK, NEW r \in Runs,
                      NEW d \in log[r] \cup {[seq |-> e.seq, type |-> e.type] : e \in emitting[r]},
                      NEW f \in log[r] \cup {[seq |-> e.seq, type |-> e.type] : e \in emitting[r]},
                      d.seq = f.seq
               PROVE  d = f
    BY DEF UniqueSequence, EventsOK, SeqOK, SeqOKFor
  <2>1. SeqOKFor(r) BY DEF EventsOK, SeqOK
  <2>2. CASE d \in log[r] /\ f \in log[r] BY <2>1, <2>2 DEF SeqOKFor
  <2>3. CASE d \notin log[r] /\ f \in log[r]
    <3>1. PICK e \in emitting[r] : d = [seq |-> e.seq, type |-> e.type] BY <2>3
    <3> QED BY <2>1, <2>3, <3>1 DEF SeqOKFor
  <2>4. CASE d \in log[r] /\ f \notin log[r]
    <3>1. PICK e \in emitting[r] : f = [seq |-> e.seq, type |-> e.type] BY <2>4
    <3> QED BY <2>1, <2>4, <3>1 DEF SeqOKFor
  <2>5. CASE d \notin log[r] /\ f \notin log[r]
    <3>1. PICK e \in emitting[r] : d = [seq |-> e.seq, type |-> e.type] BY <2>5
    <3>2. PICK g \in emitting[r] : f = [seq |-> g.seq, type |-> g.type] BY <2>5
    <3> QED BY <2>1, <3>1, <3>2 DEF SeqOKFor
  <2> QED BY <2>2, <2>3, <2>4, <2>5
<1> QED BY <1>1, EventsInvariant, PTL

\* Nothing an engine said comes after the event that ends its Run, not even when a
\* failed store sends execute through its catch, or a later process closes the Run.
THEOREM EnginesFallSilent == Spec => []TerminalEventLast
<1>1. EventsOK => TerminalEventLast
  BY DEF EventsOK, SilenceOK, SilenceOKFor, TerminalEventLast
<1> QED BY <1>1, EventsInvariant, PTL
=============================================================================
