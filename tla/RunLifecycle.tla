----------------------------- MODULE RunLifecycle -----------------------------
(***************************************************************************)
(* The life of a Run inside RunManager (src/src/run-manager.ts): admission *)
(* and the reservation of a slot, the workspace lease, the record in the   *)
(* store, the execution by an engine adapter, cancellation, shutdown, and  *)
(* the recovery of interrupted Runs when the Node starts again.            *)
(*                                                                         *)
(* RunManager is single-threaded: what runs between two awaits is atomic   *)
(* and is one action here.  StoreYields says what an awaited store call    *)
(* is.  FALSE is SqliteRunStore, which the program uses (cli.ts): it works *)
(* synchronously, so the handler that awaits it goes on before any I/O     *)
(* callback, timer or request gets its turn (Quiet).  TRUE is any          *)
(* RunStore, FileRunStore for one, whose calls let other handlers in.      *)
(***************************************************************************)
EXTENDS Integers, FiniteSets, Sequences

CONSTANTS
    Runs, Agents,        \* Run ids (one per call of create) and Agents
    NoRun,               \* the owner of a directory nobody has leased
    AgentOf,             \* the Agent each Run is created for
    SharedHome,          \* the Runs that work in their Agent's own directory
    MaxConcurrentRuns,   \* settings.maxConcurrentRuns
    MaxConcurrency,      \* agent.maxConcurrency, for each Agent
    StoreYields,         \* an awaited store call lets other handlers run
    MaxEngineEvents,     \* bound: events an engine emits in one Run
    MaxFaults,           \* bound: store calls that fail
    MaxCrashes,          \* bound: crashes from outside
    MaxCancels           \* bound: calls of cancel

ASSUME RunAssumption ==
    /\ AgentOf \in [Runs -> Agents]
    /\ SharedHome \subseteq Runs
    /\ Runs \cap Agents = {}
    /\ NoRun \notin Runs
ASSUME LimitAssumption ==
    /\ MaxConcurrentRuns \in Nat
    /\ MaxConcurrency \in [Agents -> Nat]
ASSUME BoundAssumption ==
    /\ StoreYields \in BOOLEAN
    /\ MaxEngineEvents \in Nat
    /\ MaxFaults \in Nat
    /\ MaxCrashes \in Nat
    /\ MaxCancels \in Nat

VARIABLES
    node,         \* "booting", "up", "stopped" (shut down) or "crashed"
    draining,     \* shuttingDown
    toRecover,    \* while booting: the Runs recovery has still to look at
    pc,           \* where create, and then execute, stand for each Run
    mem,          \* run.status of the record create and execute share
    outcome,      \* how adapter.execute, or what follows it, ended
    active,       \* activeRuns
    pendingRuns,  \* pendingRunReservations
    pendingOf,    \* pendingAgentReservations
    leases,       \* WorkspaceManager.activeByAgent
    pathOwner,    \* WorkspaceManager.activeByPath
    signal,       \* controllers: "none", "live" or "aborted"
    queued,       \* links of the eventWrites chain not started yet
    stored,       \* status of the stored record
    writes,       \* stateWrites: the chain of persists not carried out yet
    log,          \* run_events: the stored events
    nextSeq,      \* sequences: the last sequence number given out
    emitting,     \* events with a number that are not stored yet
    cpc,          \* where a call of cancel stands for each Run
    faults, crashes, cancels

processVars == <<node, draining, toRecover>>
slotVars    == <<active, pendingRuns, pendingOf>>
leaseVars   == <<leases, pathOwner>>
runVars     == <<pc, mem, outcome, signal, queued>>
eventVars   == <<log, nextSeq, emitting>>
stateVars   == <<stored, writes>>
boundVars   == <<faults, crashes, cancels>>
vars == <<processVars, slotVars, leaseVars, runVars, eventVars, stateVars, cpc,
          boundVars>>

\* What most steps of create, and most of execute, leave alone.
createFrame  == <<processVars, active, outcome, signal, queued, eventVars, stateVars,
                  cpc, boundVars>>
executeFrame == <<processVars, slotVars, signal, stateVars, cpc, boundVars>>

Contract == INSTANCE RunContract WITH
                status <- stored, serving <- node = "up", Capacity <- MaxConcurrentRuns

Terminal   == Contract!Terminal
Unfinished == Contract!Unfinished

CreatePCs == {"acquiring", "preparing", "recording", "announcing",
              "unwinding", "unwound"}
ActivePCs == {"starting", "started", "executing", "flushing", "completing",
              "completed", "failing", "failed"}
EndingPCs == {"settling", "releasing", "reporting", "ending"}
AtRestPCs == {"new", "refusedByNode", "refusedByAgent", "rejected", "done", "gone"}

\* The Runs whose create, or execute, holds a lease on a directory.
LeasePCs == {"preparing", "recording", "announcing", "unwinding", "settling"}
            \cup ActivePCs

PCs       == CreatePCs \cup ActivePCs \cup EndingPCs \cup AtRestPCs
CancelPCs == {"idle", "reading", "writing", "announcing"}

Signals    == {"none", "live", "aborted"}
Outcomes   == {"none", "ok", "timeout", "cancelled", "error", "unhandled"}
EventTypes == {"run.created", "run.started", "engine", "run.cancelling",
               "run.completed", "run.failed", "workspace.cleanup_failed"}
Events     == [seq : Nat, type : EventTypes]
Emissions  == [by : {"run", "engine", "cancel", "boot"}, seq : Nat, type : EventTypes]
Persists   == [by : {"run", "cancel"}, status : Contract!Statuses]

\* Where resolveWorkspace puts a Run: the Agent's own directory, or one of its own.
PathOf(r) == IF r \in SharedHome THEN AgentOf[r] ELSE r

-----------------------------------------------------------------------------
(* Store calls: emit and persist, from the call to its completion *)

\* Mutant: the number of an event is taken from the events stored so far.
Emit_FromStore(r, by, type) ==
    /\ nextSeq' = nextSeq
    /\ emitting' = [emitting EXCEPT ![r] =
                      @ \cup {[by |-> by, seq |-> Cardinality(log[r]) + 1, type |-> type]}]
    /\ log' = log

Emit(r, by, type) ==
    /\ nextSeq' = [nextSeq EXCEPT ![r] = @ + 1]
    /\ emitting' = [emitting EXCEPT ![r] =
                      @ \cup {[by |-> by, seq |-> nextSeq[r] + 1, type |-> type]}]
    /\ log' = log

Appended(r, by) ==
    \E e \in emitting[r] :
       /\ e.by = by
       /\ log' = [log EXCEPT ![r] = @ \cup {[seq |-> e.seq, type |-> e.type]}]
       /\ emitting' = [emitting EXCEPT ![r] = @ \ {e}]
       /\ nextSeq' = nextSeq

StoreFails == /\ faults < MaxFaults
              /\ faults' = faults + 1
              /\ UNCHANGED <<crashes, cancels>>

NotAppended(r, by) ==
    /\ StoreFails
    /\ \E e \in emitting[r] : /\ e.by = by
                              /\ emitting' = [emitting EXCEPT ![r] = @ \ {e}]
    /\ UNCHANGED <<log, nextSeq>>

Persist(r, by, status) ==
    /\ writes' = [writes EXCEPT ![r] = Append(@, [by |-> by, status |-> status])]
    /\ stored' = stored

\* A handler is between two awaits that SqliteRunStore answers at once.
BetweenStoreCalls(r) ==
    \/ pc[r] \in {"recording", "announcing", "reporting", "ending"}
                  \cup (ActivePCs \ {"executing"})
    \/ cpc[r] # "idle"
    \/ queued[r] > 0
    \/ emitting[r] # {}

Quiet == StoreYields \/ \A r \in Runs : ~BetweenStoreCalls(r)

Goto(r, to) == pc' = [pc EXCEPT ![r] = to]

-----------------------------------------------------------------------------
(* create *)

\* Mutant: a Run counts once it is active.
NodeHasRoom_ActiveOnly == Cardinality(active) < MaxConcurrentRuns

NodeHasRoom == Cardinality(active) + pendingRuns < MaxConcurrentRuns

\* The Agent's leases already count the Runs being created: they count twice.
AgentHasRoom(a) == Cardinality(leases[a]) + pendingOf[a] < MaxConcurrency[a]

ReserveRunSlot(a) == /\ pendingRuns' = pendingRuns + 1
                     /\ pendingOf' = [pendingOf EXCEPT ![a] = @ + 1]

Dec(n) == IF n > 0 THEN n - 1 ELSE 0

ReleaseRunReservation(a) == /\ pendingRuns' = Dec(pendingRuns)
                            /\ pendingOf' = [pendingOf EXCEPT ![a] = Dec(@)]

\* Mutant: the directory stays in activeByPath.
ReleaseLease_KeepsPath(r) ==
    /\ leases' = [leases EXCEPT ![AgentOf[r]] = @ \ {r}]
    /\ pathOwner' = pathOwner

ReleaseLease(r) ==
    /\ leases' = [leases EXCEPT ![AgentOf[r]] = @ \ {r}]
    /\ pathOwner' = IF pathOwner[PathOf(r)] = r
                      THEN [pathOwner EXCEPT ![PathOf(r)] = NoRun]
                      ELSE pathOwner

Call == node = "up" /\ Quiet

Create(r) ==
    /\ Call
    /\ ~draining
    /\ pc[r] = "new"
    /\ NodeHasRoom
    /\ AgentHasRoom(AgentOf[r])
    /\ ReserveRunSlot(AgentOf[r])
    /\ leases' = [leases EXCEPT ![AgentOf[r]] = @ \cup {r}]
    /\ Goto(r, "acquiring")
    /\ UNCHANGED <<createFrame, pathOwner, mem>>

Refuse(r) ==
    /\ Call
    /\ ~draining
    /\ pc[r] = "new"
    /\ \/ ~NodeHasRoom /\ Goto(r, "refusedByNode")
       \/ NodeHasRoom /\ ~AgentHasRoom(AgentOf[r]) /\ Goto(r, "refusedByAgent")
    /\ UNCHANGED <<createFrame, leaseVars, pendingRuns, pendingOf, mem>>

\* Mutant: activeByPath is not looked at.
PathFree_Unchecked(r) == TRUE
PathFree(r)           == pathOwner[PathOf(r)] = NoRun

\* acquire has found the source and made the directories.
Acquire(r) ==
    /\ Call
    /\ pc[r] = "acquiring"
    /\ PathFree(r)
    /\ pathOwner' = [pathOwner EXCEPT ![PathOf(r)] = r]
    /\ Goto(r, "preparing")
    /\ UNCHANGED <<createFrame, pendingRuns, pendingOf, leases, mem>>

\* The directory is taken (WorkspaceBusyError), or the file system says no.
AcquireFails(r) ==
    /\ Call
    /\ pc[r] = "acquiring"
    /\ leases' = [leases EXCEPT ![AgentOf[r]] = @ \ {r}]
    /\ ReleaseRunReservation(AgentOf[r])
    /\ Goto(r, "rejected")
    /\ UNCHANGED <<createFrame, pathOwner, mem>>

\* The package and the inputs are in place, or something about them, or about
\* the options asked for, is wrong.
Prepare(r) ==
    /\ Call
    /\ pc[r] = "preparing"
    /\ \/ Goto(r, "recording") /\ mem' = [mem EXCEPT ![r] = "queued"]
       \/ Goto(r, "unwinding") /\ mem' = mem
    /\ UNCHANGED <<createFrame, leaseVars, pendingRuns, pendingOf>>

Record(r) ==
    /\ pc[r] = "recording"
    /\ stored' = [stored EXCEPT ![r] = mem[r]]
    /\ Emit(r, "run", "run.created")
    /\ Goto(r, "announcing")
    /\ UNCHANGED <<processVars, slotVars, leaseVars, mem, outcome, signal, queued,
                   writes, cpc, boundVars>>

RecordFails(r) ==
    /\ pc[r] = "recording"
    /\ StoreFails
    /\ Goto(r, "unwinding")
    /\ UNCHANGED <<processVars, slotVars, leaseVars, mem, outcome, signal, queued,
                   eventVars, stateVars, cpc>>

\* Mutant: execute begins without activeRuns.set.
Activate_Forgotten(r) == active' = active
Activate(r)           == active' = active \cup {r}

\* run.created is stored: the Run becomes active, execute begins, create returns.
Announce(r) ==
    /\ pc[r] = "announcing"
    /\ Appended(r, "run")
    /\ Activate(r)
    /\ signal' = [signal EXCEPT ![r] = "live"]
    /\ mem' = [mem EXCEPT ![r] = "running"]
    /\ Persist(r, "run", "running")
    /\ ReleaseRunReservation(AgentOf[r])
    /\ Goto(r, "starting")
    /\ UNCHANGED <<processVars, leaseVars, outcome, queued, cpc, boundVars>>

\* The record stays in the store as queued, and nothing will ever run it.
AnnounceFails(r) ==
    /\ pc[r] = "announcing"
    /\ NotAppended(r, "run")
    /\ Goto(r, "unwinding")
    /\ UNCHANGED <<processVars, slotVars, leaseVars, mem, outcome, signal, queued,
                   stateVars, cpc>>

\* The catch and finally of create.
Unwind(r) ==
    /\ Call
    /\ pc[r] = "unwinding"
    /\ ReleaseLease(r)
    /\ Goto(r, "unwound")
    /\ UNCHANGED <<createFrame, pendingRuns, pendingOf, mem>>

RejectCreate(r) ==
    /\ Call
    /\ pc[r] = "unwound"
    /\ ReleaseRunReservation(AgentOf[r])
    /\ Goto(r, "rejected")
    /\ UNCHANGED <<createFrame, leaseVars, mem>>

-----------------------------------------------------------------------------
(* execute *)

\* Mutant: every Run that has ended is announced as completed.
EventAfter_Completed == [starting |-> "run.started", completing |-> "run.completed",
                         failing |-> "run.completed"]

\* The event that follows each persist of execute, and where the two lead.
EventAfter == [starting |-> "run.started", completing |-> "run.completed",
               failing |-> "run.failed"]
After      == [starting |-> "started", completing |-> "completed",
               failing |-> "failed"]

\* The finally of execute, up to its first await.
Leave(r, how) ==
    /\ active' = active \ {r}
    /\ signal' = [signal EXCEPT ![r] = "none"]
    /\ outcome' = [outcome EXCEPT ![r] = how]
    /\ Goto(r, "settling")

\* An error in the try goes to the catch; one in the catch to the finally.
Throw(r) ==
    \/ pc[r] \in {"failing", "failed"} /\ Leave(r, "unhandled")
    \/ /\ pc[r] \in {"starting", "started", "completing", "completed"}
       /\ outcome' = [outcome EXCEPT ![r] = "error"]
       /\ Goto(r, "flushing")
       /\ UNCHANGED <<active, signal>>

\* The head of the chain of persists is carried out; who awaits it goes on.
Write(r) ==
    /\ writes[r] # <<>>
    /\ stored' = [stored EXCEPT ![r] = Head(writes[r]).status]
    /\ writes' = [writes EXCEPT ![r] = Tail(@)]
    /\ \/ /\ Head(writes[r]).by = "run"
          /\ Emit(r, "run", EventAfter[pc[r]])
          /\ Goto(r, After[pc[r]])
          /\ cpc' = cpc
       \/ /\ Head(writes[r]).by = "cancel"
          /\ Emit(r, "cancel", "run.cancelling")
          /\ cpc' = [cpc EXCEPT ![r] = "announcing"]
          /\ pc' = pc
    /\ UNCHANGED <<processVars, slotVars, leaseVars, mem, outcome, signal, queued,
                   boundVars>>

Awaits(r, by) == \E i \in DOMAIN writes[r] : writes[r][i].by = by

\* The persists chained to one that fails fail with it.
WriteFails(r) ==
    /\ writes[r] # <<>>
    /\ StoreFails
    /\ writes' = [writes EXCEPT ![r] = <<>>]
    /\ \/ Awaits(r, "run") /\ Throw(r)
       \/ ~Awaits(r, "run") /\ UNCHANGED <<pc, outcome, active, signal>>
    /\ cpc' = [cpc EXCEPT ![r] = IF Awaits(r, "cancel") THEN "idle" ELSE @]
    /\ UNCHANGED <<processVars, pendingRuns, pendingOf, leaseVars, mem, queued,
                   eventVars, stored>>

Announced(r) ==
    /\ pc[r] \in {"started", "completed", "failed"}
    /\ Appended(r, "run")
    /\ \/ /\ pc[r] = "started"
          /\ Goto(r, "executing")
          /\ UNCHANGED <<active, signal, outcome>>
       \/ pc[r] # "started" /\ Leave(r, outcome[r])
    /\ UNCHANGED <<processVars, pendingRuns, pendingOf, leaseVars, mem, queued,
                   stateVars, cpc, boundVars>>

AnnouncedFails(r) ==
    /\ pc[r] \in {"started", "completed", "failed"}
    /\ NotAppended(r, "run")
    /\ Throw(r)
    /\ UNCHANGED <<processVars, pendingRuns, pendingOf, leaseVars, mem, queued,
                   stateVars, cpc>>

\* The adapter calls onEvent: one more link on the chain of event writes.
EngineEvent(r) ==
    /\ Call
    /\ pc[r] = "executing"
    /\ Cardinality({e \in log[r] : e.type = "engine"} \cup emitting[r]) + queued[r]
          < MaxEngineEvents
    /\ queued' = [queued EXCEPT ![r] = @ + 1]
    /\ UNCHANGED <<executeFrame, leaseVars, eventVars, pc, mem, outcome>>

LinkIdle(r) == \A e \in emitting[r] : e.by # "engine"

LinkStart(r) ==
    /\ queued[r] > 0
    /\ LinkIdle(r)
    /\ queued' = [queued EXCEPT ![r] = @ - 1]
    /\ Emit(r, "engine", "engine")
    /\ UNCHANGED <<executeFrame, leaseVars, pc, mem, outcome>>

LinkDone(r) ==
    /\ Appended(r, "engine")
    /\ UNCHANGED <<executeFrame, leaseVars, pc, mem, outcome, queued>>

\* The catch awaits the broken chain again, and leaves with its error.
LinkFails(r) ==
    /\ pc[r] = "flushing"
    /\ NotAppended(r, "engine")
    /\ queued' = [queued EXCEPT ![r] = 0]
    /\ Leave(r, "unhandled")
    /\ UNCHANGED <<processVars, pendingRuns, pendingOf, leaseVars, mem, stateVars,
                   cpc>>

\* Mutant: the adapter does not look at the signal when its engine has ended.
EngineOutcomes_NoSignal(r) == {"ok", "timeout", "error"}

\* An adapter looks at the timeout, and then at the signal, after its engine ended.
EngineOutcomes(r) == {IF signal[r] = "aborted" THEN "cancelled" ELSE "ok",
                      "timeout", "error"}

EngineEnd(r) ==
    /\ Call
    /\ pc[r] = "executing"
    /\ \E o \in EngineOutcomes(r) : outcome' = [outcome EXCEPT ![r] = o]
    /\ Goto(r, "flushing")
    /\ UNCHANGED <<executeFrame, leaseVars, eventVars, mem, queued>>

\* Mutants: the code of the error is taken for the status; an error that is not
\* "cancelled" hides that the Run was being cancelled.
Verdict_ErrorCode(r)    == IF outcome[r] = "ok" THEN "completed" ELSE outcome[r]
Verdict_ForgetCancel(r) ==
    CASE outcome[r] = "ok" -> "completed"
      [] outcome[r] = "timeout" -> "timed_out"
      [] outcome[r] = "cancelled" -> "cancelled"
      [] OTHER -> "failed"

Verdict(r) ==
    CASE outcome[r] = "ok" -> "completed"
      [] outcome[r] = "timeout" -> "timed_out"
      [] outcome[r] = "cancelled" -> "cancelled"
      [] OTHER -> IF mem[r] = "cancelling" THEN "cancelled" ELSE "failed"

\* Mutant: execute does not await eventWrites.
EventsFlushed_NoAwait(r) == TRUE
EventsFlushed(r)         == queued[r] = 0 /\ LinkIdle(r)

Flushed(r) ==
    /\ pc[r] = "flushing"
    /\ EventsFlushed(r)
    /\ mem' = [mem EXCEPT ![r] = Verdict(r)]
    /\ Persist(r, "run", Verdict(r))
    /\ Goto(r, IF outcome[r] = "ok" THEN "completing" ELSE "failing")
    /\ UNCHANGED <<processVars, slotVars, leaseVars, outcome, signal, queued,
                   eventVars, cpc, boundVars>>

\* WorkspaceManager.release forgets the lease before it removes the directory.
Settled(r) ==
    /\ Call
    /\ pc[r] = "settling"
    /\ ReleaseLease(r)
    /\ Goto(r, "releasing")
    /\ UNCHANGED <<executeFrame, eventVars, mem, outcome, queued>>

\* The directory of a Run that has one of its own is removed, unless that fails.
Removed(r) ==
    /\ Call
    /\ pc[r] = "releasing"
    /\ \/ Goto(r, "ending") /\ UNCHANGED eventVars
       \/ /\ r \notin SharedHome
          /\ Emit(r, "run", "workspace.cleanup_failed")
          /\ Goto(r, "reporting")
    /\ UNCHANGED <<executeFrame, leaseVars, mem, outcome, queued>>

Reported(r) ==
    /\ pc[r] = "reporting"
    /\ Goto(r, "ending")
    /\ \/ Appended(r, "run") /\ UNCHANGED boundVars
       \/ NotAppended(r, "run")
    /\ UNCHANGED <<processVars, slotVars, leaseVars, mem, outcome, signal, queued,
                   stateVars, cpc>>

Ended(r) ==
    /\ pc[r] = "ending"
    /\ outcome[r] # "unhandled"
    /\ Goto(r, "done")
    /\ mem' = [mem EXCEPT ![r] = "none"]
    /\ outcome' = [outcome EXCEPT ![r] = "none"]
    /\ UNCHANGED <<executeFrame, leaseVars, eventVars, queued>>

-----------------------------------------------------------------------------
(* cancel: the Run in memory if it is active, else a copy from the store *)

Abort(r) == signal' = [signal EXCEPT ![r] = IF @ = "live" THEN "aborted" ELSE @]

Cancel(r) ==
    /\ Call
    /\ cpc[r] = "idle"
    /\ cancels < MaxCancels
    /\ cancels' = cancels + 1
    /\ \/ /\ r \in active
          /\ mem[r] \notin Terminal
          /\ mem' = [mem EXCEPT ![r] = "cancelling"]
          /\ Abort(r)
          /\ Persist(r, "cancel", "cancelling")
          /\ cpc' = [cpc EXCEPT ![r] = "writing"]
       \/ /\ r \notin active
          /\ stored[r] # "none"
          /\ cpc' = [cpc EXCEPT ![r] = "reading"]
          /\ UNCHANGED <<mem, signal, stateVars>>
    /\ UNCHANGED <<processVars, slotVars, leaseVars, pc, outcome, queued, eventVars,
                   faults, crashes>>

CancelRead(r) ==
    /\ cpc[r] = "reading"
    /\ \/ /\ stored[r] \in Terminal
          /\ cpc' = [cpc EXCEPT ![r] = "idle"]
          /\ UNCHANGED <<signal, stateVars>>
       \/ /\ stored[r] \in Unfinished
          /\ Abort(r)
          /\ Persist(r, "cancel", "cancelling")
          /\ cpc' = [cpc EXCEPT ![r] = "writing"]
    /\ UNCHANGED <<processVars, slotVars, leaseVars, pc, mem, outcome, queued,
                   eventVars, boundVars>>

CancelReturns(r) ==
    /\ cpc[r] = "announcing"
    /\ cpc' = [cpc EXCEPT ![r] = "idle"]
    /\ \/ Appended(r, "cancel") /\ UNCHANGED boundVars
       \/ NotAppended(r, "cancel")
    /\ UNCHANGED <<processVars, slotVars, leaseVars, runVars, stateVars>>

-----------------------------------------------------------------------------
(* The process: shutdown, crash, restart and recovery *)

\* Everything but the store is gone.
LoseMemory(end) ==
    /\ node' = end
    /\ draining' = FALSE
    /\ toRecover' = {}
    /\ pc' = [r \in Runs |-> IF pc[r] \in AtRestPCs THEN pc[r] ELSE "gone"]
    /\ mem' = [r \in Runs |-> "none"]
    /\ outcome' = [r \in Runs |-> "none"]
    /\ signal' = [r \in Runs |-> "none"]
    /\ queued' = [r \in Runs |-> 0]
    /\ active' = {}
    /\ pendingRuns' = 0
    /\ pendingOf' = [a \in Agents |-> 0]
    /\ leases' = [a \in Agents |-> {}]
    /\ pathOwner' = [p \in Runs \cup Agents |-> NoRun]
    /\ nextSeq' = [r \in Runs |-> 0]
    /\ emitting' = [r \in Runs |-> {}]
    /\ writes' = [r \in Runs |-> <<>>]
    /\ cpc' = [r \in Runs |-> "idle"]
    /\ UNCHANGED <<stored, log>>

Shutdown ==
    /\ Call
    /\ ~draining
    /\ draining' = TRUE
    /\ signal' = [r \in Runs |-> IF signal[r] = "live" THEN "aborted" ELSE signal[r]]
    /\ UNCHANGED <<node, toRecover, slotVars, leaseVars, pc, mem, outcome, queued,
                   eventVars, stateVars, cpc, boundVars>>

\* No Run is active any more, or shutdown has waited its 15 seconds.
Stop == /\ Call
        /\ draining
        /\ LoseMemory("stopped")
        /\ UNCHANGED boundVars

Crash == /\ node \in {"booting", "up"}
         /\ crashes < MaxCrashes
         /\ crashes' = crashes + 1
         /\ LoseMemory("crashed")
         /\ UNCHANGED <<faults, cancels>>

\* Nobody awaits execute: what leaves it ends the process.
UnhandledEnd(r) == /\ pc[r] = "ending"
                   /\ outcome[r] = "unhandled"
                   /\ LoseMemory("crashed")
                   /\ UNCHANGED boundVars

\* Nobody awaits the chain of event writes before the engine has ended.
UnhandledLink(r) == /\ pc[r] = "executing"
                    /\ ~LinkIdle(r)
                    /\ StoreFails
                    /\ LoseMemory("crashed")

IsLast(r, e) == \A d \in log[r] : d.seq <= e.seq
LastSeq(r)   == IF \E e \in log[r] : IsLast(r, e)
                  THEN (CHOOSE e \in log[r] : IsLast(r, e)).seq
                  ELSE 0

\* Mutant: recovery closes only the Runs it finds running.
Interrupted_Running == {r \in Runs : stored[r] = "running"}
Interrupted         == {r \in Runs : stored[r] \in Unfinished}

Restart ==
    /\ node \in {"stopped", "crashed"}
    /\ node' = "booting"
    /\ toRecover' = Interrupted
    /\ nextSeq' = [r \in Runs |-> LastSeq(r)]
    /\ UNCHANGED <<draining, slotVars, leaseVars, runVars, log, emitting, stateVars,
                   cpc, boundVars>>

\* recoverInterruptedRuns takes one Run after the other.
Recover(r) ==
    /\ node = "booting"
    /\ r \in toRecover
    /\ \A q \in Runs : emitting[q] = {}
    /\ stored' = [stored EXCEPT ![r] = "failed"]
    /\ Emit(r, "boot", "run.failed")
    /\ UNCHANGED <<processVars, slotVars, leaseVars, runVars, writes, cpc, boundVars>>

Recovered(r) ==
    /\ Appended(r, "boot")
    /\ toRecover' = toRecover \ {r}
    /\ UNCHANGED <<node, draining, slotVars, leaseVars, runVars, stateVars, cpc,
                   boundVars>>

\* A store that fails makes init, and with it the process, fail.
RecoveryFails == /\ node = "booting"
                 /\ toRecover # {}
                 /\ StoreFails
                 /\ LoseMemory("crashed")

Serve == /\ node = "booting"
         /\ toRecover = {}
         /\ node' = "up"
         /\ UNCHANGED <<draining, toRecover, slotVars, leaseVars, runVars, eventVars,
                        stateVars, cpc, boundVars>>

-----------------------------------------------------------------------------
Init ==
    /\ node = "booting"
    /\ draining = FALSE
    /\ toRecover = {}
    /\ pc = [r \in Runs |-> "new"]
    /\ mem = [r \in Runs |-> "none"]
    /\ outcome = [r \in Runs |-> "none"]
    /\ active = {}
    /\ pendingRuns = 0
    /\ pendingOf = [a \in Agents |-> 0]
    /\ leases = [a \in Agents |-> {}]
    /\ pathOwner = [p \in Runs \cup Agents |-> NoRun]
    /\ signal = [r \in Runs |-> "none"]
    /\ queued = [r \in Runs |-> 0]
    /\ stored = [r \in Runs |-> "none"]
    /\ writes = [r \in Runs |-> <<>>]
    /\ log = [r \in Runs |-> {}]
    /\ nextSeq = [r \in Runs |-> 0]
    /\ emitting = [r \in Runs |-> {}]
    /\ cpc = [r \in Runs |-> "idle"]
    /\ faults = 0
    /\ crashes = 0
    /\ cancels = 0

\* What a create that was admitted does next.
CreateStep(r) == \/ Acquire(r) \/ AcquireFails(r) \/ Prepare(r)
                 \/ Record(r) \/ RecordFails(r) \/ Announce(r) \/ AnnounceFails(r)
                 \/ Unwind(r) \/ RejectCreate(r)

\* What execute does by itself, once its engine has ended or before it starts.
ExecuteStep(r) == \/ Announced(r) \/ AnnouncedFails(r) \/ Flushed(r)
                  \/ LinkStart(r) \/ LinkDone(r) \/ LinkFails(r)
                  \/ Settled(r) \/ Removed(r) \/ Reported(r)
                  \/ Ended(r) \/ UnhandledEnd(r)

StoreStep(r)  == Write(r) \/ WriteFails(r)
CancelStep(r) == CancelRead(r) \/ CancelReturns(r)
BootStep      == Serve \/ \E r \in Runs : Recover(r) \/ Recovered(r)

Next == \/ \E r \in Runs : \/ Create(r) \/ Refuse(r) \/ CreateStep(r)
                           \/ EngineEvent(r) \/ EngineEnd(r) \/ ExecuteStep(r)
                           \/ StoreStep(r) \/ Cancel(r) \/ CancelStep(r)
                           \/ UnhandledLink(r)
        \/ Shutdown \/ Stop \/ Crash \/ Restart \/ RecoveryFails \/ BootStep

Spec == Init /\ [][Next]_vars

\* Every handler goes on; an engine ends, its deadline and the kill that follows
\* see to that; shutdown has a deadline; systemd restarts a Node that failed, and
\* only that one (Restart=on-failure).  Nobody has to create, cancel or shut down.
Fairness == /\ \A r \in Runs : /\ WF_vars(CreateStep(r))
                               /\ WF_vars(EngineEnd(r))
                               /\ WF_vars(ExecuteStep(r))
                               /\ WF_vars(StoreStep(r))
                               /\ WF_vars(CancelStep(r))
            /\ WF_vars(Stop)
            /\ WF_vars(node = "crashed" /\ Restart)
            /\ WF_vars(BootStep)

FairSpec == Spec /\ Fairness

-----------------------------------------------------------------------------
(* Properties *)

ProcessTypeOK == /\ node \in {"booting", "up", "stopped", "crashed"}
                 /\ draining \in BOOLEAN
                 /\ toRecover \subseteq Runs
SlotTypeOK    == /\ active \subseteq Runs
                 /\ pendingRuns \in Nat
                 /\ pendingOf \in [Agents -> Nat]
LeaseTypeOK   == /\ leases \in [Agents -> SUBSET Runs]
                 /\ pathOwner \in [Runs \cup Agents -> Runs \cup {NoRun}]
RunTypeOK     == /\ pc \in [Runs -> PCs]
                 /\ mem \in [Runs -> Contract!Statuses]
                 /\ outcome \in [Runs -> Outcomes]
                 /\ signal \in [Runs -> Signals]
                 /\ queued \in [Runs -> Nat]
StateTypeOK   == /\ stored \in [Runs -> Contract!Statuses]
                 /\ writes \in [Runs -> Seq(Persists)]
EventTypeOK   == /\ log \in [Runs -> SUBSET Events]
                 /\ nextSeq \in [Runs -> Nat]
                 /\ emitting \in [Runs -> SUBSET Emissions]
BoundTypeOK   == faults \in Nat /\ crashes \in Nat /\ cancels \in Nat

\* Every variable is of its type; a Run is in one place of one handler.
TypeOK == /\ ProcessTypeOK /\ SlotTypeOK /\ LeaseTypeOK /\ RunTypeOK
          /\ StateTypeOK /\ EventTypeOK /\ BoundTypeOK
          /\ cpc \in [Runs -> CancelPCs]

Creating       == {r \in Runs : pc[r] \in CreatePCs}
Executing      == {r \in Runs : pc[r] \in ActivePCs}
Holders        == {r \in Runs : pc[r] \in LeasePCs}
InFlight       == Creating \cup Executing
CreatingFor(a) == {r \in Creating : AgentOf[r] = a}
LeasedBy(a)    == {r \in Runs : AgentOf[r] = a /\ pc[r] \in LeasePCs \cup {"acquiring"}}

\* The limits of the settings hold for the Runs that are really under way,
\* created or executed, not only for the counters reserveRunSlot looks at.
CapacityRespected ==
    /\ Cardinality(InFlight) <= MaxConcurrentRuns
    /\ \A a \in Agents : Cardinality(LeasedBy(a)) <= MaxConcurrency[a]

\* README: a private working directory is never given to two Runs at once.
WorkspaceExclusive ==
    \A r, q \in Holders : PathOf(r) = PathOf(q) => r = q

ReservationsOK == /\ pendingRuns = Cardinality(Creating)
                  /\ \A a \in Agents : pendingOf[a] = Cardinality(CreatingFor(a))
LeasesOK       == \A a \in Agents : leases[a] = LeasedBy(a)
PathsOK        == \A p \in Runs \cup Agents, r \in Runs :
                     pathOwner[p] = r <=> r \in Holders /\ PathOf(r) = p
SignalsOK      == \A r \in Runs : signal[r] = "none" <=> r \notin Executing

\* Whatever fails on the way, a Run that is over holds no slot, reservation,
\* lease, directory or controller, and one that is not over still has its own.
NothingLeaks == /\ active = Executing
                /\ ReservationsOK /\ LeasesOK /\ PathsOK /\ SignalsOK

\* No two events of a Run get the same number: appendEvent would replace the
\* first with the second.
UniqueSequence ==
    \A r \in Runs :
       LET Numbered == log[r] \cup {[seq |-> e.seq, type |-> e.type] : e \in emitting[r]}
       IN  /\ \A d, e \in Numbered : d.seq = e.seq => d = e
           /\ \A d, e \in emitting[r] : d.seq = e.seq => d = e

TerminalEvents == {"run.completed", "run.failed"}

\* Nothing an engine said is stored after the event that says how its Run ended.
TerminalEventLast ==
    \A r \in Runs : \A d, e \in log[r] :
       d.type \in TerminalEvents /\ e.type = "engine" => e.seq < d.seq

\* A Run that has run to its end is terminal in the store, and exactly one
\* event, of the right type, said so.
OutcomeAnnounced ==
    \A r \in Runs : pc[r] = "done" =>
       /\ stored[r] \in Terminal
       /\ {e.type : e \in {d \in log[r] : d.type \in TerminalEvents}}
            = {IF stored[r] = "completed" THEN "run.completed" ELSE "run.failed"}
       /\ Cardinality({d \in log[r] : d.type \in TerminalEvents}) = 1

\* Once cancellation is announced the Run is never reported as completed.
CancelWins ==
    \A r \in Runs : (\E e \in log[r] : e.type = "run.cancelling")
                         => stored[r] # "completed"

\* A shutdown that waited for the active Runs leaves no record open.
CleanStop == [][Stop /\ active = {} => \A r \in Runs : stored[r] \notin Unfinished]_vars

\* The Runs in the store behave as RunContract promises.
ContractHolds == Contract!Spec

\* A record that is open is closed, in this process or in one that follows it,
\* unless the Node is stopped for good.
EveryRunSettles ==
    \A r \in Runs : stored[r] \in Unfinished
                       ~> stored[r] \in Terminal \/ node = "stopped"

\* Protocol, section 7: no arrow leaves the final states of a Run.
TerminalIsFinal ==
    [][\A r \in Runs : stored[r] \in Terminal => stored'[r] = stored[r]]_stored

\* run-manager.ts: "Agent is at its concurrency limit" is said of an Agent that
\* has that many Runs.
RefusedOnlyWhenFull ==
    [][\A r \in Runs :
         pc[r] = "new" /\ pc'[r] = "refusedByAgent" =>
            Cardinality(LeasedBy(AgentOf[r])) >= MaxConcurrency[AgentOf[r]]]_pc

=============================================================================
