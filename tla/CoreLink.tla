-------------------------------- MODULE CoreLink --------------------------------
(***************************************************************************)
(* The link between a Node and Hibro Core: CoreTransport                   *)
(* (src/src/core-transport.ts) with the tables core_outbox and             *)
(* core_command_inbox of SqliteRunStore, the WebSocket, and a Core that    *)
(* does what the Node expects of it.                                       *)
(*                                                                         *)
(* A connection keeps its frames in order until it breaks, and loses those *)
(* on their way then.  Time is left out: a timer may fire at any moment    *)
(* after it was set, and a message that waits for its next attempt may be  *)
(* due at any moment.                                                      *)
(***************************************************************************)
EXTENDS Naturals, Sequences, FiniteSets

CONSTANTS
    Messages,        \* what the Node sends with requiresAck, Run events above all
    Commands,        \* run.create commands of Core
    MaxAttempts,     \* attempts after which a message is a dead letter (20)
    MaxBuffered,     \* frames in a socket that count as a slow consumer (8 MiB)
    MaxFailures,     \* bound: connections that break, or are given up
    MaxCrashes,      \* bound: crashes of the Node
    MaxIssues,       \* bound: times Core sends each command
    MaxWaiting       \* bound: frames of Core on their way or not handled

ASSUME LinkAssumption ==
    /\ MaxAttempts \in Nat \ {0}
    /\ {MaxBuffered, MaxFailures, MaxCrashes, MaxIssues, MaxWaiting} \subseteq Nat

VARIABLES
    node,       \* "up" or "down"
    socket,     \* the current one: "none", "connecting", "open", "closing"
    hellos,     \* calls of sendHello that wait for doctorEngines
    timers,     \* heartbeat, snapshot and outbox timers run
    sequence, incoming,      \* sequence and incomingSequence
    chain,      \* frames in the chain of promises "processing"
    handling,   \* where handle stands with the first of them
    outbox,     \* core_outbox: the state of each message
    attempts,   \* its attempt_count
    order,      \* the messages in the order of their rows
    inbox,      \* core_command_inbox
    runs,       \* how many Runs carry the commandId of each command
    toCore, toNode,          \* frames on their way
    greeted, coreSeq, lastSeq,   \* Core: hello came; numbers sent and received
    received, refused,       \* messages Core has, and those it rejected for good
    issued, done,            \* how often it sent each command; those acknowledged
    failures, crashes

session   == <<socket, hellos, timers, incoming, chain, handling>>
outboxes  == <<outbox, attempts, order>>
commands  == <<inbox, runs>>
coreState == <<greeted, coreSeq, lastSeq, received, refused, issued, done>>
bounds    == <<failures, crashes>>
vars == <<node, session, sequence, outboxes, commands, toCore, toNode, coreState, bounds>>

Frame(type, id) == [type |-> type, id |-> id, seq |-> 0]
NoId == "none"

-----------------------------------------------------------------------------
(* Sending *)

\* Frames put into the socket one by one until the peer is too slow.
Room     == IF Len(toCore) > MaxBuffered THEN 0 ELSE MaxBuffered + 1 - Len(toCore)
Fits(fs) == Len(fs) <= Room

Least(a, b) == IF a < b THEN a ELSE b

\* What reaches the socket of fs, numbered from sequence on.
Numbered(fs) == [i \in 1..Least(Len(fs), Room) |-> [fs[i] EXCEPT !.seq = sequence + i]]

\* send: every frame takes a number, whether there is a socket for it or not.
Transmit(fs, open) ==
    /\ sequence' = sequence + Len(fs)
    /\ toCore' = IF open THEN toCore \o Numbered(fs) ELSE toCore
    /\ socket' = IF open /\ ~Fits(fs) THEN "closing" ELSE socket

Send(fs) == Transmit(fs, socket = "open")

Pending == {m \in Messages : outbox[m] = "pending"}

\* Mutant: one attempt more than the limit.
Attempt_OneMore(ms, states) ==
    /\ attempts' = [m \in Messages |-> IF m \in ms THEN attempts[m] + 1 ELSE attempts[m]]
    /\ outbox' = [m \in Messages |->
                    IF m \in ms /\ attempts[m] + 1 > MaxAttempts THEN "dead" ELSE states[m]]

\* markCoreMessageAttempt for the messages ms.
Attempt(ms, states) ==
    /\ attempts' = [m \in Messages |-> IF m \in ms THEN attempts[m] + 1 ELSE attempts[m]]
    /\ outbox' = [m \in Messages |->
                    IF m \in ms /\ attempts[m] + 1 >= MaxAttempts THEN "dead" ELSE states[m]]

\* forwardRunEvent, and any other send with requiresAck: the row comes first.
Emit(m) ==
    /\ node = "up"
    /\ outbox[m] = "none"
    /\ order' = Append(order, m)
    /\ Attempt(IF socket = "open" THEN {m} ELSE {}, [outbox EXCEPT ![m] = "pending"])
    /\ Send(<<Frame("event", m)>>)
    /\ UNCHANGED <<node, hellos, timers, incoming, chain, handling, commands, toNode,
                   coreState, bounds>>

\* The rows of the messages that are due, as pendingCoreMessages lists them.
Listings(due) ==
    LET rows == {i \in DOMAIN order : order[i] \in due}
    IN  {list \in [1..Cardinality(rows) -> rows] :
           \A i, j \in DOMAIN list : i < j => list[i] < list[j]}

\* flushOutbox with the messages that are due; those a slow consumer leaves
\* unsent are not counted as attempts, and take no number.
FlushOutbox(due) ==
    \E list \in Listings(due) :
       LET sent == Least(Len(list), Room)
           row(i) == order[list[i]]
       IN  /\ Attempt({row(i) : i \in 1..sent}, outbox)
           /\ sequence' = sequence + sent
           /\ toCore' = toCore \o Numbered([i \in 1..sent |-> Frame("event", row(i))])
           /\ socket' = IF sent < Len(list) THEN "closing" ELSE socket

Flush(due) ==
    /\ node = "up"
    /\ timers
    /\ socket = "open"
    /\ due # {}
    /\ FlushOutbox(due)
    /\ UNCHANGED <<node, hellos, timers, incoming, chain, handling, order, commands,
                   toNode, coreState, bounds>>

-----------------------------------------------------------------------------
(* Connecting *)

\* reconcile: also when the socket is closing because the capabilities changed;
\* the close of that one is then not the current one's, and stops no timer.
Connect ==
    /\ node = "up"
    /\ socket \in {"none", "closing"}
    /\ socket' = "connecting"
    /\ toCore' = <<>> /\ toNode' = <<>>
    /\ UNCHANGED <<node, hellos, timers, sequence, incoming, chain, handling, outboxes,
                   commands, coreState, bounds>>

\* Mutant: the numbers of the last connection go on.
StartNumbers_Kept == UNCHANGED <<sequence, incoming>>
StartNumbers      == sequence' = 0 /\ incoming' = 0

Open ==
    /\ socket = "connecting"
    /\ socket' = "open"
    /\ StartNumbers
    /\ hellos' = hellos + 1
    /\ greeted' = FALSE /\ coreSeq' = 0 /\ lastSeq' = 0
    /\ UNCHANGED <<node, timers, chain, handling, outboxes, commands, toCore, toNode,
                   received, refused, issued, done, bounds>>

\* doctorEngines has answered, maybe after the connection it was asked for.
SendHello ==
    /\ hellos > 0
    /\ hellos' = hellos - 1
    /\ Send(<<Frame("node.hello", NoId)>>)
    /\ UNCHANGED <<node, timers, incoming, chain, handling, outboxes, commands, toNode,
                   coreState, bounds>>

Fails == failures < MaxFailures /\ failures' = failures + 1

\* refreshCapabilities, or settings that changed.
Refresh ==
    /\ socket \in {"connecting", "open"}
    /\ socket' = "closing"
    /\ Fails
    /\ UNCHANGED <<node, hellos, timers, sequence, incoming, chain, handling, outboxes,
                   commands, toCore, toNode, coreState, crashes>>

Closed ==
    /\ socket # "none"
    /\ IF socket = "closing" THEN UNCHANGED failures ELSE Fails
    /\ socket' = "none"
    /\ timers' = FALSE
    /\ toCore' = <<>> /\ toNode' = <<>>
    /\ UNCHANGED <<node, hellos, sequence, incoming, chain, handling, outboxes, commands,
                   coreState, crashes>>

-----------------------------------------------------------------------------
(* What Core sends *)

Receive ==
    /\ socket \in {"open", "closing"}
    /\ toNode # <<>>
    /\ chain' = Append(chain, Head(toNode))
    /\ toNode' = Tail(toNode)
    /\ UNCHANGED <<node, socket, hellos, timers, sequence, incoming, handling, outboxes,
                   commands, toCore, coreState, bounds>>

First == Head(chain)
Idle  == chain # <<>> /\ handling = "idle"
FirstDone == chain' = Tail(chain) /\ handling' = "idle"

HandleRefused ==
    /\ Idle
    /\ First.seq <= incoming
    /\ Send(<<Frame("message.error", First.id)>>)
    /\ FirstDone
    /\ UNCHANGED <<node, hellos, timers, incoming, outboxes, commands, toNode, coreState,
                   bounds>>

Accept(type) ==
    /\ Idle
    /\ First.type = type
    /\ First.seq > incoming
    /\ incoming' = First.seq

HandleWelcome ==
    /\ Accept("core.welcome")
    /\ handling' = "snapshot"
    /\ UNCHANGED <<node, socket, hellos, timers, chain, sequence, outboxes, commands,
                   toCore, toNode, coreState, bounds>>

\* Mutant: the timers are started by the first welcome only.
StartTimers_Once == timers' = (timers \/ failures = 0)
StartTimers      == timers' = TRUE

\* sendSnapshot is over; the connection may have ended meanwhile.
Welcomed(due) ==
    /\ handling = "snapshot"
    /\ StartTimers
    /\ IF socket = "open" THEN FlushOutbox(due)
                          ELSE UNCHANGED <<outbox, attempts, sequence, toCore, socket>>
    /\ FirstDone
    /\ UNCHANGED <<node, hellos, incoming, order, commands, toNode, coreState, bounds>>

\* acknowledgeCoreMessage
Acknowledge(m) == outbox' = [outbox EXCEPT ![m] = "acked"]

HandleAck ==
    /\ Accept("message.ack")
    /\ Acknowledge(First.id)
    /\ FirstDone
    /\ UNCHANGED <<node, socket, hellos, timers, sequence, attempts, order, commands,
                   toCore, toNode, coreState, bounds>>

\* Mutant: an error is taken for an answer, whatever it says.
Final_AnyError(f) == f.type \in {"error.retryable", "error.final"}
Final(f)          == f.type = "error.final"

HandleError ==
    /\ Accept(First.type)
    /\ First.type \in {"error.retryable", "error.final"}
    /\ IF Final(First) THEN Acknowledge(First.id) ELSE UNCHANGED outbox
    /\ FirstDone
    /\ UNCHANGED <<node, socket, hellos, timers, sequence, attempts, order, commands,
                   toCore, toNode, coreState, bounds>>

-----------------------------------------------------------------------------
(* run.create *)

HandleDuplicate ==
    /\ Accept("run.create")
    /\ First.id \in inbox
    /\ Send(<<Frame("message.ack", First.id)>>)
    /\ FirstDone
    /\ UNCHANGED <<node, hellos, timers, outboxes, commands, toNode, coreState, bounds>>

\* Mutant: a command that is not in the inbox is taken for new.
Existing_Unknown(c) == FALSE
Existing(c)         == runs[c] > 0

\* Mutant: the command is remembered before it is executed.
HandleCreate_RemembersFirst ==
    /\ Accept("run.create")
    /\ First.id \notin inbox
    /\ inbox' = inbox \cup {First.id}
    /\ handling' = IF Existing(First.id) THEN "created" ELSE "creating"
    /\ UNCHANGED <<node, socket, hellos, timers, sequence, chain, outboxes, runs, toCore,
                   toNode, coreState, bounds>>

HandleCreate ==
    /\ Accept("run.create")
    /\ First.id \notin inbox
    /\ handling' = IF Existing(First.id) THEN "created" ELSE "creating"
    /\ UNCHANGED <<node, socket, hellos, timers, sequence, chain, outboxes, commands,
                   toCore, toNode, coreState, bounds>>

\* RunManager.create has stored the Run.
Create ==
    /\ handling = "creating"
    /\ runs' = [runs EXCEPT ![First.id] = @ + 1]
    /\ handling' = "created"
    /\ UNCHANGED <<node, socket, hellos, timers, sequence, incoming, chain, outboxes,
                   inbox, toCore, toNode, coreState, bounds>>

\* create rejects, before it stored the Run or after.
CreateFails ==
    /\ handling \in {"creating", "created"}
    /\ Send(<<Frame("message.error", First.id)>>)
    /\ FirstDone
    /\ UNCHANGED <<node, hellos, timers, incoming, outboxes, commands, toNode, coreState,
                   bounds>>

Remember(c) == inbox' = inbox \cup {c}

CreateDone ==
    /\ handling = "created"
    /\ Remember(First.id)
    /\ Send(<<Frame("run.accepted", First.id), Frame("message.ack", First.id)>>)
    /\ FirstDone
    /\ UNCHANGED <<node, hellos, timers, incoming, outboxes, runs, toNode, coreState,
                   bounds>>

-----------------------------------------------------------------------------
(* The process *)

Crash ==
    /\ node = "up"
    /\ crashes < MaxCrashes
    /\ crashes' = crashes + 1
    /\ node' = "down"
    /\ socket' = "none" /\ hellos' = 0 /\ timers' = FALSE
    /\ sequence' = 0 /\ incoming' = 0 /\ chain' = <<>> /\ handling' = "idle"
    /\ toCore' = <<>> /\ toNode' = <<>>
    /\ UNCHANGED <<outboxes, commands, coreState, failures>>

Restart ==
    /\ node = "down"
    /\ node' = "up"
    /\ UNCHANGED <<session, sequence, outboxes, commands, toCore, toNode, coreState, bounds>>

-----------------------------------------------------------------------------
(* Core, as far as the Node relies on it *)

Answer(type, id) ==
    /\ coreSeq' = coreSeq + 1
    /\ toNode' = Append(toNode, [type |-> type, id |-> id, seq |-> coreSeq + 1])

CoreHasRoom == Len(toNode) + Len(chain) < MaxWaiting

CoreTakes(type) ==
    /\ toCore # <<>>
    /\ Head(toCore).type = type
    /\ toCore' = Tail(toCore)
    /\ lastSeq' = Head(toCore).seq
    /\ CoreHasRoom
    /\ UNCHANGED <<node, session, sequence, outboxes, commands, issued, bounds>>

CoreWelcomes ==
    /\ CoreTakes("node.hello")
    /\ greeted' = TRUE
    /\ IF greeted THEN UNCHANGED <<coreSeq, toNode>> ELSE Answer("core.welcome", NoId)
    /\ UNCHANGED <<received, refused, done>>

\* Core keeps the message, or rejects it for good, or for now; before the hello
\* it takes nothing.
CoreReceives ==
    /\ CoreTakes("event")
    /\ LET m == Head(toCore).id IN
       \/ /\ ~greeted
          /\ UNCHANGED <<coreSeq, toNode, received, refused>>
       \/ /\ greeted
          /\ received' = received \cup {m}
          /\ Answer("message.ack", m)
          /\ UNCHANGED refused
       \/ /\ greeted /\ m \notin received
          /\ refused' = refused \cup {m}
          /\ Answer("error.final", m)
          /\ UNCHANGED received
       \/ /\ greeted
          /\ Answer("error.retryable", m)
          /\ UNCHANGED <<received, refused>>
    /\ UNCHANGED <<greeted, done>>

CoreHears ==
    /\ \E type \in {"message.ack", "message.error", "run.accepted"} : CoreTakes(type)
    /\ done' = IF Head(toCore).type = "message.ack" THEN done \cup {Head(toCore).id} ELSE done
    /\ UNCHANGED <<greeted, coreSeq, toNode, received, refused>>

\* A command is sent again until it is acknowledged.
CoreIssues(c) ==
    /\ socket = "open" /\ greeted
    /\ c \notin done
    /\ issued[c] < MaxIssues
    /\ CoreHasRoom
    /\ issued' = [issued EXCEPT ![c] = @ + 1]
    /\ Answer("run.create", c)
    /\ UNCHANGED <<node, session, sequence, outboxes, commands, toCore, greeted, lastSeq,
                   received, refused, done, bounds>>

-----------------------------------------------------------------------------
Init ==
    /\ node = "up" /\ socket = "none" /\ hellos = 0 /\ timers = FALSE
    /\ sequence = 0 /\ incoming = 0 /\ chain = <<>> /\ handling = "idle"
    /\ outbox = [m \in Messages |-> "none"]
    /\ attempts = [m \in Messages |-> 0]
    /\ order = <<>>
    /\ inbox = {} /\ runs = [c \in Commands |-> 0]
    /\ toCore = <<>> /\ toNode = <<>>
    /\ greeted = FALSE /\ coreSeq = 0 /\ lastSeq = 0
    /\ received = {} /\ refused = {}
    /\ issued = [c \in Commands |-> 0] /\ done = {}
    /\ failures = 0 /\ crashes = 0

Connecting == Connect \/ Open \/ SendHello \/ Refresh \/ Closed

Handle == \/ HandleRefused \/ HandleWelcome \/ HandleAck \/ HandleError
          \/ HandleDuplicate \/ HandleCreate
          \/ Create \/ CreateFails \/ CreateDone
          \/ \E due \in SUBSET Pending : Welcomed(due)

CoreStep == CoreWelcomes \/ CoreReceives \/ CoreHears

Next == \/ \E m \in Messages : Emit(m)
        \/ \E due \in SUBSET Pending : Flush(due)
        \/ Connecting \/ Receive \/ Handle
        \/ Crash \/ Restart
        \/ CoreStep
        \/ \E c \in Commands : CoreIssues(c)

Spec == Init /\ [][Next]_vars

\* A Node connects again after three seconds, its timers fire, what is awaited
\* returns, systemd restarts it, and Core reads what is sent to it.
FairSpec ==
    /\ Spec
    /\ WF_vars(Connect \/ Open) /\ WF_vars(SendHello)
    /\ WF_vars(Closed /\ socket = "closing")
    /\ WF_vars(Flush(Pending))
    /\ WF_vars(Receive) /\ WF_vars(Handle)
    /\ WF_vars(Restart) /\ WF_vars(CoreStep)

-----------------------------------------------------------------------------
(* Properties *)

Sent == {order[i] : i \in DOMAIN order}

NodeFrames == [type : {"node.hello", "event", "message.ack", "message.error", "run.accepted"},
               id : Messages \cup Commands \cup {NoId}, seq : Nat]
CoreFrames == [type : {"core.welcome", "message.ack", "error.final", "error.retryable",
                       "run.create"},
               id : Messages \cup Commands \cup {NoId}, seq : Nat]

\* Every variable is of its type.
LinkTypeOK ==
    /\ node \in {"up", "down"}
    /\ socket \in {"none", "connecting", "open", "closing"}
    /\ hellos \in Nat /\ timers \in BOOLEAN
    /\ sequence \in Nat /\ incoming \in Nat
    /\ chain \in Seq(CoreFrames) /\ toNode \in Seq(CoreFrames) /\ toCore \in Seq(NodeFrames)
    /\ handling \in {"idle", "snapshot", "creating", "created"}
    /\ outbox \in [Messages -> {"none", "pending", "acked", "dead"}]
    /\ attempts \in [Messages -> 0..MaxAttempts]
    /\ order \in Seq(Messages)
    /\ inbox \subseteq Commands /\ runs \in [Commands -> Nat]
    /\ greeted \in BOOLEAN /\ coreSeq \in Nat /\ lastSeq \in Nat
    /\ received \subseteq Messages /\ refused \subseteq Messages
    /\ issued \in [Commands -> 0..MaxIssues] /\ done \subseteq Commands
    /\ failures \in 0..MaxFailures /\ crashes \in 0..MaxCrashes

\* However often a command arrives, and wherever the Node died while it created
\* the Run, one Run at most carries the command.
OneRunPerCommand == \A c \in Commands : runs[c] <= 1

\* What the Node acknowledged, it will remember and has done.
AckedIsDone == \A c \in done \cup inbox : runs[c] > 0

\* A message leaves the outbox only because Core has it, or rejected it for
\* good, or after the last attempt.
NothingForgotten ==
    \A m \in Sent : \/ outbox[m] = "pending"
                    \/ outbox[m] = "acked" /\ m \in received \cup refused
                    \/ outbox[m] = "dead" /\ attempts[m] >= MaxAttempts

\* The frames of a connection are numbered without a gap, from 1 on.
NumberedWithoutGap ==
    /\ \A i \in DOMAIN toCore : toCore[i].seq = lastSeq + i
    /\ socket = "open" => sequence = lastSeq + Len(toCore)

\* Frames of Core that are still to be handled, in their order.
Waiting == (IF handling = "idle" THEN chain ELSE Tail(chain)) \o toNode

\* Protocol, section 11: "A receiver accepts the next sequence".
NextAccepted ==
    \A i \in DOMAIN Waiting :
       Waiting[i].seq > IF i = 1 THEN incoming ELSE Waiting[i - 1].seq

\* While a connection lasts, and none of its frames was refused for the number
\* of an older one, no message waits in the outbox for ever.
OutboxDrains ==
    []NextAccepted /\ <>[](socket = "open") =>
       \A m \in Messages : <>[](outbox[m] # "pending")
=============================================================================
