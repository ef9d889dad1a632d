---------------------------- MODULE Conversations ----------------------------
(***************************************************************************)
(* ConversationService and ConversationStore: a conversation is a sequence *)
(* of turns; a turn is a message of the user, the reply of the Agent and   *)
(* the Run that makes the reply.  The service projects the events of the   *)
(* Run onto the reply and its activities.                                  *)
(*                                                                         *)
(* Two consumers read the events of a Run: the subscription, through the   *)
(* promise chain `processing`, and sendMessage, which replays the events   *)
(* stored so far.  Both first claim an event in the database, then wait    *)
(* for manager.get, then apply it.                                         *)
(*                                                                         *)
(* ConversationStore has no transactions: each statement commits alone.    *)
(* What a handler does between two awaits is a plan, the databases after   *)
(* each of its statements; a process that dies leaves any of them.         *)
(***************************************************************************)
EXTENDS Naturals, Sequences, FiniteSets, SequencesExt

CONSTANTS
    Convs, Turns, NoTurn,
    ConvOf,        \* the conversation each turn is sent to
    Outputs,       \* the kinds of event the engine may send in each turn
    MaxOutputs,    \* bound: how many of them
    MaxEdits, MaxCrashes   \* bounds

Kinds == {"text", "delta", "work", "worked", "asked"}

ASSUME ConversationAssumption ==
    /\ ConvOf \in [Turns -> Convs]
    /\ NoTurn \notin Turns
    /\ Outputs \in [Turns -> SUBSET Kinds]
    /\ MaxOutputs \in [Turns -> Nat]
    /\ MaxEdits \in Nat /\ MaxCrashes \in Nat

VARIABLES
    db,        \* the tables of ConversationStore
    run,       \* the Run of each turn, as RunManager keeps it
    chain,     \* the events in `processing`, first the one it works on
    inflight,  \* claimed events that wait for manager.get
    pending,   \* pendingMessages
    pc,        \* the await at which sendMessage stands for each turn
    copy,      \* its variable `conversation`
    todo,      \* the events it has yet to replay: from, to
    node,      \* "down", "starting" (in init) or "up"
    listed,    \* the conversations reconcileActiveConversations has yet to visit
    edits, crashes

sendVars == <<pending, pc, copy, todo>>
process  == <<node, listed>>
bounds   == <<edits, crashes>>
vars     == <<db, run, chain, inflight, pending, pc, copy, todo, node, listed, edits, crashes>>

up == node = "up"

Open  == {"queued", "streaming"}
Ended == {"completed", "failed"}

NoConv  == [status |-> "absent", active |-> NoTurn, title |-> 0]
NoReply == [status |-> "absent", run |-> FALSE, text |-> <<>>]
\* work stands for the activities that run: progress, thinking, tools
NoAct   == [work |-> "none", approval |-> "none", error |-> FALSE]
NoRun   == [status |-> "none", live |-> FALSE, log |-> <<>>, waiting |-> FALSE, cancelled |-> FALSE]

Init ==
    /\ db = [conv |-> [c \in Convs |-> NoConv],
             user |-> {},
             reply |-> [t \in Turns |-> NoReply],
             act |-> [t \in Turns |-> NoAct],
             claimed |-> {},
             seen |-> [conv |-> [c \in Convs |-> NoConv],
                       reply |-> [t \in Turns |-> NoReply],
                       act |-> [t \in Turns |-> NoAct]]]
    /\ run = [t \in Turns |-> NoRun]
    /\ chain = <<>> /\ inflight = <<>>
    /\ pending = {}
    /\ pc = [t \in Turns |-> "idle"]
    /\ copy = [t \in Turns |-> NoConv]
    /\ todo = [t \in Turns |-> <<1, 0>>]
    /\ node = "up" /\ listed = {}
    /\ edits = 0 /\ crashes = 0

-----------------------------------------------------------------------------
(* Statements: each takes a database and gives the next one.  A publish     *)
(* appends to conversation_events; db.seen is what a reader who applies all *)
(* of these events has.                                                     *)

Save(d, c, conversation) == [d EXCEPT !.conv[c] = conversation]
SaveMessage(d, t, reply) == [d EXCEPT !.reply[t] = reply]
PublishConv(d, c)        == [d EXCEPT !.seen.conv[c] = d.conv[c]]
PublishMessage(d, t)     == [d EXCEPT !.seen.reply[t] = d.reply[t]]

\* upsertActivity of the service: the statement and its event
UpsertActivity(d, t, kind, value) ==
    LET saved == [d EXCEPT !.act[t][kind] = value]
    IN  <<saved, [saved EXCEPT !.seen.act[t][kind] = value]>>

\* Mutant: an event is processed without a claim.
Claim_None(d, event) == d
Claim(d, event) == [d EXCEPT !.claimed = @ \cup {event}]

\* The database after a plan, and the databases at which it may stop short
After(d, plan) == IF plan = <<>> THEN d ELSE Last(plan)
Short(d, plan) == {d} \cup {plan[i] : i \in 1..Len(plan) - 1}

\* SqliteRunStore is synchronous inside, so what waits for it goes on before the
\* process takes a new request.  Only manager.create waits for something else.
Quiet ==
    /\ up /\ chain = <<>> /\ inflight = <<>>
    /\ \A t \in Turns : pc[t] \in {"idle", "creating"} /\ (run[t].live => run[t].status = "open")

-----------------------------------------------------------------------------
(* create, rename, archive                                                  *)

CreatePlan(c) ==
    LET d1 == Save(db, c, [status |-> "idle", active |-> NoTurn, title |-> 0])
    IN  <<d1, PublishConv(d1, c)>>

Create(c) ==
    /\ Quiet /\ db.conv[c].status = "absent"
    /\ db' = After(db, CreatePlan(c))
    /\ UNCHANGED <<run, chain, inflight, sendVars, process, bounds>>

\* Mutant: the change is not published.
EditPlan_Silent(c, conversation) == <<Save(db, c, conversation)>>

EditPlan(c, conversation) ==
    LET d1 == Save(db, c, conversation)
    IN  <<d1, PublishConv(d1, c)>>

Rename(c) ==
    /\ Quiet /\ db.conv[c].status # "absent"
    /\ edits < MaxEdits
    /\ edits' = edits + 1
    /\ db' = After(db, EditPlan(c, [db.conv[c] EXCEPT !.title = edits + 1]))
    /\ UNCHANGED <<run, chain, inflight, sendVars, process, crashes>>

\* Mutant: also a conversation that responds can be archived.
Archive_Anytime(c) ==
    /\ Quiet /\ db.conv[c].status \notin {"absent", "archived"}
    /\ edits < MaxEdits
    /\ edits' = edits + 1
    /\ db' = After(db, EditPlan(c, [db.conv[c] EXCEPT !.status = "archived"]))
    /\ UNCHANGED <<run, chain, inflight, sendVars, process, crashes>>

\* archive refuses a conversation that responds, not one that is being sent to.
Archive(c) ==
    /\ Quiet /\ db.conv[c].status \notin {"absent", "archived"}
    /\ db.conv[c].active = NoTurn
    /\ edits < MaxEdits
    /\ edits' = edits + 1
    /\ db' = After(db, EditPlan(c, [db.conv[c] EXCEPT !.status = "archived"]))
    /\ UNCHANGED <<run, chain, inflight, sendVars, process, crashes>>

-----------------------------------------------------------------------------
(* sendMessage.  A message whose id is known is answered with the detail    *)
(* and changes nothing.                                                     *)

\* Mutant: pendingMessages is not asked.
CanSend_NotPending(t) ==
    /\ Quiet /\ pc[t] = "idle"
    /\ t \notin db.user
    /\ db.conv[ConvOf[t]].status \notin {"absent", "archived"}
    /\ db.conv[ConvOf[t]].active = NoTurn

CanSend(t) ==
    /\ Quiet /\ pc[t] = "idle"
    /\ t \notin db.user
    /\ db.conv[ConvOf[t]].status \notin {"absent", "archived"}
    /\ db.conv[ConvOf[t]].active = NoTurn
    /\ ConvOf[t] \notin pending

SendPlan(t) ==
    LET d1 == [db EXCEPT !.user = @ \cup {t}]
        d2 == SaveMessage(d1, t, [status |-> "queued", run |-> FALSE, text |-> <<>>])
    IN  <<d1, d2, PublishMessage(d2, t)>>

\* Up to `await manager.create`, which may take as long as a git worktree does.
Send(t) ==
    /\ CanSend(t)
    /\ db' = After(db, SendPlan(t))
    /\ pending' = pending \cup {ConvOf[t]}
    /\ pc' = [pc EXCEPT ![t] = "creating"]
    /\ copy' = [copy EXCEPT ![t] = db.conv[ConvOf[t]]]
    /\ UNCHANGED <<run, chain, inflight, todo, process, bounds>>

\* The catch: the local message, which has no content, and the local conversation
FailPlan(d, t, conversation) ==
    LET d1 == SaveMessage(d, t, [status |-> "failed", run |-> FALSE, text |-> <<>>])
        d2 == Save(d1, ConvOf[t], [conversation EXCEPT !.status = "error"])
        d3 == PublishMessage(d2, t)
    IN  <<d1, d2, d3, PublishConv(d3, ConvOf[t])>>

\* The finally
EndSend(t) ==
    /\ pc' = [pc EXCEPT ![t] = "idle"]
    /\ pending' = pending \ {ConvOf[t]}
    /\ copy' = [copy EXCEPT ![t] = NoConv]
    /\ todo' = [todo EXCEPT ![t] = <<1, 0>>]

CreateFails(t) ==
    /\ pc[t] = "creating"
    /\ db' = After(db, FailPlan(db, t, copy[t]))
    /\ EndSend(t)
    /\ UNCHANGED <<run, chain, inflight, process, bounds>>

\* create stores the Run and emits run.created
RunStored(t) ==
    /\ pc[t] = "creating"
    /\ run' = [run EXCEPT ![t] = [NoRun EXCEPT !.status = "open", !.live = TRUE, !.log = <<"created">>]]
    /\ chain' = Append(chain, <<t, 1>>)
    /\ pc' = [pc EXCEPT ![t] = "created"]
    /\ UNCHANGED <<db, inflight, pending, copy, todo, process, bounds>>

\* The local conversation, once it has its Run
Responding(t) == [copy[t] EXCEPT !.status = "responding", !.active = t]

ResumePlan(t) ==
    LET d1 == SaveMessage(db, t, [status |-> "streaming", run |-> TRUE, text |-> <<>>])
        d2 == Save(d1, ConvOf[t], Responding(t))
        d3 == PublishMessage(d2, t)
    IN  <<d1, d2, d3, PublishConv(d3, ConvOf[t])>>

\* create has returned.  This runs before execute gets further than its first
\* await, so the message still has no content; the conversation is the one read
\* before create.
SendResumes(t) ==
    /\ pc[t] = "created"
    /\ db' = After(db, ResumePlan(t))
    /\ copy' = [copy EXCEPT ![t] = Responding(t)]
    /\ todo' = [todo EXCEPT ![t] = <<1, Len(run[t].log)>>]
    /\ pc' = [pc EXCEPT ![t] = "replaying"]
    /\ UNCHANGED <<run, chain, inflight, pending, process, bounds>>

SendReturns(t) ==
    /\ pc[t] = "replaying" /\ todo[t][1] > todo[t][2]
    /\ EndSend(t)
    /\ UNCHANGED <<db, run, chain, inflight, process, bounds>>

-----------------------------------------------------------------------------
(* consumeRunEvent.  A consumer is the subscription (NoTurn) or the replay  *)
(* of a turn; both take events in order and work on one at a time.          *)

Consumers == Turns \cup {NoTurn}

Busy(who) == \E i \in DOMAIN inflight : inflight[i].by = who

Offered(who) ==
    IF who = NoTurn THEN chain # <<>> ELSE pc[who] = "replaying" /\ todo[who][1] <= todo[who][2]

EventFor(who) == IF who = NoTurn THEN Head(chain) ELSE <<who, todo[who][1]>>

Advance(who) ==
    IF who = NoTurn
    THEN chain' = Tail(chain) /\ UNCHANGED sendVars
    ELSE /\ todo' = [todo EXCEPT ![who][1] = @ + 1]
         /\ UNCHANGED <<chain, pending, pc, copy>>

SkipEvent(who) ==
    /\ up /\ ~Busy(who) /\ Offered(who)
    /\ EventFor(who) \in db.claimed
    /\ Advance(who)
    /\ UNCHANGED <<db, run, inflight, process, bounds>>

\* claimRunEvent; then manager.get, which takes the same time for everybody, so
\* claimed events are applied in the order in which they were claimed.
ClaimEvent(who) ==
    /\ up /\ ~Busy(who) /\ Offered(who)
    /\ EventFor(who) \notin db.claimed
    /\ db' = Claim(db, EventFor(who))
    /\ inflight' = Append(inflight, [by |-> who, event |-> EventFor(who)])
    /\ UNCHANGED <<run, chain, sendVars, process, bounds>>

\* Mutant: every terminal event counts as success.
FinishPlan_Success(d, t, status) ==
    LET d1 == SaveMessage(d, t, [d.reply[t] EXCEPT !.status = "completed", !.text = <<0>>])
        d2 == Save(d1, ConvOf[t], [d.conv[ConvOf[t]] EXCEPT !.active = NoTurn, !.status = "idle"])
        d3 == PublishMessage(d2, t)
    IN  <<d1, d2, d3, PublishConv(d3, ConvOf[t])>>

\* Mutant: the activities of a Run that failed are left as they are.
FinishPlan_Completed(d, t, status) ==
    LET good == status = "completed"
        c  == ConvOf[t]
        d1 == SaveMessage(d, t, [d.reply[t] EXCEPT !.status = status])
        d2 == Save(d1, c, [d.conv[c] EXCEPT !.active = NoTurn])
        d3 == PublishMessage(d2, t)
        d4 == PublishConv(d3, c)
    IN  <<d1, d2, d3, d4>> \o
        (IF good /\ d.act[t].work = "running" THEN UpsertActivity(d4, t, "work", "completed")
         ELSE <<>>)

\* finishRun.  It reads the conversation again and does not ask which turn is
\* the active one.
FinishPlan(d, t, status) ==
    LET good == status = "completed"
        c  == ConvOf[t]
        d1 == SaveMessage(d, t, [d.reply[t] EXCEPT !.status = IF good THEN "completed" ELSE "failed",
                                                   !.text = IF good THEN <<0>> ELSE @])
        d2 == Save(d1, c, [d.conv[c] EXCEPT !.active = NoTurn,
                                            !.status = IF good THEN "idle" ELSE "error"])
        d3 == PublishMessage(d2, t)
        d4 == PublishConv(d3, c)
        closed == IF d.act[t].work # "running" THEN <<>>
                  ELSE UpsertActivity(d4, t, "work", IF good THEN "completed" ELSE "failed")
        failed == IF good THEN <<>> ELSE UpsertActivity(After(d4, closed), t, "error", TRUE)
    IN  <<d1, d2, d3, d4>> \o closed \o failed

\* updateAssistant
UpdateAssistant(d, t, text) ==
    LET d1 == SaveMessage(d, t, [d.reply[t] EXCEPT !.status = "streaming", !.text = text])
    IN  <<d1, PublishMessage(d1, t)>>

\* engine.approval.requested and resolved
ApprovalPlan(t, kind) ==
    UpsertActivity(db, t, "approval",
        CASE kind = "asked" -> "pending" [] kind = "allowed" -> "completed" [] OTHER -> "denied")

\* Content blocks and items: work that starts, and that is over.
WorkPlan(t, kind) ==
    CASE kind = "work"                              -> UpsertActivity(db, t, "work", "running")
      [] kind = "worked" /\ db.act[t].work # "none" -> UpsertActivity(db, t, "work", "completed")
      [] OTHER                                      -> <<>>

\* Mutant: a delta is taken for the whole text.
NormalizePlan_Replaces(t, n, kind) ==
    CASE kind \in {"text", "delta"}             -> UpdateAssistant(db, t, <<n>>)
      [] kind \in {"asked", "allowed", "denied"} -> ApprovalPlan(t, kind)
      [] OTHER                                  -> WorkPlan(t, kind)

\* normalizeEngineEvent, for the kinds of events that differ in what they do
NormalizePlan(t, n, kind) ==
    CASE kind = "text"                          -> UpdateAssistant(db, t, <<n>>)
      [] kind = "delta"                         -> UpdateAssistant(db, t, Append(db.reply[t].text, n))
      [] kind \in {"asked", "allowed", "denied"} -> ApprovalPlan(t, kind)
      [] OTHER                                  -> WorkPlan(t, kind)

ApplyPlan(event) ==
    LET t == event[1]
        kind == run[t].log[event[2]]
    IN  IF kind \in Ended THEN FinishPlan(db, t, run[t].status) ELSE NormalizePlan(t, event[2], kind)

ApplyEvent ==
    /\ up /\ inflight # <<>>
    /\ \E plan \in {ApplyPlan(Head(inflight).event)} : db' = After(db, plan)
    /\ inflight' = Tail(inflight)
    /\ Advance(Head(inflight).by)
    /\ UNCHANGED <<run, process, bounds>>

-----------------------------------------------------------------------------
(* RunManager, as far as a conversation notices: RunLifecycle has the rest. *)

Emitted(t, kind) ==
    /\ run' = [run EXCEPT ![t].log = Append(@, kind)]
    /\ chain' = Append(chain, <<t, Len(run[t].log) + 1>>)

Made(t) == Cardinality({i \in DOMAIN run[t].log : run[t].log[i] \in Outputs[t]})

EngineEmits(t, kind) ==
    /\ up /\ run[t].status = "open" /\ pc[t] # "created"
    /\ kind # "asked" /\ Made(t) < MaxOutputs[t]
    /\ Emitted(t, kind)
    /\ UNCHANGED <<db, inflight, sendVars, process, bounds>>

\* requestApproval; after a cancel it denies at once.
EngineAsks(t) ==
    /\ up /\ run[t].status = "open" /\ pc[t] # "created"
    /\ "asked" \in Outputs[t] /\ Made(t) < MaxOutputs[t]
    /\ "asked" \notin {run[t].log[i] : i \in DOMAIN run[t].log}
    /\ run' = [run EXCEPT ![t].log = Append(@, "asked"), ![t].waiting = ~run[t].cancelled]
    /\ chain' = Append(chain, <<t, Len(run[t].log) + 1>>)
    /\ UNCHANGED <<db, inflight, sendVars, process, bounds>>

\* The terminal record, and the event that announces it
RunEnds(t, how) ==
    /\ up /\ run[t].status = "open" /\ pc[t] # "created"
    /\ how \in (IF run[t].cancelled \/ run[t].waiting THEN {"failed"} ELSE Ended)
    /\ run' = [run EXCEPT ![t].status = how]
    /\ UNCHANGED <<db, chain, inflight, sendVars, process, bounds>>

EndEmitted(t) ==
    /\ up /\ run[t].status \in Ended /\ run[t].live
    /\ run' = [run EXCEPT ![t].log = Append(@, run[t].status),
                          ![t].live = FALSE, ![t].waiting = FALSE]
    /\ chain' = Append(chain, <<t, Len(run[t].log) + 1>>)
    /\ UNCHANGED <<db, inflight, sendVars, process, bounds>>

\* cancel: without an active Run it does nothing, also while a message is being
\* sent.  RunManager denies the request that waits and records no event for it.
Cancel(c) ==
    /\ Quiet /\ db.conv[c].active # NoTurn
    /\ LET t == db.conv[c].active
       IN  /\ run[t].status = "open" /\ ~run[t].cancelled
           /\ run' = [run EXCEPT ![t].cancelled = TRUE, ![t].waiting = FALSE]
    /\ UNCHANGED <<db, chain, inflight, sendVars, process, bounds>>

\* decideApproval: the service knows the activity, RunManager whether the request
\* still waits.
Decide(t, verdict) ==
    /\ Quiet /\ db.act[t].approval # "none"
    /\ run[t].waiting
    /\ run' = [run EXCEPT ![t].log = Append(@, verdict), ![t].waiting = FALSE]
    /\ chain' = Append(chain, <<t, Len(run[t].log) + 1>>)
    /\ UNCHANGED <<db, inflight, sendVars, process, bounds>>

-----------------------------------------------------------------------------
(* The process.  A stop closes the store under handlers that still run, and *)
(* is a death like any other.                                               *)

\* RunManager.init ends what was interrupted, and forgets what is `old`.
Recovered(r, old) ==
    IF r.status = "open" THEN [r EXCEPT !.status = "failed", !.log = Append(@, "failed")]
    ELSE IF old THEN NoRun ELSE r

\* pruneProcessedRunEvents after a long time
Unclaimed(old) == IF old THEN [db EXCEPT !.claimed = {}] ELSE db

\* ConversationService.init, up to the first await of reconcileActiveConversations
Boot ==
    /\ node = "down"
    /\ \E old \in BOOLEAN :
          /\ run' = [t \in Turns |-> Recovered(run[t], old)]
          /\ db' = Unclaimed(old)
    /\ node' = "starting"
    /\ listed' = {c \in Convs : db.conv[c].active # NoTurn}
    /\ UNCHANGED <<chain, inflight, sendVars, bounds>>

\* Mutant: a Run that is over is left to its events.
ReconcilePlan_Open(c) == <<>>

\* Mutant: what was active fails, whatever became of its Run.
ReconcilePlan_Fails(c) ==
    LET t  == db.conv[c].active
        d1 == Save(db, c, [db.conv[c] EXCEPT !.active = NoTurn, !.status = "error"])
        d2 == SaveMessage(d1, t, [d1.reply[t] EXCEPT !.status = "failed"])
    IN  <<d1, d2, PublishConv(d2, c)>>

\* Every Run is over by now, so the replay of one that goes on never takes place.
ReconcilePlan(c) ==
    LET t  == db.conv[c].active
        d1 == Save(db, c, [db.conv[c] EXCEPT !.active = NoTurn, !.status = "error"])
        d2 == SaveMessage(d1, t, [d1.reply[t] EXCEPT !.status = "failed"])
    IN  IF run[t].status = "none" THEN <<d1, d2, PublishConv(d2, c)>>
        ELSE FinishPlan(db, t, run[t].status)

\* One round of reconcileActiveConversations.  Nothing else happens while it waits
\* for manager.get: nobody is served yet, and no Run goes on.
Reconcile(c) ==
    /\ node = "starting" /\ c \in listed
    /\ db' = After(db, ReconcilePlan(c))
    /\ listed' = listed \ {c}
    /\ UNCHANGED <<run, chain, inflight, sendVars, node, bounds>>

\* Readers take a new snapshot when they reach the Node again.
Ready ==
    /\ node = "starting" /\ listed = {}
    /\ node' = "up"
    /\ db' = [db EXCEPT !.seen = [conv |-> db.conv, reply |-> db.reply, act |-> db.act]]
    /\ UNCHANGED <<run, chain, inflight, sendVars, listed, bounds>>

\* The plans that may be under way when the process dies
Underway ==
    IF up
    THEN {CreatePlan(c) : c \in {x \in Convs : db.conv[x].status = "absent"}} \cup
         {SendPlan(t) : t \in {x \in Turns : CanSend(x)}} \cup
         {ResumePlan(t) : t \in {x \in Turns : pc[x] = "created"}} \cup
         {FailPlan(db, t, copy[t]) : t \in {x \in Turns : pc[x] = "creating"}} \cup
         {ApplyPlan(inflight[i].event) : i \in DOMAIN inflight \cap {1}}
    ELSE {ReconcilePlan(c) : c \in listed}

Crash ==
    /\ node # "down" /\ crashes < MaxCrashes
    /\ crashes' = crashes + 1
    /\ node' = "down" /\ listed' = {}
    /\ db' \in {db} \cup UNION {Short(db, plan) : plan \in Underway}
    /\ run' = [t \in Turns |-> [run[t] EXCEPT !.live = FALSE, !.waiting = FALSE,
                                                !.cancelled = FALSE]]
    /\ chain' = <<>> /\ inflight' = <<>>
    /\ pending' = {}
    /\ pc' = [t \in Turns |-> "idle"]
    /\ copy' = [t \in Turns |-> NoConv]
    /\ todo' = [t \in Turns |-> <<1, 0>>]
    /\ UNCHANGED edits

-----------------------------------------------------------------------------

Goes(t) ==
    \/ RunStored(t) \/ CreateFails(t) \/ SendResumes(t) \/ SendReturns(t)
    \/ \E how \in Ended : RunEnds(t, how)
    \/ EndEmitted(t)

Consumes(who) == SkipEvent(who) \/ ClaimEvent(who)

\* What the HTTP API offers; Core has no rename and no archive.
Requested(c) == Create(c) \/ Rename(c) \/ Archive(c) \/ Cancel(c)

\* What both offer for a turn
Commanded(t) == Send(t) \/ \E verdict \in {"allowed", "denied"} : Decide(t, verdict)

\* What the process does by itself
Progress ==
    \/ \E t \in Turns : Goes(t)
    \/ \E who \in Consumers : Consumes(who)
    \/ ApplyEvent
    \/ Boot \/ Ready
    \/ \E c \in Convs : Reconcile(c)

Next ==
    \/ Progress
    \/ \E c \in Convs : Requested(c)
    \/ \E t \in Turns :
          \/ Commanded(t)
          \/ EngineAsks(t)
          \/ \E kind \in Outputs[t] : EngineEmits(t, kind)
    \/ Crash

Spec == Init /\ [][Next]_vars

\* The event loop turns: awaits return, Runs end by their deadline, and systemd
\* restarts a Node that died.
FairSpec == Spec /\ WF_vars(Progress)

-----------------------------------------------------------------------------
(* Properties                                                               *)

EventKinds == Kinds \cup Ended \cup {"created", "allowed", "denied"}

\* Types: the tables, the Runs and the state of the handlers.
ConversationTypeOK ==
    /\ db.conv \in [Convs -> [status : {"absent", "idle", "responding", "error", "archived"},
                              active : Turns \cup {NoTurn}, title : 0..MaxEdits]]
    /\ db.user \subseteq Turns
    /\ \A t \in Turns :
          /\ db.reply[t].status \in {"absent"} \cup Open \cup Ended
          /\ db.reply[t].text \in Seq(Nat)
          /\ run[t].status \in {"none", "open"} \cup Ended
          /\ run[t].log \in Seq(EventKinds)
          /\ pc[t] \in {"idle", "creating", "created", "replaying"}
          /\ run[t].waiting => run[t].status # "none"
    /\ pending \subseteq Convs
    /\ \A i \in DOMAIN inflight : inflight[i].event \in db.claimed

\* At most one Run of a conversation is open (activeRunId, pendingMessages).
OneTurnAtATime ==
    \A s, t \in Turns :
        ConvOf[s] = ConvOf[t] /\ run[s].status = "open" /\ run[t].status = "open" => s = t

\* The events of a turn that have been claimed and no longer wait for manager.get
Applied(t) ==
    {i \in 1..Len(run[t].log) :
        <<t, i>> \in db.claimed /\ \A k \in DOMAIN inflight : inflight[k].event # <<t, i>>}

\* What the first n events of a Run say: the text, as an increasing enumeration
Said(log, n) ==
    {i \in 1..n : log[i] \in {"text", "delta"} /\ \A j \in i + 1..n : log[j] # "text"}

Spells(text, log, n) ==
    /\ {text[i] : i \in DOMAIN text} = Said(log, n)
    /\ \A i, j \in DOMAIN text : i < j => text[i] < text[j]

\* and the approval
ApprovalOf(log, n) ==
    LET said(kind) == \E i \in 1..n : log[i] = kind
    IN  IF said("allowed") THEN "completed"
        ELSE IF said("denied") THEN "denied"
        ELSE IF said("asked") THEN "pending"
        ELSE "none"

\* A reply that goes on, and whose Run the store has
Going(t) == db.reply[t].status \in Open /\ run[t].status # "none"

\* While a Run goes on, its reply is what its events say, each applied once and in
\* order, although two consumers read them and sendMessage writes the message too.
ReplyFollowsEvents ==
    up => \A t \in Turns : Going(t) =>
        \E n \in 0..Len(run[t].log) :
            /\ Applied(t) = 1..n
            /\ Spells(db.reply[t].text, run[t].log, n)
            /\ db.act[t].approval = ApprovalOf(run[t].log, n)

\* A reply ends as its Run ended.
ReplyEndsAsItsRun ==
    \A t \in Turns : db.reply[t].status \in Ended =>
        run[t].status \in {"none", db.reply[t].status}

\* When a reply has ended no activity of it goes on, unless the process died
\* between the statements of finishRun.
ActivitiesEnd ==
    crashes = 0 => \A t \in Turns : db.reply[t].status \in Ended =>
        db.act[t].work # "running"

\* Who follows the events of a conversation knows what the database says.
ReadersAgree ==
    up => db.seen = [conv |-> db.conv, reply |-> db.reply, act |-> db.act]

\* A rename and an archive last, but for a message that was being sent: it writes
\* back the conversation it read before the Run was created.
EditsLast ==
    [][\A c \in Convs : c \notin pending =>
          /\ db.conv[c].status = "archived" => db'.conv[c].status = "archived"
          /\ db'.conv[c].title >= db.conv[c].title]_vars

\* A reply that has ended is not written again, also not by recovery, as long as the
\* store has its Run.
EndedStaysEnded ==
    [][\A t \in Turns :
          db.reply[t].status \in Ended /\ db'.reply[t] # db.reply[t] => run'[t].status = "none"]_vars

\* A conversation does not respond for ever: the turn it records as active ends,
\* through its events or through recovery.  Of a Run that is gone the reply may be left.
TurnsEnd ==
    \A t \in Turns :
        db.conv[ConvOf[t]].active = t ~>
            /\ db.conv[ConvOf[t]].active # t
            /\ db.reply[t].status \in Ended \/ run[t].status = "none"
=============================================================================
